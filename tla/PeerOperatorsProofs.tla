--------------------------- MODULE PeerOperatorsProofs ---------------------------
(***************************************************************************)
(* Proofs about PeerOperators, for both operators and any number of        *)
(* credentials, accounts, images, edits and faults: its types; that Ready  *)
(* tells the truth; that the credential and the account in use are held;   *)
(* that no pod runs ahead of the schema; and that a deleted CR leaves      *)
(* nothing behind.                                                         *)
(*                                                                         *)
(* A reconcile is known by the steps that are ahead of it: an invariant    *)
(* says what holds once one step is behind and another still ahead, and    *)
(* the plans are known by the steps they have and by what comes first.     *)
(***************************************************************************)
EXTENDS PeerOperators, FiniteSetTheorems, SequenceTheorems, TLAPS

-----------------------------------------------------------------------------
(* The plans.                                                              *)
Ops(t) == { t[i].op : i \in DOMAIN t }
Ahead(op) == op \in Ops(todo)

DropOps(k) == {"dropDatabase", "dropService", "dropCredentials", "dropFinalizer"}
    \cup (IF k = "PlacementAPI" THEN {"dropEndpoint"} ELSE {})
CommonOps == {"need", "account", "writeConfig", "holdCredential", "dbSync", "keystoneService",
              "releaseAccounts", "releaseCredential"}
MainOps(k) ==
    CommonOps \cup (IF k = "PlacementAPI"
                    THEN {"recordHash", "deploy", "rolledOut", "keystoneEndpoint"}
                    ELSE {"make", "CyborgAPI", "CyborgConductor"})

(* <<a, b>>: step a never comes at step b or after it.                     *)
Precedes(k) ==
    {"account"} \X {"writeConfig"}
    \cup (IF k = "PlacementAPI"
          THEN {"holdCredential", "writeConfig", "dbSync"} \X {"deploy"}
               \cup {"deploy"} \X {"rolledOut"}
          ELSE {"holdCredential"} \X {"writeConfig"}
               \cup {"dbSync", "writeConfig"} \X Children)
    \cup {"writeConfig", "deploy", "rolledOut"} \X {"releaseAccounts", "releaseCredential"}
    \cup (DropOps(k) \ {"dropFinalizer"}) \X {"dropFinalizer"}
    \cup (DropOps(k) \cup MainOps(k)) \X {"patch"}

InOrder(t, k) ==
    \A i, j \in DOMAIN t : i <= j => <<t[j].op, t[i].op>> \notin Precedes(k)

(* A step of the plans of k.  Only what a step is named for makes the      *)
(* condition of a workload True.                                           *)
StepOf(k) ==
    { s \in [op : MainOps(k) \cup DropOps(k) \cup {"patch"}, input : Inputs \cup {"none"},
             cond : Conditions[k] \cup {"none"}, miss : {"wait", "retry"},
             then : SUBSET (Conditions[k] \ Workloads)] :
        s.op = "need" => s.cond \in Conditions[k] }

PlanInv ==
    /\ todo \in Seq(StepOf(kind))
    /\ InOrder(todo, kind)
    /\ \/ Ops(todo) \subseteq MainOps(kind) \cup {"patch"}
       \/ Ops(todo) \subseteq DropOps(kind) \cup {"patch"}

-----------------------------------------------------------------------------
(* Types.                                                                  *)
AnyConfig == Configs \cup {NoConfig}
AnyTemplate == Templates \cup {NoTemplate}
AnyImage == Images \cup {0}
AnyCred == Creds \cup {NoCred}

ChildType ==
    [image : AnyImage, seen : AnyImage, applied : AnyConfig, ready : BOOLEAN]

CRTypes ==
    /\ kind \in KindChoices
    /\ cr \in [life : {"live", "deleting", "gone"}, fin : BOOLEAN, spec : Specs]
    /\ status \in [pending : SUBSET (Conditions[kind] \cup {"Ready"}), cred : AnyCred,
                   hash : AnyConfig, synced : AnyImage, applied : AnyConfig, seen : BOOLEAN]
LocalTypes ==
    local \in [spec : Specs, fin : BOOLEAN, pending : SUBSET Conditions[kind],
               cred : AnyCred, hash : AnyConfig, synced : AnyImage, applied : AnyConfig,
               fresh : BOOLEAN]
ObjectType == [fin : BOOLEAN, ready : BOOLEAN]
FinTypes ==
    /\ credFins \subseteq Creds /\ accFins \subseteq Accounts /\ dbFin \in BOOLEAN
    /\ keystone \in [service : ObjectType, endpoint : ObjectType]
DBTypes ==
    job \in [image : AnyImage, done : BOOLEAN] /\ schema \in AnyImage
ChildTypes ==
    /\ secret \in AnyConfig
    /\ child \in [Children -> ChildType] /\ cached \in [Children -> ChildType]
    /\ \A w \in Children : /\ child[w].ready => child[w].applied \in Configs
                           /\ child[w] # NoChild =>
                                 secret \in Configs /\ child[w].image \in Images
    /\ Ahead("CyborgAPI") \/ Ahead("CyborgConductor")
           => Ahead("writeConfig") \/ secret \in Configs
PodTypes ==
    /\ mounted \in [Workloads -> AnyConfig] /\ template \in [Workloads -> AnyTemplate]
    /\ pod \in [Workloads -> [template : AnyTemplate, config : AnyConfig]]
Types ==
    CRTypes /\ LocalTypes /\ FinTypes /\ DBTypes /\ ChildTypes /\ PodTypes /\ PlanInv

-----------------------------------------------------------------------------
(* Credentials, accounts and images only go up, and what the pods have     *)
(* follows the spec in a chain of copies.                                  *)
a \preceq b == a.cred <= b.cred /\ a.account <= b.account

(* The copy of the CR: how far it is behind, and whether it is.            *)
CopyBehind ==
    todo # <<>> =>
        /\ ConfigOf(local.spec) \preceq ConfigOf(cr.spec)
        /\ local.spec.image <= cr.spec.image
        /\ local.fresh => local.spec = cr.spec
        /\ status.seen => local.fresh

(* The pods behind their template and their Secret, these behind what the  *)
(* controllers have written, and that behind the copy and the spec.        *)
PodsBehind ==
    \A w \in Workloads :
        /\ pod[w].template.config \preceq pod[w].config
        /\ pod[w].template.config \preceq template[w].config
        /\ pod[w].config \preceq mounted[w]
        /\ template[w].config \preceq mounted[w]
        /\ w \in Children => mounted[w] \preceq secret
WritesBehind ==
    \A written \in {secret, mounted["PlacementAPI"]} :
        /\ written \preceq ConfigOf(cr.spec)
        /\ todo # <<>> => written \preceq ConfigOf(local.spec)
WrittenFirst ==
    Ahead("deploy") =>
        Ahead("writeConfig") \/ ConfigOf(local.spec) \preceq mounted["PlacementAPI"]
ImagesBehind ==
    LET w == "PlacementAPI" IN
    /\ pod[w].template.image <= template[w].image
    /\ template[w].image <= cr.spec.image
    /\ todo # <<>> => template[w].image <= local.spec.image

(* The pods of a workload have come as far as a spec.                      *)
Reaches(w, spec) ==
    /\ ConfigOf(spec) \preceq pod[w].template.config
    /\ kind = "PlacementAPI" => spec.image <= pod[w].template.image

(* What is said to be applied has reached the pods, by the children, by    *)
(* what the cache has of them and by Cyborg.                               *)
AppliedReached ==
    /\ kind = "PlacementAPI" => status.applied = NoConfig /\ local.applied = NoConfig
    /\ \A w \in Children : child[w].applied \preceq pod[w].template.config
    /\ cr.life = "live" =>
         /\ \A w \in Children : cached[w].applied \preceq pod[w].template.config
         /\ \A w \in WorkloadsOf[kind] : /\ status.applied \preceq pod[w].template.config
                                         /\ local.applied \preceq pod[w].template.config

(* So has the spec that a reconcile works on, of a workload whose condition*)
(* is True, and the spec of a CR that is Ready.                            *)
ReadyReached ==
    cr.life = "live" =>
        /\ todo # <<>> => \A w \in WorkloadsOf[kind] \ local.pending : Reaches(w, local.spec)
        /\ Ready => \A w \in WorkloadsOf[kind] : Reaches(w, cr.spec)

-----------------------------------------------------------------------------
(* What is held for the pods, and for the steps that are about to use it.  *)
CredHeld(c) == c.cred \in credFins \cup {NoCred}
AccHeld(c) == c.account \in accFins

StepsHeld ==
    cr.life = "live" =>
        /\ Ahead("writeConfig") => Ahead("account") \/ AccHeld(local.spec)
        /\ Ahead("writeConfig") /\ kind = "Cyborg" => Ahead("holdCredential") \/ CredHeld(local.spec)
        /\ Ahead("deploy") => Ahead("holdCredential") \/ CredHeld(local.spec)
        /\ Ahead("releaseAccounts") /\ kind = "PlacementAPI" =>
              Ahead("rolledOut") \/ "PlacementAPI" \notin local.pending

CredsHeld ==
    cr.life = "live" =>
        IF kind = "PlacementAPI"
        THEN LET w == "PlacementAPI" IN
             CredHeld(template[w].config) /\ CredHeld(pod[w].template.config)
        ELSE /\ CredHeld(secret)
             /\ \A w \in Children : CredHeld(mounted[w]) /\ CredHeld(pod[w].config)

AccountsHeld ==
    /\ cr.life = "live" => \A c \in InUse("PlacementAPI") : AccHeld(c)
    /\ kind = "Cyborg" => InUse("PlacementAPI") = {}

-----------------------------------------------------------------------------
(* The schema is as far as any image that a pod may run.                   *)
ImagesSynced ==
    /\ status.synced <= schema /\ local.synced <= schema
    /\ job.done => job.image <= schema
    /\ \A op \in {"deploy", "CyborgAPI", "CyborgConductor"} :
          Ahead(op) => Ahead("dbSync") \/ local.spec.image <= schema
    /\ \A w \in Children : child[w].image <= schema
    /\ \A w \in Workloads : template[w].image <= schema /\ pod[w].template.image <= schema

-----------------------------------------------------------------------------
(* Deletion.                                                               *)
NothingHeld ==
    credFins = {} /\ accFins = {} /\ ~dbFin /\ ~keystone.service.fin /\ ~keystone.endpoint.fin

(* Nothing is held for a CR that has no finalizer yet, and no step that    *)
(* takes hold of something comes before it has one.                        *)
FinalizerFirst ==
    /\ cr.life = "deleting" => cr.fin
    /\ cr.life = "gone" => ~cr.fin
    /\ cr.life = "live" /\ ~cr.fin => NothingHeld
    /\ ~cr.fin => Ops(todo) \subseteq {"patch"}
    /\ kind = "Cyborg" => ~keystone.endpoint.fin

(* Only what is deleted lets go of everything.                             *)
DropsDeleted == \A op \in DropOps(kind) : Ahead(op) => cr.life # "live"

(* What reconcileDelete has behind it is gone.                             *)
Dropped ==
    Ahead("dropFinalizer") \/ (todo # <<>> /\ ~local.fin) =>
        /\ cr.life = "deleting" \/ cr.life = "gone"
        /\ local.spec = cr.spec
        /\ Ahead("dropFinalizer") \/ Ops(todo) \subseteq {"patch"}
        /\ Ops(todo) \subseteq DropOps(kind) \cup {"patch"}
        /\ ~local.fin => Ops(todo) \subseteq {"dropFinalizer", "patch"}
        /\ Ahead("dropDatabase") \/ (~dbFin /\ ~AccHeld(local.spec))
        /\ Ahead("dropEndpoint") \/ ~keystone.endpoint.fin
        /\ Ahead("dropService") \/ ~keystone.service.fin
        /\ Ahead("dropCredentials") \/
              ({local.cred, local.spec.cred} \cap credFins = {} /\ (kind = "Cyborg" => credFins = {}))

PeerProofInv ==
    /\ Types
    /\ CopyBehind /\ PodsBehind /\ WritesBehind /\ WrittenFirst /\ ImagesBehind
    /\ AppliedReached /\ ReadyReached
    /\ StepsHeld /\ CredsHeld /\ AccountsHeld
    /\ ImagesSynced
    /\ FinalizerFirst /\ DropsDeleted /\ Dropped /\ DeletionLeavesNothing

-----------------------------------------------------------------------------
(* Steps and sequences of them.                                            *)
IsPlan(t, k, ops) ==
    t \in Seq(StepOf(k)) /\ InOrder(t, k) /\ Ops(t) = ops

LEMMA DoIsStep ==
  ASSUME NEW k, NEW op \in MainOps(k) \cup DropOps(k) \cup {"patch"}, op # "need"
  PROVE  Do(op) \in StepOf(k) /\ Do(op).op = op
<1>1. Do(op) = [op |-> op, input |-> "none", cond |-> "none", miss |-> "retry", then |-> {}]
  BY DEF Do, Step
<1>2. Do(op).op = op
  BY <1>1
<1>. QED
  BY <1>1, <1>2 DEF StepOf

LEMMA MakeIsStep ==
  ASSUME NEW cond \in Conditions["Cyborg"] \ Workloads
  PROVE  Make(cond) \in StepOf("Cyborg") /\ Make(cond).op = "make"
<1>1. Make(cond) = [op |-> "make", input |-> "none", cond |-> cond, miss |-> "retry",
                    then |-> {cond}]
  BY DEF Make, Step
<1>2. "make" \in MainOps("Cyborg")
  BY DEF MainOps
<1>3. Make(cond).op = "make"
  BY <1>1
<1>. QED
  BY <1>1, <1>2, <1>3 DEF StepOf

LEMMA NeedIsStep ==
  ASSUME NEW k, NEW input \in Inputs, NEW cond \in Conditions[k], NEW miss \in {"wait", "retry"},
         NEW then \in SUBSET (Conditions[k] \ Workloads)
  PROVE  Need(input, cond, miss, then) \in StepOf(k) /\ Need(input, cond, miss, then).op = "need"
<1>1. Need(input, cond, miss, then)
        = [op |-> "need", input |-> input, cond |-> cond, miss |-> miss, then |-> then]
  BY DEF Need, Step
<1>2. "need" \in MainOps(k)
  BY DEF MainOps, CommonOps
<1>. QED
  BY <1>1, <1>2 DEF StepOf

LEMMA PrecedesItself == \A k, a : <<a, a>> \notin Precedes(k)
  BY DEF Precedes, DropOps, MainOps, CommonOps, Children

LEMMA OneStep ==
  ASSUME NEW k, NEW a \in StepOf(k), NEW x, a.op = x
  PROVE  IsPlan(<<a>>, k, {x})
  BY PrecedesItself DEF IsPlan, InOrder, Ops

LEMMA TwoSteps ==
  ASSUME NEW k, NEW a \in StepOf(k), NEW b \in StepOf(k), NEW x, NEW y, a.op = x, b.op = y,
         <<y, x>> \notin Precedes(k)
  PROVE  IsPlan(<<a, b>>, k, {x, y})
  BY PrecedesItself DEF IsPlan, InOrder, Ops

LEMMA ThreeSteps ==
  ASSUME NEW k, NEW a \in StepOf(k), NEW b \in StepOf(k), NEW c \in StepOf(k), NEW x, NEW y, NEW z,
         a.op = x, b.op = y, c.op = z,
         <<y, x>> \notin Precedes(k), <<z, x>> \notin Precedes(k), <<z, y>> \notin Precedes(k)
  PROVE  IsPlan(<<a, b, c>>, k, {x, y, z})
  BY PrecedesItself DEF IsPlan, InOrder, Ops

LEMMA FourSteps ==
  ASSUME NEW k, NEW a \in StepOf(k), NEW b \in StepOf(k), NEW c \in StepOf(k), NEW d \in StepOf(k),
         NEW x, NEW y, NEW z, NEW u, a.op = x, b.op = y, c.op = z, d.op = u,
         <<y, x>> \notin Precedes(k), <<z, x>> \notin Precedes(k), <<u, x>> \notin Precedes(k),
         <<z, y>> \notin Precedes(k), <<u, y>> \notin Precedes(k), <<u, z>> \notin Precedes(k)
  PROVE  IsPlan(<<a, b, c, d>>, k, {x, y, z, u})
  BY PrecedesItself DEF IsPlan, InOrder, Ops

LEMMA PlanConcat ==
  ASSUME NEW k, NEW s, NEW t, NEW A, NEW B, IsPlan(s, k, A), IsPlan(t, k, B),
         \A a \in A, b \in B : <<b, a>> \notin Precedes(k)
  PROVE  IsPlan(s \o t, k, A \cup B)
<1> DEFINE st == s \o t
<1>1. s \in Seq(StepOf(k)) /\ t \in Seq(StepOf(k))
  BY DEF IsPlan
<1>2. /\ st \in Seq(StepOf(k))
      /\ Len(st) = Len(s) + Len(t)
      /\ \A i \in 1 .. Len(s) + Len(t) : st[i] = IF i <= Len(s) THEN s[i] ELSE t[i - Len(s)]
  BY <1>1, ConcatProperties, Zenon
<1>3. /\ Len(s) \in Nat /\ Len(t) \in Nat /\ DOMAIN s = 1 .. Len(s) /\ DOMAIN t = 1 .. Len(t)
      /\ DOMAIN st = 1 .. Len(s) + Len(t)
  BY <1>1, <1>2, LenProperties
<1>4. \A i \in DOMAIN st : \/ i \in DOMAIN s /\ st[i] = s[i]
                           \/ i \notin DOMAIN s /\ i - Len(s) \in DOMAIN t /\ st[i] = t[i - Len(s)]
  BY <1>2, <1>3
<1>5. /\ \A i \in DOMAIN s : i \in DOMAIN st /\ st[i] = s[i]
      /\ \A i \in DOMAIN t : i + Len(s) \in DOMAIN st /\ st[i + Len(s)] = t[i]
  BY <1>2, <1>3
<1>6. Ops(st) = Ops(s) \cup Ops(t)
  <2>1. Ops(st) \subseteq Ops(s) \cup Ops(t)
    <3> SUFFICES ASSUME NEW i \in DOMAIN st PROVE st[i].op \in Ops(s) \cup Ops(t)
      BY DEF Ops
    <3>. QED
      BY <1>4 DEF Ops
  <2>2. Ops(s) \subseteq Ops(st)
    BY <1>5 DEF Ops
  <2>3. Ops(t) \subseteq Ops(st)
    <3> SUFFICES ASSUME NEW i \in DOMAIN t PROVE t[i].op \in Ops(st)
      BY DEF Ops
    <3>. QED
      BY <1>5 DEF Ops
  <2>. QED
    BY <2>1, <2>2, <2>3
<1>7. InOrder(st, k)
  <2> SUFFICES ASSUME NEW i \in DOMAIN st, NEW j \in DOMAIN st, i <= j
               PROVE  <<st[j].op, st[i].op>> \notin Precedes(k)
    BY DEF InOrder
  <2>1. CASE i \in DOMAIN s /\ j \in DOMAIN s
    BY <1>5, <2>1 DEF IsPlan, InOrder
  <2>2. CASE i \in DOMAIN s /\ j \notin DOMAIN s
    <3>1. st[i].op \in Ops(s) /\ st[j].op \in Ops(t)
      BY <1>4, <1>5, <2>2 DEF Ops
    <3>. QED
      BY <3>1 DEF IsPlan
  <2>3. CASE i \notin DOMAIN s
    <3>1. j \notin DOMAIN s
      BY <1>3, <2>3
    <3>2. /\ i - Len(s) \in DOMAIN t /\ j - Len(s) \in DOMAIN t /\ i - Len(s) <= j - Len(s)
          /\ st[i] = t[i - Len(s)] /\ st[j] = t[j - Len(s)]
      BY <1>3, <1>4, <2>3, <3>1
    <3>. QED
      BY <3>2 DEF IsPlan, InOrder
  <2>. QED
    BY <2>1, <2>2, <2>3
<1>. QED
  BY <1>2, <1>6, <1>7 DEF IsPlan

(* The four plans, with what every reconcile ends with.                    *)
LEMMA SavePlan == \A k : IsPlan(Save, k, {"patch"})
  BY DoIsStep, OneStep DEF Save

LEMMA PlacementOrder ==
  \A x, y : <<x, y>> \in Precedes("PlacementAPI") <=>
      \/ x = "account" /\ y = "writeConfig"
      \/ x \in {"holdCredential", "writeConfig", "dbSync"} /\ y = "deploy"
      \/ x = "deploy" /\ y = "rolledOut"
      \/ x \in {"writeConfig", "deploy", "rolledOut"} /\ y \in {"releaseAccounts", "releaseCredential"}
      \/ x \in DropOps("PlacementAPI") \ {"dropFinalizer"} /\ y = "dropFinalizer"
      \/ x \in DropOps("PlacementAPI") \cup MainOps("PlacementAPI") /\ y = "patch"
  BY DEF Precedes

LEMMA CyborgOrder ==
  \A x, y : <<x, y>> \in Precedes("Cyborg") <=>
      \/ x \in {"account", "holdCredential"} /\ y = "writeConfig"
      \/ x \in {"dbSync", "writeConfig"} /\ y \in Children
      \/ x \in {"writeConfig", "deploy", "rolledOut"} /\ y \in {"releaseAccounts", "releaseCredential"}
      \/ x \in DropOps("Cyborg") \ {"dropFinalizer"} /\ y = "dropFinalizer"
      \/ x \in DropOps("Cyborg") \cup MainOps("Cyborg") /\ y = "patch"
  BY DEF Precedes

LEMMA PlacementPlan ==
  IsPlan(PlacementSteps \o Save, "PlacementAPI", MainOps("PlacementAPI") \cup {"patch"})
<1> DEFINE k == "PlacementAPI"
<1>d. \A op \in {"account", "writeConfig", "recordHash", "holdCredential", "dbSync", "deploy", "rolledOut", "releaseCredential", "keystoneService", "keystoneEndpoint", "releaseAccounts"} : Do(op) \in StepOf(k) /\ Do(op).op = op
  BY DoIsStep DEF MainOps, DropOps, CommonOps
<1>n. /\ Need("secret", "Input", "retry", {"Input"}) \in StepOf(k) /\ Need("secret", "Input", "retry", {"Input"}).op = "need"
      /\ Need("database", "DB", "retry", {"DB"}) \in StepOf(k) /\ Need("database", "DB", "retry", {"DB"}).op = "need"
      /\ Need("keystone", "ServiceConfig", "retry", {}) \in StepOf(k) /\ Need("keystone", "ServiceConfig", "retry", {}).op = "need"
      /\ Need("credential", "Input", "retry", {}) \in StepOf(k) /\ Need("credential", "Input", "retry", {}).op = "need"
      /\ Need("cert", "TLSInput", "wait", {"TLSInput"}) \in StepOf(k) /\ Need("cert", "TLSInput", "wait", {"TLSInput"}).op = "need"
      /\ Need("address", "CreateService", "wait", {"CreateService"}) \in StepOf(k) /\ Need("address", "CreateService", "wait", {"CreateService"}).op = "need"
  <2>1. Need("secret", "Input", "retry", {"Input"}) \in StepOf(k) /\ Need("secret", "Input", "retry", {"Input"}).op = "need"
    <3>1. "secret" \in Inputs /\ "Input" \in Conditions[k] /\ {"Input"} \in SUBSET (Conditions[k] \ Workloads)
      BY DEF Inputs, Conditions, PlacementConditions, Workloads, Children
    <3>. QED
      BY <3>1, NeedIsStep
  <2>2. Need("database", "DB", "retry", {"DB"}) \in StepOf(k) /\ Need("database", "DB", "retry", {"DB"}).op = "need"
    <3>1. "database" \in Inputs /\ "DB" \in Conditions[k] /\ {"DB"} \in SUBSET (Conditions[k] \ Workloads)
      BY DEF Inputs, Conditions, PlacementConditions, Workloads, Children
    <3>. QED
      BY <3>1, NeedIsStep
  <2>3. Need("keystone", "ServiceConfig", "retry", {}) \in StepOf(k) /\ Need("keystone", "ServiceConfig", "retry", {}).op = "need"
    <3>1. "keystone" \in Inputs /\ "ServiceConfig" \in Conditions[k] /\ {} \in SUBSET (Conditions[k] \ Workloads)
      BY DEF Inputs, Conditions, PlacementConditions, Workloads, Children
    <3>. QED
      BY <3>1, NeedIsStep
  <2>4. Need("credential", "Input", "retry", {}) \in StepOf(k) /\ Need("credential", "Input", "retry", {}).op = "need"
    <3>1. "credential" \in Inputs /\ "Input" \in Conditions[k] /\ {} \in SUBSET (Conditions[k] \ Workloads)
      BY DEF Inputs, Conditions, PlacementConditions, Workloads, Children
    <3>. QED
      BY <3>1, NeedIsStep
  <2>5. Need("cert", "TLSInput", "wait", {"TLSInput"}) \in StepOf(k) /\ Need("cert", "TLSInput", "wait", {"TLSInput"}).op = "need"
    <3>1. "cert" \in Inputs /\ "TLSInput" \in Conditions[k] /\ {"TLSInput"} \in SUBSET (Conditions[k] \ Workloads)
      BY DEF Inputs, Conditions, PlacementConditions, Workloads, Children
    <3>. QED
      BY <3>1, NeedIsStep
  <2>6. Need("address", "CreateService", "wait", {"CreateService"}) \in StepOf(k) /\ Need("address", "CreateService", "wait", {"CreateService"}).op = "need"
    <3>1. "address" \in Inputs /\ "CreateService" \in Conditions[k] /\ {"CreateService"} \in SUBSET (Conditions[k] \ Workloads)
      BY DEF Inputs, Conditions, PlacementConditions, Workloads, Children
    <3>. QED
      BY <3>1, NeedIsStep
  <2>. QED
    BY <2>1, <2>2, <2>3, <2>4, <2>5, <2>6
<1>1. IsPlan(<<Need("secret", "Input", "retry", {"Input"})>>, k, {"need"})
  BY <1>d, <1>n, OneStep
<1>2. IsPlan(PlacementDB, k, {"account", "need"})
  <2>1. <<"need", "account">> \notin Precedes(k)
    BY PlacementOrder DEF Children, MainOps, DropOps, CommonOps
  <2>. QED
    BY <1>d, <1>n, <2>1, TwoSteps DEF PlacementDB
<1>3. IsPlan(PlacementConfig, k, {"need", "writeConfig"})
  <2>1. /\ <<"need", "need">> \notin Precedes(k)
        /\ <<"writeConfig", "need">> \notin Precedes(k)
        /\ <<"writeConfig", "need">> \notin Precedes(k)
    BY PlacementOrder DEF Children, MainOps, DropOps, CommonOps
  <2>2. {"need", "need", "writeConfig"} = {"need", "writeConfig"}
    OBVIOUS
  <2>3. IsPlan(PlacementConfig, k, {"need", "need", "writeConfig"})
    BY <1>d, <1>n, <2>1, ThreeSteps DEF PlacementConfig
  <2>. QED
    BY <2>2, <2>3
<1>4. IsPlan(<<Need("cert", "TLSInput", "wait", {"TLSInput"}), Do("recordHash"), Do("holdCredential")>>, k, {"need", "recordHash", "holdCredential"})
  <2>1. /\ <<"recordHash", "need">> \notin Precedes(k)
        /\ <<"holdCredential", "need">> \notin Precedes(k)
        /\ <<"holdCredential", "recordHash">> \notin Precedes(k)
    BY PlacementOrder DEF Children, MainOps, DropOps, CommonOps
  <2>. QED
    BY <1>d, <1>n, <2>1, ThreeSteps
<1>5. IsPlan(<<Need("address", "CreateService", "wait", {"CreateService"}), Do("dbSync")>>, k, {"need", "dbSync"})
  <2>1. <<"dbSync", "need">> \notin Precedes(k)
    BY PlacementOrder DEF Children, MainOps, DropOps, CommonOps
  <2>. QED
    BY <1>d, <1>n, <2>1, TwoSteps
<1>6. IsPlan(PlacementDeployment, k, {"deploy", "rolledOut", "releaseCredential"})
  <2>1. /\ <<"rolledOut", "deploy">> \notin Precedes(k)
        /\ <<"releaseCredential", "deploy">> \notin Precedes(k)
        /\ <<"releaseCredential", "rolledOut">> \notin Precedes(k)
    BY PlacementOrder DEF Children, MainOps, DropOps, CommonOps
  <2>. QED
    BY <1>d, <1>n, <2>1, ThreeSteps DEF PlacementDeployment
<1>7. IsPlan(PlacementKeystone, k, {"keystoneService", "keystoneEndpoint"})
  <2>1. <<"keystoneEndpoint", "keystoneService">> \notin Precedes(k)
    BY PlacementOrder DEF Children, MainOps, DropOps, CommonOps
  <2>. QED
    BY <1>d, <1>n, <2>1, TwoSteps DEF PlacementKeystone
<1>8. IsPlan(<<Do("releaseAccounts"), Do("releaseCredential")>>, k, {"releaseAccounts", "releaseCredential"})
  <2>1. <<"releaseCredential", "releaseAccounts">> \notin Precedes(k)
    BY PlacementOrder DEF Children, MainOps, DropOps, CommonOps
  <2>. QED
    BY <1>d, <1>n, <2>1, TwoSteps
<1>a1. IsPlan(<<Need("secret", "Input", "retry", {"Input"})>> \o PlacementDB, k, {"need", "account"})
  <2>1. \A a \in {"need"}, b \in {"account", "need"} : <<b, a>> \notin Precedes(k)
    BY PlacementOrder DEF Children, MainOps, DropOps, CommonOps
  <2>2. {"need"} \cup {"account", "need"}
          = {"need", "account"}
    OBVIOUS
  <2>. QED
    BY <1>1, <1>2, <2>1, <2>2, PlanConcat
<1>a2. IsPlan(<<Need("secret", "Input", "retry", {"Input"})>> \o PlacementDB \o PlacementConfig, k, {"need", "account", "writeConfig"})
  <2>1. \A a \in {"need", "account"}, b \in {"need", "writeConfig"} : <<b, a>> \notin Precedes(k)
    BY PlacementOrder DEF Children, MainOps, DropOps, CommonOps
  <2>2. {"need", "account"} \cup {"need", "writeConfig"}
          = {"need", "account", "writeConfig"}
    OBVIOUS
  <2>. QED
    BY <1>a1, <1>3, <2>1, <2>2, PlanConcat
<1>a3. IsPlan(<<Need("secret", "Input", "retry", {"Input"})>> \o PlacementDB \o PlacementConfig \o <<Need("cert", "TLSInput", "wait", {"TLSInput"}), Do("recordHash"), Do("holdCredential")>>, k, {"need", "account", "writeConfig", "recordHash", "holdCredential"})
  <2>1. \A a \in {"need", "account", "writeConfig"}, b \in {"need", "recordHash", "holdCredential"} : <<b, a>> \notin Precedes(k)
    BY PlacementOrder DEF Children, MainOps, DropOps, CommonOps
  <2>2. {"need", "account", "writeConfig"} \cup {"need", "recordHash", "holdCredential"}
          = {"need", "account", "writeConfig", "recordHash", "holdCredential"}
    OBVIOUS
  <2>. QED
    BY <1>a2, <1>4, <2>1, <2>2, PlanConcat
<1>i. IsPlan(PlacementInputs, k, {"need", "account", "writeConfig", "recordHash", "holdCredential"})
  BY <1>a3 DEF PlacementInputs
<1>b1. IsPlan(PlacementInputs \o <<Need("address", "CreateService", "wait", {"CreateService"}), Do("dbSync")>>, k, {"need", "account", "writeConfig", "recordHash", "holdCredential", "dbSync"})
  <2>1. \A a \in {"need", "account", "writeConfig", "recordHash", "holdCredential"}, b \in {"need", "dbSync"} : <<b, a>> \notin Precedes(k)
    BY PlacementOrder DEF Children, MainOps, DropOps, CommonOps
  <2>2. {"need", "account", "writeConfig", "recordHash", "holdCredential"} \cup {"need", "dbSync"}
          = {"need", "account", "writeConfig", "recordHash", "holdCredential", "dbSync"}
    OBVIOUS
  <2>. QED
    BY <1>i, <1>5, <2>1, <2>2, PlanConcat
<1>b2. IsPlan(PlacementInputs \o <<Need("address", "CreateService", "wait", {"CreateService"}), Do("dbSync")>> \o PlacementDeployment, k, {"need", "account", "writeConfig", "recordHash", "holdCredential", "dbSync", "deploy", "rolledOut", "releaseCredential"})
  <2>1. \A a \in {"need", "account", "writeConfig", "recordHash", "holdCredential", "dbSync"}, b \in {"deploy", "rolledOut", "releaseCredential"} : <<b, a>> \notin Precedes(k)
    BY PlacementOrder DEF Children, MainOps, DropOps, CommonOps
  <2>2. {"need", "account", "writeConfig", "recordHash", "holdCredential", "dbSync"} \cup {"deploy", "rolledOut", "releaseCredential"}
          = {"need", "account", "writeConfig", "recordHash", "holdCredential", "dbSync", "deploy", "rolledOut", "releaseCredential"}
    OBVIOUS
  <2>. QED
    BY <1>b1, <1>6, <2>1, <2>2, PlanConcat
<1>b3. IsPlan(PlacementInputs \o <<Need("address", "CreateService", "wait", {"CreateService"}), Do("dbSync")>> \o PlacementDeployment \o PlacementKeystone, k, {"need", "account", "writeConfig", "recordHash", "holdCredential", "dbSync", "deploy", "rolledOut", "releaseCredential", "keystoneService", "keystoneEndpoint"})
  <2>1. \A a \in {"need", "account", "writeConfig", "recordHash", "holdCredential", "dbSync", "deploy", "rolledOut", "releaseCredential"}, b \in {"keystoneService", "keystoneEndpoint"} : <<b, a>> \notin Precedes(k)
    BY PlacementOrder DEF Children, MainOps, DropOps, CommonOps
  <2>2. {"need", "account", "writeConfig", "recordHash", "holdCredential", "dbSync", "deploy", "rolledOut", "releaseCredential"} \cup {"keystoneService", "keystoneEndpoint"}
          = {"need", "account", "writeConfig", "recordHash", "holdCredential", "dbSync", "deploy", "rolledOut", "releaseCredential", "keystoneService", "keystoneEndpoint"}
    OBVIOUS
  <2>. QED
    BY <1>b2, <1>7, <2>1, <2>2, PlanConcat
<1>b4. IsPlan(PlacementInputs \o <<Need("address", "CreateService", "wait", {"CreateService"}), Do("dbSync")>> \o PlacementDeployment \o PlacementKeystone \o <<Do("releaseAccounts"), Do("releaseCredential")>>, k, {"need", "account", "writeConfig", "recordHash", "holdCredential", "dbSync", "deploy", "rolledOut", "releaseCredential", "keystoneService", "keystoneEndpoint", "releaseAccounts"})
  <2>1. \A a \in {"need", "account", "writeConfig", "recordHash", "holdCredential", "dbSync", "deploy", "rolledOut", "releaseCredential", "keystoneService", "keystoneEndpoint"}, b \in {"releaseAccounts", "releaseCredential"} : <<b, a>> \notin Precedes(k)
    BY PlacementOrder DEF Children, MainOps, DropOps, CommonOps
  <2>2. {"need", "account", "writeConfig", "recordHash", "holdCredential", "dbSync", "deploy", "rolledOut", "releaseCredential", "keystoneService", "keystoneEndpoint"} \cup {"releaseAccounts", "releaseCredential"}
          = {"need", "account", "writeConfig", "recordHash", "holdCredential", "dbSync", "deploy", "rolledOut", "releaseCredential", "keystoneService", "keystoneEndpoint", "releaseAccounts"}
    OBVIOUS
  <2>. QED
    BY <1>b3, <1>8, <2>1, <2>2, PlanConcat
<1>s. IsPlan(PlacementSteps, k, {"need", "account", "writeConfig", "recordHash", "holdCredential", "dbSync", "deploy", "rolledOut", "releaseCredential", "keystoneService", "keystoneEndpoint", "releaseAccounts"})
  BY <1>b4 DEF PlacementSteps
<1>c1. IsPlan(PlacementSteps \o Save, k, {"need", "account", "writeConfig", "recordHash", "holdCredential", "dbSync", "deploy", "rolledOut", "releaseCredential", "keystoneService", "keystoneEndpoint", "releaseAccounts", "patch"})
  <2>1. \A a \in {"need", "account", "writeConfig", "recordHash", "holdCredential", "dbSync", "deploy", "rolledOut", "releaseCredential", "keystoneService", "keystoneEndpoint", "releaseAccounts"}, b \in {"patch"} : <<b, a>> \notin Precedes(k)
    BY PlacementOrder DEF Children, MainOps, DropOps, CommonOps
  <2>2. {"need", "account", "writeConfig", "recordHash", "holdCredential", "dbSync", "deploy", "rolledOut", "releaseCredential", "keystoneService", "keystoneEndpoint", "releaseAccounts"} \cup {"patch"}
          = {"need", "account", "writeConfig", "recordHash", "holdCredential", "dbSync", "deploy", "rolledOut", "releaseCredential", "keystoneService", "keystoneEndpoint", "releaseAccounts", "patch"}
    OBVIOUS
  <2>. QED
    BY <1>s, SavePlan, <2>1, <2>2, PlanConcat
<1>. QED
  BY <1>c1 DEF MainOps, CommonOps

LEMMA CyborgPlan ==
  IsPlan(CyborgSteps \o Save, "Cyborg", MainOps("Cyborg") \cup {"patch"})
<1> DEFINE k == "Cyborg"
<1>d. \A op \in {"account", "writeConfig", "holdCredential", "dbSync", "keystoneService", "CyborgAPI", "CyborgConductor", "releaseCredential", "releaseAccounts"} : Do(op) \in StepOf(k) /\ Do(op).op = op
  BY DoIsStep DEF MainOps, DropOps, CommonOps
<1>n. /\ Need("database", "DB", "retry", {"DB"}) \in StepOf(k) /\ Need("database", "DB", "retry", {"DB"}).op = "need"
      /\ Need("bus", "Bus", "retry", {"Bus"}) \in StepOf(k) /\ Need("bus", "Bus", "retry", {"Bus"}).op = "need"
      /\ Need("secret", "Input", "retry", {}) \in StepOf(k) /\ Need("secret", "Input", "retry", {}).op = "need"
      /\ Need("credential", "Input", "retry", {}) \in StepOf(k) /\ Need("credential", "Input", "retry", {}).op = "need"
      /\ Need("keystone", "Input", "retry", {}) \in StepOf(k) /\ Need("keystone", "Input", "retry", {}).op = "need"
  <2>1. Need("database", "DB", "retry", {"DB"}) \in StepOf(k) /\ Need("database", "DB", "retry", {"DB"}).op = "need"
    <3>1. "database" \in Inputs /\ "DB" \in Conditions[k] /\ {"DB"} \in SUBSET (Conditions[k] \ Workloads)
      BY DEF Inputs, Conditions, CyborgConditions, Workloads, Children
    <3>. QED
      BY <3>1, NeedIsStep
  <2>2. Need("bus", "Bus", "retry", {"Bus"}) \in StepOf(k) /\ Need("bus", "Bus", "retry", {"Bus"}).op = "need"
    <3>1. "bus" \in Inputs /\ "Bus" \in Conditions[k] /\ {"Bus"} \in SUBSET (Conditions[k] \ Workloads)
      BY DEF Inputs, Conditions, CyborgConditions, Workloads, Children
    <3>. QED
      BY <3>1, NeedIsStep
  <2>3. Need("secret", "Input", "retry", {}) \in StepOf(k) /\ Need("secret", "Input", "retry", {}).op = "need"
    <3>1. "secret" \in Inputs /\ "Input" \in Conditions[k] /\ {} \in SUBSET (Conditions[k] \ Workloads)
      BY DEF Inputs, Conditions, CyborgConditions, Workloads, Children
    <3>. QED
      BY <3>1, NeedIsStep
  <2>4. Need("credential", "Input", "retry", {}) \in StepOf(k) /\ Need("credential", "Input", "retry", {}).op = "need"
    <3>1. "credential" \in Inputs /\ "Input" \in Conditions[k] /\ {} \in SUBSET (Conditions[k] \ Workloads)
      BY DEF Inputs, Conditions, CyborgConditions, Workloads, Children
    <3>. QED
      BY <3>1, NeedIsStep
  <2>5. Need("keystone", "Input", "retry", {}) \in StepOf(k) /\ Need("keystone", "Input", "retry", {}).op = "need"
    <3>1. "keystone" \in Inputs /\ "Input" \in Conditions[k] /\ {} \in SUBSET (Conditions[k] \ Workloads)
      BY DEF Inputs, Conditions, CyborgConditions, Workloads, Children
    <3>. QED
      BY <3>1, NeedIsStep
  <2>. QED
    BY <2>1, <2>2, <2>3, <2>4, <2>5
<1>m. /\ Make("AgentConfig") \in StepOf(k) /\ Make("AgentConfig").op = "make"
      /\ Make("ServiceConfig") \in StepOf(k) /\ Make("ServiceConfig").op = "make"
  BY MakeIsStep DEF Conditions, CyborgConditions, Workloads, Children
<1>1. IsPlan(CyborgDB, k, {"account", "need"})
  <2>1. <<"need", "account">> \notin Precedes(k)
    BY CyborgOrder DEF Children, MainOps, DropOps, CommonOps
  <2>. QED
    BY <1>d, <1>n, <1>m, <2>1, TwoSteps DEF CyborgDB
<1>2. IsPlan(CyborgBus, k, {"need"})
  BY <1>d, <1>n, <1>m, OneStep DEF CyborgBus
<1>3. IsPlan(<<Need("secret", "Input", "retry", {}), Need("credential", "Input", "retry", {}),
               Do("holdCredential"), Need("keystone", "Input", "retry", {})>>, k, {"need", "holdCredential"})
  <2>1. /\ <<"need", "need">> \notin Precedes(k)
        /\ <<"holdCredential", "need">> \notin Precedes(k)
        /\ <<"need", "need">> \notin Precedes(k)
        /\ <<"holdCredential", "need">> \notin Precedes(k)
        /\ <<"need", "need">> \notin Precedes(k)
        /\ <<"need", "holdCredential">> \notin Precedes(k)
    BY CyborgOrder DEF Children, MainOps, DropOps, CommonOps
  <2>2. {"need", "need", "holdCredential", "need"} = {"need", "holdCredential"}
    OBVIOUS
  <2>3. IsPlan(<<Need("secret", "Input", "retry", {}), Need("credential", "Input", "retry", {}),
               Do("holdCredential"), Need("keystone", "Input", "retry", {})>>, k, {"need", "need", "holdCredential", "need"})
    BY <1>d, <1>n, <1>m, <2>1, FourSteps
  <2>. QED
    BY <2>2, <2>3
<1>4. IsPlan(CyborgSecret, k, {"writeConfig"})
  BY <1>d, <1>n, <1>m, OneStep DEF CyborgSecret
<1>5. IsPlan(CyborgAgentConfig, k, {"make"})
  BY <1>d, <1>n, <1>m, OneStep DEF CyborgAgentConfig
<1>6. IsPlan(CyborgKeystone, k, {"keystoneService"})
  BY <1>d, <1>n, <1>m, OneStep DEF CyborgKeystone
<1>7. IsPlan(CyborgDBSync, k, {"make", "dbSync"})
  <2>1. <<"dbSync", "make">> \notin Precedes(k)
    BY CyborgOrder DEF Children, MainOps, DropOps, CommonOps
  <2>. QED
    BY <1>d, <1>n, <1>m, <2>1, TwoSteps DEF CyborgDBSync
<1>8. IsPlan(CyborgChildren, k, {"CyborgAPI", "CyborgConductor"})
  <2>1. <<"CyborgConductor", "CyborgAPI">> \notin Precedes(k)
    BY CyborgOrder DEF Children, MainOps, DropOps, CommonOps
  <2>. QED
    BY <1>d, <1>n, <1>m, <2>1, TwoSteps DEF CyborgChildren
<1>9. IsPlan(<<Do("releaseAccounts"), Do("releaseCredential")>>, k, {"releaseAccounts", "releaseCredential"})
  <2>1. <<"releaseCredential", "releaseAccounts">> \notin Precedes(k)
    BY CyborgOrder DEF Children, MainOps, DropOps, CommonOps
  <2>. QED
    BY <1>d, <1>n, <1>m, <2>1, TwoSteps
<1>a1. IsPlan(CyborgDB \o CyborgBus, k, {"account", "need"})
  <2>1. \A a \in {"account", "need"}, b \in {"need"} : <<b, a>> \notin Precedes(k)
    BY CyborgOrder DEF Children, MainOps, DropOps, CommonOps
  <2>2. {"account", "need"} \cup {"need"}
          = {"account", "need"}
    OBVIOUS
  <2>. QED
    BY <1>1, <1>2, <2>1, <2>2, PlanConcat
<1>a2. IsPlan(CyborgDB \o CyborgBus \o <<Need("secret", "Input", "retry", {}), Need("credential", "Input", "retry", {}),
               Do("holdCredential"), Need("keystone", "Input", "retry", {})>>, k, {"account", "need", "holdCredential"})
  <2>1. \A a \in {"account", "need"}, b \in {"need", "holdCredential"} : <<b, a>> \notin Precedes(k)
    BY CyborgOrder DEF Children, MainOps, DropOps, CommonOps
  <2>2. {"account", "need"} \cup {"need", "holdCredential"}
          = {"account", "need", "holdCredential"}
    OBVIOUS
  <2>. QED
    BY <1>a1, <1>3, <2>1, <2>2, PlanConcat
<1>i. IsPlan(CyborgInputs, k, {"account", "need", "holdCredential"})
  BY <1>a2 DEF CyborgInputs
<1>b1. IsPlan(CyborgInputs \o CyborgSecret, k, {"account", "need", "holdCredential", "writeConfig"})
  <2>1. \A a \in {"account", "need", "holdCredential"}, b \in {"writeConfig"} : <<b, a>> \notin Precedes(k)
    BY CyborgOrder DEF Children, MainOps, DropOps, CommonOps
  <2>2. {"account", "need", "holdCredential"} \cup {"writeConfig"}
          = {"account", "need", "holdCredential", "writeConfig"}
    OBVIOUS
  <2>. QED
    BY <1>i, <1>4, <2>1, <2>2, PlanConcat
<1>b2. IsPlan(CyborgInputs \o CyborgSecret \o CyborgAgentConfig, k, {"account", "need", "holdCredential", "writeConfig", "make"})
  <2>1. \A a \in {"account", "need", "holdCredential", "writeConfig"}, b \in {"make"} : <<b, a>> \notin Precedes(k)
    BY CyborgOrder DEF Children, MainOps, DropOps, CommonOps
  <2>2. {"account", "need", "holdCredential", "writeConfig"} \cup {"make"}
          = {"account", "need", "holdCredential", "writeConfig", "make"}
    OBVIOUS
  <2>. QED
    BY <1>b1, <1>5, <2>1, <2>2, PlanConcat
<1>b3. IsPlan(CyborgInputs \o CyborgSecret \o CyborgAgentConfig \o CyborgKeystone, k, {"account", "need", "holdCredential", "writeConfig", "make", "keystoneService"})
  <2>1. \A a \in {"account", "need", "holdCredential", "writeConfig", "make"}, b \in {"keystoneService"} : <<b, a>> \notin Precedes(k)
    BY CyborgOrder DEF Children, MainOps, DropOps, CommonOps
  <2>2. {"account", "need", "holdCredential", "writeConfig", "make"} \cup {"keystoneService"}
          = {"account", "need", "holdCredential", "writeConfig", "make", "keystoneService"}
    OBVIOUS
  <2>. QED
    BY <1>b2, <1>6, <2>1, <2>2, PlanConcat
<1>b4. IsPlan(CyborgInputs \o CyborgSecret \o CyborgAgentConfig \o CyborgKeystone \o CyborgDBSync, k, {"account", "need", "holdCredential", "writeConfig", "make", "keystoneService", "dbSync"})
  <2>1. \A a \in {"account", "need", "holdCredential", "writeConfig", "make", "keystoneService"}, b \in {"make", "dbSync"} : <<b, a>> \notin Precedes(k)
    BY CyborgOrder DEF Children, MainOps, DropOps, CommonOps
  <2>2. {"account", "need", "holdCredential", "writeConfig", "make", "keystoneService"} \cup {"make", "dbSync"}
          = {"account", "need", "holdCredential", "writeConfig", "make", "keystoneService", "dbSync"}
    OBVIOUS
  <2>. QED
    BY <1>b3, <1>7, <2>1, <2>2, PlanConcat
<1>b5. IsPlan(CyborgInputs \o CyborgSecret \o CyborgAgentConfig \o CyborgKeystone \o CyborgDBSync \o CyborgChildren, k, {"account", "need", "holdCredential", "writeConfig", "make", "keystoneService", "dbSync", "CyborgAPI", "CyborgConductor"})
  <2>1. \A a \in {"account", "need", "holdCredential", "writeConfig", "make", "keystoneService", "dbSync"}, b \in {"CyborgAPI", "CyborgConductor"} : <<b, a>> \notin Precedes(k)
    BY CyborgOrder DEF Children, MainOps, DropOps, CommonOps
  <2>2. {"account", "need", "holdCredential", "writeConfig", "make", "keystoneService", "dbSync"} \cup {"CyborgAPI", "CyborgConductor"}
          = {"account", "need", "holdCredential", "writeConfig", "make", "keystoneService", "dbSync", "CyborgAPI", "CyborgConductor"}
    OBVIOUS
  <2>. QED
    BY <1>b4, <1>8, <2>1, <2>2, PlanConcat
<1>b6. IsPlan(CyborgInputs \o CyborgSecret \o CyborgAgentConfig \o CyborgKeystone \o CyborgDBSync \o CyborgChildren \o <<Do("releaseAccounts"), Do("releaseCredential")>>, k, {"account", "need", "holdCredential", "writeConfig", "make", "keystoneService", "dbSync", "CyborgAPI", "CyborgConductor", "releaseAccounts", "releaseCredential"})
  <2>1. \A a \in {"account", "need", "holdCredential", "writeConfig", "make", "keystoneService", "dbSync", "CyborgAPI", "CyborgConductor"}, b \in {"releaseAccounts", "releaseCredential"} : <<b, a>> \notin Precedes(k)
    BY CyborgOrder DEF Children, MainOps, DropOps, CommonOps
  <2>2. {"account", "need", "holdCredential", "writeConfig", "make", "keystoneService", "dbSync", "CyborgAPI", "CyborgConductor"} \cup {"releaseAccounts", "releaseCredential"}
          = {"account", "need", "holdCredential", "writeConfig", "make", "keystoneService", "dbSync", "CyborgAPI", "CyborgConductor", "releaseAccounts", "releaseCredential"}
    OBVIOUS
  <2>. QED
    BY <1>b5, <1>9, <2>1, <2>2, PlanConcat
<1>s. IsPlan(CyborgSteps, k, {"account", "need", "holdCredential", "writeConfig", "make", "keystoneService", "dbSync", "CyborgAPI", "CyborgConductor", "releaseAccounts", "releaseCredential"})
  BY <1>b6 DEF CyborgSteps
<1>c1. IsPlan(CyborgSteps \o Save, k, {"account", "need", "holdCredential", "writeConfig", "make", "keystoneService", "dbSync", "CyborgAPI", "CyborgConductor", "releaseAccounts", "releaseCredential", "patch"})
  <2>1. \A a \in {"account", "need", "holdCredential", "writeConfig", "make", "keystoneService", "dbSync", "CyborgAPI", "CyborgConductor", "releaseAccounts", "releaseCredential"}, b \in {"patch"} : <<b, a>> \notin Precedes(k)
    BY CyborgOrder DEF Children, MainOps, DropOps, CommonOps
  <2>2. {"account", "need", "holdCredential", "writeConfig", "make", "keystoneService", "dbSync", "CyborgAPI", "CyborgConductor", "releaseAccounts", "releaseCredential"} \cup {"patch"}
          = {"account", "need", "holdCredential", "writeConfig", "make", "keystoneService", "dbSync", "CyborgAPI", "CyborgConductor", "releaseAccounts", "releaseCredential", "patch"}
    OBVIOUS
  <2>. QED
    BY <1>s, SavePlan, <2>1, <2>2, PlanConcat
<1>. QED
  BY <1>c1 DEF MainOps, CommonOps

LEMMA PlacementDeletionPlan ==
  IsPlan(PlacementDeletion \o Save, "PlacementAPI", DropOps("PlacementAPI") \cup {"patch"})
<1> DEFINE k == "PlacementAPI"
           drops == {"dropDatabase", "dropEndpoint", "dropService", "dropCredentials"}
<1>d. \A op \in drops \cup {"dropFinalizer"} : Do(op) \in StepOf(k) /\ Do(op).op = op
  BY DoIsStep DEF DropOps
<1>1. IsPlan(PlacementDeletion, k, drops \cup {"dropFinalizer"})
  <2>1. PlacementDeletion \in Seq(StepOf(k)) /\ Len(PlacementDeletion) = 5
    BY <1>d DEF PlacementDeletion
  <2>2. /\ PlacementDeletion[1].op = "dropDatabase" /\ PlacementDeletion[2].op = "dropEndpoint"
        /\ PlacementDeletion[3].op = "dropService" /\ PlacementDeletion[4].op = "dropCredentials"
        /\ PlacementDeletion[5].op = "dropFinalizer"
    BY <1>d DEF PlacementDeletion
  <2>3. \A i \in DOMAIN PlacementDeletion : i \in {1, 2, 3, 4, 5}
    BY <2>1
  <2>4. Ops(PlacementDeletion) = drops \cup {"dropFinalizer"}
    BY <2>1, <2>2, <2>3 DEF Ops
  <2>5. \A a \in drops \cup {"dropFinalizer"}, b \in drops : <<a, b>> \notin Precedes(k)
    BY PlacementOrder
  <2>6. InOrder(PlacementDeletion, k)
    <3> SUFFICES ASSUME NEW i \in DOMAIN PlacementDeletion, NEW j \in DOMAIN PlacementDeletion, i <= j
                 PROVE  <<PlacementDeletion[j].op, PlacementDeletion[i].op>> \notin Precedes(k)
      BY DEF InOrder
    <3>1. i # 5 => PlacementDeletion[i].op \in drops
      BY <2>2, <2>3
    <3>2. i = 5 => j = 5
      BY <2>3
    <3>3. PlacementDeletion[j].op \in drops \cup {"dropFinalizer"}
      BY <2>2, <2>3
    <3>. QED
      BY <2>5, <3>1, <3>2, <3>3, PrecedesItself
  <2>. QED
    BY <2>1, <2>4, <2>6 DEF IsPlan
<1>2. \A a \in drops \cup {"dropFinalizer"}, b \in {"patch"} : <<b, a>> \notin Precedes(k)
  BY PlacementOrder DEF MainOps, DropOps, CommonOps
<1>3. DropOps(k) = drops \cup {"dropFinalizer"}
  BY DEF DropOps
<1>. QED
  BY <1>1, <1>2, <1>3, SavePlan, PlanConcat

LEMMA CyborgDeletionPlan ==
  IsPlan(CyborgDeletion \o Save, "Cyborg", DropOps("Cyborg") \cup {"patch"})
<1> DEFINE k == "Cyborg"
<1>d. \A op \in {"dropDatabase", "dropService", "dropCredentials", "dropFinalizer"} :
         Do(op) \in StepOf(k) /\ Do(op).op = op
  BY DoIsStep DEF DropOps
<1>1. IsPlan(CyborgDeletion, k, {"dropDatabase", "dropService", "dropCredentials", "dropFinalizer"})
  <2>1. /\ <<"dropService", "dropDatabase">> \notin Precedes(k)
        /\ <<"dropCredentials", "dropDatabase">> \notin Precedes(k)
        /\ <<"dropFinalizer", "dropDatabase">> \notin Precedes(k)
        /\ <<"dropCredentials", "dropService">> \notin Precedes(k)
        /\ <<"dropFinalizer", "dropService">> \notin Precedes(k)
        /\ <<"dropFinalizer", "dropCredentials">> \notin Precedes(k)
    BY CyborgOrder DEF Children
  <2>. QED
    BY <1>d, <2>1, FourSteps DEF CyborgDeletion
<1>2. \A a \in {"dropDatabase", "dropService", "dropCredentials", "dropFinalizer"}, b \in {"patch"} :
         <<b, a>> \notin Precedes(k)
  BY CyborgOrder DEF Children, MainOps, DropOps, CommonOps
<1>3. DropOps(k) = {"dropDatabase", "dropService", "dropCredentials", "dropFinalizer"}
  BY DEF DropOps
<1>. QED
  BY <1>1, <1>2, <1>3, SavePlan, PlanConcat

(* What a reconcile of a CR has ahead of it when it begins.                *)
LEMMA ProgramPlan ==
  ASSUME kind \in PeerKinds
  PROVE  IsPlan(Program, kind,
                IF cr.life = "deleting" THEN DropOps(kind) \cup {"patch"}
                ELSE IF AddsFinalizer THEN {"patch"}
                ELSE MainOps(kind) \cup {"patch"})
<1>1. CASE kind = "PlacementAPI"
  <2>1. Steps[kind] = PlacementSteps /\ Deletion[kind] = PlacementDeletion
    BY <1>1 DEF Steps, Deletion
  <2>. QED
    BY <1>1, <2>1, SavePlan, PlacementPlan, PlacementDeletionPlan DEF Program
<1>2. CASE kind = "Cyborg"
  <2>1. Steps[kind] = CyborgSteps /\ Deletion[kind] = CyborgDeletion
    BY <1>2 DEF Steps, Deletion
  <2>. QED
    BY <1>2, <2>1, SavePlan, CyborgPlan, CyborgDeletionPlan DEF Program
<1>. QED
  BY <1>1, <1>2 DEF PeerKinds

-----------------------------------------------------------------------------
(* What is ahead after a step.                                             *)
IsSequence(t) == Len(t) \in Nat /\ DOMAIN t = 1 .. Len(t)
Drops(t, u, n) ==
    /\ IsSequence(t) /\ IsSequence(u) /\ n \in Nat /\ n <= Len(t) /\ Len(u) = Len(t) - n
    /\ \A i \in 1 .. Len(u) : u[i] = t[i + n]
IsRest(t, u, n) ==
    /\ Ops(u) \subseteq Ops(t)
    /\ \A x \in Ops(t) \ Ops(u) : \E i \in 1 .. n : x = t[i].op
    /\ \A k : InOrder(t, k) => InOrder(u, k)

LEMMA Dropping ==
  ASSUME NEW t, NEW u, NEW n, Drops(t, u, n)
  PROVE  IsRest(t, u, n)
<1>1. /\ Len(t) \in Nat /\ DOMAIN t = 1 .. Len(t) /\ DOMAIN u = 1 .. Len(t) - n
      /\ n \in Nat /\ n <= Len(t)
  BY DEF Drops, IsSequence
<1>2. \A i \in DOMAIN u : i + n \in DOMAIN t /\ u[i] = t[i + n]
  BY <1>1 DEF Drops
<1>3. \A i \in DOMAIN t : i \in 1 .. n \/ (i - n \in DOMAIN u /\ t[i] = u[i - n])
  <2> SUFFICES ASSUME NEW i \in DOMAIN t, i \notin 1 .. n
               PROVE  i - n \in DOMAIN u /\ t[i] = u[i - n]
    OBVIOUS
  <2>1. i - n \in DOMAIN u /\ (i - n) + n = i
    BY <1>1
  <2>. QED
    BY <1>2, <2>1
<1>4. Ops(u) \subseteq Ops(t)
  BY <1>2 DEF Ops
<1>5. \A x \in Ops(t) \ Ops(u) : \E i \in 1 .. n : x = t[i].op
  <2> SUFFICES ASSUME NEW i \in DOMAIN t, t[i].op \notin Ops(u)
               PROVE  \E j \in 1 .. n : t[i].op = t[j].op
    BY DEF Ops
  <2>. QED
    BY <1>3 DEF Ops
<1>7. ASSUME NEW k, InOrder(t, k) PROVE InOrder(u, k)
  <2> SUFFICES ASSUME NEW i \in DOMAIN u, NEW j \in DOMAIN u, i <= j
               PROVE  <<u[j].op, u[i].op>> \notin Precedes(k)
    BY DEF InOrder
  <2>1. i + n \in DOMAIN t /\ j + n \in DOMAIN t /\ i + n <= j + n /\ u[i] = t[i + n] /\ u[j] = t[j + n]
    BY <1>1, <1>2
  <2>. QED
    BY <1>7, <2>1 DEF InOrder
<1>. QED
  BY <1>4, <1>5, <1>7 DEF IsRest

LEMMA HeadFirst ==
  ASSUME PlanInv, todo # <<>>
  PROVE  /\ Head(todo) \in StepOf(kind) /\ Head(todo).op \in Ops(todo)
         /\ \A a : <<a, Head(todo).op>> \in Precedes(kind) => ~Ahead(a)
<1>1. todo \in Seq(StepOf(kind)) /\ InOrder(todo, kind)
  BY DEF PlanInv
<1>2. /\ Len(todo) \in Nat \ {0} /\ DOMAIN todo = 1 .. Len(todo) /\ Head(todo) = todo[1]
      /\ todo[1] \in StepOf(kind)
  BY <1>1
<1>3. 1 \in DOMAIN todo /\ \A j \in DOMAIN todo : 1 <= j
  BY <1>2
<1>4. Head(todo).op \in Ops(todo)
  BY <1>2, <1>3 DEF Ops
<1>5. \A j \in DOMAIN todo : <<todo[j].op, Head(todo).op>> \notin Precedes(kind)
  BY <1>1, <1>2, <1>3 DEF InOrder
<1>. QED
  BY <1>2, <1>4, <1>5 DEF Ahead, Ops

LEMMA GoesOn ==
  ASSUME PlanInv, todo # <<>>, GoOn, UNCHANGED kind
  PROVE  /\ PlanInv'
         /\ Ops(todo) = Ops(todo') \cup {Head(todo).op}
<1>1. todo \in Seq(StepOf(kind)) /\ InOrder(todo, kind)
  BY DEF PlanInv
<1>2. /\ Tail(todo) \in Seq(StepOf(kind)) /\ Len(Tail(todo)) = Len(todo) - 1
      /\ \A i \in 1 .. Len(Tail(todo)) : Tail(todo)[i] = todo[i + 1]
      /\ Head(todo) = todo[1] /\ 1 <= Len(todo)
  BY <1>1
<1>3. IsRest(todo, Tail(todo), 1)
  <2>1. Drops(todo, Tail(todo), 1)
    BY <1>1, <1>2, LenProperties DEF Drops, IsSequence
  <2>. QED
    BY <2>1, Dropping
<1>4. \A x \in Ops(todo) \ Ops(Tail(todo)) : x = Head(todo).op
  BY <1>2, <1>3 DEF IsRest
<1>5. Ops(Tail(todo)) \subseteq Ops(todo) /\ Head(todo).op \in Ops(todo)
  BY <1>2, <1>3 DEF Ops, IsRest
<1>6. Ops(todo) = Ops(Tail(todo)) \cup {Head(todo).op}
  BY <1>4, <1>5
<1>. QED
  BY <1>1, <1>2, <1>3, <1>6 DEF GoOn, PlanInv, IsRest

LEMMA EndsEarly ==
  ASSUME PlanInv, todo' \in {Save, <<>>}, UNCHANGED kind
  PROVE  PlanInv' /\ Ops(todo') \subseteq {"patch"} /\ (todo' = <<>> \/ Ops(todo') = {"patch"})
<1>1. CASE todo' = Save
  BY <1>1, SavePlan DEF IsPlan, PlanInv
<1>2. CASE todo' = <<>>
  BY <1>2 DEF PlanInv, Ops, InOrder
<1>. QED
  BY <1>1, <1>2

LEMMA Begins ==
  ASSUME kind \in PeerKinds, todo' = Program, UNCHANGED kind
  PROVE  PlanInv'
  BY ProgramPlan DEF IsPlan, PlanInv

(* Only reads are passed over at once.                                     *)
LEMMA ReadsOn ==
  ASSUME PlanInv, todo # <<>>, UNCHANGED kind,
         todo' = SubSeq(todo, Cardinality(Leading) + 1, Len(todo))
  PROVE  /\ PlanInv'
         /\ Ops(todo') \subseteq Ops(todo) /\ Ops(todo) \subseteq Ops(todo') \cup {"need"}
         /\ Cardinality(Leading) \in 0 .. Len(todo)
<1> DEFINE n == Cardinality(Leading)
<1>1. todo \in Seq(StepOf(kind)) /\ InOrder(todo, kind)
  BY DEF PlanInv
<1>2. Len(todo) \in Nat /\ DOMAIN todo = 1 .. Len(todo)
  BY <1>1, LenProperties
<1>3. /\ IsFiniteSet(1 .. Len(todo)) /\ Cardinality(1 .. Len(todo)) = Len(todo)
  BY <1>2, FS_Interval
<1>4. Leading \subseteq 1 .. Len(todo)
  BY <1>2 DEF Leading
<1>5. IsFiniteSet(Leading) /\ n \in Nat /\ n <= Len(todo)
  BY <1>3, <1>4, FS_Subset, FS_CardinalityType
<1>6. ASSUME NEW i \in 1 .. n PROVE i \in Leading
  <2> SUFFICES ASSUME i \notin Leading PROVE FALSE
    OBVIOUS
  <2>1. i \in 1 .. Len(todo)
    BY <1>2, <1>5
  <2>2. Leading \subseteq 1 .. (i - 1)
    <3> SUFFICES ASSUME NEW m \in Leading, ~(m < i) PROVE FALSE
      BY <1>2, <1>4
    <3>1. m \in Nat /\ \A j \in 1 .. m : todo[j].op = "need"
      BY <1>2 DEF Leading
    <3>2. \A j \in 1 .. i : todo[j].op = "need"
      BY <3>1
    <3>. QED
      BY <1>2, <2>1, <3>2 DEF Leading
  <2>3. i - 1 \in Nat /\ IsFiniteSet(1 .. (i - 1)) /\ Cardinality(1 .. (i - 1)) = i - 1
    <3>1. i - 1 \in Nat /\ i - 1 \in Int /\ 1 \in Int
      BY <1>2, <2>1
    <3>2. /\ IsFiniteSet(1 .. (i - 1))
          /\ Cardinality(1 .. (i - 1)) = IF 1 > i - 1 THEN 0 ELSE (i - 1) - 1 + 1
      BY <3>1, FS_Interval, Zenon
    <3>. QED
      BY <3>1, <3>2
  <2>4. n <= i - 1
    BY <2>2, <2>3, FS_Subset
  <2>. QED
    BY <1>5, <2>4
<1>7. \A i \in 1 .. n : todo[i].op = "need"
  BY <1>6 DEF Leading
<1>8. /\ todo' \in Seq(StepOf(kind)) /\ Len(todo') = Len(todo) - n
      /\ \A i \in 1 .. Len(todo') : todo'[i] = todo[i + n]
  BY <1>1, <1>2, <1>5, SubSeqProperties
<1>9. IsRest(todo, todo', n)
  <2>1. Drops(todo, todo', n)
    BY <1>1, <1>5, <1>8, LenProperties DEF Drops, IsSequence
  <2>. QED
    BY <2>1, Dropping
<1>a. \A x \in Ops(todo) \ Ops(todo') : x = "need"
  BY <1>7, <1>9 DEF IsRest
<1>b. PlanInv'
  BY <1>1, <1>8, <1>9 DEF PlanInv, IsRest
<1>. QED
  BY <1>2, <1>5, <1>9, <1>a, <1>b DEF IsRest

(* The step that a reconcile is at, and what is ahead once it is done.     *)
LEMMA Onwards ==
  ASSUME PlanInv, NEW op, At(op)
  PROVE  /\ todo # <<>> /\ Ahead(op) /\ op \in MainOps(kind) \cup DropOps(kind) \cup {"patch"}
         /\ \A a : <<a, op>> \in Precedes(kind) => ~Ahead(a)
         /\ GoOn /\ UNCHANGED kind => PlanInv' /\ Ops(todo) = Ops(todo') \cup {op}
         /\ End /\ UNCHANGED kind => PlanInv' /\ Ops(todo') = {"patch"}
<1>1. todo # <<>> /\ Head(todo).op = op
  BY DEF At
<1>2. /\ Head(todo) \in StepOf(kind) /\ op \in Ops(todo)
      /\ \A a : <<a, op>> \in Precedes(kind) => ~Ahead(a)
  BY <1>1, HeadFirst
<1>3. op \in MainOps(kind) \cup DropOps(kind) \cup {"patch"}
  BY <1>1, <1>2 DEF StepOf
<1>4. ASSUME GoOn, UNCHANGED kind PROVE PlanInv' /\ Ops(todo) = Ops(todo') \cup {op}
  BY <1>1, <1>4, GoesOn
<1>5. ASSUME End, UNCHANGED kind PROVE PlanInv' /\ Ops(todo') = {"patch"}
  BY <1>5, SavePlan DEF IsPlan, PlanInv, End
<1>. QED
  BY <1>1, <1>2, <1>3, <1>4, <1>5 DEF Ahead

-----------------------------------------------------------------------------
(* Which actions change what.                                              *)
LEMMA Frame ==
  ASSUME [Next]_vars
  PROVE  /\ kind' = kind
         /\ UNCHANGED cr \/ Edit \/ Delete \/ Patch
         /\ UNCHANGED status \/ Edit \/ Patch
         /\ UNCHANGED credFins \/ HoldCredential \/ ReleaseCredential \/ DropCredentials
         /\ UNCHANGED accFins \/ HoldAccount \/ ReleaseAccounts \/ DropDatabase
         /\ UNCHANGED dbFin \/ HoldAccount \/ DropDatabase
         /\ UNCHANGED job \/ JobDone \/ SyncDB
         /\ UNCHANGED schema \/ JobDone
         /\ \/ UNCHANGED keystone \/ EnsureKeystoneService \/ EnsureKeystoneEndpoint
            \/ DropKeystone("dropEndpoint", "endpoint") \/ DropKeystone("dropService", "service")
            \/ \E o \in KeystoneObjects : KeystoneReady(o)
         /\ UNCHANGED secret \/ WriteConfig
         /\ \/ UNCHANGED child \/ Delete \/ Patch
            \/ \E w \in Children : ChildReconciles(w) \/ EnsureChild(w) \/ ChildFails(w)
         /\ UNCHANGED cached \/ Restart \/ \E w \in Children : CacheSync(w) \/ EnsureChild(w)
         /\ \/ UNCHANGED mounted \/ WriteConfig
            \/ \E w \in Children : ChildReconciles(w) \/ ChildFails(w)
         /\ \/ UNCHANGED template \/ Delete \/ Patch \/ Deploy
            \/ \E w \in Children : ChildReconciles(w)
         /\ \/ UNCHANGED pod \/ Delete \/ Patch
            \/ \E w \in Workloads : RollOut(w) \/ PodRestarts(w)
  BY DEF Next, vars, crVars, workVars, finVars, dbVars, childVars, podVars, boundVars, Edit, Delete,
     Fault, CallFails, PatchFails, Restart, ChildFails, May, Reconcile, Begin, NeedInputs,
     MakeObject, HoldAccount, WriteConfig, RecordHash, HoldCredential, SyncDB, Deploy, RolledOut,
     EnsureKeystoneService, EnsureKeystoneEndpoint, ReleaseAccounts, ReleaseCredential,
     EnsureChild, DropDatabase, DropKeystone, DropCredentials, DropFinalizer, Patch,
     Progress, JobDone, Arrives, KeystoneReady, ChildReconciles, CacheSync, RollOut, PodRestarts

(* A step of a reconcile, and what it leaves as it is.                     *)
Working ==
    /\ todo # <<>>
    /\ PlanInv'
    /\ \/ Ops(todo') \subseteq Ops(todo) /\ Ops(todo) \subseteq Ops(todo') \cup {Head(todo).op}
       \/ Ops(todo') = {"patch"}
    /\ UNCHANGED crVars
    /\ local' = [local EXCEPT !.pending = local'.pending, !.fin = local'.fin, !.cred = local'.cred,
                   !.hash = local'.hash, !.synced = local'.synced, !.applied = local'.applied]
Stops == todo # <<>> /\ todo' = <<>> /\ local' = Idle

LEMMA Turns ==
  ASSUME Types, [Next]_vars
  PROVE  \/ UNCHANGED <<todo, local>>
         \/ Edit \/ Begin \/ Stops \/ Working
<1> USE DEF Types, crVars, workVars, MarkTrue, MarkFalse, Working, Stops, LocalTypes
<1>1. ASSUME NEW op, At(op), GoOn \/ End, UNCHANGED kind
      PROVE  /\ todo # <<>> /\ PlanInv' /\ Head(todo).op = op
             /\ \/ Ops(todo') \subseteq Ops(todo) /\ Ops(todo) \subseteq Ops(todo') \cup {Head(todo).op}
                \/ Ops(todo') = {"patch"}
  BY <1>1, Onwards DEF At
<1>2. CASE NeedInputs
  <2>1. todo # <<>> /\ UNCHANGED crVars /\ Head(todo).op = "need" /\ UNCHANGED kind
    BY <1>2 DEF NeedInputs, At
  <2>2. CASE End
    <3>1. local' = [local EXCEPT !.pending = local'.pending]
      BY <1>2 DEF NeedInputs
    <3>. QED
      BY <1>1, <2>1, <2>2, <3>1, <1>2 DEF NeedInputs
  <2>3. CASE todo' = SubSeq(todo, Cardinality(Leading) + 1, Len(todo))
    <3>1. local' = [local EXCEPT !.pending = local'.pending]
      BY <1>2 DEF NeedInputs
    <3>. QED
      BY <2>1, <2>3, <3>1, ReadsOn
  <2>. QED
    BY <1>2, <2>2, <2>3 DEF NeedInputs
<1>3. CASE Reconcile /\ ~NeedInputs /\ ~Begin /\ ~Patch
  <2>1. /\ \E op : At(op) /\ (GoOn \/ End)
        /\ UNCHANGED <<kind, cr, status>>
    BY <1>3 DEF Reconcile, MakeObject, HoldAccount, WriteConfig, RecordHash, HoldCredential, SyncDB,
       Deploy, RolledOut, EnsureKeystoneService, EnsureKeystoneEndpoint, ReleaseAccounts,
       ReleaseCredential, EnsureChild, DropDatabase, DropKeystone, DropCredentials, DropFinalizer
  <2>2. local' = [local EXCEPT !.pending = local'.pending, !.fin = local'.fin, !.cred = local'.cred,
                   !.hash = local'.hash, !.synced = local'.synced, !.applied = local'.applied]
    BY <1>3 DEF Reconcile, MakeObject, HoldAccount, WriteConfig, RecordHash, HoldCredential, SyncDB,
       Deploy, RolledOut, EnsureKeystoneService, EnsureKeystoneEndpoint, ReleaseAccounts,
       ReleaseCredential, EnsureChild, DropDatabase, DropKeystone, DropCredentials, DropFinalizer
  <2>. QED
    BY <1>1, <2>1, <2>2
<1>4. CASE Patch \/ PatchFails \/ Restart
  BY <1>4 DEF Patch, PatchFails, Restart, At
<1>5. CASE CallFails
  <2>1. /\ \E op : At(op) /\ End
        /\ UNCHANGED <<kind, cr, status, local>>
    BY <1>5 DEF CallFails, At
  <2>. QED
    BY <1>1, <2>1
<1>6. CASE \/ Delete \/ Progress \/ UNCHANGED vars
           \/ \E w \in Workloads : PodRestarts(w)
           \/ \E w \in Children : ChildFails(w)
  BY <1>6 DEF Delete, vars, Progress, JobDone, Arrives, KeystoneReady, ChildReconciles, CacheSync,
     RollOut, PodRestarts, ChildFails
<1>. QED
  BY <1>2, <1>3, <1>4, <1>5, <1>6 DEF Next, Fault, Reconcile

(* A step that is behind has been taken.                                   *)
Does(op) ==
    /\ op = "account" => HoldAccount
    /\ op = "writeConfig" => WriteConfig
    /\ op = "holdCredential" => HoldCredential
    /\ op = "dbSync" => SyncDB
    /\ op = "deploy" => Deploy
    /\ op = "rolledOut" => RolledOut
    /\ op = "dropDatabase" => DropDatabase
    /\ op = "dropEndpoint" => DropKeystone("dropEndpoint", "endpoint")
    /\ op = "dropService" => DropKeystone("dropService", "service")
    /\ op = "dropCredentials" => DropCredentials
    /\ op = "dropFinalizer" => DropFinalizer

LEMMA StepTaken ==
  ASSUME [Next]_vars, todo # <<>>, todo' \notin {todo, Save, <<>>}
  PROVE  Does(Head(todo).op)
<1>1. Reconcile /\ ~Begin /\ ~Patch
  BY DEF End, Next, vars, workVars, Edit, Delete, Fault, CallFails, PatchFails, Restart, ChildFails,
     Begin, Patch, Progress, JobDone, Arrives, KeystoneReady, ChildReconciles, CacheSync, RollOut,
     PodRestarts
<1>2. \/ At("need") \/ At("make") \/ At("recordHash") \/ At("keystoneService")
      \/ At("keystoneEndpoint") \/ At("releaseAccounts") \/ At("releaseCredential")
      \/ At("CyborgAPI") \/ At("CyborgConductor")
      \/ HoldAccount /\ At("account")
      \/ WriteConfig /\ At("writeConfig")
      \/ HoldCredential /\ At("holdCredential")
      \/ SyncDB /\ At("dbSync")
      \/ Deploy /\ At("deploy")
      \/ RolledOut /\ At("rolledOut")
      \/ DropDatabase /\ At("dropDatabase")
      \/ DropKeystone("dropEndpoint", "endpoint") /\ At("dropEndpoint")
      \/ DropKeystone("dropService", "service") /\ At("dropService")
      \/ DropCredentials /\ At("dropCredentials")
      \/ DropFinalizer /\ At("dropFinalizer")
  <2>1. Children = {"CyborgAPI", "CyborgConductor"}
    BY DEF Children
  <2>. QED
    BY <1>1, <2>1 DEF Reconcile, NeedInputs, MakeObject, HoldAccount, WriteConfig, RecordHash,
       HoldCredential, SyncDB, Deploy, RolledOut, EnsureKeystoneService, EnsureKeystoneEndpoint,
       ReleaseAccounts, ReleaseCredential, EnsureChild, DropDatabase, DropKeystone, DropCredentials,
       DropFinalizer
<1>. QED
  BY <1>2 DEF Does, At

(* A step is ahead since the reconcile began.                              *)
LEMMA AheadBefore ==
  ASSUME Types, [Next]_vars, NEW a, a # "patch", Ahead(a)'
  PROVE  \/ /\ Begin /\ todo' = Program /\ cr.life # "gone"
            /\ \/ /\ cr.life # "deleting" /\ ~AddsFinalizer /\ a \in MainOps(kind)
                  /\ Ops(todo') = MainOps(kind) \cup {"patch"}
               \/ /\ cr.life = "deleting" /\ a \in DropOps(kind)
                  /\ Ops(todo') = DropOps(kind) \cup {"patch"}
         \/ /\ Ahead(a) /\ local'.spec = local.spec
            /\ \A b : Ahead(b) => Ahead(b)' \/ (b = Head(todo).op /\ Does(b) /\ Working)
<1>k. kind \in PeerKinds /\ LocalTypes
  BY PeerConstants DEF Types, CRTypes
<1>0. CASE UNCHANGED todo /\ local'.spec = local.spec
  BY <1>0 DEF Ahead, Ops
<1>1. CASE UNCHANGED <<todo, local>>
  BY <1>0, <1>1
<1>2. CASE Edit
  BY <1>0, <1>2, <1>k DEF Edit, LocalTypes
<1>3. CASE Begin
  <2>1. CASE cr.life = "gone"
    BY <1>1, <1>3, <2>1 DEF Begin
  <2>2. CASE cr.life # "gone"
    <3>1. todo' = Program
      BY <1>3, <2>2 DEF Begin
    <3>2. Ops(todo') = IF cr.life = "deleting" THEN DropOps(kind) \cup {"patch"}
                       ELSE IF AddsFinalizer THEN {"patch"}
                       ELSE MainOps(kind) \cup {"patch"}
      BY <1>k, <3>1, ProgramPlan DEF IsPlan
    <3>. QED
      BY <1>3, <2>2, <3>1, <3>2 DEF Ahead
  <2>. QED
    BY <2>1, <2>2
<1>4. CASE Stops
  BY <1>4 DEF Stops, Ahead, Ops
<1>5. CASE Working
  <2>1. local'.spec = local.spec
    BY <1>5, <1>k DEF Working, LocalTypes
  <2>2. CASE todo' = Save
    BY <2>2, SavePlan DEF IsPlan, Ahead
  <2>3. CASE todo' = todo
    BY <1>0, <2>1, <2>3
  <2>4. CASE todo' # Save /\ todo' # todo
    <3>1. Does(Head(todo).op)
      BY <1>5, <2>4, StepTaken DEF Working, Ahead, Ops
    <3>2. Ops(todo') \subseteq Ops(todo) /\ Ops(todo) \subseteq Ops(todo') \cup {Head(todo).op}
      BY <1>5 DEF Working, Ahead
    <3>. QED
      BY <1>5, <2>1, <3>1, <3>2 DEF Ahead
  <2>. QED
    BY <2>2, <2>3, <2>4
<1>. QED
  BY <1>1, <1>2, <1>3, <1>4, <1>5, Turns

-----------------------------------------------------------------------------
(* Types.                                                                  *)
LEMMA Constants ==
  /\ KindChoices \subseteq PeerKinds /\ 1 \in Accounts /\ 1 \in Images
  /\ MaxCred \in Nat /\ MaxAccount \in Nat /\ MaxImage \in Nat
  /\ \A c \in FirstCreds : c \in AnyCred
  /\ Idle.spec \in Specs
<1>1. /\ KindChoices \subseteq PeerKinds /\ FirstCreds \subseteq 0 .. MaxCred
      /\ MaxCred \in Nat /\ MaxAccount \in Nat \ {0} /\ MaxImage \in Nat \ {0}
  BY PeerConstants
<1>. QED
  BY <1>1 DEF AnyCred, Creds, NoCred, Accounts, Images, Specs, Idle

LEMMA ConfigTypes ==
  \A spec \in Specs : ConfigOf(spec) \in Configs /\ ConfigOf(spec) \in AnyConfig
  BY DEF Specs, ConfigOf, Configs, AnyConfig

LEMMA TypesInit == Init => Types
<1> SUFFICES ASSUME Init PROVE Types
  OBVIOUS
<1>1. kind \in KindChoices /\ todo = <<>> /\ local = Idle /\ cached = child
  BY DEF Init
<1>2. LocalTypes
  BY <1>1, Constants DEF LocalTypes, Idle, AnyCred, AnyConfig, AnyImage, NoCred
<1>3. PlanInv
  BY <1>1 DEF PlanInv, Ops, InOrder
<1>4. CASE New
  <2>1. CRTypes
    BY <1>1, <1>4, Constants DEF New, CRTypes, Specs, AnyConfig, AnyCred, NoCred, AnyImage
  <2>2. FinTypes /\ DBTypes
    BY <1>4 DEF New, FinTypes, DBTypes, NoJob, NoObject, ObjectType, AnyImage
  <2>3. ChildTypes
    BY <1>1, <1>4 DEF New, ChildTypes, NoChild, ChildType, AnyConfig, AnyImage, Ahead, Ops
  <2>4. PodTypes
    BY <1>4 DEF New, PodTypes, NoPod, AnyTemplate, AnyConfig, NoTemplate
  <2>. QED
    BY <1>2, <1>3, <2>1, <2>2, <2>3, <2>4 DEF Types
<1>5. CASE Deployed
  <2>1. PICK c \in FirstCreds :
          LET config == [cred |-> c, account |-> 1]
              isCyborg == kind = "Cyborg"
              ready == [fin |-> TRUE, ready |-> TRUE] IN
          /\ cr = [life |-> "live", fin |-> TRUE,
                   spec |-> [cred |-> c, account |-> 1, image |-> 1]]
          /\ status = [pending |-> {}, cred |-> c,
                       hash |-> IF isCyborg THEN NoConfig ELSE config, synced |-> 1,
                       applied |-> IF isCyborg THEN config ELSE NoConfig, seen |-> TRUE]
          /\ credFins = {c} \ {NoCred} /\ accFins = {1} /\ dbFin = TRUE
          /\ keystone = [service |-> ready, endpoint |-> IF isCyborg THEN NoObject ELSE ready]
          /\ job = [image |-> 1, done |-> TRUE]
          /\ schema = 1
          /\ secret = IF isCyborg THEN config ELSE NoConfig
          /\ child = [w \in Children |-> IF ~isCyborg THEN NoChild
                        ELSE [image |-> 1, seen |-> 1, applied |-> config, ready |-> TRUE]]
          /\ mounted = [w \in Workloads |-> IF w \in WorkloadsOf[kind] THEN config ELSE NoConfig]
          /\ template = [w \in Workloads |->
                           IF w \in WorkloadsOf[kind] THEN TemplateOf(config, 1) ELSE NoTemplate]
          /\ pod = [w \in Workloads |-> [template |-> template[w], config |-> mounted[w]]]
    BY <1>5, Zenon DEF Deployed
  <2> DEFINE config == [cred |-> c, account |-> 1]
  <2>2. config \in Configs /\ config \in AnyConfig /\ NoConfig \in AnyConfig /\ c \in AnyCred
    BY Constants DEF Configs, AnyConfig, AnyCred
  <2>3. CRTypes
    BY <1>1, <2>1, <2>2, Constants DEF CRTypes, Specs, AnyConfig, AnyCred, AnyImage
  <2>4. FinTypes /\ DBTypes
    BY <2>1, <2>2, Constants DEF FinTypes, DBTypes, NoObject, ObjectType, AnyImage, AnyCred, NoCred
  <2>5. ChildTypes
    BY <1>1, <2>1, <2>2, Constants DEF ChildTypes, NoChild, ChildType, AnyConfig, AnyImage, Ahead, Ops
  <2>6. PodTypes
    <3>1. TemplateOf(config, 1) \in AnyTemplate /\ NoTemplate \in AnyTemplate
      BY <2>2, Constants DEF TemplateOf, AnyTemplate, Templates
    <3>2. mounted \in [Workloads -> AnyConfig] /\ template \in [Workloads -> AnyTemplate]
      BY <2>1, <2>2, <3>1, Zenon
    <3>. QED
      BY <2>1, <3>2 DEF PodTypes
  <2>. QED
    BY <1>2, <1>3, <2>3, <2>4, <2>5, <2>6 DEF Types
<1>. QED
  BY <1>4, <1>5 DEF Init

LEMMA LocalTypesStep == Types /\ [Next]_vars => LocalTypes'
<1> SUFFICES ASSUME Types, [Next]_vars PROVE LocalTypes'
  OBVIOUS
<1> USE DEF LocalTypes, MarkTrue, MarkFalse
<1>k. kind \in PeerKinds /\ kind' = kind /\ LocalTypes /\ PlanInv
  BY Constants, Frame DEF Types, CRTypes
<1>c. ConfigOf(local.spec) \in AnyConfig /\ local.spec.cred \in AnyCred /\ local.spec.image \in AnyImage
  BY <1>k DEF ConfigOf, AnyConfig, Configs, Specs, AnyImage, AnyCred
<1>i. Idle \in [spec : Specs, fin : BOOLEAN, pending : SUBSET Conditions[kind],
                cred : AnyCred, hash : AnyConfig, synced : AnyImage, applied : AnyConfig, fresh : BOOLEAN]
  BY Constants DEF Idle, AnyCred, AnyConfig, AnyImage, NoCred
<1>1. CASE UNCHANGED local
  BY <1>1, <1>k
<1>2. CASE Edit
  BY <1>2, <1>k DEF Edit
<1>3. CASE Begin
  <2>1. CASE cr.life = "gone"
    BY <1>3, <1>k, <2>1 DEF Begin
  <2>2. CASE cr.life # "gone"
    <3> DEFINE Copy(fin) == [spec |-> cr.spec, fin |-> fin, pending |-> Conditions[kind],
                             cred |-> status.cred, hash |-> status.hash, synced |-> status.synced,
                             applied |-> status.applied, fresh |-> TRUE]
    <3>1. local' = Copy(cr.fin \/ AddsFinalizer) /\ (cr.fin \/ AddsFinalizer) \in BOOLEAN
      BY <1>3, <2>2 DEF Begin
    <3>2. \A b \in BOOLEAN :
             Copy(b) \in [spec : Specs, fin : BOOLEAN, pending : SUBSET Conditions[kind], cred : AnyCred,
                         hash : AnyConfig, synced : AnyImage, applied : AnyConfig, fresh : BOOLEAN]
      BY DEF Types, CRTypes
    <3> HIDE DEF Copy
    <3>. QED
      BY <1>k, <3>1, <3>2, Zenon
  <2>. QED
    BY <2>1, <2>2
<1>4. CASE NeedInputs
  <2>1. CASE MarkTrue(ThenOf(Cardinality(Leading)))
    BY <1>k, <2>1
  <2>2. ASSUME NEW n \in Leading,
               local' = [local EXCEPT !.pending = (@ \ ThenOf(n - 1)) \cup {todo[n].cond}]
        PROVE  LocalTypes'
    <3>1. todo \in Seq(StepOf(kind)) /\ n \in DOMAIN todo
      BY <1>k DEF PlanInv, Leading
    <3>2. todo[n] \in StepOf(kind) /\ n \in 1 .. n
      BY <3>1
    <3>3. todo[n].op = "need"
      BY <3>2 DEF Leading
    <3>4. todo[n].cond \in Conditions[kind]
      BY <3>2, <3>3 DEF StepOf
    <3>. QED
      BY <1>k, <2>2, <3>4
  <2>. QED
    BY <1>4, <2>1, <2>2 DEF NeedInputs
<1>5. CASE \/ MakeObject \/ HoldCredential \/ EnsureKeystoneService \/ EnsureKeystoneEndpoint
  BY <1>5, <1>k DEF MakeObject, HoldCredential, EnsureKeystoneService, EnsureKeystoneEndpoint
<1>6. CASE WriteConfig
  BY <1>6, <1>k DEF WriteConfig
<1>7. CASE RecordHash
  BY <1>7, <1>k, <1>c DEF RecordHash
<1>8. CASE SyncDB
  BY <1>8, <1>k, <1>c DEF SyncDB
<1>9. CASE RolledOut
  <2>1. "rolledOut" \in MainOps(kind) \cup DropOps(kind) \cup {"patch"}
    BY <1>9, <1>k, Onwards DEF RolledOut
  <2>2. "PlacementAPI" \in Conditions[kind]
    BY <1>k, <2>1 DEF MainOps, DropOps, CommonOps, PeerKinds, Conditions, PlacementConditions
  <2>. QED
    BY <1>9, <1>k, <2>2 DEF RolledOut
<1>10. ASSUME NEW w \in Children, EnsureChild(w) PROVE LocalTypes'
  <2>1. w \in MainOps(kind) \cup DropOps(kind) \cup {"patch"}
    BY <1>10, <1>k, Onwards DEF EnsureChild
  <2>2. w \in Conditions[kind]
    BY <1>k, <2>1 DEF MainOps, DropOps, CommonOps, PeerKinds, Conditions, CyborgConditions, Children
  <2>3. Judged(w) \in SUBSET Conditions[kind]
    BY <1>k, <2>2 DEF Judged
  <2>. QED
    BY <1>10, <1>k, <1>c, <2>3 DEF EnsureChild
<1>11. CASE ReleaseCredential
  BY <1>11, <1>k, <1>c DEF ReleaseCredential
<1>12. CASE DropFinalizer
  BY <1>12, <1>k DEF DropFinalizer
<1>13. CASE Patch \/ PatchFails \/ Restart
  BY <1>13, <1>k, <1>i DEF Patch, PatchFails, Restart
<1>. QED
  BY <1>1, <1>2, <1>3, <1>4, <1>5, <1>6, <1>7, <1>8, <1>9, <1>10, <1>11, <1>12, <1>13
  DEF Next, vars, workVars, Fault, Reconcile, Progress, Delete, JobDone, Arrives, KeystoneReady,
      ChildReconciles, CacheSync, RollOut, PodRestarts, CallFails, ChildFails, HoldAccount, Deploy,
      ReleaseAccounts, DropDatabase, DropKeystone, DropCredentials

LEMMA PlanStep == Types /\ [Next]_vars => PlanInv'
<1> SUFFICES ASSUME Types, [Next]_vars PROVE PlanInv'
  OBVIOUS
<1>k. kind \in PeerKinds /\ kind' = kind /\ PlanInv
  BY Constants, Frame DEF Types, CRTypes
<1>1. CASE UNCHANGED todo
  BY <1>1, <1>k DEF PlanInv, Ops, InOrder
<1>2. CASE Edit
  BY <1>1, <1>2 DEF Edit
<1>3. CASE Begin
  <2>1. CASE todo' = Program
    BY <1>k, <2>1, Begins
  <2>. QED
    BY <1>1, <1>3, <2>1 DEF Begin
<1>4. CASE Stops
  BY <1>4, <1>k, EndsEarly DEF Stops
<1>5. CASE Working
  BY <1>5 DEF Working
<1>. QED
  BY <1>1, <1>2, <1>3, <1>4, <1>5, Turns

LEMMA CRTypesStep == Types /\ [Next]_vars => CRTypes'
<1> SUFFICES ASSUME Types, [Next]_vars PROVE CRTypes'
  OBVIOUS
<1>k. kind \in KindChoices /\ kind' = kind /\ CRTypes /\ LocalTypes
  BY Frame DEF Types, CRTypes
<1>1. CASE Edit
  <2>1. cr.spec \in Specs /\ MaxCred \in Nat /\ MaxAccount \in Nat /\ MaxImage \in Nat
    BY <1>k, Constants DEF CRTypes
  <2>2. cr' \in [life : {"live", "deleting", "gone"}, fin : BOOLEAN, spec : Specs]
    BY <1>1, <1>k, <2>1 DEF Edit, CRTypes, Specs, Creds, NoCred, Accounts, Images
  <2>. QED
    BY <1>1, <1>k, <2>2 DEF Edit, CRTypes
<1>2. CASE Delete
  BY <1>2, <1>k DEF Delete, CRTypes
<1>3. CASE Patch
  <2>1. Outcome \in [pending : SUBSET (Conditions[kind] \cup {"Ready"}), cred : AnyCred,
                   hash : AnyConfig, synced : AnyImage, applied : AnyConfig, seen : BOOLEAN]
    BY <1>k DEF Outcome, LocalTypes
  <2>2. local.fin \in BOOLEAN
    BY <1>k DEF LocalTypes
  <2>3. CASE cr.life = "gone"
    BY <1>3, <1>k, <2>3 DEF Patch, CRTypes
  <2>4. CASE cr.life # "gone"
    <3>1. /\ status' = Outcome
          /\ \/ cr' = [cr EXCEPT !.life = "gone", !.fin = FALSE]
             \/ cr' = [cr EXCEPT !.fin = local.fin]
      BY <1>3, <2>4 DEF Patch
    <3>. QED
      BY <1>k, <2>1, <2>2, <3>1 DEF CRTypes
  <2>. QED
    BY <2>3, <2>4
<1>4. CASE UNCHANGED <<cr, status>>
  BY <1>4, <1>k DEF CRTypes
<1>. QED
  BY <1>1, <1>2, <1>3, <1>4, Frame DEF Delete

LEMMA FinTypesStep == Types /\ [Next]_vars => FinTypes'
<1> SUFFICES ASSUME Types, [Next]_vars PROVE FinTypes'
  OBVIOUS
<1>k. FinTypes /\ LocalTypes
  BY DEF Types
<1>1. credFins' \subseteq Creds
  <2>1. local.spec.cred \in Creds \cup {NoCred}
    BY <1>k DEF LocalTypes, Specs
  <2>. QED
    BY <1>k, <2>1, Frame DEF FinTypes, HoldCredential, ReleaseCredential, DropCredentials
<1>2. accFins' \subseteq Accounts /\ dbFin' \in BOOLEAN
  <2>1. local.spec.account \in Accounts
    BY <1>k DEF LocalTypes, Specs
  <2>2. CASE HoldAccount
    BY <1>k, <2>1, <2>2 DEF HoldAccount, FinTypes
  <2>3. CASE ReleaseAccounts
    BY <1>k, <2>1, <2>3 DEF ReleaseAccounts, finVars, FinTypes
  <2>4. CASE DropDatabase
    BY <1>k, <2>4 DEF DropDatabase, FinTypes
  <2>. QED
    BY <1>k, <2>2, <2>3, <2>4, Frame DEF FinTypes
<1>3. keystone' \in [service : ObjectType, endpoint : ObjectType]
  <2>1. \/ UNCHANGED keystone
        \/ \E o \in {"service", "endpoint"} : \/ keystone' = [keystone EXCEPT ![o].fin = TRUE]
                                           \/ keystone' = [keystone EXCEPT ![o].fin = FALSE]
                                           \/ keystone' = [keystone EXCEPT ![o].ready = TRUE]
    BY Frame DEF EnsureKeystoneService, EnsureKeystoneEndpoint, DropKeystone, KeystoneReady,
       KeystoneObjects
  <2>2. keystone \in [service : ObjectType, endpoint : ObjectType]
    BY <1>k DEF FinTypes
  <2>3. keystone.service \in ObjectType /\ keystone.endpoint \in ObjectType
    BY <2>2
  <2>4. ASSUME NEW o \in {"service", "endpoint"}, NEW b \in BOOLEAN
        PROVE  /\ [keystone EXCEPT ![o].fin = b] \in [service : ObjectType, endpoint : ObjectType]
               /\ [keystone EXCEPT ![o].ready = b] \in [service : ObjectType, endpoint : ObjectType]
    BY <2>2, <2>3 DEF ObjectType
  <2>. QED
    BY <2>1, <2>2, <2>4
<1>. QED
  BY <1>1, <1>2, <1>3 DEF FinTypes

LEMMA DBTypesStep == Types /\ [Next]_vars => DBTypes'
<1> SUFFICES ASSUME Types, [Next]_vars PROVE DBTypes'
  OBVIOUS
<1>k. DBTypes /\ local.spec.image \in AnyImage
  BY DEF Types, LocalTypes, Specs, AnyImage
<1>1. CASE JobDone
  BY <1>k, <1>1 DEF DBTypes, JobDone
<1>2. CASE SyncDB
  <2>1. job' = job \/ job' = [image |-> local.spec.image, done |-> FALSE]
    BY <1>2 DEF SyncDB
  <2>2. UNCHANGED schema
    BY <1>2 DEF SyncDB
  <2>3. job' \in [image : AnyImage, done : BOOLEAN]
    <3>1. [image |-> local.spec.image, done |-> FALSE] \in [image : AnyImage, done : BOOLEAN]
      BY <1>k
    <3>. QED
      BY <1>k, <2>1, <3>1 DEF DBTypes
  <2>. QED
    BY <1>k, <2>2, <2>3 DEF DBTypes
<1>. QED
  BY <1>k, <1>1, <1>2, Frame DEF DBTypes

(* What Cyborg writes for its children is a configuration.                 *)
LEMMA ChildTypesStep == Types /\ PlanInv' /\ [Next]_vars => ChildTypes'
<1> SUFFICES ASSUME Types, PlanInv', [Next]_vars PROVE ChildTypes'
  OBVIOUS
<1>k. /\ ChildTypes /\ PlanInv /\ kind' = kind /\ kind \in PeerKinds
      /\ local.spec \in Specs /\ local.spec.image \in Images
  BY Frame, Constants DEF Types, CRTypes, LocalTypes, Specs
<1>c. /\ ConfigOf(local.spec) \in Configs /\ Configs \subseteq AnyConfig /\ Images \subseteq AnyImage
  BY <1>k, ConfigTypes DEF AnyConfig, AnyImage
<1>n. NoChild \in ChildType
  BY DEF NoChild, ChildType, AnyImage, AnyConfig
<1>1. secret' \in AnyConfig /\ (secret \in Configs => secret' \in Configs)
  BY <1>k, <1>c, Frame DEF ChildTypes, WriteConfig
<1> DEFINE GoodChild(c) == /\ c \in ChildType
                           /\ c.ready => c.applied \in Configs
                           /\ c # NoChild => secret' \in Configs /\ c.image \in Images
<1>2. /\ child \in [Children -> ChildType] /\ \A v \in Children : GoodChild(child[v])
  BY <1>k, <1>1 DEF ChildTypes
<1>3. GoodChild(NoChild)
  BY <1>n DEF NoChild
<1>4. child' \in [Children -> ChildType] /\ \A v \in Children : GoodChild(child'[v])
  <2> HIDE DEF GoodChild
  <2>0. ASSUME NEW w \in Children, NEW c, GoodChild(c), child' = [child EXCEPT ![w] = c]
        PROVE  <1>4
    <3>1. c \in ChildType
      BY <2>0 DEF GoodChild
    <3>. QED
      BY <1>2, <2>0, <3>1
  <2>1. CASE UNCHANGED child
    BY <1>2, <2>1
  <2>2. CASE Collect
    BY <1>n, <1>3, <2>2 DEF Collect
  <2>3. CASE Delete \/ Patch
    BY <2>1, <2>2, <2>3 DEF Delete, Patch
  <2>4. ASSUME NEW w \in Children, ChildReconciles(w) PROVE <1>4
    <3>1. /\ child' = [child EXCEPT ![w] = Report(w)] /\ child[w] # NoChild /\ child[w] \in ChildType
          /\ secret \in Configs /\ child[w].image \in Images /\ UNCHANGED secret
      BY <1>k, <2>4 DEF ChildReconciles, ChildTypes
    <3>2. /\ Report(w) \in ChildType /\ Report(w).image = child[w].image
          /\ Report(w).ready => Report(w).applied = secret
      BY <1>c, <3>1 DEF Report, ChildType
    <3>3. GoodChild(Report(w))
      BY <1>1, <3>1, <3>2 DEF GoodChild
    <3>. QED
      BY <2>0, <3>1, <3>3
  <2>5. ASSUME NEW w \in Children, EnsureChild(w) PROVE <1>4
    <3> DEFINE c == [child[w] EXCEPT !.image = local.spec.image]
    <3>1. child' = [child EXCEPT ![w] = c] /\ At(w) /\ UNCHANGED secret
      BY <1>k, <2>5 DEF EnsureChild, ChildTypes
    <3>2. secret \in Configs
      <4>1. Ahead(w) /\ \A a : <<a, w>> \in Precedes(kind) => ~Ahead(a)
        BY <1>k, <3>1, Onwards
      <4>2. kind = "Cyborg"
        BY <1>k, <3>1, Onwards DEF MainOps, DropOps, CommonOps, PeerKinds, Children
      <4>. QED
        BY <1>k, <4>1, <4>2, CyborgOrder DEF ChildTypes, Children
    <3>3. c \in ChildType /\ c.image \in Images /\ c.ready = child[w].ready
          /\ c.applied = child[w].applied
      BY <1>k, <1>c DEF ChildTypes, ChildType
    <3>4. GoodChild(c)
      BY <1>2, <3>1, <3>2, <3>3 DEF GoodChild
    <3>. QED
      BY <2>0, <3>1, <3>4
  <2>6. ASSUME NEW w \in Children, ChildFails(w) PROVE <1>4
    <3> DEFINE c == [child[w] EXCEPT !.ready = FALSE]
    <3>1. child' = [child EXCEPT ![w] = c] /\ child[w] # NoChild
      BY <1>k, <2>6 DEF ChildFails, ChildTypes
    <3>2. GoodChild(c)
      BY <1>2, <3>1 DEF GoodChild, ChildType
    <3>. QED
      BY <2>0, <3>1, <3>2
  <2>. QED
    BY <2>1, <2>3, <2>4, <2>5, <2>6, Frame
<1>5. cached' \in [Children -> ChildType]
  <2>1. cached \in [Children -> ChildType]
    BY <1>k DEF ChildTypes
  <2>. QED
    BY <1>2, <1>4, <2>1, Frame DEF Restart, CacheSync, EnsureChild
<1>6. ASSUME Ahead("CyborgAPI")' \/ Ahead("CyborgConductor")'
      PROVE  Ahead("writeConfig")' \/ secret' \in Configs
  <2>1. PICK a \in Children : Ahead(a)'
    BY <1>6 DEF Children
  <2>2. CASE Begin /\ Ops(todo') = MainOps(kind) \cup {"patch"}
    BY <2>2 DEF Ahead, MainOps, CommonOps
  <2>3. CASE a \in DropOps(kind)
    BY <2>3 DEF DropOps, Children
  <2>4. CASE Ahead(a) /\ \A b : Ahead(b) => Ahead(b)' \/ (b = Head(todo).op /\ Does(b))
    <3>1. Ahead("writeConfig") \/ secret \in Configs
      BY <1>k, <2>1, <2>4 DEF ChildTypes, Children
    <3>2. ASSUME WriteConfig PROVE secret' \in Configs
      <4>1. kind = "Cyborg"
        BY <1>k, <2>1, <2>4 DEF PlanInv, Ahead, MainOps, DropOps, CommonOps, Children, PeerKinds
      <4>. QED
        BY <1>c, <3>2, <4>1 DEF WriteConfig
    <3>. QED
      BY <1>1, <2>4, <3>1, <3>2 DEF Does
  <2>. QED
    BY <2>1, <2>2, <2>3, <2>4, AheadBefore DEF Children
<1>. QED
  BY <1>1, <1>4, <1>5, <1>6 DEF ChildTypes


LEMMA PodTypesStep == Types /\ [Next]_vars => PodTypes'
<1> SUFFICES ASSUME Types, [Next]_vars PROVE PodTypes'
  OBVIOUS
<1>k. PodTypes /\ ChildTypes /\ local.spec \in Specs
  BY DEF Types, LocalTypes
<1>c. /\ ConfigOf(local.spec) \in Configs /\ ConfigOf(local.spec) \in AnyConfig
      /\ local.spec.image \in Images
  BY <1>k, ConfigTypes DEF Specs
<1>t. \A c \in Configs, i \in Images : TemplateOf(c, i) \in AnyTemplate
  BY DEF TemplateOf, AnyTemplate, Templates
<1>n. NoTemplate \in AnyTemplate /\ NoTemplate.config \in AnyConfig /\ NoConfig \in AnyConfig
  BY DEF NoTemplate, AnyTemplate, AnyConfig
<1>w. Children \subseteq Workloads /\ "PlacementAPI" \in Workloads
  BY DEF Workloads
<1>1. mounted' \in [Workloads -> AnyConfig]
  <2>1. \/ UNCHANGED mounted
        \/ \E w \in Workloads, c \in AnyConfig : mounted' = [mounted EXCEPT ![w] = c]
    BY <1>k, <1>c, <1>w, Frame DEF WriteConfig, ChildReconciles, ChildFails, ChildTypes
  <2>. QED
    BY <1>k, <2>1 DEF PodTypes
<1>2. template' \in [Workloads -> AnyTemplate]
  <2>1. CASE UNCHANGED template
    BY <1>k, <2>1 DEF PodTypes
  <2>2. CASE Collect
    BY <1>n, <2>2 DEF Collect
  <2>3. CASE Delete \/ Patch
    BY <2>1, <2>2, <2>3 DEF Delete, Patch
  <2>4. ASSUME Deploy \/ \E w \in Children : ChildReconciles(w)
        PROVE  \E w \in Workloads, t \in AnyTemplate : template' = [template EXCEPT ![w] = t]
    BY <1>k, <1>c, <1>t, <1>w, <2>4 DEF Deploy, ChildReconciles, ChildTypes
  <2>. QED
    BY <1>k, <2>1, <2>3, <2>4, Frame DEF PodTypes
<1>3. pod' \in [Workloads -> [template : AnyTemplate, config : AnyConfig]]
  <2>1. CASE UNCHANGED pod
    BY <1>k, <2>1 DEF PodTypes
  <2>2. CASE Collect
    BY <1>n, <2>2 DEF Collect, NoPod
  <2>3. CASE Delete \/ Patch
    BY <2>1, <2>2, <2>3 DEF Delete, Patch
  <2>4. ASSUME NEW w \in Workloads, RollOut(w) \/ PodRestarts(w)
        PROVE  pod' \in [Workloads -> [template : AnyTemplate, config : AnyConfig]]
    <3>1. \E t \in AnyTemplate, c \in AnyConfig :
             pod' = [pod EXCEPT ![w] = [template |-> t, config |-> c]]
      BY <1>k, <2>4 DEF RollOut, PodRestarts, NewPod, PodTypes
    <3>. QED
      BY <1>k, <3>1 DEF PodTypes
  <2>. QED
    BY <2>1, <2>3, <2>4, Frame
<1>. QED
  BY <1>1, <1>2, <1>3 DEF PodTypes

LEMMA TypesStep == Types /\ [Next]_vars => Types'
  BY CRTypesStep, LocalTypesStep, FinTypesStep, DBTypesStep, ChildTypesStep, PodTypesStep, PlanStep
  DEF Types

LEMMA TypesGiveTypeOK == Types => TypeOK
<1> SUFFICES ASSUME Types PROVE TypeOK
  OBVIOUS
<1> USE DEF Types
<1>1. CRTypes => /\ kind \in KindChoices
                 /\ cr \in [life : {"live", "deleting", "gone"}, fin : BOOLEAN, spec : Specs]
                 /\ status.pending \subseteq Conditions[kind] \cup {"Ready"}
                 /\ status.cred \in Creds \cup {NoCred} /\ status.synced \in Images \cup {0}
                 /\ status.hash \in AnyConfig /\ status.applied \in AnyConfig
  BY DEF CRTypes, AnyCred, AnyImage
<1>2. FinTypes => credFins \subseteq Creds /\ accFins \subseteq Accounts
  BY DEF FinTypes
<1>3. DBTypes => schema \in Images \cup {0} /\ job.image \in Images \cup {0}
  BY DEF DBTypes, AnyImage
<1>4. ChildTypes => /\ secret \in AnyConfig
                    /\ \A w \in Children : child[w].ready => child[w].applied \in Configs
  BY DEF ChildTypes
<1>5. PodTypes => \A w \in Workloads :
          /\ mounted[w] \in Configs \cup {NoConfig}
          /\ template[w] \in Templates \cup {NoTemplate}
          /\ pod[w].template \in Templates \cup {NoTemplate}
          /\ pod[w].config \in Configs \cup {NoConfig}
  BY DEF PodTypes, AnyTemplate, AnyConfig
<1>. QED
  BY <1>1, <1>2, <1>3, <1>4, <1>5 DEF TypeOK, AnyConfig

(* What a step does to the copy of the CR.                                 *)
LEMMA LocalFrame ==
  ASSUME Types, [Next]_vars, Working, ~Stops
  PROVE  /\ local'.spec = local.spec /\ local'.fresh = local.fresh /\ UNCHANGED <<cr, status>>
         /\ local'.fin = local.fin \/ DropFinalizer
         /\ local'.cred = local.cred \/ ReleaseCredential
         /\ local'.synced = local.synced \/ SyncDB
         /\ local'.applied = local.applied \/ \E w \in Children : EnsureChild(w)
         /\ \/ Workloads \cap local.pending \subseteq local'.pending
            \/ RolledOut \/ \E w \in Children : EnsureChild(w)
<1>k. /\ local \in [spec : Specs, fin : BOOLEAN, pending : SUBSET Conditions[kind],
               cred : AnyCred, hash : AnyConfig, synced : AnyImage, applied : AnyConfig,
               fresh : BOOLEAN]
      /\ todo # <<>> /\ ~Stops /\ UNCHANGED crVars /\ PlanInv
  BY DEF Types, LocalTypes, Working
<1>1. local'.spec = local.spec /\ local'.fresh = local.fresh /\ UNCHANGED <<cr, status>>
  BY <1>k DEF Working, crVars
<1>2. CASE UNCHANGED local
  BY <1>1, <1>2
<1>3. CASE RecordHash \/ WriteConfig
  <2>1. "Input" \notin Workloads
    BY DEF Workloads, Children
  <2>2. local' = [local EXCEPT !.hash = local'.hash, !.pending = local'.pending]
        /\ Workloads \cap local.pending \subseteq local'.pending
    BY <1>k, <1>3, <2>1 DEF RecordHash, WriteConfig, MarkTrue
  <2>. QED
    BY <1>k, <1>1, <2>2
<1>4. CASE HoldCredential \/ EnsureKeystoneService \/ EnsureKeystoneEndpoint
  <2>1. {"ServiceConfig", "KeystoneService", "KeystoneEndpoint"} \cap Workloads = {}
    BY DEF Workloads, Children
  <2>2. local' = [local EXCEPT !.pending = local'.pending]
        /\ Workloads \cap local.pending \subseteq local'.pending
    BY <1>k, <1>4, <2>1 DEF HoldCredential, EnsureKeystoneService, EnsureKeystoneEndpoint, MarkTrue
  <2>. QED
    BY <1>k, <1>1, <2>2
<1>5. CASE SyncDB
  <2>1. "DBSync" \notin Workloads
    BY DEF Workloads, Children
  <2>2. local' = [local EXCEPT !.synced = local'.synced, !.pending = local'.pending]
        /\ Workloads \cap local.pending \subseteq local'.pending
    BY <1>k, <1>5, <2>1 DEF SyncDB
  <2>. QED
    BY <1>5, <1>k, <1>1, <2>2
<1>6. CASE RolledOut
  BY <1>6, <1>k, <1>1 DEF RolledOut, MarkTrue, MarkFalse
<1>7. CASE \E w \in Children : EnsureChild(w)
  BY <1>7, <1>k, <1>1 DEF EnsureChild
<1>8. CASE ReleaseCredential
  BY <1>8, <1>k, <1>1 DEF ReleaseCredential
<1>9. CASE DropFinalizer
  BY <1>9, <1>k, <1>1 DEF DropFinalizer
<1>10. CASE MakeObject \/ NeedInputs
  <2>0. todo \in Seq(StepOf(kind))
    BY <1>k DEF PlanInv
  <2>1. \A i \in DOMAIN todo : todo[i].then \cap Workloads = {}
    BY <2>0 DEF StepOf
  <2>2. DOMAIN todo = 1 .. Len(todo) /\ Len(todo) \in Nat \ {0} /\ Head(todo) = todo[1]
    BY <1>k, <2>0
  <2>3. ASSUME MakeObject PROVE Workloads \cap local.pending \subseteq local'.pending
    BY <1>k, <2>1, <2>2, <2>3 DEF MakeObject, MarkTrue
  <2>4. \A n \in Nat : n <= Len(todo) => ThenOf(n) \cap Workloads = {}
    BY <2>1, <2>2 DEF ThenOf
  <2>5. ASSUME NeedInputs PROVE Workloads \cap local.pending \subseteq local'.pending
    <3>1. CASE /\ todo' = SubSeq(todo, Cardinality(Leading) + 1, Len(todo))
               /\ MarkTrue(ThenOf(Cardinality(Leading)))
      <4>1. Cardinality(Leading) \in 0 .. Len(todo)
        BY <1>k, <3>1, ReadsOn DEF crVars
      <4>2. ThenOf(Cardinality(Leading)) \cap Workloads = {}
        BY <2>2, <2>4, <4>1
      <4>3. local'.pending = local.pending \ ThenOf(Cardinality(Leading))
        BY <1>k, <3>1 DEF MarkTrue
      <4>. QED
        BY <4>2, <4>3
    <3>2. ASSUME NEW n \in Leading,
                 local' = [local EXCEPT !.pending = (@ \ ThenOf(n - 1)) \cup {todo[n].cond}]
          PROVE  Workloads \cap local.pending \subseteq local'.pending
      <4>1. n - 1 \in Nat /\ n - 1 <= Len(todo)
        BY <2>2 DEF Leading
      <4>2. local'.pending = (local.pending \ ThenOf(n - 1)) \cup {todo[n].cond}
        BY <1>k, <3>2
      <4>. QED
        BY <2>4, <4>1, <4>2
    <3>. QED
      BY <2>5, <3>1, <3>2 DEF NeedInputs
  <2>6. local' = [local EXCEPT !.pending = local'.pending]
    BY <1>10 DEF MakeObject, NeedInputs, MarkTrue
  <2>. QED
    BY <1>k, <1>1, <1>10, <2>3, <2>5, <2>6
<1>11. CASE Edit
  BY <1>11, <1>k, <1>1 DEF Edit
<1>. QED
  BY <1>k, <1>2, <1>3, <1>4, <1>5, <1>6, <1>7, <1>8, <1>9, <1>10, <1>11
  DEF Next, vars, workVars, Fault, Reconcile, Progress, Delete, JobDone, Arrives, KeystoneReady,
      ChildReconciles, CacheSync, RollOut, PodRestarts, CallFails, ChildFails, HoldAccount, Deploy,
      ReleaseAccounts, DropDatabase, DropKeystone, DropCredentials, Begin, Patch, PatchFails,
      Restart, Stops

(* What becomes of one child and of one workload.                          *)
Gone == Collect /\ cr'.life = "gone"

LEMMA ChildChanges ==
  ASSUME Types, [Next]_vars, NEW w \in Children
  PROVE  \/ child'[w] = child[w]
         \/ Gone /\ child'[w] = NoChild
         \/ ChildReconciles(w) /\ child'[w] = Report(w)
         \/ EnsureChild(w) /\ child'[w] = [child[w] EXCEPT !.image = local.spec.image]
         \/ ChildFails(w) /\ child'[w] = [child[w] EXCEPT !.ready = FALSE]
<1>k. child \in [Children -> ChildType] /\ cr.life \in {"live", "deleting", "gone"}
      /\ cr \in [life : {"live", "deleting", "gone"}, fin : BOOLEAN, spec : Specs]
  BY DEF Types, ChildTypes, CRTypes
<1>1. CASE Delete \/ Patch
  <2>1. UNCHANGED child \/ Gone
    BY <1>1, <1>k DEF Delete, Patch, Gone
  <2>. QED
    BY <2>1 DEF Gone, Collect
<1>2. ASSUME NEW v \in Children, ChildReconciles(v) \/ EnsureChild(v) \/ ChildFails(v)
      PROVE  \/ child'[w] = child[w]
             \/ ChildReconciles(w) /\ child'[w] = Report(w)
             \/ EnsureChild(w) /\ child'[w] = [child[w] EXCEPT !.image = local.spec.image]
             \/ ChildFails(w) /\ child'[w] = [child[w] EXCEPT !.ready = FALSE]
  <2>1. CASE v = w
    BY <1>2, <1>k, <2>1 DEF ChildReconciles, EnsureChild, ChildFails
  <2>2. CASE v # w
    BY <1>2, <1>k, <2>2 DEF ChildReconciles, EnsureChild, ChildFails
  <2>. QED
    BY <2>1, <2>2
<1>. QED
  BY <1>1, <1>2, Frame

LEMMA CachedChanges ==
  ASSUME Types, [Next]_vars, NEW w \in Children
  PROVE  \/ cached'[w] = cached[w]
         \/ (CacheSync(w) \/ Restart) /\ cached'[w] = child[w]
         \/ EnsureChild(w) /\ cached'[w] = child'[w]
<1>k. cached \in [Children -> ChildType]
  BY DEF Types, ChildTypes
<1>1. ASSUME NEW v \in Children, CacheSync(v) \/ EnsureChild(v)
      PROVE  \/ cached'[w] = cached[w]
             \/ CacheSync(w) /\ cached'[w] = child[w]
             \/ EnsureChild(w) /\ cached'[w] = child'[w]
  <2>1. CASE v = w
    BY <1>1, <1>k, <2>1 DEF CacheSync, EnsureChild
  <2>2. CASE v # w
    BY <1>1, <1>k, <2>2 DEF CacheSync, EnsureChild
  <2>. QED
    BY <2>1, <2>2
<1>. QED
  BY <1>1, Frame DEF Restart

LEMMA MountedChanges ==
  ASSUME Types, [Next]_vars, NEW w \in Workloads
  PROVE  \/ mounted'[w] = mounted[w]
         \/ /\ WriteConfig /\ kind = "PlacementAPI" /\ w = "PlacementAPI"
            /\ mounted'[w] = ConfigOf(local.spec)
         \/ w \in Children /\ (ChildReconciles(w) \/ ChildFails(w)) /\ mounted'[w] = secret
<1>k. mounted \in [Workloads -> AnyConfig] /\ Children \subseteq Workloads
  BY DEF Types, PodTypes, Workloads
<1>1. CASE WriteConfig
  BY <1>1, <1>k DEF WriteConfig
<1>2. ASSUME NEW v \in Children, ChildReconciles(v) \/ ChildFails(v)
      PROVE  \/ mounted'[w] = mounted[w]
             \/ w \in Children /\ (ChildReconciles(w) \/ ChildFails(w)) /\ mounted'[w] = secret
  BY <1>2, <1>k DEF ChildReconciles, ChildFails
<1>. QED
  BY <1>1, <1>2, Frame

LEMMA TemplateChanges ==
  ASSUME Types, [Next]_vars, NEW w \in Workloads
  PROVE  \/ template'[w] = template[w]
         \/ Gone /\ template'[w] = NoTemplate
         \/ /\ Deploy /\ w = "PlacementAPI"
            /\ template'[w] = TemplateOf(ConfigOf(local.spec), local.spec.image)
         \/ /\ w \in Children /\ ChildReconciles(w)
            /\ template'[w] = TemplateOf(secret, child[w].image)
<1>k. template \in [Workloads -> AnyTemplate] /\ Children \subseteq Workloads
      /\ cr \in [life : {"live", "deleting", "gone"}, fin : BOOLEAN, spec : Specs]
  BY DEF Types, PodTypes, Workloads, CRTypes
<1>1. CASE Delete \/ Patch
  <2>1. UNCHANGED template \/ Gone
    BY <1>1, <1>k DEF Delete, Patch, Gone
  <2>. QED
    BY <2>1 DEF Gone, Collect
<1>2. CASE Deploy
  BY <1>2, <1>k DEF Deploy
<1>3. ASSUME NEW v \in Children, ChildReconciles(v)
      PROVE  \/ template'[w] = template[w]
             \/ /\ w \in Children /\ ChildReconciles(w)
                /\ template'[w] = TemplateOf(secret, child[w].image)
  BY <1>3, <1>k DEF ChildReconciles
<1>. QED
  BY <1>1, <1>2, <1>3, Frame

LEMMA PodChanges ==
  ASSUME Types, [Next]_vars, NEW w \in Workloads
  PROVE  \/ pod'[w] = pod[w]
         \/ Gone /\ pod'[w] = NoPod
         \/ RollOut(w) /\ pod'[w] = NewPod(w, template[w])
         \/ PodRestarts(w) /\ pod'[w] = NewPod(w, pod[w].template)
<1>k. pod \in [Workloads -> [template : AnyTemplate, config : AnyConfig]]
      /\ cr \in [life : {"live", "deleting", "gone"}, fin : BOOLEAN, spec : Specs]
  BY DEF Types, PodTypes, CRTypes
<1>1. CASE Delete \/ Patch
  <2>1. UNCHANGED pod \/ Gone
    BY <1>1, <1>k DEF Delete, Patch, Gone
  <2>. QED
    BY <2>1 DEF Gone, Collect
<1>2. ASSUME NEW v \in Workloads, RollOut(v) \/ PodRestarts(v)
      PROVE  \/ pod'[w] = pod[w]
             \/ RollOut(w) /\ pod'[w] = NewPod(w, template[w])
             \/ PodRestarts(w) /\ pod'[w] = NewPod(w, pod[w].template)
  BY <1>2, <1>k DEF RollOut, PodRestarts
<1>. QED
  BY <1>1, <1>2, Frame

-----------------------------------------------------------------------------
(* Deletion.                                                               *)
Takes == {"account", "holdCredential", "keystoneService", "keystoneEndpoint"}

(* Nothing more is held, unless a step that takes hold is ahead.           *)
LEMMA NothingTaken ==
  ASSUME Types, [Next]_vars, \A op \in Takes : ~Ahead(op)
  PROVE  /\ credFins' \subseteq credFins /\ accFins' \subseteq accFins /\ (dbFin' => dbFin)
         /\ keystone.service.fin' => keystone.service.fin
         /\ keystone.endpoint.fin' => keystone.endpoint.fin
<1>0. \A op \in Takes : ~At(op)
  BY Onwards DEF Types
<1>1. credFins' \subseteq credFins
  BY <1>0, Frame DEF Takes, HoldCredential, ReleaseCredential, DropCredentials
<1>2. accFins' \subseteq accFins
  BY <1>0, Frame DEF Takes, HoldAccount, ReleaseAccounts, DropDatabase
<1>3. dbFin' => dbFin
  BY <1>0, Frame DEF Takes, HoldAccount, DropDatabase
<1>4. /\ keystone.service.fin' => keystone.service.fin
      /\ keystone.endpoint.fin' => keystone.endpoint.fin
  <2>1. keystone.service \in ObjectType /\ keystone.endpoint \in ObjectType
        /\ keystone \in [service : ObjectType, endpoint : ObjectType]
    BY DEF Types, FinTypes
  <2>2. \/ UNCHANGED keystone
        \/ \E o \in {"service", "endpoint"} : \/ keystone' = [keystone EXCEPT ![o].fin = FALSE]
                                           \/ keystone' = [keystone EXCEPT ![o].ready = TRUE]
    BY <1>0, Frame DEF Takes, EnsureKeystoneService, EnsureKeystoneEndpoint, DropKeystone,
       KeystoneReady, KeystoneObjects
  <2>. QED
    BY <2>1, <2>2 DEF ObjectType
<1>. QED
  BY <1>1, <1>2, <1>3, <1>4

LEMMA FinalizerFirstStep ==
  ASSUME Types, Types', FinalizerFirst, Dropped, [Next]_vars
  PROVE  FinalizerFirst'
<1>k. kind \in PeerKinds /\ kind' = kind /\ cr.fin \in BOOLEAN /\ local.fin \in BOOLEAN
      /\ cr.life \in {"live", "deleting", "gone"}
      /\ cr \in [life : {"live", "deleting", "gone"}, fin : BOOLEAN, spec : Specs]
      /\ local \in [spec : Specs, fin : BOOLEAN, pending : SUBSET Conditions[kind],
               cred : AnyCred, hash : AnyConfig, synced : AnyImage, applied : AnyConfig,
               fresh : BOOLEAN]
      /\ PlanInv
  BY Frame, Constants DEF Types, CRTypes, LocalTypes
<1>1. /\ (cr.life = "deleting" => cr.fin)'
      /\ (cr.life = "gone" => ~cr.fin)'
      /\ cr'.life = "live" /\ ~cr'.fin => cr.life = "live" /\ ~cr.fin
      /\ ~cr'.fin => ~cr.fin \/ todo' = <<>>
  <2>1. CASE Edit
    BY <1>k, <2>1 DEF Edit, FinalizerFirst
  <2>2. CASE Delete
    BY <1>k, <2>2 DEF Delete, FinalizerFirst
  <2>3. CASE Patch
    <3>1. todo # <<>> /\ todo' = <<>>
      BY <2>3 DEF Patch, At
    <3>2. CASE cr.life = "gone"
      BY <2>3, <3>1, <3>2 DEF Patch, FinalizerFirst
    <3>3. CASE cr.life = "deleting" /\ ~local.fin
      BY <1>k, <2>3, <3>1, <3>3 DEF Patch
    <3>4. CASE cr.life # "gone" /\ local.fin
      BY <1>k, <2>3, <3>1, <3>4 DEF Patch
    <3>5. CASE cr.life = "live" /\ ~local.fin
      BY <1>k, <3>1, <3>5 DEF Dropped
    <3>. QED
      BY <1>k, <3>2, <3>3, <3>4, <3>5
  <2>4. CASE UNCHANGED cr
    BY <2>4 DEF FinalizerFirst
  <2>. QED
    BY <2>1, <2>2, <2>3, <2>4, Frame
<1>2. ASSUME ~cr.fin PROVE /\ NothingHeld /\ cr.life = "live" => NothingHeld'
                           /\ Ops(todo') \subseteq {"patch"}
  <2>1. Ops(todo) \subseteq {"patch"}
    BY <1>2 DEF FinalizerFirst
  <2>2. \A op \in Takes : ~Ahead(op)
    BY <2>1 DEF Takes, Ahead
  <2>3. \A a : a # "patch" => ~Ahead(a)'
    <3> SUFFICES ASSUME NEW a, a # "patch", Ahead(a)' PROVE FALSE
      OBVIOUS
    <3>1. ~Ahead(a)
      BY <2>1 DEF Ahead
    <3>. QED
      BY <1>2, <3>1, AheadBefore DEF FinalizerFirst, AddsFinalizer, Types, CRTypes
  <2>. QED
    BY <2>2, <2>3, NothingTaken DEF NothingHeld, Ahead
<1>3. ASSUME kind = "Cyborg" PROVE ~keystone'.endpoint.fin
  <2>1. ~At("keystoneEndpoint")
    BY <1>k, <1>3, Onwards DEF MainOps, DropOps, CommonOps
  <2>2. /\ ~keystone.endpoint.fin
        /\ keystone.service \in ObjectType /\ keystone.endpoint \in ObjectType
        /\ keystone \in [service : ObjectType, endpoint : ObjectType]
    BY <1>3 DEF FinalizerFirst, Types, FinTypes
  <2>3. \/ UNCHANGED keystone
        \/ keystone' = [keystone EXCEPT !["service"].fin = TRUE]
        \/ \E o \in {"service", "endpoint"} : \/ keystone' = [keystone EXCEPT ![o].fin = FALSE]
                                           \/ keystone' = [keystone EXCEPT ![o].ready = TRUE]
    BY <2>1, Frame DEF EnsureKeystoneService, EnsureKeystoneEndpoint, DropKeystone,
       KeystoneReady, KeystoneObjects
  <2>. QED
    BY <2>2, <2>3 DEF ObjectType
<1>. QED
  BY <1>1, <1>2, <1>3, <1>k DEF FinalizerFirst, Ops

LEMMA DroppedStep ==
  ASSUME Types, Types', FinalizerFirst, Dropped, [Next]_vars
  PROVE  Dropped'
<1> DEFINE dropping == Ahead("dropFinalizer") \/ (todo # <<>> /\ ~local.fin)
<1>k. kind \in PeerKinds /\ kind' = kind /\ cr.fin \in BOOLEAN /\ local.fin \in BOOLEAN
      /\ cr.life \in {"live", "deleting", "gone"}
      /\ cr \in [life : {"live", "deleting", "gone"}, fin : BOOLEAN, spec : Specs]
      /\ local \in [spec : Specs, fin : BOOLEAN, pending : SUBSET Conditions[kind],
               cred : AnyCred, hash : AnyConfig, synced : AnyImage, applied : AnyConfig,
               fresh : BOOLEAN]
      /\ PlanInv
  BY Frame, Constants DEF Types, CRTypes, LocalTypes
<1>t. dropping => \A op \in Takes : ~Ahead(op)
  BY DEF Dropped, Ahead, DropOps, Takes
<1>1. CASE UNCHANGED <<todo, local>>
  <2> SUFFICES ASSUME dropping PROVE Dropped'
    BY <1>1 DEF Dropped, Ahead, Ops
  <2>1. UNCHANGED cr
    <3>1. ~Edit /\ ~Delete
      BY DEF Edit, Delete, Dropped
    <3>2. ~Patch
      BY <1>1 DEF Patch, At
    <3>. QED
      BY <3>1, <3>2, Frame
  <2>2. /\ credFins' \subseteq credFins /\ accFins' \subseteq accFins /\ (dbFin' => dbFin)
        /\ keystone.service.fin' => keystone.service.fin
        /\ keystone.endpoint.fin' => keystone.endpoint.fin
    BY <1>t, NothingTaken
  <2>. QED
    BY <1>1, <1>k, <2>1, <2>2 DEF Dropped, Ahead, AccHeld, Ops
<1>2. CASE Edit
  <2>1. ~dropping
    BY <1>2 DEF Edit, Dropped
  <2>2. ~dropping'
    BY <1>2, <1>k, <2>1 DEF Edit, Ahead, Ops
  <2>. QED
    BY <2>2 DEF Dropped
<1>3. CASE Begin /\ cr.life # "gone"
  <2>1. Ops(todo') = IF cr.life = "deleting" THEN DropOps(kind) \cup {"patch"}
                     ELSE IF AddsFinalizer THEN {"patch"}
                     ELSE MainOps(kind) \cup {"patch"}
    BY <1>3, <1>k, ProgramPlan DEF Begin, IsPlan
  <2>2. local'.spec = cr.spec /\ UNCHANGED cr /\ local'.fin
    <3>1. cr.fin \/ AddsFinalizer
      BY <1>3, <1>k DEF FinalizerFirst, AddsFinalizer
    <3>. QED
      <4>1. local' = [spec |-> cr.spec, fin |-> cr.fin \/ AddsFinalizer,
                      pending |-> Conditions[kind], cred |-> status.cred, hash |-> status.hash,
                      synced |-> status.synced, applied |-> status.applied, fresh |-> TRUE]
            /\ UNCHANGED cr
        BY <1>3 DEF Begin, crVars
      <4>2. (cr.fin \/ AddsFinalizer) = TRUE
        BY <3>1
      <4>. QED
        BY <4>1, <4>2
  <2>3. CASE cr.life # "deleting"
    <3>1. ~Ahead("dropFinalizer")'
      BY <2>1, <2>3 DEF Ahead, MainOps, CommonOps
    <3>. QED
      BY <2>2, <3>1 DEF Dropped
  <2>4. CASE cr.life = "deleting"
    <3>1. /\ \A op \in {"dropFinalizer", "dropDatabase", "dropService", "dropCredentials"} : Ahead(op)'
          /\ kind = "PlacementAPI" => Ahead("dropEndpoint")'
          /\ Ops(todo') = DropOps(kind) \cup {"patch"}
      BY <2>1, <2>4 DEF Ahead, DropOps
    <3>2. kind = "Cyborg" => ~keystone'.endpoint.fin
      BY <1>3 DEF Begin, finVars, FinalizerFirst
    <3>. QED
      BY <1>k, <2>2, <2>4, <3>1, <3>2 DEF Dropped, PeerKinds
  <2>. QED
    BY <2>3, <2>4
<1>4. CASE Begin /\ cr.life = "gone"
  <2>1. UNCHANGED <<todo, local>>
    BY <1>4 DEF Begin
  <2>. QED
    BY <1>1, <2>1
<1>5. CASE Stops
  BY <1>5 DEF Stops, Dropped, Ahead, Ops
<1>6. CASE Working /\ todo' # <<>>
  <2> SUFFICES ASSUME dropping' PROVE Dropped'
    BY DEF Dropped
  <2>1. /\ local'.spec = local.spec /\ UNCHANGED cr
        /\ local'.fin = local.fin \/ DropFinalizer
        /\ local'.cred = local.cred \/ ReleaseCredential
    BY <1>6, LocalFrame DEF Stops
  <2>2. dropping
    <3>1. Ahead("dropFinalizer")' => Ahead("dropFinalizer")
      BY <1>6, AheadBefore DEF Begin, Working
    <3>2. DropFinalizer => Ahead("dropFinalizer")
      BY <1>k, Onwards DEF DropFinalizer
    <3>. QED
      BY <1>6, <2>1, <3>1, <3>2 DEF Working
  <2>3. /\ credFins' \subseteq credFins /\ accFins' \subseteq accFins /\ (dbFin' => dbFin)
        /\ keystone.service.fin' => keystone.service.fin
        /\ keystone.endpoint.fin' => keystone.endpoint.fin
    BY <1>t, <2>2, NothingTaken
  <2>4. UNCHANGED local.cred
    <3>1. ~Ahead("releaseCredential")
      BY <2>2 DEF Dropped, Ahead, DropOps
    <3>. QED
      BY <1>k, <2>1, <3>1, Onwards DEF ReleaseCredential
  <2>5. Ops(todo') \subseteq Ops(todo) \cup {"patch"} /\ Ops(todo) \subseteq DropOps(kind) \cup {"patch"}
    BY <1>6, <2>2 DEF Working, Dropped
  <2>6. CASE DropFinalizer
    <3>1. Ops(todo) = Ops(todo') \cup {"dropFinalizer"}
      BY <1>k, <2>6, Onwards DEF DropFinalizer
    <3>2. \A op \in DropOps(kind) \ {"dropFinalizer"} : ~Ahead(op)
      <4>1. \A op \in DropOps(kind) \ {"dropFinalizer"} : <<op, "dropFinalizer">> \in Precedes(kind)
        BY DEF Precedes
      <4>. QED
        BY <1>k, <2>6, <4>1, Onwards DEF DropFinalizer
    <3>3. ~Ahead("dropDatabase") /\ ~Ahead("dropService") /\ ~Ahead("dropCredentials")
          /\ (kind = "PlacementAPI" => ~Ahead("dropEndpoint"))
      BY <3>2 DEF DropOps
    <3>4. Ops(todo) \subseteq {"dropFinalizer", "patch"}
      BY <2>5, <3>2 DEF Ahead
    <3>. QED
      BY <1>k, <2>1, <2>2, <2>3, <2>4, <3>1, <3>3, <3>4 DEF Dropped, Ahead, AccHeld, DropOps
  <2>7. CASE UNCHANGED local.fin /\ Ops(todo') = {"patch"}
    <3>1. ~local.fin
      BY <1>k, <2>7 DEF Ahead
    <3>. QED
      BY <1>k, <1>6, <2>1, <2>2, <2>3, <2>4, <2>7, <3>1 DEF Dropped, Ahead, AccHeld, Working
  <2>8. CASE UNCHANGED local.fin /\ Ops(todo') # {"patch"}
    <3>0. Ops(todo') \subseteq Ops(todo)
      BY <1>6, <2>8 DEF Working
    <3>1. CASE ~local.fin
      BY <1>k, <2>1, <2>2, <2>3, <2>4, <2>5, <2>8, <3>0, <3>1 DEF Dropped, Ahead, AccHeld
    <3>2. CASE local.fin
      <4>1. Ahead("dropFinalizer")'
        BY <2>8, <3>2
      <4>2. \A b : Ahead(b) => Ahead(b)' \/ (b = Head(todo).op /\ Does(b))
        BY <1>6, <4>1, AheadBefore DEF Begin, Working
      <4>3. DropDatabase => ~dbFin' /\ ~AccHeld(local.spec)'
        BY <2>1 DEF DropDatabase, AccHeld
      <4>4. DropKeystone("dropEndpoint", "endpoint") => ~keystone'.endpoint.fin
        BY DEF DropKeystone, Types, FinTypes, ObjectType
      <4>5. DropKeystone("dropService", "service") => ~keystone'.service.fin
        BY DEF DropKeystone, Types, FinTypes, ObjectType
      <4>6. DropCredentials => /\ {local'.cred, local'.spec.cred} \cap credFins' = {}
                               /\ kind = "Cyborg" => credFins' = {}
        BY <2>1, <2>4 DEF DropCredentials
      <4>7. Ahead("dropDatabase")' \/ (~dbFin' /\ ~AccHeld(local.spec)')
        BY <2>1, <2>2, <2>3, <4>2, <4>3 DEF Does, Dropped, AccHeld
      <4>8. Ahead("dropEndpoint")' \/ ~keystone'.endpoint.fin
        BY <2>2, <2>3, <4>2, <4>4 DEF Does, Dropped
      <4>9. Ahead("dropService")' \/ ~keystone'.service.fin
        BY <2>2, <2>3, <4>2, <4>5 DEF Does, Dropped
      <4>10. Ahead("dropCredentials")' \/
                 ({local'.cred, local'.spec.cred} \cap credFins' = {} /\ (kind = "Cyborg" => credFins' = {}))
        BY <2>1, <2>2, <2>3, <2>4, <4>2, <4>6 DEF Does, Dropped
      <4>. QED
        BY <1>k, <2>1, <2>2, <2>5, <2>8, <3>0, <3>2, <4>1, <4>7, <4>8, <4>9, <4>10
        DEF Dropped, AccHeld
    <3>. QED
      BY <1>k, <3>1, <3>2
  <2>. QED
    BY <2>1, <2>6, <2>7, <2>8
<1>7. CASE todo' = <<>>
  BY <1>7 DEF Dropped, Ahead, Ops
<1>. QED
  BY <1>1, <1>2, <1>3, <1>4, <1>5, <1>6, <1>7, Turns


LEMMA DeletionLeavesStep ==
  ASSUME Types, Types', FinalizerFirst, Dropped, DeletionLeavesNothing, [Next]_vars
  PROVE  DeletionLeavesNothing'
<1>k. kind \in PeerKinds /\ kind' = kind /\ PlanInv
      /\ cr \in [life : {"live", "deleting", "gone"}, fin : BOOLEAN, spec : Specs]
  BY Frame, Constants DEF Types, CRTypes
<1>1. CASE cr.life = "gone"
  <2>1. ~cr.fin /\ Ops(todo) \subseteq {"patch"}
    BY <1>1 DEF FinalizerFirst
  <2>2. \A op \in Takes : ~Ahead(op)
    BY <2>1 DEF Takes, Ahead
  <2>3. UNCHANGED <<cr, status>>
    BY <1>1, Frame DEF Edit, Delete, Patch
  <2>. QED
    BY <1>1, <1>k, <2>2, <2>3, NothingTaken DEF DeletionLeavesNothing
<1>2. CASE Delete
  <2>1. CASE cr.fin
    BY <1>2, <1>k, <2>1 DEF Delete, DeletionLeavesNothing
  <2>2. CASE ~cr.fin
    <3>1. NothingHeld
      BY <1>2, <2>2 DEF Delete, FinalizerFirst
    <3>. QED
      BY <1>2, <3>1 DEF Delete, NothingHeld, finVars, DeletionLeavesNothing
  <2>. QED
    BY <2>1, <2>2
<1>3. CASE Patch /\ cr.life # "gone"
  <2> SUFFICES ASSUME cr'.life = "gone" PROVE DeletionLeavesNothing'
    BY DEF DeletionLeavesNothing
  <2>1. cr.life = "deleting" /\ ~local.fin /\ todo # <<>>
    BY <1>3, <1>k DEF Patch, At
  <2>2. \A op \in DropOps(kind) : ~Ahead(op)
    <3>1. \A op \in DropOps(kind) : <<op, "patch">> \in Precedes(kind)
      BY DEF Precedes
    <3>. QED
      BY <1>3, <1>k, <3>1, Onwards DEF Patch
  <2>3. ~Ahead("dropDatabase") /\ ~Ahead("dropService") /\ ~Ahead("dropCredentials")
    BY <2>2 DEF DropOps
  <2>4. ~Ahead("dropEndpoint") \/ kind = "Cyborg"
    BY <1>k, <2>2 DEF DropOps, PeerKinds
  <2>5. UNCHANGED <<credFins, accFins, dbFin, keystone>> /\ cr'.spec = cr.spec
        /\ status'.cred = local.cred
    <3>1. /\ cr' = [cr EXCEPT !.life = "gone", !.fin = FALSE] /\ status' = Outcome
          /\ UNCHANGED <<credFins, accFins, dbFin, keystone>>
      BY <1>3, <2>1 DEF Patch, finVars
    <3>. QED
      BY <1>k, <3>1 DEF Outcome
  <2>. QED
    BY <1>k, <2>1, <2>3, <2>4, <2>5 DEF Dropped, DeletionLeavesNothing, FinalizerFirst, AccHeld
<1>4. CASE cr.life # "gone" /\ UNCHANGED cr.life
  BY <1>4 DEF DeletionLeavesNothing
<1>. QED
  BY <1>1, <1>2, <1>3, <1>4, <1>k, Frame DEF Edit

-----------------------------------------------------------------------------
(* The schema.                                                             *)
LEMMA ImagesSyncedStep ==
  ASSUME Types, Types', ImagesSynced, [Next]_vars
  PROVE  ImagesSynced'
<1>k. /\ kind \in PeerKinds /\ PlanInv /\ schema \in Nat /\ schema' \in Nat
      /\ local.spec.image \in Nat /\ status.synced \in Nat /\ local.synced \in Nat
      /\ job \in [image : AnyImage, done : BOOLEAN] /\ job.image \in Nat /\ AnyImage \subseteq Nat
      /\ local \in [spec : Specs, fin : BOOLEAN, pending : SUBSET Conditions[kind],
               cred : AnyCred, hash : AnyConfig, synced : AnyImage, applied : AnyConfig,
               fresh : BOOLEAN]
      /\ status \in [pending : SUBSET (Conditions[kind] \cup {"Ready"}), cred : AnyCred,
                   hash : AnyConfig, synced : AnyImage, applied : AnyConfig, seen : BOOLEAN]
  <2>1. AnyImage \subseteq Nat /\ Images \subseteq AnyImage
    BY Constants DEF AnyImage, Images
  <2>. QED
    BY <2>1, Constants DEF Types, CRTypes, LocalTypes, DBTypes, Specs
<1>s. schema <= schema'
  BY <1>k, Frame DEF JobDone
<1>1. ASSUME SyncDB
      PROVE  /\ UNCHANGED schema
             /\ Ops(todo') = {"patch"} \/ local.spec.image <= schema
             /\ local'.synced <= schema
             /\ job' = job \/ ~job'.done
  <2>1. UNCHANGED schema
    BY <1>1 DEF SyncDB
  <2>2. CASE local.synced = local.spec.image \/ job = [image |-> local.spec.image, done |-> TRUE]
    <3>1. local.spec.image <= schema
      BY <1>k, <2>2 DEF ImagesSynced
    <3>2. local' = [local EXCEPT !.synced = local.spec.image, !.pending = @ \ {"DBSync"}] /\ job' = job
      BY <1>1, <2>2 DEF SyncDB
    <3>. QED
      BY <1>k, <2>1, <3>1, <3>2
  <2>3. CASE ~(local.synced = local.spec.image \/ job = [image |-> local.spec.image, done |-> TRUE])
    BY <1>1, <1>k, <2>1, <2>3, SavePlan DEF SyncDB, End, IsPlan, ImagesSynced
  <2>. QED
    BY <2>1, <2>2, <2>3
<1>2. status'.synced <= schema'
  <2>1. CASE Patch /\ cr.life # "gone"
    BY <1>k, <1>s, <2>1 DEF Patch, Outcome, ImagesSynced
  <2>2. CASE Edit
    BY <1>k, <1>s, <2>2 DEF Edit, ImagesSynced
  <2>3. CASE UNCHANGED status
    BY <1>k, <1>s, <2>3 DEF ImagesSynced
  <2>. QED
    BY <2>1, <2>2, <2>3, Frame DEF Patch
<1>3. local'.synced <= schema'
  <2>1. CASE Begin
    BY <1>k, <1>s, <2>1 DEF Begin, ImagesSynced
  <2>2. CASE Edit
    BY <1>k, <1>s, <2>2 DEF Edit, ImagesSynced
  <2>3. CASE local' = Idle
    BY <1>k, <2>3 DEF Idle
  <2>4. CASE Working /\ ~Stops
    BY <1>k, <1>s, <1>1, <2>4, LocalFrame DEF ImagesSynced
  <2>5. CASE UNCHANGED local
    BY <1>k, <1>s, <2>5 DEF ImagesSynced
  <2>. QED
    BY <2>1, <2>2, <2>3, <2>4, <2>5, Turns DEF Stops
<1>4. job'.done => job'.image <= schema'
  <2>1. CASE JobDone
    BY <1>k, <2>1 DEF JobDone
  <2>2. CASE job' = job \/ ~job'.done
    BY <1>k, <1>s, <2>2 DEF ImagesSynced
  <2>. QED
    BY <1>1, <2>1, <2>2, Frame
<1>5. ASSUME NEW op \in {"deploy", "CyborgAPI", "CyborgConductor"}, Ahead(op)'
      PROVE  Ahead("dbSync")' \/ local'.spec.image <= schema'
  <2>1. CASE Begin /\ Ops(todo') = MainOps(kind) \cup {"patch"}
    BY <2>1 DEF Ahead, MainOps, CommonOps
  <2>2. CASE op \in DropOps(kind)
    BY <2>2 DEF DropOps
  <2>3. CASE /\ Ahead(op) /\ local'.spec = local.spec
             /\ \A b : Ahead(b) => Ahead(b)' \/ (b = Head(todo).op /\ Does(b))
    <3>1. CASE local.spec.image <= schema
      BY <1>k, <1>s, <2>3, <3>1
    <3>2. CASE Ahead("dbSync")
      <4>1. ASSUME SyncDB PROVE local.spec.image <= schema
        BY <1>1, <1>5, <4>1 DEF Ahead
      <4>. QED
        BY <1>k, <1>s, <2>3, <3>2, <4>1 DEF Does
    <3>. QED
      BY <2>3, <3>1, <3>2 DEF ImagesSynced
  <2>. QED
    BY <1>5, <2>1, <2>2, <2>3, AheadBefore
<1>6. ASSUME NEW w \in Children PROVE child'[w].image <= schema'
  <2>0. child[w].image \in Nat /\ child[w].image <= schema /\ child[w] \in ChildType
    BY <1>k DEF Types, ChildTypes, ChildType, ImagesSynced
  <2>2. \/ child'[w].image \in {child[w].image, 0}
        \/ EnsureChild(w) /\ child'[w].image = local.spec.image
    <3>1. Report(w).image = child[w].image
      BY <2>0 DEF Report, ChildType
    <3>. QED
      <4>1. \/ child'[w] \in {child[w], NoChild, Report(w), [child[w] EXCEPT !.ready = FALSE]}
            \/ EnsureChild(w) /\ child'[w] = [child[w] EXCEPT !.image = local.spec.image]
        BY ChildChanges
      <4>2. /\ NoChild.image = 0 /\ [child[w] EXCEPT !.ready = FALSE].image = child[w].image
            /\ [child[w] EXCEPT !.image = local.spec.image].image = local.spec.image
        BY <2>0 DEF NoChild, ChildType
      <4>. QED
        BY <3>1, <4>1, <4>2
  <2>1. CASE EnsureChild(w)
    <3>1. Ahead(w) /\ kind = "Cyborg" /\ ~Ahead("dbSync")
      <4>1. Ahead(w) /\ \A a : <<a, w>> \in Precedes(kind) => ~Ahead(a)
        BY <1>k, <2>1, Onwards DEF EnsureChild
      <4>2. kind = "Cyborg"
        BY <1>k, <2>1, Onwards DEF EnsureChild, MainOps, DropOps, CommonOps, PeerKinds, Children
      <4>. QED
        BY <4>1, <4>2, CyborgOrder
    <3>2. local.spec.image <= schema
      BY <3>1 DEF ImagesSynced, Children
    <3>. QED
      BY <1>k, <1>s, <2>0, <2>2, <3>2
  <2>. QED
    BY <1>k, <1>s, <2>0, <2>1, <2>2
<1>7. ASSUME NEW w \in Workloads PROVE template'[w].image <= schema'
  <2>0. template[w].image \in Nat /\ template[w].image <= schema
    BY <1>k DEF Types, PodTypes, AnyTemplate, Templates, NoTemplate, ImagesSynced, AnyImage
  <2>3. \/ template'[w].image \in {template[w].image, 0}
        \/ Deploy /\ template'[w].image = local.spec.image
        \/ w \in Children /\ template'[w].image = child[w].image
    <3>1. \/ template'[w] \in {template[w], NoTemplate}
          \/ Deploy /\ template'[w] = TemplateOf(ConfigOf(local.spec), local.spec.image)
          \/ w \in Children /\ template'[w] = TemplateOf(secret, child[w].image)
      BY TemplateChanges
    <3>2. /\ NoTemplate.image = 0
          /\ TemplateOf(ConfigOf(local.spec), local.spec.image).image = local.spec.image
          /\ TemplateOf(secret, child[w].image).image = child[w].image
      BY DEF NoTemplate, TemplateOf
    <3>. QED
      BY <3>1, <3>2
  <2>4. w \in Children => child[w].image \in Nat /\ child[w].image <= schema
    BY <1>k DEF Types, ChildTypes, ChildType, ImagesSynced
  <2>1. CASE Deploy
    <3>1. Ahead("deploy") /\ kind = "PlacementAPI" /\ ~Ahead("dbSync")
      <4>1. Ahead("deploy") /\ \A a : <<a, "deploy">> \in Precedes(kind) => ~Ahead(a)
        BY <1>k, <2>1, Onwards DEF Deploy
      <4>2. kind = "PlacementAPI"
        BY <1>k, <2>1, Onwards DEF Deploy, MainOps, DropOps, CommonOps, PeerKinds
      <4>. QED
        BY <4>1, <4>2, PlacementOrder
    <3>2. local.spec.image <= schema
      BY <3>1 DEF ImagesSynced
    <3>. QED
      BY <1>k, <1>s, <3>2, <2>3, <2>0, <2>4
  <2>. QED
    BY <1>k, <1>s, <2>0, <2>1, <2>3, <2>4
<1>8. ASSUME NEW w \in Workloads PROVE pod'[w].template.image <= schema'
  <2>1. /\ template[w].image \in Nat /\ template[w].image <= schema
        /\ pod[w].template.image \in Nat /\ pod[w].template.image <= schema
    BY <1>k DEF Types, PodTypes, AnyTemplate, Templates, NoTemplate, ImagesSynced, AnyImage
  <2>. QED
    <3>1. pod'[w].template.image \in {pod[w].template.image, template[w].image, 0}
      <4>1. pod'[w] \in {pod[w], NoPod, NewPod(w, template[w]), NewPod(w, pod[w].template)}
        BY PodChanges
      <4>. QED
        BY <4>1 DEF NewPod, NoPod, NoTemplate
    <3>. QED
      BY <1>k, <1>s, <2>1, <3>1
<1>. QED
  BY <1>2, <1>3, <1>4, <1>5, <1>6, <1>7, <1>8 DEF ImagesSynced

-----------------------------------------------------------------------------
(* The chain of copies.                                                    *)
LEMMA Numbers ==
  /\ \A c \in AnyConfig : c.cred \in Nat /\ c.account \in Nat
  /\ \A s \in Specs : /\ s.cred \in Nat /\ s.account \in Nat \ {0} /\ s.image \in Nat \ {0}
                      /\ ConfigOf(s).cred = s.cred /\ ConfigOf(s).account = s.account
                      /\ ConfigOf(s) \in AnyConfig
  /\ \A t \in AnyTemplate : t.config \in AnyConfig /\ t.image \in Nat
<1>1. MaxCred \in Nat /\ MaxAccount \in Nat /\ MaxImage \in Nat
  BY Constants
<1>2. \A c \in AnyConfig : c.cred \in Nat /\ c.account \in Nat
  BY <1>1 DEF AnyConfig, Configs, NoConfig, Creds, NoCred, Accounts
<1>3. \A s \in Specs : /\ s.cred \in Nat /\ s.account \in Nat \ {0} /\ s.image \in Nat \ {0}
                      /\ ConfigOf(s).cred = s.cred /\ ConfigOf(s).account = s.account
  BY <1>1 DEF Specs, ConfigOf, Creds, NoCred, Accounts, Images
<1>4. \A t \in AnyTemplate : t.config \in AnyConfig /\ t.image \in Nat
  BY <1>1 DEF AnyTemplate, Templates, NoTemplate, Images, AnyConfig
<1>. QED
  BY <1>2, <1>3, <1>4, ConfigTypes

LEMMA Order ==
  /\ \A a \in AnyConfig : a \preceq a /\ NoConfig \preceq a
  /\ \A a, b, c \in AnyConfig : a \preceq b /\ b \preceq c => a \preceq c
  /\ \A a, b \in AnyConfig : a \preceq b /\ b \preceq a => a = b
<1>1. /\ \A a \in AnyConfig : a \preceq a /\ NoConfig \preceq a
      /\ \A a, b, c \in AnyConfig : a \preceq b /\ b \preceq c => a \preceq c
  BY Numbers DEF \preceq, NoConfig, NoCred
<1>2. ASSUME NEW a \in AnyConfig, NEW b \in AnyConfig, a \preceq b, b \preceq a
      PROVE  a = b
  <2>1. a.cred = b.cred /\ a.account = b.account
    BY <1>2, Numbers DEF \preceq
  <2>2. /\ a = [cred |-> a.cred, account |-> a.account]
        /\ b = [cred |-> b.cred, account |-> b.account]
    BY DEF AnyConfig, Configs, NoConfig
  <2>. QED
    BY <2>1, <2>2
<1>. QED
  BY <1>1, <1>2

(* The types again, as the proofs below use them.                          *)
LEMMA Shapes ==
  ASSUME Types
  PROVE  /\ kind \in PeerKinds /\ PlanInv
         /\ cr \in [life : {"live", "deleting", "gone"}, fin : BOOLEAN, spec : Specs]
         /\ cr.spec \in Specs /\ local.spec \in Specs
         /\ secret \in AnyConfig /\ status.applied \in AnyConfig /\ local.applied \in AnyConfig
         /\ \A w \in Workloads :
               /\ mounted[w] \in AnyConfig /\ template[w] \in AnyTemplate
               /\ template[w].config \in AnyConfig /\ pod[w].config \in AnyConfig
               /\ pod[w].template \in AnyTemplate /\ pod[w].template.config \in AnyConfig
               /\ pod[w].template.image \in Nat /\ template[w].image \in Nat
         /\ \A w \in Children : /\ child[w].applied \in AnyConfig /\ cached[w].applied \in AnyConfig
                                /\ child[w] \in ChildType /\ cached[w] \in ChildType
                                /\ w \in Workloads
<1>1. kind \in PeerKinds
  BY Constants DEF Types, CRTypes
<1>2. /\ PlanInv /\ cr \in [life : {"live", "deleting", "gone"}, fin : BOOLEAN, spec : Specs]
      /\ local.spec \in Specs /\ status.applied \in AnyConfig /\ local.applied \in AnyConfig
      /\ secret \in AnyConfig
  BY DEF Types, CRTypes, LocalTypes, ChildTypes
<1>3. \A w \in Workloads : /\ mounted[w] \in AnyConfig /\ template[w] \in AnyTemplate
                           /\ pod[w].config \in AnyConfig /\ pod[w].template \in AnyTemplate
  BY DEF Types, PodTypes
<1>4. \A w \in Children : /\ child[w].applied \in AnyConfig /\ cached[w].applied \in AnyConfig
                          /\ child[w] \in ChildType /\ cached[w] \in ChildType
  BY DEF Types, ChildTypes, ChildType
<1>5. Children \subseteq Workloads
  BY DEF Workloads
<1>. QED
  BY <1>1, <1>2, <1>3, <1>4, <1>5, Numbers

LEMMA SpecGrows ==
  ASSUME Types, [Next]_vars
  PROVE  /\ ConfigOf(cr.spec) \preceq ConfigOf(cr'.spec) /\ cr.spec.image <= cr'.spec.image
         /\ cr'.spec = cr.spec \/ Edit
<1>1. cr.spec \in Specs /\ cr \in [life : {"live", "deleting", "gone"}, fin : BOOLEAN, spec : Specs]
  BY Shapes
<1>2. CASE Edit
  <2>1. cr.spec.cred \in Nat /\ cr.spec.account \in Nat /\ cr.spec.image \in Nat
    BY <1>1, Numbers
  <2>. QED
    BY <1>1, <1>2, <2>1 DEF Edit, ConfigOf, \preceq, Specs
<1>3. CASE cr'.spec = cr.spec
  BY <1>1, <1>3, Numbers, Order
<1>4. CASE Delete
  BY <1>1, <1>3, <1>4 DEF Delete
<1>5. CASE Patch
  <2>1. \/ cr' = cr \/ cr' = [cr EXCEPT !.life = "gone", !.fin = FALSE]
        \/ cr' = [cr EXCEPT !.fin = local.fin]
    BY <1>5 DEF Patch
  <2>. QED
    BY <1>1, <1>3, <2>1
<1>. QED
  BY <1>2, <1>3, <1>4, <1>5, Frame

LEMMA CopyBehindStep ==
  ASSUME Types, Types', CopyBehind, [Next]_vars
  PROVE  CopyBehind'
<1>k. /\ cr.spec \in Specs /\ local.spec \in Specs /\ cr'.spec \in Specs
      /\ ConfigOf(cr.spec) \in AnyConfig /\ ConfigOf(local.spec) \in AnyConfig
      /\ ConfigOf(cr'.spec) \in AnyConfig /\ ConfigOf(local'.spec) \in AnyConfig
      /\ cr.spec.image \in Nat /\ local.spec.image \in Nat /\ cr'.spec.image \in Nat
      /\ local \in [spec : Specs, fin : BOOLEAN, pending : SUBSET Conditions[kind],
               cred : AnyCred, hash : AnyConfig, synced : AnyImage, applied : AnyConfig,
               fresh : BOOLEAN]
      /\ status \in [pending : SUBSET (Conditions[kind] \cup {"Ready"}), cred : AnyCred,
                   hash : AnyConfig, synced : AnyImage, applied : AnyConfig, seen : BOOLEAN]
  <2>1. cr.spec \in Specs /\ local.spec \in Specs /\ cr'.spec \in Specs /\ local'.spec \in Specs
    BY DEF Types, CRTypes, LocalTypes
  <2>. QED
    BY <2>1, Numbers DEF Types, CRTypes, LocalTypes
<1>g. ConfigOf(cr.spec) \preceq ConfigOf(cr'.spec) /\ cr.spec.image <= cr'.spec.image
  BY SpecGrows
<1>1. CASE UNCHANGED <<todo, local>> /\ ~Edit
  <2>1. cr'.spec = cr.spec
    BY <1>1, SpecGrows
  <2>2. status'.seen => status.seen \/ todo' = <<>>
    BY <1>1, Frame DEF Patch
  <2>. QED
    BY <1>1, <2>1, <2>2 DEF CopyBehind
<1>2. CASE Edit
  <2>1. todo' = todo /\ local'.spec = local.spec /\ ~local'.fresh /\ ~status'.seen
    BY <1>2, <1>k DEF Edit
  <2>. QED
    BY <1>k, <1>g, <2>1, Order DEF CopyBehind
<1>3. CASE Begin
  <2>1. CASE cr.life = "gone"
    BY <1>1, <1>3, <2>1 DEF Begin, Edit
  <2>2. CASE cr.life # "gone"
    <3>1. local'.spec = cr.spec /\ local'.fresh /\ UNCHANGED cr
      BY <1>3, <2>2 DEF Begin, crVars
    <3>. QED
      BY <1>k, <3>1, Order DEF CopyBehind
  <2>. QED
    BY <2>1, <2>2
<1>4. CASE Stops
  BY <1>4 DEF Stops, CopyBehind
<1>5. CASE Working /\ ~Stops
  <2>1. local'.spec = local.spec /\ local'.fresh = local.fresh /\ UNCHANGED <<cr, status>> /\ todo # <<>>
    BY <1>5, LocalFrame DEF Working
  <2>. QED
    BY <2>1 DEF CopyBehind
<1>. QED
  BY <1>1, <1>2, <1>3, <1>4, <1>5, Turns

LEMMA WritesBehindStep ==
  ASSUME Types, Types', CopyBehind, CopyBehind', WritesBehind, [Next]_vars
  PROVE  WritesBehind'
<1>k. /\ secret \in AnyConfig /\ mounted["PlacementAPI"] \in AnyConfig
      /\ ConfigOf(cr.spec) \in AnyConfig /\ ConfigOf(local.spec) \in AnyConfig
      /\ ConfigOf(cr'.spec) \in AnyConfig /\ ConfigOf(local'.spec) \in AnyConfig
      /\ local \in [spec : Specs, fin : BOOLEAN, pending : SUBSET Conditions[kind],
               cred : AnyCred, hash : AnyConfig, synced : AnyImage, applied : AnyConfig,
               fresh : BOOLEAN]
      /\ "PlacementAPI" \in Workloads
  <2>1. cr'.spec \in Specs /\ local'.spec \in Specs
    BY DEF Types, CRTypes, LocalTypes
  <2>. QED
    BY <2>1, Shapes, Numbers DEF Types, LocalTypes, Workloads
<1>1. CASE WriteConfig
  <2>1. /\ todo # <<>> /\ local'.spec = local.spec /\ cr' = cr
        /\ \A written \in {secret', mounted'["PlacementAPI"]} :
              written \in {secret, mounted["PlacementAPI"], ConfigOf(local.spec)}
    BY <1>1, <1>k DEF WriteConfig, At, crVars, MarkTrue, Types, PodTypes
  <2>. QED
    BY <1>k, <2>1, Order DEF WritesBehind, CopyBehind
<1>2. CASE UNCHANGED <<secret, mounted["PlacementAPI"]>>
  <2>g. ConfigOf(cr.spec) \preceq ConfigOf(cr'.spec)
    BY SpecGrows
  <2>1. \A written \in {secret, mounted["PlacementAPI"]} : written \preceq ConfigOf(cr'.spec)
    BY <1>k, <2>g, Order DEF WritesBehind
  <2>2. CASE todo' = <<>> \/ (todo # <<>> /\ local'.spec = local.spec)
    BY <1>2, <2>1, <2>2 DEF WritesBehind
  <2>3. CASE local'.spec = cr'.spec
    BY <1>2, <2>1, <2>3 DEF WritesBehind
  <2>4. CASE Begin
    <3>1. CASE cr.life = "gone"
      BY <2>2, <2>4, <3>1 DEF Begin
    <3>2. CASE cr.life # "gone"
      <4>1. local'.spec = cr.spec /\ cr' = cr
        BY <2>4, <3>2 DEF Begin, crVars
      <4>. QED
        BY <2>3, <4>1
    <3>. QED
      BY <3>1, <3>2
  <2>5. CASE Edit
    <3>1. local'.spec = local.spec /\ todo' = todo
      BY <1>k, <2>5 DEF Edit
    <3>. QED
      BY <2>2, <3>1
  <2>6. CASE Working /\ ~Stops
    BY <2>2, <2>6, LocalFrame DEF Working
  <2>. QED
    BY <2>2, <2>4, <2>5, <2>6, Turns DEF Stops
<1>3. ~WriteConfig => UNCHANGED <<secret, mounted["PlacementAPI"]>>
  BY <1>k, Frame, MountedChanges DEF Children
<1>. QED
  BY <1>1, <1>2, <1>3

LEMMA PlacementStep ==
  ASSUME Types, NEW op \in {"deploy", "rolledOut"}, At(op) \/ Ahead(op)
  PROVE  kind = "PlacementAPI"
<1>1. op \in MainOps(kind) \cup DropOps(kind) \cup {"patch"} /\ kind \in PeerKinds
  <2>1. At(op) => Ahead(op)
    BY Onwards, Shapes
  <2>. QED
    BY <2>1, Shapes DEF PlanInv, Ahead
<1>. QED
  BY <1>1 DEF MainOps, DropOps, CommonOps, PeerKinds

LEMMA CyborgStep ==
  ASSUME Types, NEW op \in Children, At(op) \/ Ahead(op)
  PROVE  kind = "Cyborg"
<1>1. op \in MainOps(kind) \cup DropOps(kind) \cup {"patch"} /\ kind \in PeerKinds
  <2>1. At(op) => Ahead(op)
    BY Onwards, Shapes
  <2>. QED
    BY <2>1, Shapes DEF PlanInv, Ahead
<1>. QED
  BY <1>1 DEF MainOps, DropOps, CommonOps, PeerKinds, Children

LEMMA WrittenFirstStep ==
  ASSUME Types, Types', WritesBehind, WrittenFirst, [Next]_vars
  PROVE  WrittenFirst'
<1> SUFFICES ASSUME Ahead("deploy")', ~Ahead("writeConfig")'
             PROVE  ConfigOf(local'.spec) \preceq mounted'["PlacementAPI"]
  BY DEF WrittenFirst
<1>k. /\ "PlacementAPI" \in Workloads /\ "PlacementAPI" \notin Children
      /\ ConfigOf(local.spec) \in AnyConfig /\ mounted["PlacementAPI"] \in AnyConfig
  BY Shapes, Numbers DEF Workloads, Children
<1>1. CASE Begin /\ Ops(todo') = MainOps(kind) \cup {"patch"}
  BY <1>1 DEF Ahead, MainOps, CommonOps
<1>2. CASE "deploy" \in DropOps(kind)
  BY <1>2 DEF DropOps
<1>3. CASE /\ Ahead("deploy") /\ local'.spec = local.spec
           /\ \A b : Ahead(b) => Ahead(b)' \/ (b = Head(todo).op /\ Does(b))
  <2>1. CASE WriteConfig
    <3>1. kind = "PlacementAPI"
      BY <1>3, PlacementStep
    <3>2. mounted'["PlacementAPI"] = ConfigOf(local.spec)
      BY <1>k, <2>1, <3>1 DEF WriteConfig, Types, PodTypes
    <3>. QED
      BY <1>k, <1>3, <3>2, Order
  <2>2. CASE ~WriteConfig
    <3>1. mounted'["PlacementAPI"] = mounted["PlacementAPI"]
      BY <1>k, <2>2, MountedChanges
    <3>2. ~Ahead("writeConfig")
      BY <1>3, <2>2 DEF Does
    <3>. QED
      BY <1>3, <3>1, <3>2 DEF WrittenFirst
  <2>. QED
    BY <2>1, <2>2
<1>. QED
  BY <1>1, <1>2, <1>3, AheadBefore

LEMMA PodsBehindStep ==
  ASSUME Types, Types', WritesBehind, WrittenFirst, PodsBehind, [Next]_vars
  PROVE  PodsBehind'
<1> SUFFICES ASSUME NEW w \in Workloads
             PROVE  /\ pod'[w].template.config \preceq pod'[w].config
                    /\ pod'[w].template.config \preceq template'[w].config
                    /\ pod'[w].config \preceq mounted'[w]
                    /\ template'[w].config \preceq mounted'[w]
                    /\ w \in Children => mounted'[w] \preceq secret'
  BY DEF PodsBehind
<1>k. /\ mounted[w] \in AnyConfig /\ template[w].config \in AnyConfig /\ pod[w].config \in AnyConfig
      /\ pod[w].template.config \in AnyConfig /\ secret \in AnyConfig
      /\ mounted'[w] \in AnyConfig /\ secret' \in AnyConfig
      /\ ConfigOf(local.spec) \in AnyConfig /\ "PlacementAPI" \notin Children
      /\ NoConfig \in AnyConfig
  BY Shapes, Numbers DEF Types, PodTypes, ChildTypes, Children, AnyConfig
<1>p. /\ pod[w].template.config \preceq pod[w].config
      /\ pod[w].template.config \preceq template[w].config
      /\ pod[w].config \preceq mounted[w]
      /\ template[w].config \preceq mounted[w]
      /\ w \in Children => mounted[w] \preceq secret
  BY DEF PodsBehind
<1>s. secret \preceq secret'
  <2>1. WriteConfig => todo # <<>> /\ secret' \in {secret, ConfigOf(local.spec)}
    BY DEF WriteConfig, At
  <2>. QED
    BY <1>k, <2>1, Frame, Order DEF WritesBehind
<1>m. mounted[w] \preceq mounted'[w] /\ (w \in Children => mounted'[w] \preceq secret')
  <2>1. CASE mounted'[w] = mounted[w]
    BY <1>k, <1>p, <1>s, <2>1, Order
  <2>2. CASE w \in Children /\ mounted'[w] = secret
    BY <1>k, <1>p, <1>s, <2>2, Order
  <2>3. CASE WriteConfig /\ w = "PlacementAPI" /\ mounted'[w] = ConfigOf(local.spec)
    <3>1. todo # <<>>
      BY <2>3 DEF WriteConfig, At
    <3>. QED
      BY <1>k, <2>3, <3>1 DEF WritesBehind
  <2>. QED
    BY <2>1, <2>2, <2>3, MountedChanges
<1>t. \/ template'[w].config = NoConfig /\ pod'[w] = NoPod
      \/ /\ template[w].config \preceq template'[w].config /\ template'[w].config \in AnyConfig
         /\ template'[w].config \preceq mounted'[w]
  <2>1. CASE template'[w] = template[w]
    BY <1>k, <1>p, <1>m, <2>1, Order
  <2>2. CASE Gone /\ template'[w] = NoTemplate
    BY <2>2 DEF Gone, Collect, NoTemplate
  <2>3. CASE Deploy /\ w = "PlacementAPI" /\ template'[w] = TemplateOf(ConfigOf(local.spec), local.spec.image)
    <3>1. todo # <<>> /\ Ahead("deploy") /\ ~Ahead("writeConfig") /\ UNCHANGED mounted
      <4>1. /\ todo # <<>> /\ Ahead("deploy")
            /\ \A a : <<a, "deploy">> \in Precedes(kind) => ~Ahead(a)
        BY <2>3, Onwards, Shapes DEF Deploy
      <4>2. kind = "PlacementAPI"
        BY <2>3, PlacementStep DEF Deploy
      <4>. QED
        BY <2>3, <4>1, <4>2, PlacementOrder DEF Deploy
    <3>2. template'[w].config = ConfigOf(local.spec)
      BY <2>3 DEF TemplateOf
    <3>3. mounted[w] \preceq ConfigOf(local.spec) /\ ConfigOf(local.spec) \preceq mounted[w]
      BY <2>3, <3>1 DEF WritesBehind, WrittenFirst
    <3>. QED
      BY <1>k, <1>p, <3>1, <3>2, <3>3, Order
  <2>4. CASE /\ w \in Children /\ ChildReconciles(w)
             /\ template'[w] = TemplateOf(secret, child[w].image)
    <3>1. template'[w].config = secret
      BY <2>4 DEF TemplateOf
    <3>2. mounted'[w] = secret
      BY <2>4, Shapes DEF ChildReconciles, Types, PodTypes
    <3>. QED
      BY <1>k, <1>p, <2>4, <3>1, <3>2, Order
  <2>. QED
    BY <2>1, <2>2, <2>3, <2>4, TemplateChanges
<1>1. CASE pod'[w] = NoPod
  <2>1. pod'[w].template.config = NoConfig /\ pod'[w].config = NoConfig
    BY <1>1 DEF NoPod, NoTemplate
  <2>2. template'[w].config \in AnyConfig /\ template'[w].config \preceq mounted'[w]
    BY <1>k, <1>t, Order
  <2>. QED
    BY <1>k, <1>m, <2>1, <2>2, Order
<1>2. CASE pod'[w] = pod[w] /\ pod'[w] # NoPod
  BY <1>k, <1>p, <1>m, <1>t, <1>2, Order
<1>3. CASE (RollOut(w) \/ PodRestarts(w)) /\ pod'[w] # NoPod
  <2>1. UNCHANGED <<template, mounted>>
    BY <1>3 DEF RollOut, PodRestarts
  <2>2. \/ pod'[w] \in {pod[w], NoPod}
        \/ pod'[w] \in {NewPod(w, template[w]), NewPod(w, pod[w].template)}
    BY PodChanges
  <2>3. \A t : NewPod(w, t).template = t /\ NewPod(w, t).config = mounted[w]
    BY DEF NewPod
  <2>4. CASE pod'[w] = NewPod(w, template[w])
    BY <1>k, <1>p, <1>m, <2>1, <2>3, <2>4, Order
  <2>5. CASE pod'[w] = NewPod(w, pod[w].template)
    BY <1>k, <1>p, <1>m, <2>1, <2>3, <2>5, Order
  <2>. QED
    BY <1>2, <1>3, <2>2, <2>4, <2>5
<1>. QED
  BY <1>1, <1>2, <1>3, PodChanges

LEMMA PodGrows ==
  ASSUME Types, Types', PodsBehind, ImagesBehind, [Next]_vars, ~Gone, NEW w \in Workloads
  PROVE  /\ pod[w].template.config \preceq pod'[w].template.config
         /\ w = "PlacementAPI" => pod[w].template.image <= pod'[w].template.image
<1>k. /\ template[w].config \in AnyConfig /\ pod[w].template.config \in AnyConfig
      /\ pod[w].template.image \in Nat /\ template[w].image \in Nat
  BY Shapes
<1>1. pod'[w].template \in {pod[w].template, template[w]}
  <2>1. pod'[w] \in {pod[w], NewPod(w, template[w]), NewPod(w, pod[w].template)}
    BY PodChanges
  <2>2. \A t : NewPod(w, t).template = t
    BY DEF NewPod
  <2>. QED
    BY <2>1, <2>2
<1>. QED
  BY <1>k, <1>1, Order DEF PodsBehind, ImagesBehind

LEMMA ImagesBehindStep ==
  ASSUME Types, Types', CopyBehind, ImagesBehind, [Next]_vars
  PROVE  ImagesBehind'
<1> DEFINE w == "PlacementAPI"
<1>k. /\ w \in Workloads /\ w \notin Children
      /\ pod[w].template.image \in Nat /\ template[w].image \in Nat
      /\ pod'[w].template.image \in Nat /\ template'[w].image \in Nat
      /\ cr.spec.image \in Nat /\ local.spec.image \in Nat
      /\ cr'.spec.image \in Nat /\ local'.spec.image \in Nat
      /\ local \in [spec : Specs, fin : BOOLEAN, pending : SUBSET Conditions[kind],
               cred : AnyCred, hash : AnyConfig, synced : AnyImage, applied : AnyConfig,
               fresh : BOOLEAN]
  <2>1. /\ cr.spec \in Specs /\ local.spec \in Specs /\ cr'.spec \in Specs /\ local'.spec \in Specs
        /\ w \in Workloads /\ w \notin Children
    BY DEF Types, CRTypes, LocalTypes, Workloads, Children
  <2>2. pod'[w].template \in AnyTemplate /\ template'[w] \in AnyTemplate
    BY <2>1 DEF Types, PodTypes
  <2>. QED
    BY <2>1, <2>2, Shapes, Numbers DEF Types, LocalTypes
<1>g. cr.spec.image <= cr'.spec.image
  BY SpecGrows
<1>1. /\ template'[w].image <= cr'.spec.image
      /\ todo' # <<>> => template'[w].image <= local'.spec.image
  <2>1. CASE Deploy
    <3>1. todo # <<>> /\ UNCHANGED <<local, cr>>
      BY <2>1 DEF Deploy, At, crVars
    <3>2. template'[w].image = local.spec.image
      BY <1>k, <2>1 DEF Deploy, Types, PodTypes, TemplateOf
    <3>. QED
      BY <1>k, <3>1, <3>2 DEF CopyBehind
  <2>2. CASE template'[w].image <= template[w].image
    <3>1. template'[w].image <= cr'.spec.image
      BY <1>k, <1>g, <2>2 DEF ImagesBehind
    <3>2. CASE todo' = <<>> \/ (todo # <<>> /\ local'.spec = local.spec)
      BY <1>k, <2>2, <3>1, <3>2 DEF ImagesBehind
    <3>3. CASE Begin
      <4>1. CASE cr.life = "gone"
        BY <3>2, <3>3, <4>1 DEF Begin
      <4>2. CASE cr.life # "gone"
        <5>1. local'.spec = cr'.spec
          BY <3>3, <4>2 DEF Begin, crVars
        <5>. QED
          BY <3>1, <5>1
      <4>. QED
        BY <4>1, <4>2
    <3>4. CASE Edit
      <4>1. local'.spec = local.spec /\ todo' = todo
        BY <1>k, <3>4 DEF Edit
      <4>. QED
        BY <3>2, <4>1
    <3>5. CASE Working /\ ~Stops
      BY <3>2, <3>5, LocalFrame DEF Working
    <3>. QED
      BY <3>2, <3>3, <3>4, <3>5, Turns DEF Stops
  <2>3. CASE template'[w] \in {template[w], NoTemplate}
    <3>1. NoTemplate.image = 0
      BY DEF NoTemplate
    <3>. QED
      BY <1>k, <2>2, <2>3, <3>1
  <2>. QED
    BY <1>k, <2>1, <2>3, TemplateChanges
<1>2. pod'[w].template.image <= template'[w].image
  <2>1. CASE Gone /\ pod'[w] = NoPod
    BY <1>k, <2>1 DEF NoPod, NoTemplate
  <2>2. CASE pod'[w] = pod[w] /\ ~Gone
    <3>1. template[w].image <= template'[w].image
      <4>1. CASE Deploy
        <5>1. template'[w].image = local.spec.image /\ todo # <<>>
          BY <1>k, <4>1 DEF Deploy, Types, PodTypes, TemplateOf, At
        <5>. QED
          BY <1>k, <5>1 DEF ImagesBehind
      <4>. QED
        BY <1>k, <2>2, <4>1, TemplateChanges
    <3>. QED
      BY <1>k, <2>2, <3>1 DEF ImagesBehind
  <2>3. CASE (RollOut(w) \/ PodRestarts(w)) /\ pod'[w] # NoPod
    <3>1. UNCHANGED template
      BY <2>3 DEF RollOut, PodRestarts
    <3>2. pod'[w] \in {pod[w], NewPod(w, template[w]), NewPod(w, pod[w].template)}
      BY <1>k, <2>3, PodChanges
    <3>3. \A t : NewPod(w, t).template = t
      BY DEF NewPod
    <3>4. pod'[w].template \in {pod[w].template, template[w]}
      BY <3>2, <3>3
    <3>. QED
      BY <1>k, <3>1, <3>4 DEF ImagesBehind
  <2>4. CASE pod'[w] = NoPod
    BY <1>k, <2>4 DEF NoPod, NoTemplate
  <2>5. Gone => pod'[w] = NoPod
    BY <1>k DEF Gone, Collect
  <2>. QED
    BY <1>k, <2>1, <2>2, <2>3, <2>4, <2>5, PodChanges
<1>. QED
  BY <1>1, <1>2 DEF ImagesBehind

(* What a judged child has applied, its pods have reached.                 *)
LEMMA JudgedReached ==
  ASSUME Types, AppliedReached, ReadyReached, cr.life = "live",
         NEW w \in Children, EnsureChild(w), todo # <<>>
  PROVE  /\ kind = "Cyborg" /\ UNCHANGED pod
         /\ cached'[w].applied \preceq pod[w].template.config
         /\ \A v \in Children \ Judged(w) : Reaches(v, local.spec)
<1>1. kind = "Cyborg" /\ UNCHANGED pod
  <2>1. kind = "Cyborg"
    BY CyborgStep DEF EnsureChild
  <2>. QED
    BY <2>1 DEF EnsureChild, podVars
<1>2. cached'[w].applied \preceq pod[w].template.config
  <2>1. cached'[w] = cached[w] \/ cached'[w] = [child[w] EXCEPT !.image = local.spec.image]
    BY DEF EnsureChild, Types, ChildTypes
  <2>2. [child[w] EXCEPT !.image = local.spec.image].applied = child[w].applied
    BY Shapes DEF ChildType
  <2>3. cached'[w].applied \in {cached[w].applied, child[w].applied}
    BY <2>1, <2>2
  <2>. QED
    BY <2>3 DEF AppliedReached
<1>3. ASSUME NEW v \in Children \ Judged(w) PROVE Reaches(v, local.spec)
  <2>1. CASE v \notin local.pending
    BY <1>1, <2>1 DEF ReadyReached, WorkloadsOf
  <2>2. CASE v \in local.pending
    <3>1. v = w /\ InputApplied(cached'[w], ConfigOf(local.spec))
      BY <1>3, <2>2 DEF Judged
    <3>2. ConfigOf(local.spec) \preceq pod[v].template.config
      BY <1>2, <3>1 DEF InputApplied
    <3>. QED
      BY <1>1, <3>2 DEF Reaches
  <2>. QED
    BY <2>1, <2>2
<1>. QED
  BY <1>1, <1>2, <1>3

LEMMA AppliedReachedStep ==
  ASSUME Types, Types', CopyBehind, PodsBehind, ImagesBehind, AppliedReached, ReadyReached,
         [Next]_vars
  PROVE  AppliedReached'
<1>k. /\ kind \in PeerKinds /\ kind' = kind /\ WorkloadsOf[kind] \subseteq Workloads
      /\ Children \subseteq Workloads /\ NoConfig \in AnyConfig
      /\ \A w \in Workloads : pod[w].template.config \in AnyConfig /\ pod'[w].template.config \in AnyConfig
      /\ \A w \in Children : child[w].applied \in AnyConfig /\ cached[w].applied \in AnyConfig
      /\ status.applied \in AnyConfig /\ local.applied \in AnyConfig
      /\ ConfigOf(local.spec) \in AnyConfig
      /\ local \in [spec : Specs, fin : BOOLEAN, pending : SUBSET Conditions[kind],
               cred : AnyCred, hash : AnyConfig, synced : AnyImage, applied : AnyConfig,
               fresh : BOOLEAN]
      /\ status \in [pending : SUBSET (Conditions[kind] \cup {"Ready"}), cred : AnyCred,
                   hash : AnyConfig, synced : AnyImage, applied : AnyConfig, seen : BOOLEAN]
  <2>1. /\ WorkloadsOf["PlacementAPI"] = {"PlacementAPI"} /\ WorkloadsOf["Cyborg"] = Children
        /\ Children \subseteq Workloads /\ "PlacementAPI" \in Workloads
    BY DEF WorkloadsOf, Workloads
  <2>2. kind \in PeerKinds /\ WorkloadsOf[kind] \subseteq Workloads
    BY <2>1, Shapes DEF PeerKinds
  <2>3. \A w \in Workloads : pod'[w].template.config \in AnyConfig
    BY Numbers DEF Types, PodTypes
  <2>. QED
    BY <2>1, <2>2, <2>3, Shapes, Numbers, Frame DEF Types, CRTypes, LocalTypes, AnyConfig
<1>g. \A w \in Workloads : ~Gone => pod[w].template.config \preceq pod'[w].template.config
  BY PodGrows
(* The children. *)
<1>1. ASSUME NEW w \in Children PROVE child'[w].applied \preceq pod'[w].template.config
  <2>1. CASE Gone
    <3>1. child'[w] = NoChild
      BY <2>1 DEF Gone, Collect
    <3>. QED
      BY <1>k, <3>1, Order DEF NoChild
  <2>2. CASE ~Gone /\ child'[w].applied = child[w].applied
    BY <1>k, <1>g, <2>2, Order DEF AppliedReached
  <2>3. CASE ChildReconciles(w) /\ child'[w] = Report(w)
    <3> DEFINE t == TemplateOf(secret, child[w].image)
    <3>1. CASE IsReadyForInput(w, t)
      <4>1. child'[w].applied = secret /\ pod[w].template.config = secret /\ pod' = pod
        BY <2>3, <3>1 DEF Report, IsReadyForInput, TemplateOf, ChildReconciles
      <4>. QED
        BY <1>k, <4>1, Order DEF Types, ChildTypes
    <3>2. CASE ~IsReadyForInput(w, t)
      <4>1. child'[w].applied = child[w].applied
        BY <2>3, <3>2, Shapes DEF Report, ChildType
      <4>. QED
        BY <2>1, <2>2, <4>1
    <3>. QED
      BY <3>1, <3>2
  <2>4. CASE child'[w] \in {child[w], [child[w] EXCEPT !.image = local.spec.image],
                            [child[w] EXCEPT !.ready = FALSE]}
    <3>1. child'[w].applied = child[w].applied
      BY <2>4, Shapes DEF ChildType
    <3>. QED
      BY <2>1, <2>2, <3>1
  <2>. QED
    BY <2>1, <2>3, <2>4, ChildChanges
(* What they are known to have, and what Cyborg says of it.                *)
<1>2. ASSUME cr'.life = "live"
      PROVE  /\ cr.life = "live" /\ ~Gone
             /\ \A w \in Children : cached'[w].applied \preceq pod'[w].template.config
  <2>1. cr.life = "live" /\ ~Gone
    <3>1. cr'.life = "live" => cr.life = "live"
      BY Frame, Shapes DEF Edit, Delete, Patch
    <3>. QED
      BY <1>2, <3>1 DEF Gone
  <2>2. ASSUME NEW w \in Children PROVE cached'[w].applied \preceq pod'[w].template.config
    <3>1. cached'[w] \in {cached[w], child[w]} \/ cached'[w] = child'[w]
      BY CachedChanges
    <3>2. CASE cached'[w] \in {cached[w], child[w]}
      BY <1>k, <1>g, <2>1, <3>2, Order DEF AppliedReached
    <3>3. CASE cached'[w] = child'[w]
      BY <1>1, <3>3
    <3>. QED
      BY <3>1, <3>2, <3>3
  <2>. QED
    BY <2>1, <2>2
<1>3. ASSUME cr'.life = "live", NEW w \in WorkloadsOf[kind]
      PROVE  status'.applied \preceq pod'[w].template.config
  <2>1. /\ status.applied \preceq pod[w].template.config /\ local.applied \preceq pod[w].template.config
        /\ w \in Workloads /\ pod[w].template.config \preceq pod'[w].template.config
    BY <1>k, <1>g, <1>2, <1>3 DEF AppliedReached
  <2>2. status'.applied \in {status.applied, local.applied}
    BY <1>k, Frame DEF Edit, Patch, Outcome
  <2>. QED
    BY <1>k, <2>1, <2>2, Order
<1>4. /\ local'.applied \in {local.applied, status.applied, NoConfig}
      \/ /\ todo # <<>> /\ local'.applied = ConfigOf(local.spec)
         /\ \E w \in Children : EnsureChild(w) /\ Judged(w) \cap Children = {}
  <2>1. CASE Begin
    BY <2>1 DEF Begin
  <2>2. CASE Edit
    BY <1>k, <2>2 DEF Edit
  <2>3. CASE Stops
    BY <2>3 DEF Stops, Idle
  <2>4. CASE Working /\ ~Stops
    <3>1. CASE local'.applied = local.applied
      BY <3>1
    <3>2. ASSUME NEW w \in Children, EnsureChild(w) PROVE <1>4
      BY <1>k, <3>2 DEF EnsureChild, At
    <3>. QED
      BY <2>4, <3>1, <3>2, LocalFrame
  <2>. QED
    BY <2>1, <2>2, <2>3, <2>4, Turns
<1>5. ASSUME cr'.life = "live", NEW w \in WorkloadsOf[kind]
      PROVE  local'.applied \preceq pod'[w].template.config
  <2>1. /\ status.applied \preceq pod[w].template.config /\ local.applied \preceq pod[w].template.config
        /\ w \in Workloads /\ pod[w].template.config \preceq pod'[w].template.config
    BY <1>k, <1>g, <1>2, <1>5 DEF AppliedReached
  <2>2. CASE local'.applied \in {local.applied, status.applied, NoConfig}
    BY <1>k, <2>1, <2>2, Order
  <2>3. ASSUME todo # <<>>, local'.applied = ConfigOf(local.spec),
               NEW v \in Children, EnsureChild(v), Judged(v) \cap Children = {}
        PROVE  local'.applied \preceq pod'[w].template.config
    <3>1. kind = "Cyborg" /\ UNCHANGED pod /\ \A u \in Children : Reaches(u, local.spec)
      BY <1>2, <1>5, <2>3, JudgedReached
    <3>2. w \in Children
      BY <1>5, <3>1 DEF WorkloadsOf
    <3>. QED
      BY <2>3, <3>1, <3>2 DEF Reaches
  <2>. QED
    BY <1>4, <2>2, <2>3
<1>6. kind = "PlacementAPI" => status'.applied = NoConfig /\ local'.applied = NoConfig
  <2> SUFFICES ASSUME kind = "PlacementAPI" PROVE status'.applied = NoConfig /\ local'.applied = NoConfig
    OBVIOUS
  <2>1. status.applied = NoConfig /\ local.applied = NoConfig
    BY DEF AppliedReached
  <2>2. \A w \in Children : ~EnsureChild(w)
    BY CyborgStep DEF EnsureChild
  <2>3. status'.applied \in {status.applied, local.applied}
    BY <1>k, Frame DEF Edit, Patch, Outcome
  <2>. QED
    BY <1>4, <2>1, <2>2, <2>3
<1>. QED
  BY <1>1, <1>2, <1>3, <1>5, <1>6, <1>k DEF AppliedReached

LEMMA StaysLive ==
  ASSUME Types, [Next]_vars, cr'.life = "live"
  PROVE  cr.life = "live" /\ ~Gone
<1>1. cr.life = "live"
  BY Frame, Shapes DEF Edit, Delete, Patch
<1>. QED
  BY <1>1 DEF Gone

LEMMA OwnWorkloads ==
  ASSUME Types
  PROVE  /\ WorkloadsOf[kind] \subseteq Workloads /\ WorkloadsOf[kind] \subseteq Conditions[kind]
         /\ kind = "PlacementAPI" => WorkloadsOf[kind] = {"PlacementAPI"}
         /\ kind = "Cyborg" => WorkloadsOf[kind] = Children
         /\ kind \in {"PlacementAPI", "Cyborg"}
<1>1. kind \in {"PlacementAPI", "Cyborg"}
  BY Shapes DEF PeerKinds
<1>2. WorkloadsOf["PlacementAPI"] = {"PlacementAPI"} /\ WorkloadsOf["Cyborg"] = Children
  BY DEF WorkloadsOf
<1>3. "PlacementAPI" \in Conditions["PlacementAPI"] /\ Children \subseteq Conditions["Cyborg"]
  BY DEF Conditions, PlacementConditions, CyborgConditions, Children
<1>4. "PlacementAPI" \in Workloads /\ Children \subseteq Workloads
  BY DEF Workloads
<1>. QED
  BY <1>1, <1>2, <1>3, <1>4

(* What pods have reached they do not leave again.                         *)
LEMMA StillReaches ==
  ASSUME Types, Types', PodsBehind, ImagesBehind, [Next]_vars, ~Gone,
         NEW w \in WorkloadsOf[kind], NEW s \in Specs, Reaches(w, s)
  PROVE  /\ ConfigOf(s) \preceq pod'[w].template.config
         /\ kind = "PlacementAPI" => s.image <= pod'[w].template.image
<1>1. w \in Workloads /\ (kind = "PlacementAPI" => w = "PlacementAPI")
  BY OwnWorkloads
<1>2. /\ ConfigOf(s) \in AnyConfig /\ pod[w].template.config \in AnyConfig
      /\ s.image \in Nat /\ pod[w].template.image \in Nat
  BY <1>1, Shapes, Numbers
<1>3. pod'[w].template \in AnyTemplate
  BY <1>1 DEF Types, PodTypes
<1>4. pod'[w].template.config \in AnyConfig /\ pod'[w].template.image \in Nat
  BY <1>3, Numbers
<1>. QED
  BY <1>1, <1>2, <1>4, PodGrows, Order DEF Reaches

LEMMA ReadyReachedStep ==
  ASSUME Types, Types', CopyBehind, PodsBehind, ImagesBehind, AppliedReached, ReadyReached,
         [Next]_vars
  PROVE  ReadyReached'
<1> SUFFICES ASSUME cr'.life = "live"
             PROVE  /\ todo' # <<>> =>
                          \A w \in WorkloadsOf[kind] \ local'.pending : Reaches(w, local.spec)'
                    /\ Ready' => \A w \in WorkloadsOf[kind] : Reaches(w, cr.spec)'
  BY Frame DEF ReadyReached
<1>k. /\ cr.life = "live" /\ ~Gone /\ kind' = kind
      /\ cr.spec \in Specs /\ local.spec \in Specs
      /\ local \in [spec : Specs, fin : BOOLEAN, pending : SUBSET Conditions[kind],
               cred : AnyCred, hash : AnyConfig, synced : AnyImage, applied : AnyConfig,
               fresh : BOOLEAN]
      /\ status \in [pending : SUBSET (Conditions[kind] \cup {"Ready"}), cred : AnyCred,
                   hash : AnyConfig, synced : AnyImage, applied : AnyConfig, seen : BOOLEAN]
  BY StaysLive, Shapes, Frame DEF Types, LocalTypes, CRTypes
<1>g. \A w \in WorkloadsOf[kind], s \in Specs : Reaches(w, s) =>
         /\ ConfigOf(s) \preceq pod'[w].template.config
         /\ kind = "PlacementAPI" => s.image <= pod'[w].template.image
  BY <1>k, StillReaches
<1>s. ASSUME NEW w \in WorkloadsOf[kind], NEW s \in Specs, Reaches(w, s), local'.spec = s
      PROVE  Reaches(w, local.spec)'
  BY <1>g, <1>k, <1>s DEF Reaches
<1>1. ASSUME todo' # <<>>, NEW w \in WorkloadsOf[kind] \ local'.pending
      PROVE  Reaches(w, local.spec)'
  <2>k. w \in Workloads /\ w \in Conditions[kind]
    BY OwnWorkloads
  <2>0. CASE local'.spec = local.spec /\ todo # <<>> /\ w \notin local.pending
    <3>1. Reaches(w, local.spec)
      BY <1>k, <2>0 DEF ReadyReached
    <3>. QED
      BY <1>k, <1>s, <2>0, <3>1
  <2>1. CASE Edit
    BY <1>1, <1>k, <2>0, <2>1 DEF Edit
  <2>2. CASE Begin
    <3>1. local'.pending = Conditions[kind]
      BY <1>k, <2>2 DEF Begin
    <3>. QED
      BY <1>1, <2>k, <3>1
  <2>3. CASE Working /\ ~Stops
    <3>1. todo # <<>> /\ local'.spec = local.spec
      BY <2>3, LocalFrame DEF Working
    <3>2. CASE w \notin local.pending
      BY <2>0, <3>1, <3>2
    <3>3. CASE w \in local.pending /\ RolledOut
      <4>1. kind = "PlacementAPI"
        BY <3>3, PlacementStep DEF RolledOut
      <4>2. w = "PlacementAPI"
        BY <4>1, OwnWorkloads
      <4>3. pod[w].template = TemplateOf(ConfigOf(local.spec), local.spec.image)
        BY <1>1, <1>k, <3>3, <4>2 DEF RolledOut, IsReadyForInput, MarkFalse
      <4>4. Reaches(w, local.spec)
        <5>1. ConfigOf(local.spec) \in AnyConfig /\ local.spec.image \in Nat
          BY <1>k, Numbers
        <5>. QED
          BY <4>3, <5>1, Order DEF Reaches, TemplateOf
      <4>. QED
        BY <1>k, <1>s, <3>1, <4>4
    <3>4. ASSUME w \in local.pending, NEW v \in Children, EnsureChild(v)
          PROVE  Reaches(w, local.spec)'
      <4>1. kind = "Cyborg" /\ \A u \in Children \ Judged(v) : Reaches(u, local.spec)
        BY <1>k, <3>1, <3>4, JudgedReached
      <4>2. w \in Children
        BY <4>1, OwnWorkloads
      <4>3. local'.pending = Judged(v)
        BY <1>1, <1>k, <3>4 DEF EnsureChild
      <4>4. Reaches(w, local.spec)
        BY <1>1, <4>1, <4>2, <4>3
      <4>. QED
        BY <1>k, <1>s, <3>1, <4>4
    <3>. QED
      BY <1>1, <2>k, <2>3, <3>2, <3>3, <3>4, LocalFrame
  <2>4. CASE UNCHANGED <<todo, local>>
    BY <1>1, <2>0, <2>4
  <2>. QED
    BY <1>1, <2>1, <2>2, <2>3, <2>4, Turns DEF Stops
<1>2. ASSUME Ready', NEW w \in WorkloadsOf[kind] PROVE Reaches(w, cr.spec)'
  <2>1. ~Edit
    BY <1>2, <1>k DEF Edit, Ready
  <2>2. cr'.spec = cr.spec
    BY <2>1, SpecGrows
  <2>3. Reaches(w, cr.spec)
    <3>1. CASE UNCHANGED status
      BY <1>2, <1>k, <3>1 DEF Ready, ReadyReached
    <3>2. CASE Patch
      <4>1. status' = Outcome \/ status' = status
        BY <3>2 DEF Patch
      <4>2. CASE status' = Outcome
        <5>1. local.pending = {} /\ local.fresh
          BY <1>2, <4>2 DEF Ready, Outcome
        <5>2. todo # <<>>
          BY <3>2 DEF Patch, At
        <5>3. Reaches(w, local.spec) /\ local.spec = cr.spec
          BY <1>k, <5>1, <5>2 DEF ReadyReached, CopyBehind
        <5>. QED
          BY <5>3
      <4>. QED
        BY <3>1, <4>1, <4>2
    <3>. QED
      BY <2>1, <3>1, <3>2, Frame
  <2>4. /\ ConfigOf(cr.spec) \preceq pod'[w].template.config
        /\ kind = "PlacementAPI" => cr.spec.image <= pod'[w].template.image
    BY <1>g, <1>k, <2>3
  <2>. QED
    BY <1>k, <2>2, <2>4 DEF Reaches
<1>. QED
  BY <1>1, <1>2

LEMMA DropsDeletedStep ==
  ASSUME Types, DropsDeleted, [Next]_vars
  PROVE  DropsDeleted'
<1> SUFFICES ASSUME NEW op \in DropOps(kind), Ahead(op)' PROVE cr'.life # "live"
  BY Frame DEF DropsDeleted
<1>1. op # "patch" /\ op \notin MainOps(kind)
  BY DEF DropOps, MainOps, CommonOps
<1>2. cr.life # "live"
  BY <1>1, AheadBefore DEF DropsDeleted
<1>. QED
  BY <1>2, StaysLive

-----------------------------------------------------------------------------
(* What is held.                                                           *)

(* Pods that have come as far as a spec that nothing has gone beyond run   *)
(* its configuration, and so is everything that is written for them.       *)
LEMMA ReachedIsAll ==
  ASSUME Types, PodsBehind, NEW s \in Specs, NEW w \in WorkloadsOf[kind], Reaches(w, s),
         secret \preceq ConfigOf(s), mounted["PlacementAPI"] \preceq ConfigOf(s)
  PROVE  /\ pod[w].config = ConfigOf(s) /\ pod[w].template.config = ConfigOf(s)
         /\ mounted[w] = ConfigOf(s) /\ template[w].config = ConfigOf(s)
         /\ w \in Children => secret = ConfigOf(s)
<1>1. w \in Workloads /\ (w = "PlacementAPI" \/ w \in Children)
  BY OwnWorkloads
<1>2. /\ ConfigOf(s) \in AnyConfig /\ secret \in AnyConfig /\ mounted[w] \in AnyConfig
      /\ template[w].config \in AnyConfig /\ pod[w].config \in AnyConfig
      /\ pod[w].template.config \in AnyConfig
  BY <1>1, Shapes, Numbers
<1>3. mounted[w] \preceq ConfigOf(s)
  <2>1. CASE w = "PlacementAPI"
    BY <2>1
  <2>2. CASE w \in Children
    <3>1. mounted[w] \preceq secret
      BY <1>1, <2>2 DEF PodsBehind
    <3>. QED
      BY <1>2, <3>1, Order
  <2>. QED
    BY <1>1, <2>1, <2>2
<1>4. /\ ConfigOf(s) \preceq pod[w].template.config
      /\ pod[w].template.config \preceq pod[w].config /\ pod[w].config \preceq mounted[w]
      /\ pod[w].template.config \preceq template[w].config /\ template[w].config \preceq mounted[w]
      /\ w \in Children => mounted[w] \preceq secret
  BY <1>1 DEF PodsBehind, Reaches
<1>5. pod[w].config = ConfigOf(s) /\ pod[w].template.config = ConfigOf(s) /\ mounted[w] = ConfigOf(s)
  BY <1>2, <1>3, <1>4, Order
<1>. QED
  BY <1>2, <1>3, <1>4, <1>5, Order

(* Of a CR that is not deleted, what the copy of its spec names is not let *)
(* go of, and only a release lets go of anything.                          *)
LEMMA NotReleased ==
  ASSUME Types, DropsDeleted, [Next]_vars, cr.life = "live"
  PROVE  /\ accFins \subseteq accFins' \/ ReleaseAccounts
         /\ AccHeld(local.spec) => local.spec.account \in accFins'
         /\ \/ credFins \subseteq credFins'
            \/ /\ ReleaseCredential /\ local.pending = {} /\ local.cred # local.spec.cred
               /\ credFins' = credFins \ {local.cred}
         /\ CredHeld(local.spec) => local.spec.cred \in credFins' \cup {NoCred}
<1>1. ~DropDatabase /\ ~DropCredentials
  <2>1. "dropDatabase" \in DropOps(kind) /\ "dropCredentials" \in DropOps(kind)
    BY DEF DropOps
  <2>2. ~At("dropDatabase") /\ ~At("dropCredentials")
    BY <2>1, Onwards, Shapes DEF DropsDeleted
  <2>. QED
    BY <2>2 DEF DropDatabase, DropCredentials
<1>2. /\ accFins \subseteq accFins' \/ ReleaseAccounts
      /\ AccHeld(local.spec) => local.spec.account \in accFins'
  BY <1>1, Frame DEF HoldAccount, ReleaseAccounts, AccHeld
<1>3. CASE ~ReleaseCredential
  BY <1>1, <1>2, <1>3, Frame DEF HoldCredential, CredHeld
<1>4. CASE ReleaseCredential
  <2>1. \/ credFins' = credFins
        \/ local.pending = {} /\ local.cred # local.spec.cred /\ credFins' = credFins \ {local.cred}
    BY <1>4 DEF ReleaseCredential
  <2>. QED
    BY <1>2, <1>4, <2>1 DEF CredHeld
<1>. QED
  BY <1>3, <1>4

(* A reconcile of Placement that goes on makes no condition False.         *)
LEMMA PendingShrinks ==
  ASSUME Types, [Next]_vars, kind = "PlacementAPI", todo # <<>>, todo' \notin {Save, <<>>}
  PROVE  local'.pending \subseteq local.pending
<1>k. local \in [spec : Specs, fin : BOOLEAN, pending : SUBSET Conditions[kind],
               cred : AnyCred, hash : AnyConfig, synced : AnyImage, applied : AnyConfig,
               fresh : BOOLEAN]
  BY DEF Types, LocalTypes
<1>1. CASE UNCHANGED local
  BY <1>1
<1>2. CASE Edit
  BY <1>2, <1>k DEF Edit
<1>3. CASE Reconcile
  <2>1. ~Begin /\ ~Patch /\ \A w \in Children : ~EnsureChild(w)
    BY CyborgStep DEF Begin, Patch, EnsureChild
  <2>2. ASSUME NEW conds, MarkTrue(conds) PROVE local'.pending \subseteq local.pending
    BY <1>k, <2>2 DEF MarkTrue
  <2>3. CASE NeedInputs \/ MakeObject \/ HoldCredential \/ EnsureKeystoneService
             \/ EnsureKeystoneEndpoint
    BY <1>1, <2>2, <2>3 DEF NeedInputs, MakeObject, HoldCredential, EnsureKeystoneService,
       EnsureKeystoneEndpoint, End
  <2>4. CASE WriteConfig \/ RolledOut
    BY <1>1, <2>2, <2>4 DEF WriteConfig, RolledOut, End
  <2>5. CASE RecordHash \/ SyncDB \/ ReleaseCredential \/ DropFinalizer
    BY <1>k, <2>5 DEF RecordHash, SyncDB, ReleaseCredential, DropFinalizer
  <2>6. CASE HoldAccount \/ Deploy \/ ReleaseAccounts \/ DropDatabase \/ DropCredentials
             \/ \E op, o : DropKeystone(op, o)
    BY <2>6 DEF HoldAccount, Deploy, ReleaseAccounts, DropDatabase, DropCredentials, DropKeystone
  <2>. QED
    BY <1>3, <2>1, <2>3, <2>4, <2>5, <2>6 DEF Reconcile
<1>4. CASE Fault \/ Progress \/ Delete \/ UNCHANGED vars \/ \E w \in Workloads : PodRestarts(w)
  BY <1>4 DEF Fault, CallFails, PatchFails, Restart, ChildFails, Progress, JobDone, Arrives,
     KeystoneReady, ChildReconciles, CacheSync, RollOut, PodRestarts, Delete, vars, workVars, End
<1>. QED
  BY <1>1, <1>2, <1>3, <1>4 DEF Next

LEMMA StepsHeldStep ==
  ASSUME Types, Types', DropsDeleted, StepsHeld, [Next]_vars
  PROVE  StepsHeld'
<1> SUFFICES ASSUME cr'.life = "live"
    PROVE  /\ Ahead("writeConfig")' => Ahead("account")' \/ AccHeld(local.spec)'
           /\ Ahead("writeConfig")' /\ kind = "Cyborg" => Ahead("holdCredential")' \/ CredHeld(local.spec)'
           /\ Ahead("deploy")' => Ahead("holdCredential")' \/ CredHeld(local.spec)'
           /\ Ahead("releaseAccounts")' /\ kind = "PlacementAPI" =>
                 Ahead("rolledOut")' \/ "PlacementAPI" \notin local'.pending
  BY Frame DEF StepsHeld
<1>k. cr.life = "live" /\ kind' = kind /\ kind \in {"PlacementAPI", "Cyborg"}
      /\ local.spec \in Specs
  BY StaysLive, Frame, OwnWorkloads, Shapes
<1>b. ASSUME NEW a \in MainOps(kind) \ DropOps(kind), a # "patch", Ahead(a)'
      PROVE  \/ Ops(todo') = MainOps(kind) \cup {"patch"}
             \/ /\ Ahead(a) /\ local'.spec = local.spec
                /\ \A b : Ahead(b) => Ahead(b)' \/ (b = Head(todo).op /\ Does(b) /\ Working)
  BY <1>b, AheadBefore
<1>c. /\ {"account", "writeConfig", "holdCredential", "releaseAccounts"} \subseteq MainOps(kind)
      /\ {"writeConfig", "deploy", "releaseAccounts"} \cap (DropOps(kind) \cup {"patch"}) = {}
  BY DEF MainOps, CommonOps, DropOps
<1>1. ASSUME Ahead("writeConfig")', ~Ahead("account")' PROVE AccHeld(local.spec)'
  <2>1. /\ Ahead("writeConfig") /\ local'.spec = local.spec
        /\ Ahead("account") => Does("account")
    BY <1>1, <1>b, <1>c DEF Ahead
  <2>2. CASE HoldAccount
    BY <2>1, <2>2 DEF HoldAccount, AccHeld
  <2>3. CASE ~HoldAccount
    <3>1. AccHeld(local.spec)
      BY <1>k, <2>1, <2>3 DEF StepsHeld, Does
    <3>. QED
      BY <1>k, <2>1, <3>1, NotReleased DEF AccHeld
  <2>. QED
    BY <2>2, <2>3
<1>2. ASSUME NEW a \in {"writeConfig", "deploy"}, Ahead(a)', a = "writeConfig" => kind = "Cyborg",
             ~Ahead("holdCredential")'
      PROVE  CredHeld(local.spec)'
  <2>0. a \in MainOps(kind)
    <3>1. a \in MainOps(kind) \cup DropOps(kind) \cup {"patch"}
      BY <1>2, <1>k, Shapes DEF Types, PlanInv, Ahead
    <3>. QED
      BY <1>c, <1>2, <3>1
  <2>1. /\ Ahead(a) /\ local'.spec = local.spec
        /\ Ahead("holdCredential") => Does("holdCredential")
    BY <1>2, <1>b, <1>c, <2>0 DEF Ahead
  <2>2. CASE HoldCredential
    BY <2>1, <2>2 DEF HoldCredential, CredHeld
  <2>3. CASE ~HoldCredential
    <3>1. CredHeld(local.spec)
      BY <1>k, <1>2, <2>1, <2>3 DEF StepsHeld, Does
    <3>. QED
      BY <1>k, <2>1, <3>1, NotReleased DEF CredHeld
  <2>. QED
    BY <2>2, <2>3
<1>3. ASSUME Ahead("releaseAccounts")', kind = "PlacementAPI", ~Ahead("rolledOut")'
      PROVE  "PlacementAPI" \notin local'.pending
  <2>0. "rolledOut" \in MainOps(kind)
    BY <1>3 DEF MainOps
  <2>1. /\ Ahead("releaseAccounts")
        /\ Ahead("rolledOut") => RolledOut
    BY <1>3, <1>b, <1>c, <2>0 DEF Ahead, Does
  <2>2. todo # <<>> /\ todo' \notin {Save, <<>>}
    <3>1. Ops(<<>>) = {} /\ Ops(Save) = {"patch"}
      BY SavePlan DEF Ops, IsPlan
    <3>2. "releaseAccounts" \in Ops(todo) /\ "releaseAccounts" \in Ops(todo')
      BY <1>3, <2>1 DEF Ahead
    <3>. QED
      BY <3>1, <3>2
  <2>3. CASE RolledOut
    <3>1. local'.pending = local.pending \ {"PlacementAPI"}
      BY <2>2, <2>3 DEF RolledOut, MarkTrue, End, Types, LocalTypes
    <3>. QED
      BY <3>1
  <2>4. CASE ~RolledOut
    <3>1. "PlacementAPI" \notin local.pending
      BY <1>3, <1>k, <2>1, <2>4 DEF StepsHeld
    <3>. QED
      BY <1>3, <2>2, <3>1, PendingShrinks
  <2>. QED
    BY <2>3, <2>4
<1>. QED
  BY <1>1, <1>2, <1>3

LEMMA CredsHeldStep ==
  ASSUME Types, Types', PodsBehind, WritesBehind, ReadyReached, StepsHeld, DropsDeleted, CredsHeld,
         [Next]_vars
  PROVE  CredsHeld'
<1> SUFFICES ASSUME cr'.life = "live"
    PROVE  IF kind = "PlacementAPI"
           THEN LET w == "PlacementAPI" IN
                CredHeld(template[w].config)' /\ CredHeld(pod[w].template.config)'
           ELSE /\ CredHeld(secret)'
                /\ \A w \in Children : CredHeld(mounted[w])' /\ CredHeld(pod[w].config)'
  BY Frame DEF CredsHeld
<1>k. /\ cr.life = "live" /\ ~Gone /\ kind' = kind /\ kind \in {"PlacementAPI", "Cyborg"}
      /\ local.spec \in Specs /\ ConfigOf(local.spec).cred = local.spec.cred
  BY StaysLive, Frame, OwnWorkloads, Shapes, Numbers
<1>w. /\ "PlacementAPI" \in Workloads /\ Children \subseteq Workloads
      /\ "PlacementAPI" \notin Children /\ "CyborgAPI" \in Children
  BY DEF Workloads, Children
(* At a release everything has the credential of the spec.                 *)
<1>1. ASSUME ~(credFins \subseteq credFins')
      PROVE  /\ local.spec.cred # local.cred /\ credFins' = credFins \ {local.cred}
             /\ \A w \in WorkloadsOf[kind] :
                   /\ pod[w].config = ConfigOf(local.spec)
                   /\ pod[w].template.config = ConfigOf(local.spec)
                   /\ mounted[w] = ConfigOf(local.spec) /\ template[w].config = ConfigOf(local.spec)
                   /\ w \in Children => secret = ConfigOf(local.spec)
  <2>1. /\ ReleaseCredential /\ local.pending = {} /\ local.cred # local.spec.cred
        /\ credFins' = credFins \ {local.cred}
    BY <1>1, <1>k, NotReleased
  <2>2. todo # <<>>
    BY <2>1 DEF ReleaseCredential, At
  <2>3. \A w \in WorkloadsOf[kind] : Reaches(w, local.spec)
    BY <1>k, <2>1, <2>2 DEF ReadyReached
  <2>4. secret \preceq ConfigOf(local.spec) /\ mounted["PlacementAPI"] \preceq ConfigOf(local.spec)
    BY <2>2 DEF WritesBehind
  <2>. QED
    BY <1>k, <2>1, <2>3, <2>4, ReachedIsAll
<1>h. ASSUME NEW c, CredHeld(c), ~(credFins \subseteq credFins') => c = ConfigOf(local.spec)
      PROVE  c.cred \in credFins' \cup {NoCred}
  <2>1. CASE credFins \subseteq credFins'
    BY <1>h, <2>1 DEF CredHeld
  <2>2. CASE ~(credFins \subseteq credFins')
    BY <1>1, <1>h, <1>k, <2>2 DEF CredHeld
  <2>. QED
    BY <2>1, <2>2
<1>2. CASE kind = "PlacementAPI"
  <2> DEFINE w == "PlacementAPI"
  <2>0. w \in WorkloadsOf[kind]
    BY <1>2, OwnWorkloads
  <2>1. /\ template[w].config.cred \in credFins' \cup {NoCred}
        /\ pod[w].template.config.cred \in credFins' \cup {NoCred}
    BY <1>1, <1>2, <1>h, <1>k, <2>0 DEF CredsHeld
  <2>2. template'[w].config.cred \in credFins' \cup {NoCred}
    <3>1. CASE Deploy
      <4>1. At("deploy") /\ UNCHANGED credFins
        BY <3>1 DEF Deploy, finVars
      <4>2. Ahead("deploy") /\ ~Ahead("holdCredential")
        <5>1. <<"holdCredential", "deploy">> \in Precedes(kind)
          BY <1>2 DEF Precedes
        <5>. QED
          BY <4>1, <5>1, Onwards, Shapes
      <4>3. CredHeld(local.spec)
        BY <1>k, <4>2 DEF StepsHeld
      <4>4. template'[w].config = ConfigOf(local.spec)
        BY <1>w, <3>1 DEF Deploy, Types, PodTypes, TemplateOf
      <4>. QED
        BY <1>k, <4>1, <4>3, <4>4 DEF CredHeld
    <3>2. CASE ~Deploy
      BY <1>k, <1>w, <2>1, <3>2, TemplateChanges
    <3>. QED
      BY <3>1, <3>2
  <2>3. pod'[w].template.config.cred \in credFins' \cup {NoCred}
    <3>1. pod'[w] \in {pod[w], NewPod(w, template[w]), NewPod(w, pod[w].template)}
      BY <1>k, <1>w, PodChanges
    <3>2. \A t : NewPod(w, t).template = t
      BY DEF NewPod
    <3>3. pod'[w].template \in {pod[w].template, template[w]}
      BY <3>1, <3>2
    <3>. QED
      BY <2>1, <3>3
  <2>. QED
    BY <1>2, <2>2, <2>3 DEF CredHeld
<1>3. CASE kind = "Cyborg"
  <2>0. WorkloadsOf[kind] = Children
    BY <1>3, OwnWorkloads
  <2>1. /\ secret.cred \in credFins' \cup {NoCred}
        /\ \A w \in Children : /\ mounted[w].cred \in credFins' \cup {NoCred}
                               /\ pod[w].config.cred \in credFins' \cup {NoCred}
    BY <1>1, <1>3, <1>h, <1>k, <1>w, <2>0 DEF CredsHeld
  <2>2. secret'.cred \in credFins' \cup {NoCred}
    <3>1. CASE WriteConfig
      <4>1. At("writeConfig") /\ UNCHANGED credFins /\ secret' = ConfigOf(local.spec)
        BY <1>3, <3>1 DEF WriteConfig, finVars
      <4>2. Ahead("writeConfig") /\ ~Ahead("holdCredential")
        <5>1. <<"holdCredential", "writeConfig">> \in Precedes(kind)
          BY <1>3 DEF Precedes
        <5>. QED
          BY <4>1, <5>1, Onwards, Shapes
      <4>3. CredHeld(local.spec)
        BY <1>3, <1>k, <4>2 DEF StepsHeld
      <4>. QED
        BY <1>k, <4>1, <4>3 DEF CredHeld
    <3>2. CASE ~WriteConfig
      BY <2>1, <3>2, Frame
    <3>. QED
      BY <3>1, <3>2
  <2>3. ASSUME NEW w \in Children PROVE mounted'[w].cred \in credFins' \cup {NoCred}
    <3>1. mounted'[w] \in {mounted[w], secret}
      BY <1>3, <1>w, MountedChanges
    <3>. QED
      BY <2>1, <3>1
  <2>4. ASSUME NEW w \in Children PROVE pod'[w].config.cred \in credFins' \cup {NoCred}
    <3>1. pod'[w] \in {pod[w], NewPod(w, template[w]), NewPod(w, pod[w].template)}
      BY <1>k, <1>w, PodChanges
    <3>2. \A t : NewPod(w, t).config = mounted[w]
      BY DEF NewPod
    <3>3. pod'[w].config \in {pod[w].config, mounted[w]}
      BY <3>1, <3>2
    <3>. QED
      BY <2>1, <3>3
  <2>. QED
    BY <1>3, <2>2, <2>3, <2>4 DEF CredHeld
<1>. QED
  BY <1>k, <1>2, <1>3

LEMMA AccountsHeldStep ==
  ASSUME Types, Types', PodsBehind, WritesBehind, ReadyReached, StepsHeld, DropsDeleted,
         AccountsHeld, [Next]_vars
  PROVE  AccountsHeld'
<1> DEFINE p == "PlacementAPI"
<1>k. /\ p \in Workloads /\ p \notin Children /\ kind' = kind /\ kind \in {"PlacementAPI", "Cyborg"}
      /\ local.spec \in Specs /\ ConfigOf(local.spec).account = local.spec.account
  BY Frame, OwnWorkloads, Shapes, Numbers DEF Workloads, Children
(* What is mounted, and what a pod has read, was mounted before.           *)
<1>1. /\ pod'[p].config \in {pod[p].config, mounted[p], NoConfig}
      /\ mounted'[p] = mounted[p] \/ (WriteConfig /\ kind = p /\ mounted'[p] = ConfigOf(local.spec))
  <2>1. pod'[p] \in {pod[p], NoPod, NewPod(p, template[p]), NewPod(p, pod[p].template)}
    BY <1>k, PodChanges
  <2>2. NoPod.config = NoConfig /\ \A t : NewPod(p, t).config = mounted[p]
    BY DEF NewPod, NoPod
  <2>3. pod'[p].config \in {pod[p].config, mounted[p], NoConfig}
    BY <2>1, <2>2
  <2>. QED
    BY <1>k, <2>3, MountedChanges
<1>2. ASSUME kind = "Cyborg" PROVE InUse(p)' = {}
  <2>1. pod[p].config = NoConfig /\ mounted[p] = NoConfig
    BY <1>2 DEF AccountsHeld, InUse
  <2>2. pod'[p].config = NoConfig /\ mounted'[p] = NoConfig
    BY <1>1, <1>2, <2>1
  <2>. QED
    BY <2>2 DEF InUse
<1>3. ASSUME cr'.life = "live", kind = "PlacementAPI" PROVE \A c \in InUse(p)' : AccHeld(c)'
  <2>0. cr.life = "live" /\ p \in WorkloadsOf[kind]
    BY <1>3, StaysLive, OwnWorkloads
  <2>1. \A c \in InUse(p) : c.account \in accFins'
    <3>1. CASE accFins \subseteq accFins'
      BY <2>0, <3>1 DEF AccountsHeld, AccHeld
    <3>2. CASE ReleaseAccounts
      <4>1. todo # <<>> /\ At("releaseAccounts")
        BY <3>2 DEF ReleaseAccounts, At
      <4>2. Ahead("releaseAccounts") /\ ~Ahead("rolledOut")
        <5>1. <<"rolledOut", "releaseAccounts">> \in Precedes(kind)
          BY <1>3 DEF Precedes
        <5>. QED
          BY <4>1, <5>1, Onwards, Shapes
      <4>3. Reaches(p, local.spec)
        BY <1>3, <2>0, <4>1, <4>2 DEF StepsHeld, ReadyReached
      <4>4. pod[p].config = ConfigOf(local.spec) /\ mounted[p] = ConfigOf(local.spec)
        BY <1>k, <2>0, <4>1, <4>3, ReachedIsAll DEF WritesBehind
      <4>5. \A c \in InUse(p) : c.account \in accFins /\ c.account = local.spec.account
        BY <1>k, <2>0, <4>4 DEF InUse, AccountsHeld, AccHeld
      <4>. QED
        BY <3>2, <4>5 DEF ReleaseAccounts
    <3>. QED
      BY <2>0, <3>1, <3>2, NotReleased
  <2>2. pod'[p].config # NoConfig => pod'[p].config.account \in accFins'
    BY <1>1, <2>1 DEF InUse
  <2>3. mounted'[p] # NoConfig => mounted'[p].account \in accFins'
    <3>1. CASE mounted'[p] = mounted[p]
      BY <2>1, <3>1 DEF InUse
    <3>2. CASE WriteConfig /\ mounted'[p] = ConfigOf(local.spec)
      <4>1. At("writeConfig") /\ UNCHANGED accFins
        BY <3>2 DEF WriteConfig, finVars
      <4>2. Ahead("writeConfig") /\ ~Ahead("account")
        <5>1. <<"account", "writeConfig">> \in Precedes(kind)
          BY DEF Precedes
        <5>. QED
          BY <4>1, <5>1, Onwards, Shapes
      <4>3. AccHeld(local.spec)
        BY <2>0, <4>2 DEF StepsHeld
      <4>. QED
        BY <1>k, <3>2, <4>1, <4>3 DEF AccHeld
    <3>. QED
      BY <1>1, <3>1, <3>2
  <2>. QED
    BY <2>2, <2>3 DEF InUse, AccHeld
<1>4. ASSUME kind = "Cyborg" PROVE \A c \in InUse(p)' : AccHeld(c)'
  BY <1>2, <1>4
<1>. QED
  BY <1>k, <1>2, <1>3, <1>4 DEF AccountsHeld

-----------------------------------------------------------------------------
(* The invariant.                                                          *)
LEMMA StartsNew == Init /\ New => PeerProofInv
<1> SUFFICES ASSUME Init, New PROVE PeerProofInv
  OBVIOUS
<1>1. Types /\ todo = <<>> /\ local = Idle /\ cached = child /\ \A op : ~Ahead(op)
  BY TypesInit DEF Init, Ahead, Ops
<1>2. /\ cr.life = "live" /\ ~cr.fin /\ status.pending = {"Ready"} /\ status.applied = NoConfig
      /\ status.synced = 0 /\ ~status.seen /\ secret = NoConfig /\ NothingHeld /\ schema = 0
      /\ ~job.done
      /\ \A w \in Children : child[w] = NoChild
      /\ \A w \in Workloads : mounted[w] = NoConfig /\ template[w] = NoTemplate /\ pod[w] = NoPod
  BY DEF New, NothingHeld, NoJob, NoObject
<1>3. /\ "PlacementAPI" \in Workloads /\ Children \subseteq Workloads /\ NoConfig \in AnyConfig
      /\ ConfigOf(cr.spec) \in AnyConfig /\ NoConfig.cred = NoCred /\ cr.spec.image \in Nat
      /\ NoConfig \preceq NoConfig /\ NoConfig \preceq ConfigOf(cr.spec)
  <2>1. cr.spec \in Specs
    BY <1>1, Shapes
  <2>. QED
    BY <2>1, Order, Numbers DEF Workloads, AnyConfig, NoConfig
<1>4. /\ NoPod.config = NoConfig /\ NoPod.template = NoTemplate /\ NoTemplate.config = NoConfig
      /\ NoTemplate.image = 0 /\ NoChild.applied = NoConfig /\ NoChild.image = 0
      /\ Idle.applied = NoConfig /\ Idle.synced = 0
  BY DEF NoPod, NoTemplate, NoChild, Idle
<1>5. CopyBehind /\ WrittenFirst /\ StepsHeld
  BY <1>1 DEF CopyBehind, WrittenFirst, StepsHeld
<1>6. PodsBehind /\ WritesBehind /\ ImagesBehind
  BY <1>1, <1>2, <1>3, <1>4 DEF PodsBehind, WritesBehind, ImagesBehind
<1>7. AppliedReached /\ ReadyReached
  <2>1. WorkloadsOf[kind] \subseteq Workloads
    BY <1>1, OwnWorkloads
  <2>. QED
    BY <1>1, <1>2, <1>3, <1>4, <2>1 DEF AppliedReached, ReadyReached, Ready
<1>8. CredsHeld /\ AccountsHeld
  BY <1>2, <1>3, <1>4 DEF CredsHeld, CredHeld, AccountsHeld, AccHeld, InUse
<1>9. ImagesSynced
  BY <1>1, <1>2, <1>3, <1>4 DEF ImagesSynced
<1>10. FinalizerFirst /\ DropsDeleted /\ Dropped /\ DeletionLeavesNothing
  BY <1>1, <1>2 DEF FinalizerFirst, NothingHeld, DropsDeleted, Dropped, DeletionLeavesNothing, Ops
<1>. QED
  BY <1>1, <1>5, <1>6, <1>7, <1>8, <1>9, <1>10 DEF PeerProofInv

LEMMA StartsDeployed == Init /\ Deployed => PeerProofInv
<1> SUFFICES ASSUME Init, Deployed PROVE PeerProofInv
  OBVIOUS
<1>1. Types /\ todo = <<>> /\ local = Idle /\ cached = child /\ \A op : ~Ahead(op)
  BY TypesInit DEF Init, Ahead, Ops
<1>2. PICK c \in FirstCreds :
        LET config == [cred |-> c, account |-> 1]
            isCyborg == kind = "Cyborg"
            ready == [fin |-> TRUE, ready |-> TRUE] IN
        /\ cr = [life |-> "live", fin |-> TRUE,
                 spec |-> [cred |-> c, account |-> 1, image |-> 1]]
        /\ status = [pending |-> {}, cred |-> c,
                     hash |-> IF isCyborg THEN NoConfig ELSE config, synced |-> 1,
                     applied |-> IF isCyborg THEN config ELSE NoConfig, seen |-> TRUE]
        /\ credFins = {c} \ {NoCred} /\ accFins = {1}
        /\ keystone = [service |-> ready, endpoint |-> IF isCyborg THEN NoObject ELSE ready]
        /\ job = [image |-> 1, done |-> TRUE]
        /\ schema = 1
        /\ secret = IF isCyborg THEN config ELSE NoConfig
        /\ child = [w \in Children |-> IF ~isCyborg THEN NoChild
                      ELSE [image |-> 1, seen |-> 1, applied |-> config, ready |-> TRUE]]
        /\ mounted = [w \in Workloads |-> IF w \in WorkloadsOf[kind] THEN config ELSE NoConfig]
        /\ template = [w \in Workloads |->
                         IF w \in WorkloadsOf[kind] THEN TemplateOf(config, 1) ELSE NoTemplate]
        /\ pod = [w \in Workloads |-> [template |-> template[w], config |-> mounted[w]]]
  BY Zenon DEF Deployed
<1> DEFINE config == [cred |-> c, account |-> 1]
<1>3. /\ cr.life = "live" /\ cr.fin /\ ConfigOf(cr.spec) = config /\ cr.spec.image = 1
      /\ status.applied \in {config, NoConfig} /\ status.synced = 1
      /\ (kind = "PlacementAPI" => status.applied = NoConfig) /\ schema = 1
      /\ job.image = 1
      /\ secret = (IF kind = "Cyborg" THEN config ELSE NoConfig)
      /\ config.cred \in credFins \cup {NoCred} /\ config.account \in accFins
      /\ kind = "Cyborg" => ~keystone.endpoint.fin
  BY <1>2 DEF ConfigOf, NoObject
<1>4. /\ "PlacementAPI" \in Workloads /\ Children \subseteq Workloads
      /\ config \in AnyConfig /\ NoConfig \in AnyConfig /\ NoConfig.cred = NoCred
      /\ config \preceq config /\ NoConfig \preceq NoConfig /\ NoConfig \preceq config
  <2>1. config \in AnyConfig
    <3>1. cr.spec \in Specs
      BY <1>1, Shapes
    <3>. QED
      BY <1>3, <3>1, Numbers
  <2>. QED
    BY <2>1, Order DEF Workloads, AnyConfig, NoConfig
<1>5. /\ NoPod.config = NoConfig /\ NoTemplate.config = NoConfig /\ NoTemplate.image = 0
      /\ NoChild.applied = NoConfig /\ NoChild.image = 0 /\ Idle.applied = NoConfig
      /\ Idle.synced = 0
      /\ TemplateOf(config, 1).config = config /\ TemplateOf(config, 1).image = 1
  BY DEF NoPod, NoTemplate, NoChild, Idle, TemplateOf
<1>6. \A w \in Workloads :
        /\ w \in WorkloadsOf[kind] =>
              /\ mounted[w] = config /\ template[w].config = config /\ template[w].image = 1
        /\ w \notin WorkloadsOf[kind] =>
              /\ mounted[w] = NoConfig /\ template[w].config = NoConfig /\ template[w].image = 0
        /\ pod[w].config = mounted[w] /\ pod[w].template = template[w]
  BY <1>2, <1>5
<1>7. \A w \in Children : /\ kind = "Cyborg" => child[w].applied = config /\ child[w].image = 1
                          /\ kind # "Cyborg" => child[w].applied = NoConfig /\ child[w].image = 0
  BY <1>2, <1>5
<1>8. /\ \/ kind = "PlacementAPI" /\ WorkloadsOf[kind] = {"PlacementAPI"}
         \/ kind = "Cyborg" /\ WorkloadsOf[kind] = Children
      /\ "PlacementAPI" \notin Children
  <2>1. "PlacementAPI" \notin Children
    BY DEF Children
  <2>. QED
    BY <1>1, <2>1, OwnWorkloads
<1>9. CopyBehind /\ WrittenFirst /\ StepsHeld
  BY <1>1 DEF CopyBehind, WrittenFirst, StepsHeld
<1>10. PodsBehind /\ WritesBehind /\ ImagesBehind
  BY <1>1, <1>3, <1>4, <1>6, <1>8 DEF PodsBehind, WritesBehind, ImagesBehind
<1>11. \A w \in WorkloadsOf[kind] : Reaches(w, cr.spec)
  BY <1>3, <1>4, <1>6, <1>8 DEF Reaches
<1>12. AppliedReached /\ ReadyReached
  BY <1>1, <1>3, <1>4, <1>5, <1>6, <1>7, <1>8, <1>11 DEF AppliedReached, ReadyReached
<1>13. CredsHeld /\ AccountsHeld
  BY <1>3, <1>4, <1>6, <1>8 DEF CredsHeld, CredHeld, AccountsHeld, AccHeld, InUse
<1>14. ImagesSynced
  BY <1>1, <1>3, <1>4, <1>5, <1>6, <1>7 DEF ImagesSynced
<1>15. FinalizerFirst /\ DropsDeleted /\ Dropped /\ DeletionLeavesNothing
  BY <1>1, <1>3 DEF FinalizerFirst, DropsDeleted, Dropped, DeletionLeavesNothing, Ops
<1>. QED
  BY <1>1, <1>9, <1>10, <1>12, <1>13, <1>14, <1>15 DEF PeerProofInv

LEMMA PeerProofInvStep == PeerProofInv /\ [Next]_vars => PeerProofInv'
<1> SUFFICES ASSUME PeerProofInv, [Next]_vars PROVE PeerProofInv'
  OBVIOUS
<1> USE DEF PeerProofInv
<1>1. Types'
  BY TypesStep
<1>2. CopyBehind'
  BY <1>1, CopyBehindStep
<1>3. PodsBehind' /\ WritesBehind' /\ WrittenFirst' /\ ImagesBehind'
  BY <1>1, <1>2, PodsBehindStep, WritesBehindStep, WrittenFirstStep, ImagesBehindStep
<1>4. AppliedReached' /\ ReadyReached'
  BY <1>1, AppliedReachedStep, ReadyReachedStep
<1>5. StepsHeld' /\ CredsHeld' /\ AccountsHeld' /\ DropsDeleted'
  BY <1>1, StepsHeldStep, CredsHeldStep, AccountsHeldStep, DropsDeletedStep
<1>6. ImagesSynced' /\ FinalizerFirst' /\ Dropped' /\ DeletionLeavesNothing'
  BY <1>1, ImagesSyncedStep, FinalizerFirstStep, DroppedStep, DeletionLeavesStep
<1>. QED
  BY <1>1, <1>2, <1>3, <1>4, <1>5, <1>6

LEMMA PeerProofInvHolds == Spec => []PeerProofInv
<1>1. Init => PeerProofInv
  BY StartsNew, StartsDeployed DEF Init
<1>. QED
  BY <1>1, PeerProofInvStep, PTL DEF Spec

-----------------------------------------------------------------------------
(* What the runs check, for every value of the constants.                  *)

(* The invariant that says Ready of PlacementAPI or Cyborg, and            *)
(* AppliedInputSecretHash of Cyborg, are only there when the pods run the  *)
(* configuration of the current spec, and for Placement its image.         *)
THEOREM ReadyIsTrue == Spec => []PeerInv
<1>1. PeerProofInv => ReadyTellsTruth
  <2> SUFFICES ASSUME PeerProofInv, cr.life = "live", Ready \/ status.applied = ConfigOf(cr.spec),
                      NEW w \in WorkloadsOf[kind]
               PROVE  /\ pod[w].config = ConfigOf(cr.spec)
                      /\ kind = "PlacementAPI" => pod[w].template.image = cr.spec.image
    BY DEF ReadyTellsTruth
  <2> USE DEF PeerProofInv
  <2>1. /\ cr.spec \in Specs /\ w \in Workloads
        /\ kind \in {"PlacementAPI", "Cyborg"} /\ (kind = "PlacementAPI" => w = "PlacementAPI")
        /\ pod[w].template.image \in Nat /\ template[w].image \in Nat /\ cr.spec.image \in Nat
    BY OwnWorkloads, Shapes, Numbers
  <2>2. Reaches(w, cr.spec)
    <3>1. CASE Ready
      BY <3>1 DEF ReadyReached
    <3>2. CASE status.applied = ConfigOf(cr.spec)
      <4>1. kind = "Cyborg"
        <5>1. ConfigOf(cr.spec).account = cr.spec.account /\ cr.spec.account # 0
          BY <2>1, Numbers
        <5>2. NoConfig.account = 0
          BY DEF NoConfig
        <5>. QED
          BY <2>1, <3>2, <5>1, <5>2 DEF AppliedReached
      <4>. QED
        BY <3>2, <4>1 DEF AppliedReached, Reaches
    <3>. QED
      BY <3>1, <3>2
  <2>3. pod[w].config = ConfigOf(cr.spec)
    BY <2>1, <2>2, ReachedIsAll DEF WritesBehind
  <2>4. kind = "PlacementAPI" => pod[w].template.image = cr.spec.image
    BY <2>1, <2>2 DEF Reaches, ImagesBehind
  <2>. QED
    BY <2>3, <2>4
<1>2. PeerProofInv => PeerInv
  BY <1>1, TypesGiveTypeOK DEF PeerProofInv, PeerInv
<1>. QED
  BY <1>2, PeerProofInvHolds, PTL

(* The database account that Placement is configured with, or that a pod   *)
(* of it has read, keeps its finalizer as long as the CR is not deleted.   *)
THEOREM AccountsAreKept == Spec => []AccountKept
<1>1. PeerProofInv => AccountKept
  BY DEF PeerProofInv, AccountsHeld, AccountKept, AccountHeld, AccHeld
<1>. QED
  BY <1>1, PeerProofInvHolds, PTL

(* The application credential that a pod works with keeps its finalizer: of*)
(* Cyborg always, of Placement once the pod has read the configuration its *)
(* template was made for.                                                  *)
THEOREM CredentialsAreKept == Spec => []CredentialKept
<1>1. PeerProofInv => CredentialKept
  <2> SUFFICES ASSUME PeerProofInv, cr.life = "live", NEW w \in WorkloadsOf[kind],
                      kind = "Cyborg" \/ pod[w].config = pod[w].template.config
               PROVE  pod[w].config.cred \in credFins \cup {NoCred}
    BY DEF CredentialKept
  <2>1. /\ \/ kind = "PlacementAPI" /\ w = "PlacementAPI"
           \/ kind = "Cyborg" /\ w \in Children
        /\ kind = "Cyborg" => kind # "PlacementAPI"
    <3>1. Types
      BY DEF PeerProofInv
    <3>. QED
      BY <3>1, OwnWorkloads
  <2>. QED
    BY <2>1 DEF PeerProofInv, CredsHeld, CredHeld
<1>. QED
  BY <1>1, PeerProofInvHolds, PTL

(* No pod of Placement or of Cyborg runs an image before the database was  *)
(* synced for it.                                                          *)
THEOREM SchemaComesFirst == Spec => []SchemaFirst
<1>1. PeerProofInv => SchemaFirst
  BY DEF PeerProofInv, ImagesSynced, SchemaFirst
<1>. QED
  BY <1>1, PeerProofInvHolds, PTL

(* When the CR goes, whatever failed before, nothing that its status and   *)
(* its spec name is still held: the database, the account, the credentials *)
(* and the keystone objects.                                               *)
THEOREM NothingIsLeft == Spec => []DeletionLeavesNothing
<1>1. PeerProofInv => DeletionLeavesNothing
  BY DEF PeerProofInv
<1>. QED
  BY <1>1, PeerProofInvHolds, PTL

=============================================================================
