--------------------------- MODULE CellServicesProofs ---------------------------
(***************************************************************************)
(* Proofs about CellServices, for any number of computes, URLs, contents   *)
(* of the Secret, users and faults: its types and the computes it knows    *)
(* of, that it leaves users' CRs alone, that nobody is given the URL of a  *)
(* proxy that does not serve it, and that a Ready cell tells the truth.    *)
(***************************************************************************)
EXTENDS CellServices, SequenceTheorems, TLAPS

(* A reconcile, what is left of it from step k on, and the step it is at;  *)
(* it is at step 9 when none is under way.                                *)
Plan == CellSteps \o Save
Rest(k) == SubSeq(Plan, k, 8)
PartOfPlan(t) == t = <<>> \/ \E k \in 1 .. 8 : t = Rest(k)
Pos == 9 - Len(todo)
Left(i, j) == Pos \in i .. j
StepOf(s) == CASE s = "NovaConductor" -> 2
               [] s = "NovaMetadata" -> 3
               [] s = "NovaNoVNCProxy" -> 4

(* What the invariant says of the work in progress: its types, and where   *)
(* in the plan it is.                                                      *)
Locals ==
    [spec : Specs, pending : SUBSET Conditions, applied : Secrets \cup {NoSecret},
     entries : [Computes -> Entries], hash : SUBSET Computes, fresh : BOOLEAN,
     secret : Secrets \cup {NoSecret}, lagging : SUBSET Services,
     url : URLs \cup {NoURL}, visited : SUBSET Computes, turn : Names \cup {Nobody}]
Statuses ==
    [pending : SUBSET Conditions, applied : Secrets \cup {NoSecret},
     entries : [Computes -> Entries], hash : SUBSET Computes, seen : BOOLEAN]
(* The name that a reconcile has looked at is one that the step is about.  *)
InTurn ==
    \/ local.turn = Nobody
    \/ local.turn \in Services \ {"NovaConductor"} /\ At(local.turn)
    \/ local.turn \in Obsolete /\ At("forget")
    \/ local.turn \in local.spec.templates \ local.visited /\ At("computes")
Types ==
    /\ TypeOK
    /\ isCell0 \in BOOLEAN
    /\ status \in Statuses
    /\ local \in Locals
    /\ Allowed(local.spec)
    /\ secret \in Secrets
    /\ config \in [secret : Secrets \cup {NoSecret}, url : URLs \cup {NoURL}]
    /\ PartOfPlan(todo)
    /\ todo = <<>> => local = Idle
    /\ InTurn

(* Every compute of the cell is in the status or, while a reconcile is     *)
(* under way, in the entries it works on; or the cell has lost it.         *)
Knows ==
    \A a \in Computes : child[a].owner = "cell" =>
        \/ a \in lost
        \/ todo = <<>> /\ status.entries[a] # "none"
        \/ todo # <<>> /\ local.entries[a] # "none"

(* What a service says of itself is true: once Ready it has applied what is*)
(* in its StatefulSet, and, of its generation, runs as its spec says; and a*)
(* deletion is a generation that it has not seen.  A user's CR says nothing*)
(* that counts.                                                            *)
Honest(c) ==
    /\ c.config <= secret
    /\ c.ready => c.applied = c.config /\ c.config # NoSecret
    /\ c.seen /\ c.ready => c.runs = c.spec
    /\ c.going => ~c.seen
    /\ c.owner = "user" => ~c.seen /\ ~c.ready /\ c.config = NoSecret
ChildTrue == \A n \in Names : Honest(child[n])

(* The contents of the Secret that a reconcile has met, in their order.    *)
SecretOrder ==
    /\ status.applied <= secret
    /\ todo # <<>> =>
         /\ status.applied <= local.applied /\ local.applied <= secret
         /\ local.secret <= secret
         /\ "Input" \notin local.pending => local.applied <= local.secret
    /\ Left(2, 7) => "Input" \notin local.pending

(* The copy of the spec, and the URL taken from it.                        *)
Copies ==
    /\ todo # <<>> /\ local.fresh => local.spec = cr
    /\ todo # <<>> /\ status.seen => local.fresh
    /\ local.url \in {NoURL, URLOf(local.spec)}
    /\ Left(6, 7) => local.url = URLOf(local.spec)
    /\ Left(6, 7) /\ local.url # NoURL => "NovaNoVNCProxy" \notin local.pending
    /\ Left(1, 5) => local.visited = {} /\ local.url = NoURL
    /\ Left(1, 1) => Services \subseteq local.pending
    /\ local.visited \subseteq local.spec.templates

(* CR n has rolled out the URL, of its generation; and with the Secret.    *)
Follows(n, url) ==
    LET c == child[n] IN
    c.owner = "cell" /\ ~c.going /\ c.seen /\ c.spec = url /\ c.runs = url
Updated(n) == child[n].ready /\ child[n].config = secret

(* A service that is no longer pending has rolled out the URL given to it; *)
(* and the Secret, too, if that is the one the cell has applied, or the one*)
(* the reconcile goes by and it does not lag behind.                       *)
ServicesFollow ==
    todo # <<>> => \A s \in Wanted(local.spec) \ local.pending : Follows(s, GivenTo(s))
ServicesUpdated ==
    todo # <<>> => \A s \in Wanted(local.spec) \ local.pending :
        s \notin lost /\ (\/ local.applied = secret
                          \/ s \notin local.lagging /\ local.secret = secret)
          => Updated(s)

(* Once the cell has applied the Secret of today, none of its services has *)
(* an older one, but those it has lost ...                                 *)
NoneOlder(v) ==
    v = secret => \A s \in Services \ lost :
        child[s].owner = "cell" /\ ~child[s].going => child[s].config \in {NoSecret, secret}
AppliedByAll ==
    /\ NoneOlder(status.applied)
    /\ todo # <<>> => NoneOlder(local.applied)

(* ... because a service that a reconcile leaves behind is one it wants,   *)
(* and lags unless it has that Secret.                                     *)
Passed ==
    \A s \in Services \ lost :
        Left(StepOf(s) + 1, 6) /\ child[s].owner = "cell" /\ ~child[s].going =>
            /\ s \in Wanted(local.spec)
            /\ s \notin local.lagging /\ local.secret = secret => child[s].config = secret

(* The entries that a reconcile has made are true, as long as the Secret   *)
(* stays the same; so is what it concludes from them, and what it puts in  *)
(* the compute config Secret.                                              *)
EntriesTrue ==
    todo # <<>> => \A a \in local.visited :
        local.secret = secret /\ local.entries[a] = "deployed" =>
            Follows(a, local.url) /\ Updated(a)
Concluded ==
    todo # <<>> /\ "AllComputes" \notin local.pending =>
        /\ local.url = URLOf(local.spec)
        /\ local.spec.templates \subseteq local.visited
        /\ AllDeployed
        /\ local.hash = local.spec.templates
        /\ Left(7, 8)
ConfigTrue ==
    todo # <<>> /\ "NovaComputeServiceConfig" \notin local.pending =>
        /\ ~isCell0 => config = [secret |-> local.secret, url |-> local.url]
        /\ Left(8, 8)

(* What the status says of the cell; of a service that it has lost only    *)
(* that it has been given the right spec.                                  *)
Reported ==
    Ready /\ status.applied = secret =>
        /\ \A s \in Wanted(cr) :
              /\ Follows(s, IF s = "NovaNoVNCProxy" THEN cr.url ELSE NoURL)
              /\ s \notin lost => Updated(s)
        /\ \A a \in cr.templates : Follows(a, URLOf(cr)) /\ Updated(a)
        /\ ~isCell0 => config = [secret |-> secret, url |-> URLOf(cr)]
        /\ status.hash = cr.templates

ReadyInv ==
    /\ Types /\ ChildTrue /\ SecretOrder /\ Copies /\ ServicesFollow
    /\ ServicesUpdated /\ AppliedByAll /\ Passed
    /\ EntriesTrue /\ Concluded /\ ConfigTrue /\ Reported

-----------------------------------------------------------------------------
(* The plan, step by step.                                                 *)
Ops == {"readSecret", "NovaConductor", "NovaMetadata", "NovaNoVNCProxy", "forget",
        "computes", "computeConfig", "patch"}
Dos == { Do(op) : op \in Ops }

LEMMA PlanSteps ==
    /\ Plan \in Seq(Dos)
    /\ Len(Plan) = 8
    /\ Plan[1] = Do("readSecret") /\ Plan[2] = Do("NovaConductor")
    /\ Plan[3] = Do("NovaMetadata") /\ Plan[4] = Do("NovaNoVNCProxy")
    /\ Plan[5] = Do("forget") /\ Plan[6] = Do("computes")
    /\ Plan[7] = Do("computeConfig") /\ Plan[8] = Do("patch")
<1>1. CellSteps \in Seq(Dos) /\ Len(CellSteps) = 7
  BY DEF CellSteps, Ops, Dos
<1>2. Save \in Seq(Dos) /\ Len(Save) = 1
  BY DEF Save, Ops, Dos
<1>3. /\ Plan \in Seq(Dos) /\ Len(Plan) = 7 + 1
      /\ \A i \in 1 .. 7 + 1 : Plan[i] = IF i <= 7 THEN CellSteps[i] ELSE Save[i - 7]
  <2>1. /\ CellSteps \o Save \in Seq(Dos)
        /\ Len(CellSteps \o Save) = Len(CellSteps) + Len(Save)
        /\ \A i \in 1 .. Len(CellSteps) + Len(Save) : (CellSteps \o Save)[i] =
               IF i <= Len(CellSteps) THEN CellSteps[i] ELSE Save[i - Len(CellSteps)]
    BY <1>1, <1>2, ConcatProperties, Zenon
  <2>. QED
    BY <1>1, <1>2, <2>1 DEF Plan
<1>. QED
  BY <1>3 DEF CellSteps, Save

LEMMA PlanDos == \A i \in 1 .. 8 : Plan[i] \in Dos
  BY PlanSteps, ElementOfSeq
(* What At, GoOn and End say of where a reconcile is.                      *)
LEMMA RestSteps ==
  ASSUME NEW k \in 1 .. 8
  PROVE  /\ Rest(k) # <<>>
         /\ Head(Rest(k)) = Plan[k]
         /\ k < 8 => Tail(Rest(k)) = Rest(k + 1)
         /\ Len(Rest(k)) = 9 - k
<1>1. /\ Rest(k) \in Seq(Dos) /\ Len(Rest(k)) = 9 - k
  <2>1. \A i \in k .. 8 : Plan[i] \in Dos
    BY PlanDos
  <2>. QED
    BY <2>1, SubSeqProperties DEF Rest
<1>2. /\ Head(Rest(k)) = Plan[k] /\ Tail(Rest(k)) = Rest(k + 1)
  BY PlanSteps, HeadTailOfSubSeq DEF Rest
<1>. QED
  BY <1>1, <1>2

LEMMA Ends == Rest(1) = Plan /\ Rest(8) = Save
<1>1. Rest(1) = Plan
  BY PlanSteps, SubSeqFull DEF Rest
<1>2. Save = <<Do("patch")>> /\ <<Do("patch")>> \in Seq(Dos)
  BY DEF Save, Dos, Ops
<1>3. Rest(8) \in Seq(Dos) /\ Len(Rest(8)) = 1 /\ Rest(8)[1] = Do("patch")
  <2>1. \A i \in 8 .. 8 : Plan[i] \in Dos
    BY PlanDos
  <2>. QED
    BY <2>1, PlanSteps, SubSeqProperties DEF Rest
<1>4. Rest(8) = <<Do("patch")>>
  BY <1>2, <1>3, SeqEqual
<1>. QED
  BY <1>1, <1>2, <1>4

(* Where a reconcile is, which step it takes, and where that leaves it.    *)
LEMMA Positions ==
  ASSUME PartOfPlan(todo)
  PROVE  /\ Pos \in 1 .. 9 /\ (todo = <<>> <=> Pos = 9)
         /\ Pos < 9 => todo = Rest(Pos) /\ Head(todo) = Plan[Pos]
<1>1. CASE todo = <<>>
  BY <1>1 DEF Pos
<1>2. CASE \E k \in 1 .. 8 : todo = Rest(k)
  <2>1. PICK k \in 1 .. 8 : todo = Rest(k)
    BY <1>2
  <2>2. Len(todo) = 9 - k
    BY <2>1, RestSteps
  <2>3. Pos = k
    BY <2>2 DEF Pos
  <2>4. Rest(k) # <<>> /\ Head(Rest(k)) = Plan[k]
    BY RestSteps
  <2>. QED
    BY <2>1, <2>3, <2>4
<1>. QED
  BY <1>1, <1>2 DEF PartOfPlan

LEMMA StepsAt ==
  ASSUME PartOfPlan(todo)
  PROVE  /\ At("readSecret") <=> Pos = 1
         /\ At("NovaConductor") <=> Pos = 2
         /\ At("NovaMetadata") <=> Pos = 3
         /\ At("NovaNoVNCProxy") <=> Pos = 4
         /\ At("forget") <=> Pos = 5
         /\ At("computes") <=> Pos = 6
         /\ At("computeConfig") <=> Pos = 7
         /\ At("patch") <=> Pos = 8
<1>1. \A op : Do(op).op = op
  BY DEF Do, Step
<1>2. CASE Pos = 9
  BY <1>2, Positions DEF At
<1>3. CASE Pos \in 1 .. 8
  <2>1. /\ todo # <<>>
        /\ \A op : At(op) <=> Plan[Pos].op = op
    BY <1>3, Positions DEF At
  <2>. QED
    BY <1>1, <1>3, <2>1, PlanSteps
<1>. QED
  BY <1>2, <1>3, Positions

LEMMA Moves ==
  ASSUME PartOfPlan(todo)
  PROVE  /\ todo # <<>> /\ ~At("patch") /\ GoOn =>
              PartOfPlan(todo') /\ todo' # <<>> /\ Pos' = Pos + 1
         /\ End => PartOfPlan(todo') /\ todo' # <<>> /\ Pos' = 8
         /\ todo' = <<>> => PartOfPlan(todo') /\ Pos' = 9
         /\ todo' = CellSteps \o Save => PartOfPlan(todo') /\ todo' # <<>> /\ Pos' = 1
         /\ UNCHANGED todo => PartOfPlan(todo') /\ Pos' = Pos
<1>1. ASSUME NEW k \in 1 .. 8, todo' = Rest(k)
      PROVE  PartOfPlan(todo') /\ todo' # <<>> /\ Pos' = k
  <2>1. Len(todo') = 9 - k
    BY <1>1, RestSteps
  <2>2. todo' # <<>>
    BY <1>1, RestSteps
  <2>. QED
    BY <1>1, <2>1, <2>2 DEF PartOfPlan, Pos
<1>2. ASSUME todo # <<>>, ~At("patch"), GoOn
      PROVE  PartOfPlan(todo') /\ todo' # <<>> /\ Pos' = Pos + 1
  <2>1. Pos \in 1 .. 7 /\ todo = Rest(Pos)
    BY <1>2, Positions, StepsAt
  <2>2. Pos < 8 /\ Pos \in 1 .. 8
    BY <2>1
  <2>3. Tail(Rest(Pos)) = Rest(Pos + 1)
    BY <2>2, RestSteps
  <2>4. todo' = Rest(Pos + 1)
    BY <1>2, <2>1, <2>3 DEF GoOn
  <2>. QED
    BY <1>1, <2>1, <2>4
<1>3. ASSUME End PROVE PartOfPlan(todo') /\ todo' # <<>> /\ Pos' = 8
  BY <1>1, <1>3, Ends DEF End
<1>4. ASSUME todo' = <<>> PROVE PartOfPlan(todo') /\ Pos' = 9
  BY <1>4 DEF PartOfPlan, Pos
<1>5. ASSUME todo' = CellSteps \o Save
      PROVE  PartOfPlan(todo') /\ todo' # <<>> /\ Pos' = 1
  <2>1. todo' = Rest(1)
    BY <1>5, Ends DEF Plan
  <2>. QED
    BY <1>1, <2>1
<1>6. ASSUME UNCHANGED todo PROVE PartOfPlan(todo') /\ Pos' = Pos
  BY <1>6 DEF PartOfPlan, Pos
<1>. QED
  BY <1>2, <1>3, <1>4, <1>5, <1>6

-----------------------------------------------------------------------------
(* Types.                                                                  *)
LEMMA ConstantFacts ==
    /\ 1 \in URLs /\ 1 \in Secrets /\ NoURL = 0 /\ NoSecret = 0
    /\ URLs \subseteq Nat \ {0} /\ Secrets \subseteq Nat \ {0}
    /\ Computes \cap Services = {} /\ Names = Services \cup Computes
    /\ Optional \subseteq Services /\ "NovaConductor" \notin Optional \cup Computes
    /\ Services \subseteq Conditions
    /\ {"Input", "AllComputes", "NovaComputeServiceConfig"} \subseteq Conditions \ Services
  BY CellServicesConstants DEF URLs, Secrets, NoURL, NoSecret, Names, Services, Conditions

LEMMA ContentsOrdered ==
  \A v \in Secrets \cup {NoSecret} : v \in Nat /\ NoSecret <= v
  BY CellServicesConstants DEF Secrets, NoSecret

LEMMA ChildTypes ==
    /\ NoChild \in Children /\ UsersOwn \in Children
    /\ UsersOwn.owner = "user" /\ ~UsersOwn.going /\ ~UsersOwn.ready
    /\ UsersOwn.config = NoSecret /\ UsersOwn.spec = NoURL
    /\ NoChild.owner = "none" /\ ~NoChild.going /\ ~NoChild.ready
    /\ NoChild.config = NoSecret /\ NoChild.spec = NoURL
    /\ \A c \in Children : [c EXCEPT !.going = TRUE, !.seen = FALSE] \in Children
  BY DEF NoChild, UsersOwn, Children

(* What CreateOrPatch makes of a CR.                                       *)
LEMMA WrittenType ==
  ASSUME NEW c \in Children, NEW url \in URLs \cup {NoURL}
  PROVE  LET w == Written(c, url) IN
         /\ w \in Children
         /\ w.spec = url /\ w.owner = "cell"
         /\ c.owner = "none" =>
              ~w.going /\ ~w.seen /\ ~w.ready /\ w.config = NoSecret
         /\ c.owner # "none" =>
              /\ w.going = c.going /\ w.ready = c.ready
              /\ w.config = c.config /\ w.applied = c.applied /\ w.runs = c.runs
              /\ w.seen => c.seen /\ c.spec = url
         /\ c.owner = "cell" /\ (w.seen \/ c.spec = url) => w = c
<1>1. CASE c.owner = "none"
  BY <1>1 DEF Written, NewChild, NoChild, Children
<1>2. CASE c.owner # "none"
  <2>1. Written(c, url) =
           [c EXCEPT !.owner = "cell", !.spec = url, !.seen = c.seen /\ c.spec = url]
    BY <1>2 DEF Written
  <2>2. ASSUME NEW b \in BOOLEAN
        PROVE  LET w == [c EXCEPT !.owner = "cell", !.spec = url, !.seen = b] IN
               /\ w \in Children /\ w.spec = url /\ w.owner = "cell" /\ w.seen = b
               /\ w.going = c.going /\ w.ready = c.ready
               /\ w.config = c.config /\ w.applied = c.applied /\ w.runs = c.runs
               /\ c.owner = "cell" /\ c.spec = url /\ c.seen = b => w = c
    BY DEF Children
  <2>3. c.seen \in BOOLEAN /\ (c.seen /\ c.spec = url) \in BOOLEAN
    BY DEF Children
  <2>. QED
    BY <1>2, <2>1, <2>2, <2>3
<1>. QED
  BY <1>1, <1>2

LEMMA IdleType ==
    /\ Idle \in Locals /\ Idle.fresh = FALSE /\ Idle.visited = {} /\ Idle.url = NoURL
    /\ Idle.turn = Nobody
  BY ConstantFacts DEF Idle, Locals, Specs, NoEntries, Entries

LEMMA TypesInit == Init => Types
<1> SUFFICES ASSUME Init PROVE Types
  OBVIOUS
<1>1. /\ isCell0 \in BOOLEAN /\ todo = <<>> /\ local = Idle /\ secret = 1
      /\ lost = {} /\ taken = {}
  BY CellServicesConstants DEF Init
<1>2. cr \in Specs /\ Allowed(cr) /\ cr.url = 1 /\ cr.enabled \subseteq Optional
  BY ConstantFacts DEF Init, FullSpec, Specs, Allowed
<1>3. PartOfPlan(todo) /\ Allowed(local.spec) /\ InTurn
  BY <1>1 DEF PartOfPlan, Allowed, Idle, InTurn
<1>4. CASE New
  <2>1. status \in Statuses
    BY <1>4 DEF New, Statuses, NoEntries, Entries
  <2>2. PICK users \in SUBSET (Optional \cup Computes) :
           child = [n \in Names |-> IF n \in users THEN UsersOwn ELSE NoChild]
    BY <1>4 DEF New
  <2>3. child \in [Names -> Children]
    BY <2>2, ChildTypes
  <2>4. /\ \A a \in Computes : ~child[a].going
        /\ child["NovaConductor"].owner # "user"
    BY <2>2, ConstantFacts, ChildTypes DEF Services
  <2>5. config = NoConfig
    BY <1>4 DEF New
  <2>. QED
    BY <1>1, <1>2, <1>3, <2>1, <2>3, <2>4, <2>5, ConstantFacts, IdleType
    DEF Types, TypeOK, Statuses, NoConfig
<1>5. CASE Deployed
  <2>1. status \in Statuses
    BY <1>2, <1>5, ConstantFacts DEF Deployed, Statuses, Entries, Specs
  <2>2. URLOf(cr) \in URLs \cup {NoURL}
    BY <1>2 DEF URLOf, Specs
  <2>3. \A n \in Names : child[n] \in Children /\ ~child[n].going /\ child[n].owner # "user"
    BY <1>5, <2>2, ConstantFacts, ChildTypes DEF Deployed, Children
  <2>4. child \in [Names -> Children]
    BY <1>5, <2>3 DEF Deployed
  <2>5. /\ config \in [secret : Secrets \cup {NoSecret}, url : URLs \cup {NoURL}]
        /\ isCell0 => config = NoConfig
    BY <1>1, <1>5, <2>2, ConstantFacts DEF Deployed, NoConfig
  <2>. QED
    BY <1>1, <1>2, <1>3, <2>1, <2>3, <2>4, <2>5, ConstantFacts, IdleType
    DEF Types, TypeOK, Statuses, Services
<1>. QED
  BY <1>4, <1>5 DEF Init

(* Who leaves what alone: the last of these are what a step may do to the  *)
(* work in progress and stay well typed.                                   *)
LEMMA KeepsTypes ==
  ASSUME Types, UNCHANGED <<isCell0, cr, secret>>,
         status' \in Statuses, local' \in Locals, Allowed(local'.spec),
         PartOfPlan(todo'), todo' = <<>> => local' = Idle,
         child' \in [Names -> Children], \A a \in Computes : ~child'[a].going,
         child'["NovaConductor"].owner # "user",
         config' \in [secret : Secrets \cup {NoSecret}, url : URLs \cup {NoURL}],
         isCell0 => config' = config, lost' \subseteq Names, taken' \subseteq Names,
         InTurn'
  PROVE  Types'
<1>1. (Allowed(cr))' /\ (Allowed(local.spec))'
  BY DEF Types, TypeOK, Allowed
<1>. QED
  BY <1>1 DEF Types, TypeOK, Statuses

(* A reconcile turns to one name after the other.                          *)
LEMMA TurnMoves ==
  ASSUME Types, [Next]_vars, local'.turn # Nobody
  PROVE  \/ \E s \in Services : LookAt(s) /\ local'.turn = s
         \/ \E a \in Computes : LookAtObsolete(a) /\ local'.turn = a
         \/ \E a \in Computes : LookAtCompute(a) /\ local'.turn = a
         \/ /\ local.turn # Nobody
            /\ EditSpec \/ UNCHANGED local
            /\ UNCHANGED todo
            /\ \/ UNCHANGED <<child, taken>>
               \/ \E n \in Names : \/ UserCreates(n) \/ UserDeletes(n)
                                   \/ ServiceStarts(n) \/ ServiceReady(n) \/ ServiceGone(n)
<1> USE DEF cellVars, workVars, boundVars
<1>t. local \in Locals /\ InTurn /\ Idle.turn = Nobody
  BY IdleType DEF Types
<1>a. \A p, q : At(p) /\ At(q) => p = q
  BY DEF At
<1>1. CASE EditSpec
  BY <1>1, <1>t DEF EditSpec, Locals
<1>2. CASE EditSecret \/ UNCHANGED vars
  BY <1>2 DEF EditSecret, vars
<1>3. ASSUME NEW n \in Names, \/ UserCreates(n) \/ UserDeletes(n) \/ ServiceStarts(n)
                              \/ ServiceReady(n) \/ ServiceGone(n)
      PROVE  local.turn # Nobody /\ UNCHANGED <<todo, local>>
  BY <1>3 DEF UserCreates, UserDeletes, ServiceStarts, ServiceReady, ServiceGone
<1>4. ASSUME Begin \/ Patch \/ PatchFails \/ Restart PROVE FALSE
  BY <1>4, <1>t DEF Begin, Patch, PatchFails, Restart, Idle
<1>5. ASSUME CallFails PROVE FALSE
  BY <1>5, <1>t DEF CallFails, Locals
<1>6. ASSUME NEW s \in Services, EnsureService(s) \/ DropService(s) \/ DropFails(s) PROVE FALSE
  BY <1>6, <1>t DEF EnsureService, DropService, DropFails, Locals
<1>7. ASSUME NEW a \in Computes, \/ ForgetCompute(a) \/ ForgetFails(a) \/ EnsureCompute(a)
                                 \/ ComputeFails(a)
      PROVE FALSE
  BY <1>7, <1>t DEF ForgetCompute, ForgetFails, EnsureCompute, ComputeFails, Visit, Locals
<1>8. ASSUME NEW s \in Services, RefuseService(s) \/ SkipService(s) PROVE FALSE
  BY <1>8, <1>t DEF RefuseService, SkipService, Locals
<1>9. ASSUME ReadSecret \/ ProxyURL \/ Judge \/ EnsureComputeConfig PROVE FALSE
  <2>1. /\ local.turn # Nobody
        /\ At("readSecret") \/ (At("forget") /\ Obsolete = {})
           \/ (At("computes") /\ local.spec.templates \subseteq local.visited)
           \/ At("computeConfig")
    BY <1>9, <1>t DEF ReadSecret, ProxyURL, Judge, EnsureComputeConfig, Locals
  <2>2. {"readSecret", "forget", "computes", "computeConfig"} \cap Services = {}
    BY DEF Services
  <2>. QED
    BY <1>a, <1>t, <2>1, <2>2 DEF InTurn
<1>10. ASSUME NEW s \in Services, LookAt(s) PROVE local'.turn = s
  BY <1>10, <1>t DEF LookAt, Locals
<1>11. ASSUME NEW a \in Computes, LookAtObsolete(a) PROVE local'.turn = a
  BY <1>11, <1>t DEF LookAtObsolete, Locals
<1>12. ASSUME NEW a \in Computes, LookAtCompute(a) PROVE local'.turn = a
  BY <1>12, <1>t DEF LookAtCompute, Visit, Locals
<1>. QED
  BY <1>1, <1>2, <1>3, <1>4, <1>5, <1>6, <1>7, <1>8, <1>9, <1>10, <1>11, <1>12
  DEF Next, Reconcile, Progress, Fault

LEMMA InTurnStep == Types /\ [Next]_vars => InTurn'
<1> SUFFICES ASSUME Types, [Next]_vars, local'.turn # Nobody PROVE InTurn'
  BY DEF InTurn
<1> USE DEF cellVars, workVars, boundVars
<1>t. local \in Locals /\ InTurn
  BY DEF Types
<1>1. ASSUME NEW s \in Services, LookAt(s), local'.turn = s PROVE InTurn'
  BY <1>1 DEF LookAt, InTurn, At
<1>2. ASSUME NEW a \in Computes, LookAtObsolete(a), local'.turn = a PROVE InTurn'
  <2>1. a # Nobody
    BY CellServicesConstants
  <2>2. local' = [local EXCEPT !.turn = a] /\ UNCHANGED todo
    <3>1. child[a].owner # "cell" => local' = [local EXCEPT !.entries[a] = "none"]
      BY <1>2 DEF LookAtObsolete
    <3>2. child[a].owner # "cell" => local'.turn = Nobody
      BY <1>2, <1>t, <3>1 DEF LookAtObsolete, Locals
    <3>. QED
      BY <1>2, <2>1, <3>2 DEF LookAtObsolete
  <2>3. a \in Obsolete' /\ At("forget")'
    BY <1>2, <1>t, <2>2 DEF LookAtObsolete, Obsolete, Known, At, Locals
  <2>. QED
    BY <1>2, <2>3 DEF InTurn
<1>3. ASSUME NEW a \in Computes, LookAtCompute(a), local'.turn = a PROVE InTurn'
  <2>1. a # Nobody
    BY CellServicesConstants
  <2>2. local' = [local EXCEPT !.turn = a] /\ UNCHANGED todo
    BY <1>3, <1>t, <2>1 DEF LookAtCompute, Visit, Locals
  <2>3. a \in local'.spec.templates \ local'.visited /\ At("computes")'
    BY <1>3, <1>t, <2>2 DEF LookAtCompute, At, Locals
  <2>. QED
    BY <1>3, <2>3 DEF InTurn
<1>4. ASSUME local.turn # Nobody, EditSpec \/ UNCHANGED local, UNCHANGED todo PROVE InTurn'
  <2>1. /\ local'.turn = local.turn /\ local'.spec = local.spec
        /\ local'.entries = local.entries /\ local'.visited = local.visited
    BY <1>4, <1>t DEF EditSpec, Locals
  <2>. QED
    BY <1>4, <1>t, <2>1 DEF InTurn, Obsolete, Known, At
<1>. QED
  BY <1>1, <1>2, <1>3, <1>4, TurnMoves

LEMMA TakenStep ==
  ASSUME Types, [Next]_vars
  PROVE  /\ taken' \subseteq Names
         /\ taken' = taken \/ KeepTaken \/ (\E n \in Names : UserCreates(n) \/ UserDeletes(n)
                                                           \/ ServiceGone(n))
<1>1. taken' = taken \/ KeepTaken \/ (\E n \in Names : UserCreates(n) \/ UserDeletes(n)
                                                     \/ ServiceGone(n))
  BY DEF Next, Reconcile, Progress, Fault, vars, EditSpec, EditSecret, ServiceStarts, ServiceReady,
     Begin, ReadSecret, ProxyURL, Judge, EnsureComputeConfig, Patch, CallFails, PatchFails,
     Restart, LookAt, RefuseService, SkipService, EnsureService, DropService, DropFails,
     LookAtObsolete, ForgetCompute, ForgetFails, LookAtCompute, EnsureCompute, ComputeFails
<1>2. ASSUME NEW n \in Names, UserCreates(n) \/ UserDeletes(n) \/ ServiceGone(n)
      PROVE  taken' \subseteq taken \cup {n}
  BY <1>2 DEF UserCreates, UserDeletes, ServiceGone
<1>. QED
  BY <1>1, <1>2 DEF Types, TypeOK, KeepTaken

LEMMA TypesStep == Types /\ [Next]_vars => Types'
<1> SUFFICES ASSUME Types, [Next]_vars PROVE Types'
  OBVIOUS
<1> USE DEF cellVars, workVars, boundVars
<1>t. /\ cr \in Specs /\ status \in Statuses /\ local \in Locals /\ secret \in Secrets
      /\ child \in [Names -> Children] /\ lost \subseteq Names
      /\ config \in [secret : Secrets \cup {NoSecret}, url : URLs \cup {NoURL}]
      /\ isCell0 \in BOOLEAN /\ PartOfPlan(todo) /\ (todo = <<>> => local = Idle)
      /\ Allowed(local.spec) /\ \A a \in Computes : ~child[a].going
      /\ child["NovaConductor"].owner # "user" /\ InTurn' /\ taken' \subseteq Names
  BY InTurnStep, TakenStep DEF Types, TypeOK
<1>1. CASE EditSpec
  <2>1. cr' \in Specs
    <3>1. /\ MaxURL \in Nat /\ \A s \in Optional : {s} \subseteq Optional
          /\ \A a \in Computes : {a} \subseteq Computes
      BY CellServicesConstants
    <3>2. ASSUME NEW E \in SUBSET Optional, NEW T \in SUBSET Computes, NEW u \in URLs
          PROVE  /\ [cr EXCEPT !.enabled = E] \in Specs
                 /\ [cr EXCEPT !.templates = T] \in Specs
                 /\ [cr EXCEPT !.url = u] \in Specs
      BY <1>t DEF Specs
    <3>3. cr.enabled \subseteq Optional /\ cr.templates \subseteq Computes /\ cr.url \in URLs
      BY <1>t DEF Specs
    <3>4. cr.url < MaxURL => cr.url + 1 \in URLs
      BY <3>1, <3>3 DEF URLs
    <3>. QED
      BY <1>1, <3>2, <3>3, <3>4 DEF EditSpec
  <2>2. status' \in Statuses
    BY <1>1, <1>t DEF EditSpec, Statuses
  <2>3. local' \in Locals /\ local'.spec = local.spec /\ (todo' = <<>> => local' = Idle)
    BY <1>1, <1>t, IdleType DEF EditSpec, Locals
  <2>4. (Allowed(cr))' /\ (Allowed(local.spec))'
    BY <1>1, <1>t, <2>3 DEF EditSpec, Allowed
  <2>. QED
    BY <1>1, <2>1, <2>2, <2>3, <2>4, <1>t, Moves DEF EditSpec, Types, TypeOK, Statuses
<1>2. CASE EditSecret
  <2>1. secret' \in Secrets
    BY <1>2, <1>t, CellServicesConstants DEF EditSecret, Secrets
  <2>2. (Allowed(cr))' /\ (Allowed(local.spec))'
    BY <1>2, <1>t DEF EditSecret, Types, TypeOK, Allowed
  <2>. QED
    BY <1>2, <2>1, <2>2, <1>t, Moves DEF EditSecret, Types, TypeOK
<1>3. ASSUME NEW n \in Names, NEW c \in Children, child' = [child EXCEPT ![n] = c],
             ~c.going, c.owner = "user" => n # "NovaConductor",
             UNCHANGED <<cellVars, todo, local, secret, config, lost>>
      PROVE  Types'
  <2>1. /\ child' \in [Names -> Children]
        /\ \A a \in Computes : ~child'[a].going
        /\ child'["NovaConductor"].owner # "user"
    BY <1>3, <1>t, ConstantFacts
  <2>. QED
    BY <1>3, <2>1, <1>t, Moves, KeepsTypes
<1>4. ASSUME NEW n \in Names, UserCreates(n) PROVE Types'
  BY <1>3, <1>4, ChildTypes, ConstantFacts DEF UserCreates
<1>5. ASSUME NEW n \in Names, UserDeletes(n) PROVE Types'
  BY <1>3, <1>5, ChildTypes DEF UserDeletes
<1>6. ASSUME NEW n \in Names, ServiceStarts(n) PROVE Types'
  <2> DEFINE c == [child[n] EXCEPT !.seen = TRUE, !.config = secret,
                     !.ready = child[n].ready /\ child[n].config = secret
                               /\ child[n].runs = child[n].spec]
  <2>1. ASSUME NEW b \in BOOLEAN
        PROVE  LET d == [child[n] EXCEPT !.seen = TRUE, !.config = secret, !.ready = b] IN
               d \in Children /\ ~d.going /\ d.owner = "cell"
    BY <1>6, <1>t DEF ServiceStarts, Children
  <2>2. c \in Children /\ ~c.going /\ c.owner = "cell"
    BY <2>1
  <2>. QED
    BY <1>3, <1>6, <2>2 DEF ServiceStarts
<1>7. ASSUME NEW n \in Names, ServiceReady(n) PROVE Types'
  <2> DEFINE c == [child[n] EXCEPT !.ready = TRUE, !.applied = child[n].config,
                     !.runs = child[n].spec]
  <2>1. c \in Children /\ ~c.going /\ c.owner = "cell"
    BY <1>7, <1>t DEF ServiceReady, Children
  <2>. QED
    BY <1>3, <1>7, <2>1 DEF ServiceReady
<1>8. ASSUME NEW n \in Names, ServiceGone(n) PROVE Types'
  BY <1>3, <1>8, ChildTypes DEF ServiceGone
<1>9. CASE Begin
  <2>1. local' \in Locals /\ local'.spec = cr
    BY <1>9, <1>t, IdleType DEF Begin, Locals, Statuses, Idle
  <2>2. (Allowed(local.spec))' /\ todo' # <<>>
    BY <1>9, <2>1, <1>t, Moves DEF Begin, Allowed, Types, TypeOK
  <2>. QED
    BY <1>9, <2>1, <2>2, <1>t, Moves, KeepsTypes DEF Begin, Allowed
<1>10. ASSUME todo # <<>>, ~At("patch"), GoOn \/ End \/ UNCHANGED todo,
              local' \in Locals, local'.spec = local.spec,
              UNCHANGED <<cellVars, secret, config>>,
              child' \in [Names -> Children], \A a \in Computes : ~child'[a].going,
              child'["NovaConductor"].owner # "user", lost' \subseteq Names
       PROVE  Types'
  <2>1. PartOfPlan(todo') /\ todo' # <<>> /\ (Allowed(local.spec))'
    BY <1>10, <1>t, Moves DEF Allowed
  <2>. QED
    BY <1>10, <2>1, <1>t, KeepsTypes DEF Allowed
<1>11. ASSUME todo # <<>>, todo' = <<>> /\ local' = Idle, status' \in Statuses,
              UNCHANGED <<isCell0, cr, secret, child, config>>, lost' \subseteq Names
       PROVE  Types'
  <2>1. PartOfPlan(todo') /\ local' \in Locals
    BY <1>11, <1>t, Moves, IdleType
  <2>2. (Allowed(local.spec))'
    BY <1>11 DEF Allowed, Idle
  <2>. QED
    BY <1>11, <2>1, <2>2, <1>t, KeepsTypes DEF Allowed
<1>s. \A op : At(op) => todo # <<>> /\ (op # "patch" => ~At("patch"))
  BY DEF At
<1>l. /\ local.pending \subseteq Conditions /\ local.lagging \subseteq Services
      /\ local.entries \in [Computes -> Entries] /\ local.visited \subseteq Computes
      /\ local.spec \in Specs
  BY <1>t DEF Locals
<1>12. CASE Patch
  <2>1. Outcome \in Statuses
    BY <1>t DEF Outcome, Statuses, Locals
  <2>. QED
    BY <1>12, <2>1, <1>11, <1>s, <1>t DEF Patch
<1>13. CASE ReadSecret
  <2>1. local' \in Locals /\ local'.spec = local.spec
    BY <1>13, <1>t DEF ReadSecret, Locals
  <2>. QED
    BY <1>13, <2>1, <1>10, <1>s, <1>t DEF ReadSecret
<1>14. ASSUME NEW s \in Services, EnsureService(s) PROVE Types'
  <2>1. GivenTo(s) \in URLs \cup {NoURL} /\ s \in Names /\ child[s] \in Children
    BY <1>l, <1>t, ConstantFacts DEF GivenTo, Specs
  <2>2. Written(child[s], GivenTo(s)) \in Children /\ Written(child[s], GivenTo(s)).owner = "cell"
    BY <2>1, WrittenType
  <2>3. /\ child' \in [Names -> Children]
        /\ \A a \in Computes : ~child'[a].going
        /\ child'["NovaConductor"].owner # "user"
    BY <1>14, <2>1, <2>2, <1>t, ConstantFacts DEF EnsureService
  <2>4. local' \in Locals /\ local'.spec = local.spec
    BY <1>14, <1>t, ConstantFacts DEF EnsureService, Locals
  <2>5. lost' \subseteq Names /\ s # "patch"
    BY <1>14, <1>t DEF EnsureService, Services
  <2>. QED
    BY <1>14, <2>3, <2>4, <2>5, <1>10, <1>s DEF EnsureService
<1>15. ASSUME NEW s \in Services, RefuseService(s) PROVE Types'
  <2>1. s # "patch"
    BY DEF Services
  <2>. QED
    BY <1>15, <2>1, <1>10, <1>s, <1>t DEF RefuseService
<1>16. ASSUME NEW s \in Services, DropService(s) PROVE Types'
  <2>1. s \in Names /\ s \notin Computes /\ s # "patch"
    BY ConstantFacts DEF Services
  <2>2. /\ child' \in [Names -> Children]
        /\ \A a \in Computes : ~child'[a].going
        /\ child'["NovaConductor"].owner # "user"
    <3>1. CASE child[s].owner # "none"
      <4> DEFINE c == [child[s] EXCEPT !.going = TRUE, !.seen = FALSE]
      <4>1. c \in Children /\ c.owner = child[s].owner
        <5>1. child[s] \in Children
          BY <2>1, <1>t
        <5>. QED
          BY <3>1, <5>1 DEF Children
      <4>2. child' = [child EXCEPT ![s] = c]
        BY <1>16, <3>1, <2>1, <1>t DEF DropService
      <4>. QED
        BY <4>1, <4>2, <2>1, <1>t
    <3>2. CASE child[s].owner = "none"
      BY <1>16, <3>2, <1>t DEF DropService
    <3>. QED
      BY <3>1, <3>2
  <2>3. local' \in Locals /\ local'.spec = local.spec
    BY <1>16, <1>t, ConstantFacts DEF DropService, Locals
  <2>. QED
    BY <1>16, <2>1, <2>2, <2>3, <1>10, <1>s, <1>t DEF DropService
<1>17. ASSUME NEW a \in Computes, ForgetCompute(a) PROVE Types'
  <2>1. /\ child' \in [Names -> Children]
        /\ \A b \in Computes : ~child'[b].going
        /\ child'["NovaConductor"].owner # "user"
    <3>1. a \in Names /\ a # "NovaConductor" /\ "NovaConductor" \in Names
      BY ConstantFacts DEF Services
    <3>2. \/ child' = child
          \/ child' = [child EXCEPT ![a] = NoChild]
      BY <1>17 DEF ForgetCompute
    <3>3. CASE child' = [child EXCEPT ![a] = NoChild]
      <4>1. NoChild \in Children /\ ~NoChild.going
        BY ChildTypes
      <4>. QED
        BY <3>1, <3>3, <4>1, <1>t
    <3>. QED
      BY <3>2, <3>3, <1>t
  <2>2. local' \in Locals /\ local'.spec = local.spec
    BY <1>17, <1>t DEF ForgetCompute, Entries, Locals
  <2>. QED
    BY <1>17, <2>1, <2>2, <1>10, <1>s, <1>t DEF ForgetCompute
<1>18. ASSUME NEW s \in Services, LookAt(s) \/ SkipService(s) PROVE Types'
  <2>1. s # "patch" /\ s \in Names
    BY ConstantFacts DEF Services
  <2>2. local' \in Locals /\ local'.spec = local.spec
    BY <1>18, <2>1, <1>t DEF LookAt, SkipService, Locals
  <2>. QED
    BY <1>18, <2>1, <2>2, <1>10, <1>s, <1>t DEF LookAt, SkipService
<1>30. ASSUME NEW a \in Computes, LookAtObsolete(a) \/ LookAtCompute(a) PROVE Types'
  <2>1. a \in Names
    BY ConstantFacts
  <2>2. local' \in Locals /\ local'.spec = local.spec
    <3>1. \/ local' = [local EXCEPT !.turn = a]
          \/ local' = [local EXCEPT !.entries[a] = "none"]
          \/ Visit(a, "failed")
      BY <1>30 DEF LookAtObsolete, LookAtCompute
    <3>2. CASE local' = [local EXCEPT !.turn = a] \/ local' = [local EXCEPT !.entries[a] = "none"]
      BY <2>1, <3>2, <1>t DEF Entries, Locals
    <3>3. CASE Visit(a, "failed")
      BY <3>3, <1>t DEF Visit, Entries, Locals
    <3>. QED
      BY <3>1, <3>2, <3>3
  <2>. QED
    BY <1>30, <2>2, <1>10, <1>s, <1>t DEF LookAtObsolete, LookAtCompute
<1>19. CASE ProxyURL
  <2>1. URLOf(local.spec) \in URLs \cup {NoURL}
    BY <1>l DEF URLOf, Specs
  <2>2. local' \in Locals /\ local'.spec = local.spec
    BY <1>19, <2>1, <1>t DEF ProxyURL, Locals
  <2>. QED
    BY <1>19, <2>2, <1>10, <1>s, <1>t DEF ProxyURL
<1>20. ASSUME NEW a \in Computes, EnsureCompute(a) PROVE Types'
  <2>1. /\ child' \in [Names -> Children]
        /\ \A b \in Computes : ~child'[b].going
        /\ child'["NovaConductor"].owner # "user"
    <3>1. /\ local.url \in URLs \cup {NoURL} /\ a \in Names /\ child[a] \in Children
          /\ ~child[a].going
      BY <1>t, ConstantFacts DEF Locals
    <3>2. /\ Written(child[a], local.url) \in Children
          /\ ~Written(child[a], local.url).going
      BY <3>1, WrittenType DEF Children
    <3>. QED
      BY <1>20, <3>1, <3>2, <1>t, ConstantFacts DEF EnsureCompute
  <2>2. \A c : EntryOf(c) \in Entries
    BY DEF EntryOf, Entries
  <2>3. local' \in Locals /\ local'.spec = local.spec
    BY <1>20, <2>2, <1>t DEF EnsureCompute, Visit, Locals
  <2>. QED
    BY <1>20, <2>1, <2>3, <1>10, <1>s, <1>t DEF EnsureCompute
<1>21. CASE Judge
  <2>1. local' \in Locals /\ local'.spec = local.spec
    BY <1>21, <1>t, <1>l DEF Judge, Locals, Specs
  <2>. QED
    BY <1>21, <2>1, <1>10, <1>s, <1>t DEF Judge
<1>22. CASE EnsureComputeConfig
  <2>1. local' \in Locals /\ local'.spec = local.spec
    BY <1>22, <1>t, ConstantFacts DEF EnsureComputeConfig, Locals
  <2>2. /\ config' \in [secret : Secrets \cup {NoSecret}, url : URLs \cup {NoURL}]
        /\ isCell0 => config' = config
    BY <1>22, <1>t DEF EnsureComputeConfig, Locals
  <2>3. PartOfPlan(todo') /\ todo' # <<>>
    BY <1>22, <1>s, <1>t, Moves DEF EnsureComputeConfig
  <2>4. Allowed(local'.spec)
    BY <1>22, <2>1, <1>t DEF EnsureComputeConfig, Allowed
  <2>. QED
    BY <1>22, <2>1, <2>2, <2>3, <2>4, <1>t, KeepsTypes DEF EnsureComputeConfig
<1>23. CASE CallFails
  <2>1. todo # <<>> /\ ~At("patch")
    BY <1>23 DEF CallFails, Calls, Services, At
  <2>2. local' \in Locals /\ local'.spec = local.spec
    BY <1>23, <1>t DEF CallFails, Locals
  <2>. QED
    BY <1>23, <2>1, <2>2, <1>10, <1>t DEF CallFails
<1>24. CASE PatchFails
  BY <1>24, <1>11, <1>s, <1>t, ConstantFacts DEF PatchFails, Unsaved, Known
<1>25. CASE Restart
  BY <1>25, <1>11, <1>t, ConstantFacts DEF Restart, Unsaved, Known
<1>26. ASSUME NEW s \in Services, DropFails(s) PROVE Types'
  <2>1. local' \in Locals /\ local'.spec = local.spec
    BY <1>26, <1>t, ConstantFacts DEF DropFails, Locals
  <2>2. s # "patch" /\ s \in Names
    BY ConstantFacts DEF Services
  <2>. QED
    BY <1>26, <2>1, <2>2, <1>10, <1>s, <1>t DEF DropFails
<1>27. ASSUME NEW a \in Computes, ComputeFails(a) PROVE Types'
  <2>1. local' \in Locals /\ local'.spec = local.spec
    BY <1>27, <1>t DEF ComputeFails, Visit, Entries, Locals
  <2>. QED
    BY <1>27, <2>1, <1>10, <1>s, <1>t DEF ComputeFails
<1>28. ASSUME NEW a \in Computes, ForgetFails(a) PROVE Types'
  <2>1. local' \in Locals /\ local'.spec = local.spec
    BY <1>28, <1>t DEF ForgetFails, Entries, Locals
  <2>. QED
    BY <1>28, <2>1, <1>10, <1>s, <1>t, ConstantFacts DEF ForgetFails
<1>29. CASE UNCHANGED vars
  BY <1>29, <1>t, Moves DEF vars, Types, TypeOK, Allowed
<1>. QED
  BY <1>1, <1>2, <1>4, <1>5, <1>6, <1>7, <1>8, <1>9, <1>12, <1>13, <1>14, <1>15, <1>16,
     <1>17, <1>18, <1>19, <1>20, <1>21, <1>22, <1>23, <1>24, <1>25, <1>26, <1>27, <1>28,
     <1>29, <1>30 DEF Next, Reconcile, Progress, Fault

-----------------------------------------------------------------------------
(* The computes that a cell knows of.                                      *)
LEMMA KnowsInit == Init => Knows
<1> SUFFICES ASSUME Init, NEW a \in Computes, child[a].owner = "cell"
             PROVE  todo = <<>> /\ status.entries[a] # "none"
  BY DEF Knows
<1>1. a \in Names /\ a \notin Services /\ todo = <<>>
  BY ConstantFacts DEF Init
<1>2. CASE New
  BY <1>1, <1>2, ChildTypes DEF New
<1>3. CASE Deployed
  <2>1. a \in cr.templates
    <3>1. a \notin Wanted(cr)
      BY <1>1, ConstantFacts DEF Init, FullSpec, Wanted, Services
    <3>. QED
      BY <1>1, <1>3, <3>1, ChildTypes DEF Deployed
  <2>2. ~isCell0
    BY <2>1 DEF Init, FullSpec
  <2>. QED
    BY <1>1, <1>3, <2>2 DEF Deployed
<1>. QED
  BY <1>2, <1>3 DEF Init

LEMMA KnowsStep == Types /\ Knows /\ [Next]_vars => Knows'
<1> SUFFICES ASSUME Types, Knows, [Next]_vars PROVE Knows'
  OBVIOUS
<1> USE DEF cellVars, workVars, boundVars
<1>t. /\ local \in Locals /\ child \in [Names -> Children]
      /\ PartOfPlan(todo) /\ (todo = <<>> => local = Idle)
      /\ Computes \subseteq Names /\ Computes \cap Services = {}
  BY ConstantFacts DEF Types, TypeOK
<1>m. /\ todo # <<>> /\ ~At("patch") /\ GoOn => todo' # <<>>
      /\ End => todo' # <<>>
  BY <1>t, Moves
<1>s. \A op : At(op) => todo # <<>> /\ (op # "patch" => ~At("patch"))
  BY DEF At
<1>1. ASSUME todo = <<>> <=> todo' = <<>>,
             \A a \in Computes : child'[a].owner = "cell" =>
                 \/ a \in lost'
                 \/ /\ child[a].owner = "cell" /\ a \notin lost
                    /\ status'.entries[a] = status.entries[a]
                    /\ local'.entries[a] = local.entries[a]
                 \/ todo # <<>> /\ local'.entries[a] # "none"
      PROVE  Knows'
  BY <1>1 DEF Knows
<1>2. CASE EditSpec
  BY <1>1, <1>2, <1>t DEF EditSpec, Locals
<1>3. CASE EditSecret
  BY <1>1, <1>3 DEF EditSecret
<1>4. ASSUME NEW n \in Names, UserCreates(n) \/ UserDeletes(n) PROVE Knows'
  BY <1>1, <1>4, <1>t, ChildTypes DEF UserCreates, UserDeletes
<1>5. ASSUME NEW n \in Names, ServiceStarts(n) \/ ServiceReady(n) \/ ServiceGone(n)
      PROVE  Knows'
  BY <1>1, <1>5, <1>t, ChildTypes DEF ServiceStarts, ServiceReady, ServiceGone
<1>6. CASE Begin
  <2>1. todo' # <<>>
    BY <1>6, <1>t, Moves DEF Begin
  <2>. QED
    BY <1>6, <2>1 DEF Begin, Knows
<1>7. CASE Patch
  BY <1>7, <1>s DEF Patch, Knows, Outcome
<1>8. CASE ReadSecret \/ ProxyURL \/ Judge \/ EnsureComputeConfig
  <2>1. /\ todo # <<>> /\ todo' # <<>> /\ UNCHANGED <<status, child, lost>>
        /\ local'.entries = local.entries
    <3>1. todo # <<>> /\ todo' # <<>>
      BY <1>8, <1>m, <1>s DEF ReadSecret, ProxyURL, Judge, EnsureComputeConfig
    <3>2. UNCHANGED <<status, child, lost>>
      BY <1>8 DEF ReadSecret, ProxyURL, Judge, EnsureComputeConfig
    <3>3. local'.entries = local.entries
      BY <1>8, <1>t DEF ReadSecret, ProxyURL, Judge, EnsureComputeConfig, Locals
    <3>. QED
      BY <3>1, <3>2, <3>3
  <2>. QED
    BY <1>1, <2>1
<1>9. ASSUME NEW s \in Services, \/ EnsureService(s) \/ RefuseService(s) \/ DropService(s)
                                 \/ DropFails(s) \/ LookAt(s) \/ SkipService(s)
      PROVE  Knows'
  <2>1. s # "patch" /\ s \in Names /\ s \notin Computes
    BY <1>t, ConstantFacts DEF Services
  <2>2. todo # <<>> /\ todo' # <<>> /\ UNCHANGED status /\ local'.entries = local.entries
    BY <1>9, <2>1, <1>m, <1>s, <1>t
    DEF EnsureService, RefuseService, DropService, DropFails, LookAt, SkipService, Locals
  <2>3. \A a \in Computes : child'[a] = child[a] /\ (a \in lost <=> a \in lost')
    BY <1>9, <2>1, <1>t
    DEF EnsureService, RefuseService, DropService, DropFails, LookAt, SkipService
  <2>. QED
    BY <1>1, <2>2, <2>3
<1>10. ASSUME NEW a \in Computes, ForgetCompute(a) \/ ForgetFails(a) PROVE Knows'
  <2>1. /\ todo # <<>> /\ UNCHANGED <<todo, status>>
        /\ local' = [local EXCEPT !.turn = Nobody, !.entries[a] = "none"]
    BY <1>10, <1>s DEF ForgetCompute, ForgetFails
  <2>2. \A b \in Computes \ {a} :
              /\ child'[b] = child[b]
              /\ b \in lost <=> b \in lost'
    BY <1>10, <1>t DEF ForgetCompute, ForgetFails
  <2>3. \A b \in Computes \ {a} : local'.entries[b] = local.entries[b]
    BY <2>1, <1>t DEF Locals
  <2>4. child'[a].owner # "cell" \/ a \in lost'
    BY <1>10, <1>t, ChildTypes DEF ForgetCompute, ForgetFails
  <2>. QED
    BY <1>1, <2>1, <2>2, <2>3, <2>4
<1>11. ASSUME NEW a \in Computes, NEW e, e # "none", Visit(a, e), todo # <<>>,
              UNCHANGED <<todo, status>>,
              \A b \in Computes \ {a} : child'[b] = child[b] /\ (b \in lost <=> b \in lost')
       PROVE  Knows'
  <2>1. /\ local'.entries[a] # "none"
        /\ \A b \in Computes \ {a} : local'.entries[b] = local.entries[b]
    BY <1>11, <1>t DEF Visit, Locals
  <2>. QED
    BY <1>1, <1>11, <2>1
<1>15. ASSUME NEW a \in Computes, EnsureCompute(a) \/ ComputeFails(a) PROVE Knows'
  <2>1. /\ todo # <<>> /\ UNCHANGED <<todo, status>>
        /\ \A b \in Computes \ {a} : child'[b] = child[b] /\ (b \in lost <=> b \in lost')
    BY <1>15, <1>s, <1>t DEF EnsureCompute, ComputeFails
  <2>2. PICK e : e # "none" /\ Visit(a, e)
    <3>1. \A c : EntryOf(c) # "none"
      BY DEF EntryOf
    <3>. QED
      BY <1>15, <3>1 DEF EnsureCompute, ComputeFails
  <2>. QED
    BY <1>11, <2>1, <2>2
<1>16. ASSUME NEW a \in Computes, LookAtObsolete(a) \/ LookAtCompute(a) PROVE Knows'
  <2>1. todo # <<>> /\ UNCHANGED <<todo, status, child>>
    BY <1>16, <1>s DEF LookAtObsolete, LookAtCompute
  <2>2. CASE LookAtCompute(a) /\ child[a].owner = "user"
    BY <1>11, <2>1, <2>2 DEF LookAtCompute
  <2>3. CASE local' = [local EXCEPT !.turn = a] /\ UNCHANGED lost
    <3>1. local'.entries = local.entries
      BY <2>3, <1>t DEF Locals
    <3>. QED
      BY <1>1, <2>1, <2>3, <3>1
  <2>4. CASE LookAtObsolete(a) /\ child[a].owner # "cell"
    <3>1. UNCHANGED lost /\ \A b \in Computes \ {a} : local'.entries[b] = local.entries[b]
      BY <2>4, <1>t DEF LookAtObsolete, Locals
    <3>. QED
      BY <1>1, <2>1, <2>4, <3>1
  <2>. QED
    BY <1>16, <2>2, <2>3, <2>4 DEF LookAtObsolete, LookAtCompute
<1>12. CASE CallFails
  <2>1. local'.entries = local.entries
    BY <1>12, <1>t DEF CallFails, Locals
  <2>. QED
    BY <1>1, <1>12, <1>m, <2>1 DEF CallFails
<1>13. CASE PatchFails \/ Restart
  <2>1. todo # <<>> /\ todo' = <<>> /\ lost' = lost \cup Unsaved /\ UNCHANGED <<status, child>>
    BY <1>13, <1>s DEF PatchFails, Restart
  <2>2. ASSUME NEW a \in Computes, child[a].owner = "cell", a \notin lost \cup Unsaved
        PROVE  status.entries[a] # "none"
    BY <2>1, <2>2 DEF Knows, Unsaved, Known
  <2>. QED
    BY <2>1, <2>2 DEF Knows
<1>14. CASE UNCHANGED vars
  BY <1>1, <1>14 DEF vars
<1>. QED
  BY <1>2, <1>3, <1>4, <1>5, <1>6, <1>7, <1>8, <1>9, <1>10, <1>12, <1>13, <1>14, <1>15, <1>16
  DEF Next, Reconcile, Progress, Fault

(* The cell's account of its computes is complete, and its types hold.     *)
LEMMA KnowsMeans == Types /\ Knows => CellInv
  BY DEF Types, Knows, CellInv, ComputesKnown, Known

(* Whatever faults happen and whatever users do, a NovaCell keeps its types*)
(* and never loses sight of a NovaCompute it has created, except by the    *)
(* faults that lost names: neither a reconcile that ends early, nor a spec *)
(* that changes under it, nor a user's CR makes it forget one.             *)
THEOREM ComputesAccounted == Spec => []CellInv
<1>1. Types /\ Knows /\ [Next]_vars => (Types /\ Knows)'
  BY TypesStep, KnowsStep
<1>. QED
  BY TypesInit, KnowsInit, <1>1, KnowsMeans, PTL DEF Spec

-----------------------------------------------------------------------------
(* What users have created.  A CR of a user that a reconcile is about to   *)
(* write was not there when it looked.                                     *)
LookedAt ==
    local.turn # Nobody /\ child[local.turn].owner = "user" => local.turn \in taken

LEMMA LookedAtStep == Types /\ LookedAt /\ [Next]_vars => LookedAt'
<1> SUFFICES ASSUME Types, LookedAt, [Next]_vars, local'.turn # Nobody,
                    child'[local'.turn].owner = "user"
             PROVE  local'.turn \in taken'
  BY DEF LookedAt
<1> USE DEF cellVars, workVars, boundVars
<1>t. local \in Locals /\ child \in [Names -> Children]
  BY DEF Types, TypeOK
<1>1. ASSUME NEW s \in Services, LookAt(s), local'.turn = s PROVE FALSE
  BY <1>1 DEF LookAt
<1>2. ASSUME NEW a \in Computes, LookAtObsolete(a), local'.turn = a PROVE FALSE
  <2>1. child[a].owner = "user" /\ a # Nobody
    BY <1>2, CellServicesConstants DEF LookAtObsolete
  <2>2. local' = [local EXCEPT !.entries[a] = "none"] /\ local.turn = Nobody
    BY <1>2, <2>1 DEF LookAtObsolete
  <2>. QED
    BY <1>2, <1>t, <2>1, <2>2 DEF Locals
<1>3. ASSUME NEW a \in Computes, LookAtCompute(a), local'.turn = a PROVE FALSE
  <2>1. child[a].owner = "user" /\ a # Nobody
    BY <1>3, CellServicesConstants DEF LookAtCompute
  <2>. QED
    BY <1>3, <1>t, <2>1 DEF LookAtCompute, Visit, Locals
<1>4. ASSUME local.turn # Nobody, EditSpec \/ UNCHANGED local PROVE local'.turn \in taken'
  <2>1. local'.turn = local.turn /\ local.turn \in Names
    BY <1>4, <1>t DEF EditSpec, Locals
  <2>2. CASE UNCHANGED <<child, taken>>
    BY <1>4, <2>1, <2>2 DEF LookedAt
  <2>3. ASSUME NEW n \in Names, UserCreates(n) PROVE local'.turn \in taken'
    BY <1>4, <1>t, <2>1, <2>3 DEF UserCreates, LookedAt
  <2>4. ASSUME NEW n \in Names, \/ UserDeletes(n) \/ ServiceGone(n)
                                \/ ServiceStarts(n) \/ ServiceReady(n)
        PROVE  local'.turn \in taken'
    <3>1. local.turn # n /\ child'[local.turn] = child[local.turn]
      <4>1. child'[n].owner # "user"
        <5>1. CASE UserDeletes(n) \/ ServiceGone(n)
          BY <1>t, <5>1, ChildTypes DEF UserDeletes, ServiceGone
        <5>2. CASE ServiceStarts(n)
          BY <1>t, <5>2 DEF ServiceStarts, Children
        <5>3. CASE ServiceReady(n)
          BY <1>t, <5>3 DEF ServiceReady, Children
        <5>. QED
          BY <2>4, <5>1, <5>2, <5>3
      <4>. QED
        BY <1>t, <2>1, <2>4, <4>1 DEF UserDeletes, ServiceGone, ServiceStarts, ServiceReady
    <3>2. taken \ {n} \subseteq taken'
      BY <2>4 DEF UserDeletes, ServiceGone, ServiceStarts, ServiceReady
    <3>. QED
      BY <1>4, <2>1, <3>1, <3>2 DEF LookedAt
  <2>. QED
    BY <1>1, <1>2, <1>3, <2>2, <2>3, <2>4, TurnMoves
<1>. QED
  BY <1>1, <1>2, <1>3, <1>4, TurnMoves

LEMMA UsersStep ==
  ASSUME Types, LookedAt, [Next]_vars, NEW n \in Names \ taken,
         child[n].owner = "user", child'[n] # child[n]
  PROVE  UNCHANGED <<todo, local>>
<1> USE DEF cellVars, workVars, boundVars
<1>t. /\ child \in [Names -> Children] /\ Services \subseteq Names /\ Computes \subseteq Names
      /\ child["NovaConductor"].owner # "user" /\ "NovaConductor" \in Services
      /\ Nobody \notin Services /\ Nobody \notin Computes
  BY ConstantFacts, CellServicesConstants DEF Types, TypeOK, Services, Nobody
<1>1. ASSUME NEW s \in Services, EnsureService(s) \/ DropService(s) PROVE FALSE
  <2>1. n = s
    BY <1>1, <1>t DEF EnsureService, DropService
  <2>2. local.turn = s
    BY <1>1, <1>t, <2>1 DEF EnsureService, DropService
  <2>. QED
    BY <1>t, <2>1, <2>2 DEF LookedAt
<1>2. ASSUME NEW a \in Computes, ForgetCompute(a) \/ EnsureCompute(a) PROVE FALSE
  <2>1. n = a /\ local.turn = a
    BY <1>2, <1>t DEF ForgetCompute, EnsureCompute
  <2>. QED
    BY <1>t, <2>1 DEF LookedAt
<1>3. ASSUME \/ Begin \/ ReadSecret \/ ProxyURL \/ Judge \/ EnsureComputeConfig
             \/ Patch \/ CallFails \/ PatchFails \/ Restart \/ EditSpec \/ EditSecret
             \/ UNCHANGED vars
             \/ (\E s \in Services : LookAt(s) \/ RefuseService(s) \/ SkipService(s) \/ DropFails(s))
             \/ (\E a \in Computes : \/ LookAtObsolete(a) \/ LookAtCompute(a)
                                    \/ ComputeFails(a) \/ ForgetFails(a))
      PROVE  FALSE
  BY <1>3 DEF Begin, ReadSecret, ProxyURL, Judge, EnsureComputeConfig, Patch,
     CallFails, PatchFails, Restart, EditSpec, EditSecret, vars, LookAt, RefuseService,
     SkipService, DropFails, LookAtObsolete, LookAtCompute, ComputeFails, ForgetFails
<1>4. ASSUME NEW m \in Names, \/ UserCreates(m) \/ UserDeletes(m) \/ ServiceStarts(m)
                              \/ ServiceReady(m) \/ ServiceGone(m)
      PROVE  UNCHANGED <<todo, local>>
  BY <1>4 DEF UserCreates, UserDeletes, ServiceStarts, ServiceReady, ServiceGone
<1>. QED
  BY <1>1, <1>2, <1>3, <1>4 DEF Next, Reconcile, Progress, Fault

(* A cell adopts, changes and deletes nothing of a user's that was there   *)
(* when it looked, at whatever point the reconcile is interrupted, and with*)
(* whatever spec, old or new, it works.                                    *)
THEOREM UsersOwnSafe == Spec => UsersOwnKept
<1>1. Init => Types /\ LookedAt
  BY TypesInit, IdleType DEF Init, LookedAt
<1>2. Types /\ LookedAt /\ [Next]_vars => (Types /\ LookedAt)'
  BY TypesStep, LookedAtStep
<1>3. Types /\ LookedAt /\ [Next]_vars =>
        [\A n \in Names \ taken : child[n].owner = "user" /\ child'[n] # child[n] =>
            UNCHANGED <<todo, local>>]_vars
  BY UsersStep
<1>. QED
  BY <1>1, <1>2, <1>3, PTL DEF Spec, UsersOwnKept

-----------------------------------------------------------------------------
(* What services and computes say of themselves.                           *)
LEMMA HonestFacts ==
  ASSUME secret \in Secrets
  PROVE  /\ Honest(NoChild) /\ Honest(UsersOwn)
         /\ \A c \in Children, url \in URLs \cup {NoURL} :
                Honest(c) => Honest(Written(c, url))
         /\ \A c \in Children : Honest(c) => Honest([c EXCEPT !.going = TRUE, !.seen = FALSE])
<1>1. secret \in Nat /\ NoSecret = 0
  BY ConstantFacts
<1>2. Honest(NoChild) /\ Honest(UsersOwn)
  BY <1>1 DEF NoChild, UsersOwn, Honest
<1>3. ASSUME NEW c \in Children, NEW url \in URLs \cup {NoURL}, Honest(c)
      PROVE  Honest(Written(c, url))
  BY <1>1, <1>3, WrittenType DEF Honest
<1>4. ASSUME NEW c \in Children, Honest(c)
      PROVE  Honest([c EXCEPT !.going = TRUE, !.seen = FALSE])
  BY <1>4 DEF Honest, Children
<1>. QED
  BY <1>2, <1>3, <1>4

(* Whose turn it is in the last two of these steps.                        *)
LEMMA OnTurn ==
  ASSUME Types, NEW a \in Computes, local.turn = a
  PROVE  /\ At("forget") => a \in Computes \ local.spec.templates
         /\ At("computes") => a \in local.spec.templates \ local.visited
<1>1. \A p, q : At(p) /\ At(q) => p = q
  BY DEF At
<1>2. a # Nobody /\ a \notin Services
  BY CellServicesConstants
<1>. QED
  BY <1>1, <1>2 DEF Types, InTurn, Obsolete

(* The child that a step changes, or creates, and how.                     *)
LEMMA ChildMoves ==
  ASSUME Types, [Next]_vars, NEW n \in Names
  PROVE  \/ child'[n] = child[n]
         \/ child'[n] \in {NoChild, UsersOwn} /\ (child[n].owner = "cell" =>
              child[n].going \/ (n \in Computes /\ n \notin local.spec.templates /\ Pos = 5))
         \/ ServiceStarts(n) \/ ServiceReady(n)
         \/ /\ child'[n] = [child[n] EXCEPT !.going = TRUE, !.seen = FALSE]
            /\ n \in Services /\ DropService(n)
         \/ n \in Services /\ child'[n] = Written(child[n], GivenTo(n)) /\ EnsureService(n)
         \/ n \in Computes /\ child'[n] = Written(child[n], local.url) /\ EnsureCompute(n)
<1> USE DEF cellVars, workVars, boundVars
<1>t. /\ child \in [Names -> Children] /\ Services \subseteq Names /\ Computes \subseteq Names
      /\ PartOfPlan(todo)
  BY ConstantFacts DEF Types, TypeOK
<1>1. ASSUME NEW s \in Services, EnsureService(s)
      PROVE  child'[n] = child[n]
             \/ (n = s /\ child'[n] = Written(child[n], GivenTo(n)))
  BY <1>1, <1>t DEF EnsureService
<1>2. ASSUME NEW s \in Services, DropService(s)
      PROVE  child'[n] = child[n]
             \/ (n = s /\ child'[n] = [child[n] EXCEPT !.going = TRUE, !.seen = FALSE])
  <2>1. CASE child[s].owner # "none"
    <3>1. child' = [child EXCEPT ![s] = [child[s] EXCEPT !.going = TRUE, !.seen = FALSE]]
      BY <1>2, <2>1, <1>t DEF DropService
    <3>. QED
      BY <3>1, <1>t
  <2>2. CASE child[s].owner = "none"
    BY <1>2, <2>2 DEF DropService
  <2>. QED
    BY <2>1, <2>2
<1>3. ASSUME NEW a \in Computes, EnsureCompute(a)
      PROVE  child'[n] = child[n]
             \/ (n = a /\ child'[n] = Written(child[n], local.url))
  BY <1>3, <1>t DEF EnsureCompute
<1>4. ASSUME NEW a \in Computes, ForgetCompute(a)
      PROVE  child'[n] = child[n]
             \/ (n = a /\ child'[n] = NoChild /\ a \notin local.spec.templates /\ Pos = 5)
  <2>1. At("forget") /\ a \notin local.spec.templates
    BY <1>4, OnTurn DEF ForgetCompute
  <2>3. Pos = 5
    BY <2>1, <1>t, StepsAt
  <2>2. child' = child \/ child' = [child EXCEPT ![a] = NoChild]
    BY <1>4 DEF ForgetCompute
  <2>. QED
    BY <2>1, <2>2, <2>3, <1>t
<1>5. ASSUME NEW m \in Names, \/ UserCreates(m) \/ UserDeletes(m) \/ ServiceGone(m)
      PROVE  child'[n] = child[n]
             \/ /\ child'[n] \in {NoChild, UsersOwn}
                /\ child[n].owner = "cell" => child[n].going
  <2>1. /\ child' = [child EXCEPT ![m] = NoChild] \/ child' = [child EXCEPT ![m] = UsersOwn]
        /\ child[m].owner = "cell" => child[m].going
    BY <1>5, ChildTypes DEF UserCreates, UserDeletes, ServiceGone
  <2>. QED
    BY <2>1, <1>t
<1>6. ASSUME NEW m \in Names, ServiceStarts(m) \/ ServiceReady(m)
      PROVE  child'[n] = child[n] \/ n = m
  BY <1>6, <1>t DEF ServiceStarts, ServiceReady
<1>7. ASSUME \/ Begin \/ ReadSecret \/ ProxyURL \/ Judge \/ EnsureComputeConfig
             \/ Patch \/ CallFails \/ PatchFails \/ Restart \/ EditSpec \/ EditSecret
             \/ (\E s \in Services : LookAt(s) \/ RefuseService(s) \/ SkipService(s) \/ DropFails(s))
             \/ (\E a \in Computes : \/ LookAtObsolete(a) \/ LookAtCompute(a)
                                    \/ ComputeFails(a) \/ ForgetFails(a))
             \/ UNCHANGED vars
      PROVE  child' = child
  BY <1>7 DEF Begin, ReadSecret, ProxyURL, Judge, EnsureComputeConfig, Patch,
     CallFails, PatchFails, Restart, EditSpec, EditSecret, LookAt, RefuseService, SkipService,
     DropFails, LookAtObsolete, LookAtCompute, ComputeFails, ForgetFails, vars
<1>. QED
  BY <1>1, <1>2, <1>3, <1>4, <1>5, <1>6, <1>7 DEF Next, Reconcile, Progress, Fault

LEMMA SecretMoves ==
  ASSUME Types, [Next]_vars
  PROVE  secret' \in Nat /\ secret \in Nat /\ secret <= secret' /\ (secret' # secret => EditSecret)
<1>1. secret \in Nat
  BY ConstantFacts DEF Types
<1>2. CASE EditSecret
  BY <1>1, <1>2 DEF EditSecret
<1>3. ASSUME ~EditSecret PROVE UNCHANGED secret
  BY <1>3 DEF Next, Reconcile, Progress, Fault, vars, cellVars, workVars, boundVars,
     EditSpec, UserCreates, UserDeletes, ServiceStarts, ServiceReady, ServiceGone,
     Begin, ReadSecret, ProxyURL, Judge, EnsureComputeConfig, Patch,
     CallFails, PatchFails, Restart, EnsureService, RefuseService, DropService, DropFails,
     EnsureCompute, ForgetCompute, ComputeFails, ForgetFails, LookAt, SkipService, LookAtObsolete,
     LookAtCompute
<1>. QED
  BY <1>1, <1>2, <1>3

LEMMA ChildTrueStep == Types /\ ChildTrue /\ [Next]_vars => ChildTrue'
<1> SUFFICES ASSUME Types, ChildTrue, [Next]_vars, NEW n \in Names PROVE Honest(child[n])'
  BY DEF ChildTrue
<1>t. /\ child[n] \in Children /\ Honest(child[n]) /\ local \in Locals /\ secret \in Secrets
      /\ Types' /\ secret' \in Secrets
  BY TypesStep DEF Types, TypeOK, ChildTrue
<1>1. ASSUME NEW c \in Children, Honest(c), child'[n] = c PROVE Honest(child[n])'
  <2>1. c.config \in Secrets \cup {NoSecret}
    BY DEF Children
  <2>2. c.config \in Nat
    BY <2>1, ContentsOrdered
  <2>. QED
    BY <1>1, <2>2, SecretMoves DEF Honest
<1>2. GivenTo(n) \in URLs \cup {NoURL} /\ local.url \in URLs \cup {NoURL}
  BY <1>t DEF GivenTo, Locals, Specs
<1>3. CASE ServiceStarts(n)
  <2>1. UNCHANGED secret
    BY <1>3 DEF ServiceStarts
  <2>2. /\ child'[n].config = secret /\ child'[n].applied = child[n].applied
        /\ ~child'[n].going /\ child'[n].owner = "cell"
        /\ child'[n].runs = child[n].runs /\ child'[n].spec = child[n].spec
        /\ child'[n].ready => child[n].ready /\ child[n].config = secret
                               /\ child[n].runs = child[n].spec
    BY <1>3, <1>t DEF ServiceStarts, Types, TypeOK, Children
  <2>. QED
    BY <1>t, <2>1, <2>2, ConstantFacts DEF Honest
<1>4. CASE ServiceReady(n)
  <2>1. UNCHANGED secret
    BY <1>4 DEF ServiceReady
  <2>2. /\ child'[n].config = secret /\ child'[n].applied = child'[n].config
        /\ child'[n].runs = child'[n].spec /\ ~child'[n].going /\ child'[n].owner = "cell"
    BY <1>4, <1>t DEF ServiceReady, Types, TypeOK, Children
  <2>. QED
    BY <1>t, <2>1, <2>2, ConstantFacts DEF Honest
<1>5. CASE child'[n] \in {child[n], NoChild, UsersOwn}
  BY <1>1, <1>5, <1>t, HonestFacts, ChildTypes
<1>6. CASE child'[n] = [child[n] EXCEPT !.going = TRUE, !.seen = FALSE]
  BY <1>1, <1>6, <1>t, HonestFacts, ChildTypes
<1>7. ASSUME NEW url \in URLs \cup {NoURL}, child'[n] = Written(child[n], url)
      PROVE  Honest(child[n])'
  <2>1. Written(child[n], url) \in Children
    BY <1>t, WrittenType
  <2>. QED
    BY <1>1, <1>7, <1>t, <2>1, HonestFacts
<1>. QED
  BY <1>2, <1>3, <1>4, <1>5, <1>6, <1>7, ChildMoves

-----------------------------------------------------------------------------
(* What a step does to the work of a reconcile that is under way and goes  *)
(* on: which steps may change which part, and the order of the steps.      *)
ByService(s) == EnsureService(s) \/ SkipService(s) \/ DropService(s) \/ DropFails(s)
FieldMove ==
    /\ (UNCHANGED <<isCell0, status, cr>> /\ local'.fresh = local.fresh) \/ EditSpec
    /\ local'.spec = local.spec
    /\ local'.secret = local.secret \/ ReadSecret
    /\ (local'.applied = local.applied /\ local'.hash = local.hash) \/ Judge
    /\ local'.url = local.url \/ ProxyURL
    /\ local'.pending \subseteq local.pending
    /\ "Input" \in local.pending \ local'.pending => ReadSecret
    /\ "AllComputes" \in local.pending \ local'.pending => Judge
    /\ "NovaComputeServiceConfig" \in local.pending \ local'.pending => EnsureComputeConfig
    /\ config' = config \/ EnsureComputeConfig
PosMove ==
    /\ Pos \in 1 .. 8 /\ Pos' \in {Pos, Pos + 1, 8} /\ Pos' <= 8
    /\ Pos = 1 /\ Pos' = 2 => ReadSecret
    /\ Pos = 5 /\ Pos' = 6 => ProxyURL
    /\ Pos = 6 /\ Pos' = 7 => Judge
ServiceMove(s) ==
    /\ s \in local.pending \ local'.pending => ByService(s)
    /\ s \in local.lagging => s \in local'.lagging
    /\ Pos = StepOf(s) /\ Pos' = Pos + 1 => ByService(s)
ComputeMove(a) ==
    \/ /\ a \in local'.visited <=> a \in local.visited
       /\ local'.entries[a] = local.entries[a] \/ a \notin local.spec.templates
    \/ EnsureCompute(a) \/ ComputeFails(a) \/ (LookAtCompute(a) /\ Visit(a, "failed"))
WorkMove ==
    /\ FieldMove /\ PosMove
    /\ \A s \in Services : ServiceMove(s)
    /\ \A a \in Computes : ComputeMove(a)

LEMMA WorkMoves ==
  ASSUME Types, [Next]_vars, todo # <<>>, todo' # <<>>
  PROVE  WorkMove
<1> USE DEF cellVars, workVars, boundVars
<1>t. local \in Locals /\ PartOfPlan(todo) /\ Pos \in 1 .. 8
  BY Positions DEF Types
<1>k. \A s \in Services : StepOf(s) \in 2 .. 4 /\ (At(s) => Pos = StepOf(s))
  BY <1>t, StepsAt DEF StepOf, Services
<1>s. \A r, s \in Services : StepOf(r) = StepOf(s) => r = s
  BY DEF StepOf, Services
<1>1. ASSUME UNCHANGED <<isCell0, status, cr, config>>,
             local' = [local EXCEPT !.turn = local'.turn], UNCHANGED todo \/ End
      PROVE  WorkMove
  <2>1. Pos' \in {Pos, 8}
    BY <1>1, <1>t, Moves
  <2>a. FieldMove
    BY <1>1, <1>t, <2>1, ConstantFacts DEF FieldMove, Locals
  <2>b. PosMove
    BY <1>1, <1>t, <2>1 DEF PosMove
  <2>c. ASSUME NEW r \in Services PROVE ServiceMove(r)
    BY <1>1, <1>t, <2>1, <1>k, <1>s, ConstantFacts DEF ServiceMove, ByService, Locals
  <2>d. ASSUME NEW b \in Computes PROVE ComputeMove(b)
    BY <1>1, <1>t, <2>1 DEF ComputeMove, Locals
  <2>. QED
    BY <2>a, <2>b, <2>c, <2>d DEF WorkMove
<1>2. CASE EditSpec
  <2>1. Pos' = Pos
    BY <1>2, <1>t, Moves DEF EditSpec
  <2>2. local' = [local EXCEPT !.fresh = FALSE] /\ UNCHANGED config
    BY <1>2 DEF EditSpec
  <2>a. FieldMove
    BY <1>2, <1>t, <2>1, <2>2, ConstantFacts DEF FieldMove, Locals
  <2>b. PosMove
    BY <1>2, <1>t, <2>1, <2>2 DEF PosMove
  <2>c. ASSUME NEW r \in Services PROVE ServiceMove(r)
    BY <1>2, <1>t, <2>1, <2>2, <1>k, <1>s, ConstantFacts DEF ServiceMove, ByService, Locals
  <2>d. ASSUME NEW b \in Computes PROVE ComputeMove(b)
    BY <1>2, <1>t, <2>1, <2>2 DEF ComputeMove, Locals
  <2>. QED
    BY <2>a, <2>b, <2>c, <2>d DEF WorkMove
<1>3. CASE \/ EditSecret \/ CallFails \/ UNCHANGED vars
           \/ \E s \in Services : RefuseService(s) \/ LookAt(s)
  <2>1. /\ UNCHANGED <<isCell0, status, cr, config>> /\ (UNCHANGED todo \/ End)
        /\ UNCHANGED local \/ local' = [local EXCEPT !.turn = Nobody]
           \/ \E s \in Services : local' = [local EXCEPT !.turn = s]
    BY <1>3 DEF EditSecret, CallFails, RefuseService, LookAt, vars
  <2>2. local' = [local EXCEPT !.turn = local'.turn]
    BY <2>1, <1>t DEF Locals
  <2>. QED
    BY <1>1, <2>1, <2>2
<1>4. ASSUME NEW n \in Names, \/ UserCreates(n) \/ UserDeletes(n) \/ ServiceStarts(n)
                              \/ ServiceReady(n) \/ ServiceGone(n)
      PROVE  WorkMove
  <2>1. UNCHANGED <<isCell0, status, cr, config, todo, local>>
    BY <1>4 DEF UserCreates, UserDeletes, ServiceStarts, ServiceReady, ServiceGone
  <2>2. local' = [local EXCEPT !.turn = local'.turn]
    BY <2>1, <1>t DEF Locals
  <2>. QED
    BY <1>1, <2>1, <2>2
<1>5. CASE ReadSecret
  <2>1. Pos = 1 /\ Pos' = 2
    BY <1>5, <1>t, Moves, StepsAt DEF ReadSecret
  <2>a. FieldMove
    BY <1>5, <1>t, <2>1, ConstantFacts DEF FieldMove, Locals, ReadSecret
  <2>b. PosMove
    BY <1>5, <1>t, <2>1 DEF PosMove
  <2>c. ASSUME NEW r \in Services PROVE ServiceMove(r)
    BY <1>5, <1>t, <2>1, <1>k, <1>s, ConstantFacts DEF ServiceMove, ByService, Locals, ReadSecret
  <2>d. ASSUME NEW b \in Computes PROVE ComputeMove(b)
    BY <1>5, <1>t, <2>1 DEF ComputeMove, Locals, ReadSecret
  <2>. QED
    BY <2>a, <2>b, <2>c, <2>d DEF WorkMove
<1>6. ASSUME NEW s \in Services, EnsureService(s) PROVE WorkMove
  <2>1. Pos = StepOf(s) /\ Pos' = StepOf(s) + 1
    BY <1>6, <1>t, <1>k, Moves, StepsAt DEF EnsureService
  <2>2. /\ local'.pending \in {local.pending, local.pending \ {s}}
        /\ local'.lagging \in {local.lagging, local.lagging \cup {s}}
        /\ local' = [local EXCEPT !.turn = Nobody, !.pending = local'.pending,
                                  !.lagging = local'.lagging]
    BY <1>6, <1>t DEF EnsureService, Locals
  <2>3. UNCHANGED <<isCell0, status, cr, config>>
    BY <1>6 DEF EnsureService
  <2>a. FieldMove
    BY <1>6, <1>t, <2>1, <2>2, <2>3, ConstantFacts DEF FieldMove, Locals
  <2>b. PosMove
    BY <1>6, <1>t, <1>k, <2>1 DEF PosMove
  <2>c. ASSUME NEW r \in Services PROVE ServiceMove(r)
    BY <1>6, <1>t, <2>1, <2>2, <2>3, <1>k, <1>s, ConstantFacts DEF ServiceMove, ByService, Locals
  <2>d. ASSUME NEW b \in Computes PROVE ComputeMove(b)
    BY <1>6, <1>t, <2>1, <2>2, <2>3 DEF ComputeMove, Locals
  <2>. QED
    BY <2>a, <2>b, <2>c, <2>d DEF WorkMove
<1>7. ASSUME NEW s \in Services, SkipService(s) \/ DropService(s) \/ DropFails(s) PROVE WorkMove
  <2>1. Pos = StepOf(s) /\ Pos' = StepOf(s) + 1
    BY <1>7, <1>t, <1>k, Moves, StepsAt DEF SkipService, DropService, DropFails
  <2>2. /\ local'.pending = local.pending \ {s}
        /\ local' = [local EXCEPT !.turn = local'.turn, !.pending = local'.pending]
    BY <1>7, <1>t DEF SkipService, DropService, DropFails, Locals
  <2>3. UNCHANGED <<isCell0, status, cr, config>>
    BY <1>7 DEF SkipService, DropService, DropFails
  <2>a. FieldMove
    BY <1>7, <1>t, <2>1, <2>2, <2>3, ConstantFacts DEF FieldMove, Locals
  <2>b. PosMove
    BY <1>7, <1>t, <1>k, <2>1 DEF PosMove
  <2>c. ASSUME NEW r \in Services PROVE ServiceMove(r)
    BY <1>7, <1>t, <2>1, <2>2, <2>3, <1>k, <1>s, ConstantFacts DEF ServiceMove, ByService, Locals
  <2>d. ASSUME NEW b \in Computes PROVE ComputeMove(b)
    BY <1>7, <1>t, <2>1, <2>2, <2>3 DEF ComputeMove, Locals
  <2>. QED
    BY <2>a, <2>b, <2>c, <2>d DEF WorkMove
<1>8. ASSUME NEW a \in Computes,
             \/ ForgetCompute(a) \/ ForgetFails(a)
             \/ LookAtObsolete(a) /\ child[a].owner # "cell"
      PROVE  WorkMove
  <2>1. Pos' = Pos /\ a \notin local.spec.templates
    BY <1>8, <1>t, Moves, OnTurn DEF ForgetCompute, ForgetFails, LookAtObsolete, Obsolete
  <2>2. /\ local' = [local EXCEPT !.turn = local'.turn, !.entries[a] = "none"]
        /\ UNCHANGED <<isCell0, status, cr, config>>
    BY <1>8, <1>t DEF ForgetCompute, ForgetFails, LookAtObsolete, Locals
  <2>a. FieldMove
    BY <1>t, <2>1, <2>2, ConstantFacts DEF FieldMove, Locals
  <2>b. PosMove
    BY <1>t, <2>1, <2>2 DEF PosMove
  <2>3. local'.pending = local.pending /\ local'.lagging = local.lagging
    BY <1>t, <2>2 DEF Locals
  <2>c. ASSUME NEW r \in Services PROVE ServiceMove(r)
    BY <1>t, <2>1, <2>3 DEF ServiceMove
  <2>d. ASSUME NEW b \in Computes PROVE ComputeMove(b)
    BY <1>t, <2>1, <2>2 DEF ComputeMove, Locals
  <2>. QED
    BY <2>a, <2>b, <2>c, <2>d DEF WorkMove
<1>9. CASE ProxyURL
  <2>1. Pos = 5 /\ Pos' \in {6, 8}
    BY <1>9, <1>t, Moves, StepsAt DEF ProxyURL
  <2>2. local' = local \/ local' = [local EXCEPT !.url = URLOf(local.spec)]
    BY <1>9 DEF ProxyURL
  <2>a. FieldMove
    BY <1>9, <1>t, <2>1, <2>2, ConstantFacts DEF FieldMove, Locals, ProxyURL
  <2>b. PosMove
    BY <1>9, <1>t, <2>1, <2>2 DEF PosMove
  <2>c. ASSUME NEW r \in Services PROVE ServiceMove(r)
    BY <1>9, <1>t, <2>1, <2>2, <1>k, <1>s, ConstantFacts DEF ServiceMove, ByService, Locals, ProxyURL
  <2>d. ASSUME NEW b \in Computes PROVE ComputeMove(b)
    BY <1>9, <1>t, <2>1, <2>2 DEF ComputeMove, Locals, ProxyURL
  <2>. QED
    BY <2>a, <2>b, <2>c, <2>d DEF WorkMove
<1>10. ASSUME NEW a \in Computes,
              EnsureCompute(a) \/ ComputeFails(a) \/ (LookAtCompute(a) /\ Visit(a, "failed"))
       PROVE  WorkMove
  <2>1. Pos' = Pos
    BY <1>10, <1>t, Moves DEF EnsureCompute, ComputeFails, LookAtCompute
  <2>2. PICK e : local' = [local EXCEPT !.entries[a] = e, !.visited = @ \cup {a}, !.turn = Nobody]
    BY <1>10 DEF EnsureCompute, ComputeFails, Visit
  <2>3. UNCHANGED <<isCell0, status, cr, config>>
    BY <1>10 DEF EnsureCompute, ComputeFails, LookAtCompute
  <2>a. FieldMove
    BY <1>10, <1>t, <2>1, <2>2, <2>3, ConstantFacts DEF FieldMove, Locals
  <2>b. PosMove
    BY <1>10, <1>t, <2>1, <2>2, <2>3 DEF PosMove
  <2>c. ASSUME NEW r \in Services PROVE ServiceMove(r)
    BY <1>10, <1>t, <2>1, <2>2, <2>3, <1>k, <1>s, ConstantFacts DEF ServiceMove, ByService, Locals
  <2>d. ASSUME NEW b \in Computes PROVE ComputeMove(b)
    BY <1>10, <1>t, <2>1, <2>2, <2>3 DEF ComputeMove, Locals
  <2>. QED
    BY <2>a, <2>b, <2>c, <2>d DEF WorkMove
<1>11. CASE Judge
  <2>1. Pos = 6 /\ Pos' = 7
    BY <1>11, <1>t, Moves, StepsAt DEF Judge
  <2>a. FieldMove
    BY <1>11, <1>t, <2>1, ConstantFacts DEF FieldMove, Locals, Judge
  <2>b. PosMove
    BY <1>11, <1>t, <2>1 DEF PosMove
  <2>c. ASSUME NEW r \in Services PROVE ServiceMove(r)
    BY <1>11, <1>t, <2>1, <1>k, <1>s, ConstantFacts DEF ServiceMove, ByService, Locals, Judge
  <2>d. ASSUME NEW b \in Computes PROVE ComputeMove(b)
    BY <1>11, <1>t, <2>1 DEF ComputeMove, Locals, Judge
  <2>. QED
    BY <2>a, <2>b, <2>c, <2>d DEF WorkMove
<1>12. CASE EnsureComputeConfig
  <2>1. Pos = 7 /\ Pos' = 8
    BY <1>12, <1>t, Moves, StepsAt DEF EnsureComputeConfig
  <2>a. FieldMove
    BY <1>12, <1>t, <2>1, ConstantFacts DEF FieldMove, Locals, EnsureComputeConfig
  <2>b. PosMove
    BY <1>12, <1>t, <2>1 DEF PosMove
  <2>c. ASSUME NEW r \in Services PROVE ServiceMove(r)
    BY <1>12, <1>t, <2>1, <1>k, <1>s, ConstantFacts DEF ServiceMove, ByService, Locals, EnsureComputeConfig
  <2>d. ASSUME NEW b \in Computes PROVE ComputeMove(b)
    BY <1>12, <1>t, <2>1 DEF ComputeMove, Locals, EnsureComputeConfig
  <2>. QED
    BY <2>a, <2>b, <2>c, <2>d DEF WorkMove
<1>13. ASSUME NEW a \in Computes, LookAtObsolete(a) \/ LookAtCompute(a) PROVE WorkMove
  <2>1. CASE LookAtObsolete(a) /\ child[a].owner # "cell"
    BY <1>8, <2>1
  <2>2. CASE LookAtCompute(a) /\ Visit(a, "failed")
    BY <1>10, <2>2
  <2>3. CASE local' = [local EXCEPT !.turn = a]
    <3>1. UNCHANGED <<isCell0, status, cr, config, todo>>
      BY <1>13 DEF LookAtObsolete, LookAtCompute
    <3>2. local' = [local EXCEPT !.turn = local'.turn]
      BY <2>3, <1>t DEF Locals
    <3>. QED
      BY <1>1, <3>1, <3>2
  <2>. QED
    BY <1>13, <2>1, <2>2, <2>3 DEF LookAtObsolete, LookAtCompute
<1>. QED
  BY <1>2, <1>3, <1>4, <1>5, <1>6, <1>7, <1>8, <1>9, <1>10, <1>11, <1>12, <1>13
  DEF Next, Reconcile, Progress, Fault, Begin, Patch, PatchFails, Restart

(* How a reconcile begins and ends, and what goes on between two of them.  *)
LEMMA Turns ==
  ASSUME Types, [Next]_vars
  PROVE  /\ todo = <<>> /\ todo' # <<>> => Begin
         /\ todo # <<>> /\ todo' = <<>> => Patch \/ PatchFails \/ Restart
         /\ todo = <<>> /\ todo' = <<>> => local' = local /\ UNCHANGED <<config, lost>>
         /\ UNCHANGED <<status, cr, isCell0>>
            \/ (EditSpec /\ UNCHANGED <<isCell0, lost>>) \/ (Patch /\ UNCHANGED <<cr, isCell0, lost>>)
<1> USE DEF cellVars, workVars, boundVars
<1>t. PartOfPlan(todo) /\ (todo = <<>> => local = Idle)
  BY DEF Types
<1>s. \A op : At(op) => todo # <<>> /\ (op # "patch" => ~At("patch"))
  BY DEF At
<1>m. /\ todo # <<>> /\ ~At("patch") /\ GoOn => todo' # <<>>
      /\ End => todo' # <<>>
  BY <1>t, Moves
<1>d. \A s \in Services : s # "patch"
  BY DEF Services
<1>1. ASSUME todo # <<>>, todo' # <<>>, UNCHANGED <<status, cr, isCell0>>
      PROVE  /\ todo = <<>> /\ todo' # <<>> => Begin
             /\ todo # <<>> /\ todo' = <<>> => Patch \/ PatchFails \/ Restart
             /\ todo = <<>> /\ todo' = <<>> => local' = local /\ UNCHANGED <<config, lost>>
             /\ UNCHANGED <<status, cr, isCell0>>
  BY <1>1
<1>2. ASSUME UNCHANGED <<todo, local, status, cr, isCell0, config, lost>>
      PROVE  /\ todo = <<>> /\ todo' # <<>> => Begin
             /\ todo # <<>> /\ todo' = <<>> => Patch \/ PatchFails \/ Restart
             /\ todo = <<>> /\ todo' = <<>> => local' = local /\ UNCHANGED <<config, lost>>
             /\ UNCHANGED <<status, cr, isCell0>>
  BY <1>2
<1>3. ASSUME NEW n \in Names, \/ UserCreates(n) \/ UserDeletes(n) \/ ServiceStarts(n)
                              \/ ServiceReady(n) \/ ServiceGone(n)
      PROVE  UNCHANGED <<todo, local, status, cr, isCell0, config, lost>>
  BY <1>3 DEF UserCreates, UserDeletes, ServiceStarts, ServiceReady, ServiceGone
<1>4. CASE EditSecret \/ UNCHANGED vars
  BY <1>2, <1>4 DEF EditSecret, vars
<1>5. ASSUME NEW s \in Services, LookAt(s) \/ RefuseService(s) \/ ByService(s)
      PROVE  todo # <<>> /\ todo' # <<>> /\ UNCHANGED <<status, cr, isCell0>>
  BY <1>5, <1>m, <1>s, <1>d
  DEF LookAt, RefuseService, ByService, EnsureService, SkipService, DropService, DropFails
<1>6. ASSUME NEW a \in Computes, \/ ForgetCompute(a) \/ ForgetFails(a) \/ EnsureCompute(a)
                                 \/ ComputeFails(a) \/ LookAtObsolete(a) \/ LookAtCompute(a)
      PROVE  todo # <<>> /\ todo' # <<>> /\ UNCHANGED <<status, cr, isCell0>>
  BY <1>6, <1>m, <1>s
  DEF ForgetCompute, ForgetFails, EnsureCompute, ComputeFails, LookAtObsolete, LookAtCompute
<1>7. CASE ReadSecret \/ ProxyURL \/ Judge \/ EnsureComputeConfig \/ CallFails
  <2>1. todo # <<>> /\ todo' # <<>> /\ UNCHANGED <<status, cr, isCell0>>
    BY <1>7, <1>m, <1>s DEF ReadSecret, ProxyURL, Judge, EnsureComputeConfig,
       CallFails
  <2>. QED
    BY <1>1, <2>1
<1>8. CASE EditSpec
  <2>1. local' = [local EXCEPT !.fresh = FALSE] /\ UNCHANGED <<todo, config, lost, isCell0>>
    BY <1>8 DEF EditSpec
  <2>2. todo = <<>> => local' = local
    BY <1>t, <2>1 DEF Idle
  <2>. QED
    BY <1>8, <2>1, <2>2
<1>9. CASE Begin
  <2>1. todo' # <<>>
    BY <1>9, <1>t, Moves DEF Begin
  <2>. QED
    BY <1>9, <2>1 DEF Begin
<1>10. CASE Patch \/ PatchFails \/ Restart
  BY <1>10, <1>s DEF Patch, PatchFails, Restart
<1>. QED
  BY <1>1, <1>2, <1>3, <1>4, <1>5, <1>6, <1>7, <1>8, <1>9, <1>10
  DEF Next, Reconcile, Progress, Fault, ByService

-----------------------------------------------------------------------------
(* The contents a reconcile has met are in order.                          *)
LEMMA SecretOrderStep == Types /\ SecretOrder /\ [Next]_vars => SecretOrder'
<1> SUFFICES ASSUME Types, SecretOrder, [Next]_vars PROVE SecretOrder'
  OBVIOUS
<1>n. /\ secret \in Nat /\ secret' \in Nat /\ secret <= secret'
      /\ status.applied \in Nat /\ local.applied \in Nat /\ local.secret \in Nat
      /\ local.pending \subseteq Conditions
  BY SecretMoves, ContentsOrdered DEF Types, Statuses, Locals
<1>p. Pos \in 1 .. 9 /\ (todo = <<>> <=> Pos = 9) /\ (todo' = <<>> => Pos' = 9)
  BY Positions, Moves DEF Types
<1>1. CASE todo # <<>> /\ todo' # <<>>
  <2>1. FieldMove /\ PosMove
    BY <1>1, WorkMoves DEF WorkMove
  <2>2. status'.applied = status.applied
    BY <2>1 DEF FieldMove, EditSpec, Types, Statuses
  <2>3. Left(6, 7) => "Input" \notin local.pending /\ local.applied <= local.secret
    BY <1>1 DEF SecretOrder, Left
  <2>4. CASE ReadSecret
    <3>1. /\ local'.secret = secret /\ local'.applied = local.applied
          /\ secret' = secret /\ "Input" \notin local'.pending
      BY <2>4 DEF ReadSecret, Types, Locals
    <3>. QED
      BY <1>1, <1>n, <2>2, <3>1 DEF SecretOrder
  <2>5. CASE Judge
    <3>1. Pos = 6
      BY <2>5, StepsAt DEF Judge, Types
    <3>2. /\ local'.secret = local.secret /\ local'.applied \in {local.applied, local.secret}
          /\ local'.pending \subseteq local.pending
      BY <2>5 DEF Judge, Types, Locals
    <3>. QED
      BY <1>1, <1>n, <2>1, <2>2, <2>3, <3>1, <3>2 DEF SecretOrder, Left
  <2>6. CASE ~ReadSecret /\ ~Judge
    BY <1>1, <1>n, <1>p, <2>1, <2>2, <2>6 DEF SecretOrder, FieldMove, PosMove, Left
  <2>. QED
    BY <2>4, <2>5, <2>6
<1>2. CASE Begin
  <2>1. /\ local'.applied = status.applied /\ local'.secret = NoSecret
        /\ local'.pending = Conditions /\ UNCHANGED <<status, secret>>
    BY <1>2 DEF Begin, Idle, cellVars
  <2>2. Pos' = 1
    BY <1>2, Moves DEF Begin, Types
  <2>. QED
    BY <1>n, <2>1, <2>2, ConstantFacts DEF SecretOrder, Left
<1>3. CASE todo' = <<>>
  <2>1. CASE Patch
    <3>1. status'.applied = local.applied /\ todo # <<>>
      BY <2>1 DEF Patch, Outcome, At
    <3>. QED
      BY <1>3, <1>n, <1>p, <3>1 DEF SecretOrder, Left
  <2>2. CASE ~Patch
    <3>1. status'.applied = status.applied
      BY <2>2, Turns DEF EditSpec, Types, Statuses
    <3>. QED
      BY <1>3, <1>n, <1>p, <3>1 DEF SecretOrder, Left
  <2>. QED
    BY <2>1, <2>2
<1>. QED
  BY <1>1, <1>2, <1>3, Turns

(* A reconcile's copy of the spec, and the URL it takes from it.           *)
LEMMA CopiesStep == Types /\ Copies /\ [Next]_vars => Copies'
<1> SUFFICES ASSUME Types, Copies, [Next]_vars PROVE Copies'
  OBVIOUS
<1>p. Pos \in 1 .. 9 /\ (todo = <<>> <=> Pos = 9) /\ (todo' = <<>> => Pos' = 9)
  BY Positions, Moves DEF Types
<1>t. local \in Locals /\ status \in Statuses
  BY DEF Types
<1>1. CASE todo # <<>> /\ todo' # <<>>
  <2>1. FieldMove /\ PosMove /\ \A a \in Computes : ComputeMove(a)
    BY <1>1, WorkMoves DEF WorkMove
  <2>2. /\ local'.fresh => local'.spec = cr'
        /\ status'.seen => local'.fresh
    <3>1. CASE EditSpec
      BY <3>1, <1>t DEF EditSpec, Locals, Statuses
    <3>2. CASE ~EditSpec
      BY <1>1, <2>1, <3>2 DEF FieldMove, Copies
    <3>. QED
      BY <3>1, <3>2
  <2>3. CASE ProxyURL
    <3>0. /\ Pos = 5
          /\ GoOn => Pos' = 6
          /\ End => Pos' = 8
      <4>1. At("forget") /\ PartOfPlan(todo)
        BY <2>3 DEF ProxyURL, Types
      <4>. QED
        BY <1>1, <4>1, Moves, StepsAt
    <3>1. Pos = 5 /\ local.url = NoURL /\ local.visited = {}
      BY <3>0 DEF Copies, Left
    <3>2. \/ Pos' = 8 /\ local' = local
          \/ /\ Pos' = 6 /\ local' = [local EXCEPT !.url = URLOf(local.spec)]
             /\ ~(VNC(local.spec) /\ "NovaNoVNCProxy" \in local.pending)
      BY <2>3, <3>0 DEF ProxyURL
    <3>3. /\ local'.url \in {NoURL, URLOf(local'.spec)} /\ local'.visited = {}
          /\ Pos' = 6 => local'.url = URLOf(local'.spec)
          /\ Pos' = 6 /\ local'.url # NoURL => "NovaNoVNCProxy" \notin local'.pending
      BY <1>t, <3>1, <3>2 DEF Locals, URLOf
    <3>. QED
      BY <2>2, <3>1, <3>2, <3>3 DEF Copies, Left
  <2>4. CASE ~ProxyURL
    <3>1. local'.url = local.url /\ local'.spec = local.spec /\ local'.pending \subseteq local.pending
      BY <2>1, <2>4 DEF FieldMove
    <3>2. Pos' \in {6, 7} => Pos \in {6, 7}
      BY <2>1, <2>4 DEF PosMove
    <3>3. Pos' \in 1 .. 5 => Pos \in 1 .. 5
      BY <2>1 DEF PosMove
    <3>4. local'.visited \subseteq local'.spec.templates
      <4>1. ASSUME NEW a \in Computes, a \in local'.visited PROVE a \in local.spec.templates
        <5>1. CASE EnsureCompute(a) \/ ComputeFails(a) \/ LookAtCompute(a)
          BY <5>1, OnTurn DEF EnsureCompute, ComputeFails, LookAtCompute
        <5>2. CASE ~(EnsureCompute(a) \/ ComputeFails(a) \/ LookAtCompute(a))
          BY <4>1, <5>2, <2>1 DEF ComputeMove, Copies
        <5>. QED
          BY <5>1, <5>2
      <4>2. local'.visited \subseteq Computes
        BY TypesStep DEF Types, Locals
      <4>. QED
        BY <3>1, <4>1, <4>2
    <3>5. Pos' \in 1 .. 5 => local'.visited = {}
      <4>1. ASSUME NEW a \in Computes, Pos' \in 1 .. 5 PROVE a \notin local'.visited
        <5>1. Pos \in 1 .. 5 /\ a \notin local.visited
          BY <3>3, <4>1 DEF Copies, Left
        <5>2. ~EnsureCompute(a) /\ ~ComputeFails(a) /\ ~LookAtCompute(a)
          BY <5>1, StepsAt DEF EnsureCompute, ComputeFails, LookAtCompute, Types
        <5>. QED
          BY <2>1, <5>1, <5>2 DEF ComputeMove
      <4>2. local'.visited \subseteq Computes
        BY TypesStep DEF Types, Locals
      <4>. QED
        BY <4>1, <4>2
    <3>6. Pos' = 1 => Services \subseteq local'.pending
      <4>1. ASSUME NEW s \in Services, Pos' = 1 PROVE s \in local'.pending
        <5>1. Pos = 1 /\ s \in local.pending
          BY <2>1, <4>1 DEF PosMove, Copies, Left
        <5>2. ~ByService(s)
          BY <5>1, StepsAt
          DEF ByService, EnsureService, SkipService, DropService, DropFails, Services, Types
        <5>. QED
          BY <1>1, <5>1, <5>2, WorkMoves DEF WorkMove, ServiceMove
      <4>. QED
        BY <4>1
    <3>. QED
      BY <2>2, <3>1, <3>2, <3>3, <3>4, <3>5, <3>6 DEF Copies, Left
  <2>. QED
    BY <2>3, <2>4
<1>2. CASE Begin
  <2>1. /\ local'.spec = cr /\ local'.url = NoURL /\ local'.visited = {} /\ local'.fresh = TRUE
        /\ Services \subseteq local'.pending /\ UNCHANGED <<cr, status>>
    BY <1>2, ConstantFacts DEF Begin, Idle, cellVars
  <2>2. Pos' = 1
    BY <1>2, Moves DEF Begin, Types
  <2>. QED
    BY <2>1, <2>2 DEF Copies, Left
<1>3. CASE todo' = <<>>
  <2>1. local' = Idle
    BY <1>3, TypesStep DEF Types
  <2>. QED
    BY <1>3, <1>p, <2>1, IdleType DEF Copies, Left
<1>. QED
  BY <1>1, <1>2, <1>3, Turns

-----------------------------------------------------------------------------
(* What has been rolled out stays so, unless a reconcile deletes it or     *)
(* gives it another URL; and what is updated, until the Secret changes.    *)
Undisturbed(n, url) ==
    /\ n \in Services => ~DropService(n)
    /\ n \in Services /\ EnsureService(n) => GivenTo(n) = url
    /\ n \in Computes /\ EnsureCompute(n) => local.url = url
    /\ n \in Computes /\ Pos = 5 => n \in local.spec.templates

LEMMA Kept ==
  ASSUME Types, [Next]_vars, NEW n \in Names, NEW url \in URLs \cup {NoURL},
         Follows(n, url), Undisturbed(n, url)
  PROVE  /\ Follows(n, url)'
         /\ Updated(n) /\ secret' = secret => Updated(n)'
<1>t. child[n] \in Children /\ child \in [Names -> Children]
  BY DEF Types, TypeOK
<1>1. CASE child'[n] = child[n]
  BY <1>1 DEF Follows, Updated
<1>2. CASE child'[n] \in {NoChild, UsersOwn} /\ (child[n].owner = "cell" =>
              child[n].going \/ (n \in Computes /\ n \notin local.spec.templates /\ Pos = 5))
  BY <1>2 DEF Follows, Undisturbed
<1>3. CASE ServiceStarts(n)
  <2>1. /\ child'[n].owner = child[n].owner /\ child'[n].going = child[n].going
        /\ child'[n].seen /\ child'[n].spec = child[n].spec /\ child'[n].runs = child[n].runs
    BY <1>3, <1>t DEF ServiceStarts, Children
  <2>2. Updated(n) => ~Follows(n, url)
    BY <1>3 DEF ServiceStarts, Updated, Follows
  <2>. QED
    BY <2>1, <2>2 DEF Follows
<1>4. CASE ServiceReady(n)
  <2>1. /\ child'[n].owner = child[n].owner /\ child'[n].going = child[n].going
        /\ child'[n].seen = child[n].seen /\ child'[n].spec = child[n].spec
        /\ child'[n].runs = child[n].spec
    BY <1>4, <1>t DEF ServiceReady, Children
  <2>2. ~Updated(n)
    BY <1>4 DEF ServiceReady, Updated
  <2>. QED
    BY <2>1, <2>2 DEF Follows
<1>5. ASSUME child'[n] = Written(child[n], url) PROVE child'[n] = child[n]
  BY <1>5, <1>t, WrittenType DEF Follows
<1>. QED
  BY <1>1, <1>2, <1>3, <1>4, <1>5, ChildMoves DEF Undisturbed

LEMMA GivenURL ==
  ASSUME Types, NEW s
  PROVE  GivenTo(s) \in URLs \cup {NoURL}
  BY DEF Types, Locals, Specs, GivenTo

(* A CR that is of its generation and Ready after it was written has not   *)
(* changed: it is the cell's, and has the URL.                             *)
LEMMA MirroredAgain ==
  ASSUME NEW c \in Children, NEW url \in URLs \cup {NoURL}, Honest(c), Mirrored(Written(c, url))
  PROVE  Written(c, url) = c /\ c.owner = "cell" /\ c.spec = url
<1>1. c.owner # "none" /\ c.seen /\ c.spec = url
  BY WrittenType DEF Mirrored
<1>2. c.owner = "cell"
  BY <1>1 DEF Honest, Children
<1>. QED
  BY <1>1, <1>2, WrittenType

LEMMA ServicesFollowStep ==
  Types /\ ChildTrue /\ ServicesFollow /\ [Next]_vars => ServicesFollow'
<1> SUFFICES ASSUME Types, ChildTrue, ServicesFollow, [Next]_vars, todo' # <<>>,
                    NEW s \in Wanted(local'.spec) \ local'.pending
             PROVE  Follows(s, GivenTo(s))'
  BY DEF ServicesFollow
<1>1. CASE todo = <<>>
  <2>1. Begin
    BY <1>1, Turns
  <2>2. local'.pending = Conditions /\ local'.spec = cr
    BY <2>1 DEF Begin, Idle
  <2>3. s \in Services
    BY <2>2, ConstantFacts DEF Types, TypeOK, Specs, Wanted, Services
  <2>. QED
    BY <2>2, <2>3, ConstantFacts
<1>2. CASE todo # <<>>
  <2>1. FieldMove /\ \A r \in Services : ServiceMove(r)
    BY <1>2, WorkMoves DEF WorkMove
  <2>2. local'.spec = local.spec /\ s \in Wanted(local.spec) /\ (GivenTo(s))' = GivenTo(s)
    BY <2>1 DEF FieldMove, GivenTo
  <2>3. s \in Services /\ s \in Names
    BY <2>2, ConstantFacts DEF Types, Locals, Specs, Wanted, Services
  <2>4. CASE s \notin local.pending
    <3>1. Follows(s, GivenTo(s))
      BY <1>2, <2>2, <2>4 DEF ServicesFollow
    <3>2. Undisturbed(s, GivenTo(s))
      BY <2>2, <2>3, ConstantFacts DEF Undisturbed, DropService
    <3>. QED
      BY <2>2, <2>3, <3>1, <3>2, Kept, GivenURL
  <2>5. CASE s \in local.pending
    <3>1. EnsureService(s)
      BY <2>1, <2>2, <2>3, <2>5 DEF ServiceMove, ByService, SkipService, DropService, DropFails
    <3>2. Mirrored(child'[s])
      BY <2>5, <3>1 DEF EnsureService, Types, Locals
    <3>3. child'[s] = Written(child[s], GivenTo(s)) /\ child[s] \in Children
      BY <2>3, <3>1 DEF EnsureService, Types, TypeOK
    <3>4. child'[s] = child[s] /\ child[s].owner = "cell" /\ child[s].spec = GivenTo(s)
      BY <2>3, <3>2, <3>3, MirroredAgain, GivenURL DEF ChildTrue
    <3>5. child[s].runs = child[s].spec
      BY <2>3, <3>2, <3>4 DEF ChildTrue, Honest, Mirrored
    <3>6. ~child[s].going
      BY <2>3, <3>2, <3>4 DEF ChildTrue, Honest, Mirrored
    <3>. QED
      BY <2>2, <3>2, <3>4, <3>5, <3>6 DEF Follows, Mirrored
  <2>. QED
    BY <2>4, <2>5
<1>. QED
  BY <1>1, <1>2

-----------------------------------------------------------------------------
(* The URL of the proxy.                                                   *)
ProxyInv == Types /\ ChildTrue /\ Copies /\ ServicesFollow

LEMMA ChildTrueInit == Init => ChildTrue
<1> SUFFICES ASSUME Init, NEW n \in Names PROVE Honest(child[n])
  BY DEF ChildTrue
<1>1. secret = 1 /\ 1 \in Secrets
  BY ConstantFacts DEF Init
<1>2. CASE New
  BY <1>1, <1>2, HonestFacts DEF New
<1>3. CASE Deployed
  BY <1>1, <1>3, HonestFacts, ConstantFacts DEF Deployed, Honest
<1>. QED
  BY <1>2, <1>3 DEF Init

LEMMA CopiesInit == Init => Copies
<1> SUFFICES ASSUME Init PROVE Copies
  OBVIOUS
<1>1. todo = <<>> /\ local = Idle /\ Pos = 9
  BY DEF Init, Pos
<1>. QED
  BY <1>1, IdleType DEF Copies, Left

LEMMA ProxyInit == Init => ProxyInv
<1>1. Init => ServicesFollow
  BY DEF Init, ServicesFollow
<1>. QED
  BY <1>1, TypesInit, ChildTrueInit, CopiesInit DEF ProxyInv

LEMMA ProxyStep == ProxyInv /\ [Next]_vars => ProxyInv'
  BY TypesStep, ChildTrueStep, CopiesStep, ServicesFollowStep DEF ProxyInv

(* A reconcile that gives out a URL does it when the proxy has rolled it   *)
(* out.                                                                    *)
LEMMA URLServed ==
  ASSUME ProxyInv, Left(6, 7), local.url # NoURL
  PROVE  ProxyServes(local.url)
<1>1. todo # <<>> /\ "NovaNoVNCProxy" \notin local.pending /\ local.url = URLOf(local.spec)
  BY Positions DEF ProxyInv, Types, Copies, Left
<1>2. VNC(local.spec) /\ local.url = local.spec.url
  BY <1>1 DEF URLOf
<1>3. Follows("NovaNoVNCProxy", GivenTo("NovaNoVNCProxy"))
  BY <1>1, <1>2 DEF ProxyInv, ServicesFollow, VNC, Wanted
<1>. QED
  BY <1>2, <1>3 DEF Follows, GivenTo, ProxyServes

LEMMA URLStep ==
  ASSUME ProxyInv, [Next]_vars, NEW url \in (URLsGiven' \ URLsGiven) \ {NoURL}
  PROVE  ProxyServes(url)
<1> USE DEF cellVars, workVars, boundVars
<1>t. /\ Types /\ PartOfPlan(todo) /\ child \in [Names -> Children]
      /\ Computes \subseteq Names /\ Computes \cap Services = {}
  BY ConstantFacts DEF ProxyInv, Types, TypeOK
<1>1. CASE url = config'.url
  <2>1. config' # config
    BY <1>1 DEF URLsGiven
  <2>2. EnsureComputeConfig
    <3>1. CASE todo # <<>> /\ todo' # <<>>
      BY <1>t, <2>1, <3>1, WorkMoves DEF WorkMove, FieldMove
    <3>2. CASE ~(todo # <<>> /\ todo' # <<>>)
      BY <1>t, <2>1, <3>2, Turns DEF Begin, Patch, PatchFails, Restart
    <3>. QED
      BY <3>1, <3>2
  <2>3. config'.url = local.url /\ Left(6, 7)
    BY <1>t, <2>1, <2>2, StepsAt DEF EnsureComputeConfig, Left
  <2>. QED
    BY <1>1, <2>3, URLServed
<1>2. ASSUME NEW a \in Computes, url = child'[a].spec PROVE ProxyServes(url)
  <2>1. child'[a].spec # child[a].spec /\ a \in Names /\ a \notin Services
    BY <1>2, <1>t DEF URLsGiven
  <2>2. EnsureCompute(a) /\ child'[a] = Written(child[a], local.url)
    <3>1. child[a] \in Children /\ NoChild.spec = NoURL /\ UsersOwn.spec = NoURL
      BY <1>t, <2>1, ChildTypes
    <3>2. ~ServiceStarts(a) /\ ~ServiceReady(a)
      <4>1. ServiceStarts(a) => child'[a].spec = child[a].spec
        BY <1>t, <2>1, <3>1 DEF ServiceStarts, Children
      <4>2. ServiceReady(a) => child'[a].spec = child[a].spec
        BY <1>t, <2>1, <3>1 DEF ServiceReady, Children
      <4>. QED
        BY <2>1, <4>1, <4>2
    <3>3. child'[a] # [child[a] EXCEPT !.going = TRUE, !.seen = FALSE]
      BY <2>1, <3>1 DEF Children
    <3>. QED
      BY <1>2, <1>t, <2>1, <3>1, <3>2, <3>3, ChildMoves
  <2>3. Left(6, 7)
    BY <1>t, <2>2, StepsAt DEF EnsureCompute, Left
  <2>4. child'[a].spec = local.url
    BY <1>t, <2>1, <2>2, WrittenType DEF Types, Locals
  <2>. QED
    BY <1>2, <2>3, <2>4, URLServed
<1>. QED
  BY <1>1, <1>2 DEF URLsGiven

(* No compute and no compute config Secret gets the URL of a noVNC proxy   *)
(* that has not rolled it out, although the reconcile looks at the proxy   *)
(* two calls before it uses the URL, and users, the controller of the proxy*)
(* and faults go on meanwhile.                                             *)
THEOREM ProxyServesFirst == Spec => ProxyFirst
<1>1. ProxyInv /\ [Next]_vars =>
        [\A url \in (URLsGiven' \ URLsGiven) \ {NoURL} : ProxyServes(url)]_vars
  BY URLStep
<1>. QED
  BY ProxyInit, ProxyStep, <1>1, PTL DEF Spec, ProxyFirst

-----------------------------------------------------------------------------
(* The Secret that the services have.                                      *)
LEMMA SecretsMet ==
  ASSUME Types, SecretOrder
  PROVE  /\ secret \in Secrets /\ secret \in Nat \ {0} /\ NoSecret = 0
         /\ status.applied \in Nat /\ status.applied <= secret
         /\ todo # <<>> =>
              /\ local.applied \in Nat /\ local.secret \in Nat
              /\ status.applied <= local.applied /\ local.applied <= secret
              /\ local.secret <= secret
              /\ "Input" \notin local.pending => local.applied <= local.secret
<1>1. secret \in Secrets /\ status.applied \in Secrets \cup {NoSecret}
      /\ local.applied \in Secrets \cup {NoSecret} /\ local.secret \in Secrets \cup {NoSecret}
  BY DEF Types, Statuses, Locals
<1>. QED
  BY <1>1, ContentsOrdered, ConstantFacts DEF SecretOrder

(* A service of the cell gets the Secret of the day, or keeps what it has. *)
LEMMA ConfigMoves ==
  ASSUME Types, ChildTrue, [Next]_vars, NEW n \in Names,
         child'[n].owner = "cell" /\ ~child'[n].going
  PROVE  \/ /\ child'[n].config = NoSecret
            /\ (n \in Services /\ EnsureService(n)) \/ n \in Computes
         \/ /\ child[n].owner = "cell" /\ ~child[n].going
            /\ child'[n].config \in {child[n].config, secret}
<1>t. child[n] \in Children /\ child \in [Names -> Children] /\ Honest(child[n])
  BY DEF Types, TypeOK, ChildTrue
<1>1. CASE ServiceStarts(n)
  BY <1>1, <1>t DEF ServiceStarts, Children
<1>2. CASE ServiceReady(n)
  BY <1>2, <1>t DEF ServiceReady, Children
<1>3. CASE child'[n] = [child[n] EXCEPT !.going = TRUE, !.seen = FALSE]
  BY <1>3, <1>t DEF Children
<1>4. CASE n \in Services /\ child'[n] = Written(child[n], GivenTo(n)) /\ EnsureService(n)
  BY <1>4, <1>t, WrittenType, GivenURL DEF Honest, Children
<1>5. CASE n \in Computes /\ child'[n] = Written(child[n], local.url) /\ EnsureCompute(n)
  <2>1. local.url \in URLs \cup {NoURL}
    BY DEF Types, Locals
  <2>. QED
    BY <1>5, <1>t, <2>1, WrittenType DEF Honest, Children
<1>. QED
  BY <1>1, <1>2, <1>3, <1>4, <1>5, ChildMoves, ChildTypes

(* A service is found again only by a reconcile that sees it with the      *)
(* Secret it goes by.                                                      *)
LEMMA FoundAgain ==
  ASSUME Types, ChildTrue, [Next]_vars, NEW s \in Services, s \in lost, s \notin lost'
  PROVE  /\ EnsureService(s) /\ todo # <<>> /\ todo' # <<>> /\ Pos = StepOf(s)
         /\ child'[s].ready /\ child'[s].config = local.secret
<1> USE DEF cellVars, workVars, boundVars
<1>n. s \in Names /\ s \notin Computes
  BY ConstantFacts
<1>1. ASSUME NEW r \in Services, EnsureService(r) PROVE r = s /\ InputApplied(child'[s])
  BY <1>1 DEF EnsureService
<1>2. ASSUME ~(\E r \in Services : EnsureService(r)) PROVE FALSE
  BY <1>2, <1>n DEF Next, Reconcile, Progress, Fault, vars, EditSpec, EditSecret, UserCreates,
     UserDeletes, ServiceStarts, ServiceReady, ServiceGone, Begin, ReadSecret,
     ProxyURL, Judge, EnsureComputeConfig, Patch, CallFails, PatchFails, Restart, LookAt,
     RefuseService, SkipService, DropService, DropFails, LookAtObsolete, LookAtCompute,
     EnsureCompute, ForgetCompute, ComputeFails, ForgetFails, Unsaved
<1>3. EnsureService(s) /\ InputApplied(child'[s])
  BY <1>1, <1>2
<1>4. Honest(child[s])'
  BY <1>n, ChildTrueStep DEF ChildTrue
<1>5. todo # <<>> /\ todo' # <<>> /\ Pos = StepOf(s)
  BY <1>3, Moves, StepsAt DEF EnsureService, At, Services, StepOf, Types
<1>. QED
  BY <1>3, <1>4, <1>5 DEF InputApplied, Honest

LEMMA NoneOlderKept ==
  ASSUME Types, ChildTrue, SecretOrder, [Next]_vars, NEW v \in Nat, NoneOlder(v), v <= secret,
         \A s \in Services : EnsureService(s) => v <= local.secret
  PROVE  NoneOlder(v)'
<1> SUFFICES ASSUME v = secret', NEW s \in Services, s \notin lost',
                    child'[s].owner = "cell", ~child'[s].going
             PROVE  child'[s].config \in {NoSecret, secret'}
  BY DEF NoneOlder
<1>1. secret' = secret /\ v = secret /\ s \in Names /\ s \notin Computes
  BY SecretMoves, ConstantFacts
<1>2. CASE s \notin lost
  BY <1>1, <1>2, ConfigMoves DEF NoneOlder
<1>3. CASE s \in lost
  BY <1>1, <1>3, FoundAgain, SecretsMet
<1>. QED
  BY <1>2, <1>3

(* Which contents a reconcile may find in a service it does not await.     *)
LEMMA EnsureOrder ==
  ASSUME Types, SecretOrder, NEW s \in Services, EnsureService(s)
  PROVE  /\ status.applied <= local.applied /\ local.applied <= local.secret
         /\ status.applied <= local.secret /\ local.secret <= secret
<1>1. Left(2, 4) /\ todo # <<>>
  BY StepsAt DEF EnsureService, Services, Left, Types, At
<1>2. "Input" \notin local.pending
  BY <1>1 DEF SecretOrder, Left
<1>. QED
  BY <1>1, <1>2, SecretsMet

LEMMA AppliedByAllStep ==
  Types /\ ChildTrue /\ SecretOrder /\ AppliedByAll /\ Passed /\ [Next]_vars => AppliedByAll'
<1> SUFFICES ASSUME Types, ChildTrue, SecretOrder, AppliedByAll, Passed, [Next]_vars
             PROVE  AppliedByAll'
  OBVIOUS
<1>1. ASSUME NEW v, v = status.applied PROVE NoneOlder(v)'
  <2>1. v \in Nat /\ v <= secret /\ NoneOlder(v)
    BY <1>1, SecretsMet DEF AppliedByAll
  <2>. QED
    BY <1>1, <2>1, NoneOlderKept, EnsureOrder
<1>2. ASSUME NEW v, v = local.applied, todo # <<>> PROVE NoneOlder(v)'
  <2>1. v \in Nat /\ v <= secret /\ NoneOlder(v)
    BY <1>2, SecretsMet DEF AppliedByAll
  <2>. QED
    BY <1>2, <2>1, NoneOlderKept, EnsureOrder
<1>3. NoneOlder(status.applied)'
  <2>1. CASE Patch
    <3>1. todo # <<>> /\ status'.applied = local.applied
      BY <2>1 DEF Patch, At, Outcome
    <3>. QED
      BY <1>2, <3>1
  <2>2. CASE ~Patch
    <3>1. status'.applied = status.applied
      BY <2>2, Turns DEF EditSpec, Types, Statuses
    <3>. QED
      BY <1>1, <3>1
  <2>. QED
    BY <2>1, <2>2
<1>4. ASSUME todo' # <<>> PROVE NoneOlder(local.applied)'
  <2>1. CASE todo = <<>>
    <3>1. local'.applied = status.applied
      BY <1>4, <2>1, Turns DEF Begin, Idle
    <3>. QED
      BY <1>1, <3>1
  <2>2. CASE todo # <<>> /\ ~Judge
    <3>1. local'.applied = local.applied
      BY <1>4, <2>2, WorkMoves DEF WorkMove, FieldMove
    <3>. QED
      BY <1>2, <2>2, <3>1
  <2>3. CASE todo # <<>> /\ Judge
    <3>1. Pos = 6 /\ UNCHANGED <<child, lost, secret>>
      BY <2>3, StepsAt DEF Judge, Types
    <3>2. CASE local.lagging # {} \/ ~AllDeployed
      <4>1. local'.applied = local.applied
        BY <2>3, <3>2 DEF Judge, Types, Locals
      <4>. QED
        BY <1>2, <2>3, <4>1
    <3>3. CASE local.lagging = {} /\ AllDeployed
      <4>1. local'.applied = local.secret
        BY <2>3, <3>3 DEF Judge, Types, Locals
      <4>2. ASSUME NEW s \in Services, s \notin lost, local.secret = secret,
                   child[s].owner = "cell", ~child[s].going
            PROVE  child[s].config = secret
        <5>1. Left(StepOf(s) + 1, 6)
          BY <3>1 DEF StepOf, Services, Left
        <5>. QED
          BY <3>3, <4>2, <5>1 DEF Passed
      <4>. QED
        BY <3>1, <4>1, <4>2 DEF NoneOlder
    <3>. QED
      BY <3>2, <3>3
  <2>. QED
    BY <2>1, <2>2, <2>3
<1>. QED
  BY <1>3, <1>4 DEF AppliedByAll

LEMMA PassedStep ==
  Types /\ ChildTrue /\ SecretOrder /\ Passed /\ [Next]_vars => Passed'
<1> SUFFICES ASSUME Types, ChildTrue, SecretOrder, Passed, [Next]_vars,
                    NEW s \in Services, s \notin lost', Left(StepOf(s) + 1, 6)',
                    child'[s].owner = "cell", ~child'[s].going
             PROVE  /\ s \in Wanted(local'.spec)
                    /\ s \notin local'.lagging /\ local'.secret = secret'
                         => child'[s].config = secret'
  BY DEF Passed
<1>n. s \in Names /\ s \notin Computes /\ StepOf(s) \in 2 .. 4
  BY ConstantFacts DEF StepOf, Services
<1>p. Pos' \in StepOf(s) + 1 .. 7 /\ todo # <<>> /\ todo' # <<>>
  <2>1. Pos' \in StepOf(s) + 1 .. 7
    BY DEF Left
  <2>2. todo' # <<>>
    BY <2>1, <1>n, Moves DEF Types
  <2>3. todo # <<>>
    <3>1. Begin => Pos' = 1
      BY Moves DEF Begin, Types
    <3>. QED
      BY <1>n, <2>1, <2>2, <3>1, Turns
  <2>. QED
    BY <2>1, <2>2, <2>3
<1>w. FieldMove /\ PosMove /\ ServiceMove(s)
  BY <1>p, WorkMoves DEF WorkMove
<1>1. CASE Pos > StepOf(s)
  <2>1. Left(StepOf(s) + 1, 6)
    BY <1>1, <1>n, <1>p, <1>w DEF PosMove, Left
  <2>2. ~EnsureService(s)
    BY <1>1, StepsAt DEF EnsureService, Services, StepOf, Types
  <2>3. /\ s \notin lost /\ child[s].owner = "cell" /\ ~child[s].going
        /\ child'[s].config \in {child[s].config, secret}
    BY <2>2, <1>n, FoundAgain, ConfigMoves
  <2>4. s \in Wanted(local'.spec)
    BY <2>1, <2>3, <1>w DEF Passed, FieldMove
  <2>5. ASSUME s \notin local'.lagging, local'.secret = secret' PROVE child'[s].config = secret'
    <3>1. local'.secret = local.secret
      <4>1. ReadSecret => Pos = 1
        BY StepsAt DEF ReadSecret, Types
      <4>. QED
        BY <1>1, <1>n, <1>w, <4>1 DEF FieldMove
    <3>2. secret' = secret
      BY <1>p, <2>5, <3>1, SecretMoves, SecretsMet
    <3>3. s \notin local.lagging
      BY <1>w, <2>5 DEF ServiceMove
    <3>. QED
      BY <2>1, <2>3, <2>5, <3>1, <3>2, <3>3 DEF Passed
  <2>. QED
    BY <2>4, <2>5
<1>2. CASE Pos <= StepOf(s)
  <2>1. ByService(s)
    BY <1>2, <1>n, <1>p, <1>w DEF PosMove, ServiceMove
  <2>2. CASE EnsureService(s)
    <3>1. local'.secret = local.secret /\ UNCHANGED secret /\ s \in Wanted(local'.spec)
      BY <2>2 DEF EnsureService, Types, Locals
    <3>2. s \notin local'.lagging => InputApplied(child'[s])
      BY <2>2 DEF EnsureService, Types, Locals
    <3>3. Honest(child[s])'
      BY <1>n, ChildTrueStep DEF ChildTrue
    <3>. QED
      BY <3>1, <3>2, <3>3 DEF InputApplied, Honest
  <2>3. CASE DropService(s)
    <3>1. child[s].owner # "none" => child'[s].going
      BY <2>3, <1>n DEF DropService, Types, TypeOK, Children
    <3>2. child[s].owner = "none" => child'[s] = child[s]
      BY <2>3 DEF DropService
    <3>. QED
      BY <3>1, <3>2
  <2>4. CASE DropFails(s)
    BY <2>4 DEF DropFails
  <2>5. CASE SkipService(s)
    BY <2>5 DEF SkipService
  <2>. QED
    BY <2>1, <2>2, <2>3, <2>4, <2>5 DEF ByService
<1>. QED
  BY <1>1, <1>2, <1>n, <1>p, <1>w DEF PosMove

LEMMA IsUpdated ==
  ASSUME ServicesUpdated, todo # <<>>, NEW s, s \in Wanted(local.spec), s \notin local.pending,
         s \notin lost,
         \/ local.applied = secret
         \/ s \notin local.lagging /\ local.secret = secret
  PROVE  Updated(s)
<1>1. s \in Wanted(local.spec) \ local.pending
  OBVIOUS
<1>. QED
  BY <1>1 DEF ServicesUpdated

LEMMA ServicesUpdatedStep ==
  /\ Types /\ ChildTrue /\ SecretOrder /\ Copies /\ ServicesFollow /\ ServicesUpdated
  /\ AppliedByAll' /\ [Next]_vars
  => ServicesUpdated'
<1> SUFFICES ASSUME Types, ChildTrue, SecretOrder, Copies, ServicesFollow, ServicesUpdated,
                    AppliedByAll', [Next]_vars, todo' # <<>>,
                    NEW s \in Wanted(local'.spec), s \notin local'.pending, s \notin lost',
                    \/ local'.applied = secret'
                    \/ s \notin local'.lagging /\ local'.secret = secret'
             PROVE  Updated(s)'
  BY DEF ServicesUpdated
<1>h. ServicesFollow' /\ ChildTrue' /\ Types'
  BY TypesStep, ChildTrueStep, ServicesFollowStep
<1>n. s \in Services /\ s \in Names /\ s \notin Computes
  BY <1>h, ConstantFacts DEF Types, Locals, Specs, Wanted, Services
<1>f. Follows(s, GivenTo(s))'
  BY <1>h DEF ServicesFollow
<1>1. todo # <<>>
  <2>1. Begin => local'.pending = Conditions
    BY DEF Begin, Idle
  <2>. QED
    BY <1>n, <2>1, Turns, ConstantFacts
<1>w. FieldMove /\ ServiceMove(s)
  BY <1>1, <1>n, WorkMoves DEF WorkMove
<1>2. secret' = secret
  <2>1. ASSUME EditSecret PROVE FALSE
    <3>1. UNCHANGED local /\ secret < secret'
      BY <2>1, SecretsMet DEF EditSecret
    <3>. QED
      BY <1>1, <3>1, SecretsMet, SecretMoves
  <2>. QED
    BY <2>1, SecretMoves
<1>3. CASE EnsureService(s)
  <2>1. /\ local'.secret = local.secret /\ local'.applied = local.applied
        /\ s \notin local'.lagging => InputApplied(child'[s])
        /\ s \in local.pending => Mirrored(child'[s])
        /\ s \in lost => InputApplied(child'[s])
    BY <1>3 DEF EnsureService, Types, Locals
  <2>2. Honest(child[s])'
    BY <1>h, <1>n DEF ChildTrue
  <2>3. child'[s].ready
    <3>1. CASE s \in local.pending
      BY <2>1, <3>1 DEF Mirrored
    <3>2. CASE InputApplied(child'[s])
      BY <3>2 DEF InputApplied
    <3>3. CASE s \notin local.pending /\ s \notin lost /\ ~InputApplied(child'[s])
      <4>1. s \in Wanted(local.spec) /\ Follows(s, GivenTo(s)) /\ local.applied = secret
        BY <1>1, <1>2, <1>w, <2>1, <3>3 DEF FieldMove, ServicesFollow
      <4>2. Updated(s)
        BY <1>1, <3>3, <4>1, IsUpdated
      <4>3. child'[s] = child[s]
        BY <1>3, <1>n, <4>1, WrittenType, GivenURL DEF EnsureService, Types, TypeOK, Follows
      <4>. QED
        BY <4>2, <4>3 DEF Updated
    <3>. QED
      BY <2>1, <3>1, <3>2, <3>3
  <2>4. CASE local'.applied = secret'
    BY <1>n, <1>f, <2>2, <2>3, <2>4 DEF AppliedByAll, NoneOlder, Follows, Honest, Updated
  <2>5. CASE s \notin local'.lagging /\ local'.secret = secret'
    BY <1>2, <2>1, <2>2, <2>3, <2>5 DEF InputApplied, Honest, Updated
  <2>. QED
    BY <2>4, <2>5
<1>4. CASE ~EnsureService(s)
  <2>1. s \in Wanted(local.spec) /\ ~SkipService(s) /\ ~DropService(s) /\ ~DropFails(s)
    BY <1>w DEF FieldMove, SkipService, DropService, DropFails
  <2>2. s \notin local.pending /\ s \notin lost
    BY <1>4, <1>n, <1>w, <2>1, FoundAgain DEF ServiceMove, ByService
  <2>3. Follows(s, GivenTo(s))
    BY <1>1, <2>1, <2>2 DEF ServicesFollow
  <2>4. ~ReadSecret
    <3>1. ReadSecret => Pos = 1
      BY StepsAt DEF ReadSecret, Types
    <3>. QED
      BY <1>n, <2>2, <3>1 DEF Copies, Left
  <2>5. \/ local.applied = secret
        \/ s \notin local.lagging /\ local.secret = secret
    <3>1. local'.secret = local.secret /\ (s \notin local'.lagging => s \notin local.lagging)
      BY <1>n, <1>w, <2>4 DEF FieldMove, ServiceMove
    <3>2. local'.applied = local.applied \/ (local.lagging = {} /\ local'.applied = local.secret)
      <4>1. Judge => local'.applied = local.applied
                     \/ (local.lagging = {} /\ local'.applied = local.secret)
        BY DEF Judge, Types, Locals
      <4>. QED
        BY <1>w, <4>1 DEF FieldMove
    <3>. QED
      BY <1>2, <3>1, <3>2
  <2>6. Updated(s)
    BY <1>1, <2>1, <2>2, <2>5, IsUpdated
  <2>7. Undisturbed(s, GivenTo(s))
    BY <1>4, <1>n, <2>1 DEF Undisturbed
  <2>. QED
    BY <1>2, <1>n, <2>3, <2>6, <2>7, Kept, GivenURL
<1>. QED
  BY <1>3, <1>4

-----------------------------------------------------------------------------
(* The computes and their Secret.                                          *)

(* The contents that a reconcile or the status has met are not those that  *)
(* Nova puts in the Secret in this step.                                   *)
LEMMA NotNew ==
  ASSUME Types, SecretOrder, [Next]_vars
  PROVE  /\ status.applied = secret' => UNCHANGED secret
         /\ todo # <<>> /\ local.secret = secret' => UNCHANGED secret
<1>1. EditSecret => secret < secret'
  BY SecretsMet DEF EditSecret
<1>. QED
  BY <1>1, SecretsMet, SecretMoves

LEMMA EntriesTrueStep ==
  Types /\ ChildTrue /\ SecretOrder /\ Copies /\ EntriesTrue /\ [Next]_vars => EntriesTrue'
<1> SUFFICES ASSUME Types, ChildTrue, SecretOrder, Copies, EntriesTrue, [Next]_vars,
                    todo' # <<>>, NEW a \in local'.visited,
                    local'.secret = secret', local'.entries[a] = "deployed"
             PROVE  Follows(a, local.url)' /\ Updated(a)'
  BY DEF EntriesTrue
<1>h. ChildTrue' /\ Types'
  BY TypesStep, ChildTrueStep
<1>n. a \in Computes /\ a \in Names /\ a \notin Services
  BY <1>h, ConstantFacts DEF Types, Locals
<1>1. todo # <<>>
  <2>1. Begin => local'.visited = {}
    BY DEF Begin, Idle
  <2>. QED
    BY <2>1, Turns
<1>w. FieldMove /\ ComputeMove(a)
  BY <1>1, <1>n, WorkMoves DEF WorkMove
<1>2. ~ReadSecret /\ ~ProxyURL
  <2>1. ReadSecret \/ ProxyURL => Pos \in {1, 5} /\ local'.visited = local.visited
    BY StepsAt DEF ReadSecret, ProxyURL, Types, Locals
  <2>. QED
    BY <2>1 DEF Copies, Left
<1>3. local'.secret = local.secret /\ local'.url = local.url
  BY <1>2, <1>w DEF FieldMove
<1>4. secret' = secret
  BY <1>1, <1>3, NotNew
<1>5. local.url \in URLs \cup {NoURL}
  BY DEF Types, Locals
<1>6. CASE EnsureCompute(a)
  <2>1. local'.entries[a] = EntryOf(child'[a])
    BY <1>6, <1>n DEF EnsureCompute, Visit, Types, Locals
  <2>2. Mirrored(child'[a]) /\ child'[a].applied = local.secret
    BY <1>3, <2>1 DEF EntryOf, InputApplied
  <2>3. child'[a] = Written(child[a], local.url) /\ child[a] \in Children
    BY <1>6, <1>n DEF EnsureCompute, Types, TypeOK
  <2>4. child'[a] = child[a] /\ child'[a].owner = "cell" /\ child'[a].spec = local.url
    BY <1>5, <1>n, <2>2, <2>3, MirroredAgain DEF ChildTrue
  <2>5. Honest(child[a])' /\ ~child'[a].going
    BY <1>h, <1>n DEF ChildTrue, Types, TypeOK
  <2>. QED
    BY <1>3, <1>4, <2>2, <2>4, <2>5 DEF Honest, Follows, Updated, Mirrored
<1>7. CASE ComputeFails(a) \/ Visit(a, "failed")
  <2>1. Visit(a, "failed")
    BY <1>7 DEF ComputeFails
  <2>2. local'.entries[a] = "failed"
    BY <1>n, <2>1 DEF Visit, Types, Locals
  <2>. QED
    BY <2>2
<1>8. CASE ~EnsureCompute(a) /\ ~ComputeFails(a) /\ ~Visit(a, "failed")
  <2>1. a \in local.visited
    BY <1>8, <1>w DEF ComputeMove
  <2>2. a \in local.spec.templates
    BY <2>1 DEF Copies
  <2>3. Follows(a, local.url) /\ Updated(a)
    BY <1>1, <1>3, <1>4, <1>8, <1>w, <2>1, <2>2 DEF ComputeMove, EntriesTrue
  <2>4. Undisturbed(a, local.url)
    BY <1>n, <2>2 DEF Undisturbed
  <2>. QED
    BY <1>3, <1>4, <1>5, <1>n, <2>3, <2>4, Kept
<1>. QED
  BY <1>6, <1>7, <1>8

(* What is concluded at the sixth step stays so until the last.          *)
LEMMA ConcludedStep == Types /\ Copies /\ Concluded /\ [Next]_vars => Concluded'
<1> SUFFICES ASSUME Types, Copies, Concluded, [Next]_vars,
                    todo' # <<>>, "AllComputes" \notin local'.pending
             PROVE  /\ local'.url = URLOf(local'.spec)
                    /\ local'.spec.templates \subseteq local'.visited
                    /\ AllDeployed'
                    /\ local'.hash = local'.spec.templates
                    /\ Left(7, 8)'
  BY DEF Concluded
<1>1. todo # <<>>
  <2>1. Begin => local'.pending = Conditions
    BY DEF Begin, Idle
  <2>. QED
    BY <2>1, Turns, ConstantFacts
<1>w. FieldMove /\ PosMove /\ \A a \in Computes : ComputeMove(a)
  BY <1>1, WorkMoves DEF WorkMove
<1>2. CASE Judge
  <2>1. Pos = 6 /\ Pos' = 7
    BY <1>2, Moves, StepsAt DEF Judge, Types, At
  <2>2. /\ local'.url = local.url /\ local'.spec = local.spec /\ local'.visited = local.visited
        /\ local'.entries = local.entries /\ local'.hash = local.spec.templates
        /\ local.spec.templates \subseteq local.visited
    BY <1>2 DEF Judge, Types, Locals
  <2>3. local.url = URLOf(local.spec)
    BY <2>1 DEF Copies, Left
  <2>4. AllDeployed
    <3>1. CASE "AllComputes" \in local.pending
      BY <1>2, <3>1 DEF Judge, Types, Locals
    <3>2. CASE "AllComputes" \notin local.pending
      BY <1>1, <3>2 DEF Concluded
    <3>. QED
      BY <3>1, <3>2
  <2>. QED
    BY <2>1, <2>2, <2>3, <2>4 DEF AllDeployed, Left
<1>3. CASE ~Judge
  <2>1. /\ local.url = URLOf(local.spec) /\ local.spec.templates \subseteq local.visited
        /\ AllDeployed /\ local.hash = local.spec.templates /\ Pos \in 7 .. 8
    BY <1>1, <1>3, <1>w DEF FieldMove, Concluded, Left
  <2>2. /\ ~ProxyURL
        /\ \A a \in Computes : ~EnsureCompute(a) /\ ~ComputeFails(a) /\ ~LookAtCompute(a)
    BY <2>1, StepsAt DEF ProxyURL, EnsureCompute, ComputeFails, LookAtCompute, Types
  <2>3. local'.url = local.url /\ local'.spec = local.spec /\ local'.hash = local.hash
    BY <1>3, <1>w, <2>2 DEF FieldMove
  <2>4. ASSUME NEW a \in local.spec.templates
        PROVE  a \in local'.visited /\ local'.entries[a] = "deployed"
    <3>1. a \in Computes /\ a \in local.visited /\ local.entries[a] = "deployed"
      BY <2>1 DEF AllDeployed, Types, Locals, Specs
    <3>. QED
      BY <1>w, <2>2, <3>1 DEF ComputeMove
  <2>5. Pos' \in 7 .. 8
    BY <1>w, <2>1 DEF PosMove
  <2>. QED
    BY <2>1, <2>3, <2>4, <2>5 DEF AllDeployed, Left
<1>. QED
  BY <1>2, <1>3

LEMMA ConfigTrueStep == Types /\ ConfigTrue /\ [Next]_vars => ConfigTrue'
<1> SUFFICES ASSUME Types, ConfigTrue, [Next]_vars,
                    todo' # <<>>, "NovaComputeServiceConfig" \notin local'.pending
             PROVE  /\ ~isCell0' => config' = [secret |-> local'.secret, url |-> local'.url]
                    /\ Left(8, 8)'
  BY DEF ConfigTrue
<1>1. todo # <<>>
  <2>1. Begin => local'.pending = Conditions
    BY DEF Begin, Idle
  <2>. QED
    BY <2>1, Turns, ConstantFacts
<1>w. FieldMove /\ PosMove
  BY <1>1, WorkMoves DEF WorkMove
<1>2. isCell0' = isCell0
  BY <1>w DEF FieldMove, EditSpec
<1>3. CASE EnsureComputeConfig
  <2>1. Pos' = 8
    BY <1>3, Moves, StepsAt DEF EnsureComputeConfig, Types, At
  <2>2. local'.secret = local.secret /\ local'.url = local.url
    BY <1>3 DEF EnsureComputeConfig, Types, Locals
  <2>. QED
    BY <1>2, <1>3, <2>1, <2>2 DEF EnsureComputeConfig, Left
<1>4. CASE ~EnsureComputeConfig
  <2>1. /\ ~isCell0 => config = [secret |-> local.secret, url |-> local.url]
        /\ Pos = 8
    BY <1>1, <1>4, <1>w DEF FieldMove, ConfigTrue, Left
  <2>2. ~ReadSecret /\ ~ProxyURL
    BY <2>1, StepsAt DEF ReadSecret, ProxyURL, Types
  <2>. QED
    BY <1>2, <1>4, <1>w, <2>1, <2>2 DEF FieldMove, PosMove, Left
<1>. QED
  BY <1>3, <1>4

-----------------------------------------------------------------------------
(* What the status says.                                                   *)
ServiceURL(s) == IF s = "NovaNoVNCProxy" THEN cr.url ELSE NoURL

LEMMA ReportedByPatch ==
  ASSUME Types, SecretOrder, Copies, ServicesFollow, ServicesUpdated, EntriesTrue, Concluded,
         ConfigTrue, Patch
  PROVE  Reported'
<1> SUFFICES ASSUME Ready', status'.applied = secret' PROVE
              /\ \A s \in Wanted(cr) : Follows(s, ServiceURL(s)) /\ (s \notin lost => Updated(s))
              /\ \A a \in cr.templates : Follows(a, URLOf(cr)) /\ Updated(a)
              /\ ~isCell0 => config = [secret |-> secret, url |-> URLOf(cr)]
              /\ local.hash = cr.templates
  <2>1. UNCHANGED <<child, secret, cr, config, lost, isCell0>> /\ status'.hash = local.hash
    BY DEF Patch, Outcome
  <2>. QED
    BY <2>1 DEF Reported, Follows, Updated, ServiceURL
<1>1. /\ todo # <<>> /\ local.pending = {} /\ local.fresh /\ local.applied = secret
      /\ local.spec = cr
  <2>1. todo # <<>> /\ local.pending = {} /\ local.fresh /\ local.applied = secret
    BY DEF Patch, At, Outcome, Ready
  <2>. QED
    BY <2>1 DEF Copies
<1>2. local.secret = secret
  BY <1>1, SecretsMet
<1>3. ASSUME NEW s \in Wanted(cr)
      PROVE  Follows(s, ServiceURL(s)) /\ (s \notin lost => Updated(s))
  <2>1. Follows(s, GivenTo(s))
    BY <1>1 DEF ServicesFollow
  <2>2. s \notin lost => Updated(s)
    BY <1>1, IsUpdated
  <2>. QED
    BY <1>1, <2>1, <2>2 DEF GivenTo, ServiceURL
<1>4. ASSUME NEW a \in cr.templates PROVE Follows(a, URLOf(cr)) /\ Updated(a)
  <2>1. a \in local.visited /\ local.entries[a] = "deployed" /\ local.url = URLOf(cr)
    BY <1>1 DEF Concluded, AllDeployed
  <2>. QED
    BY <1>1, <1>2, <2>1 DEF EntriesTrue
<1>5. /\ ~isCell0 => config = [secret |-> secret, url |-> URLOf(cr)]
      /\ local.hash = cr.templates
  BY <1>1, <1>2 DEF Concluded, ConfigTrue
<1>. QED
  BY <1>3, <1>4, <1>5

LEMMA ReportedStep ==
  /\ Types /\ ChildTrue /\ SecretOrder /\ Copies /\ ServicesFollow /\ ServicesUpdated
  /\ EntriesTrue /\ Concluded /\ ConfigTrue /\ Reported /\ [Next]_vars
  => Reported'
<1> SUFFICES ASSUME Types, ChildTrue, SecretOrder, Copies, ServicesFollow, ServicesUpdated,
                    EntriesTrue, Concluded, ConfigTrue, Reported, [Next]_vars, ~Patch,
                    Ready', status'.applied = secret'
             PROVE  /\ \A s \in Wanted(cr') : Follows(s, ServiceURL(s))'
                                             /\ (s \notin lost' => Updated(s)')
                    /\ \A a \in cr'.templates : Follows(a, URLOf(cr))' /\ Updated(a)'
                    /\ ~isCell0' => config' = [secret |-> secret', url |-> URLOf(cr')]
                    /\ status'.hash = cr'.templates
  BY ReportedByPatch DEF Reported, ServiceURL
<1>1. UNCHANGED <<status, cr, isCell0>>
  <2>1. EditSpec => ~status'.seen
    BY DEF EditSpec, Types, Statuses
  <2>. QED
    BY <2>1, Turns DEF Ready
<1>2. UNCHANGED secret
  BY <1>1, NotNew
<1>3. /\ \A s \in Wanted(cr) : Follows(s, ServiceURL(s)) /\ (s \notin lost => Updated(s))
      /\ \A a \in cr.templates : Follows(a, URLOf(cr)) /\ Updated(a)
      /\ ~isCell0 => config = [secret |-> secret, url |-> URLOf(cr)]
      /\ status.hash = cr.templates
  BY <1>1, <1>2 DEF Reported, Ready, ServiceURL
<1>4. todo # <<>> => local.spec = cr
  BY <1>1 DEF Copies, Ready
<1>5. cr \in Specs /\ \A s \in Services : ServiceURL(s) \in URLs \cup {NoURL}
  BY DEF Types, TypeOK, ServiceURL, Specs
<1>6. ASSUME NEW s \in Wanted(cr)
      PROVE  Follows(s, ServiceURL(s))' /\ (s \notin lost' => Updated(s)')
  <2>1. s \in Services /\ s \in Names /\ s \notin Computes
    BY <1>5, ConstantFacts DEF Wanted, Specs, Services
  <2>2. Undisturbed(s, ServiceURL(s))
    BY <1>4, <2>1 DEF Undisturbed, DropService, EnsureService, At, GivenTo, ServiceURL
  <2>3. Follows(s, ServiceURL(s))' /\ (Updated(s) => Updated(s)')
    <3>1. Follows(s, ServiceURL(s)) /\ ServiceURL(s)' = ServiceURL(s)
      BY <1>1, <1>3 DEF ServiceURL
    <3>. QED
      BY <1>2, <1>5, <2>1, <2>2, <3>1, Kept
  <2>4. s \in lost /\ s \notin lost' => Updated(s)'
    BY <1>1, <1>2, <2>1, FoundAgain, EnsureOrder, SecretsMet DEF Updated
  <2>. QED
    BY <1>3, <2>3, <2>4
<1>7. ASSUME NEW a \in cr.templates PROVE Follows(a, URLOf(cr))' /\ Updated(a)'
  <2>1. a \in Computes /\ a \in Names /\ a \notin Services
    BY <1>5, ConstantFacts DEF Specs
  <2>2. Undisturbed(a, URLOf(cr))
    <3>1. EnsureCompute(a) => local.url = URLOf(cr)
      BY <1>4, StepsAt DEF EnsureCompute, At, Copies, Left, Types
    <3>2. Pos = 5 => local.spec = cr
      BY <1>4, Positions DEF Types
    <3>. QED
      BY <2>1, <3>1, <3>2 DEF Undisturbed
  <2>3. URLOf(cr) \in URLs \cup {NoURL}
    BY <1>5 DEF URLOf, Specs
  <2>. QED
    BY <1>1, <1>2, <1>3, <2>1, <2>2, <2>3, Kept
<1>8. ~isCell0 => config' = [secret |-> secret, url |-> URLOf(cr)]
  <2>1. CASE EnsureComputeConfig
    <3>1. todo # <<>> /\ Left(6, 7) /\ Left(2, 7)
      BY <2>1, StepsAt DEF EnsureComputeConfig, At, Left, Types
    <3>2. local.url = URLOf(cr) /\ local.secret = secret
      BY <1>1, <1>2, <1>4, <3>1, SecretsMet DEF Copies, SecretOrder
    <3>. QED
      BY <2>1, <3>2 DEF EnsureComputeConfig
  <2>2. CASE ~EnsureComputeConfig
    <3>1. config' = config
      BY <2>2, Turns, WorkMoves DEF WorkMove, FieldMove, Begin, PatchFails, Restart
    <3>. QED
      BY <1>3, <3>1
  <2>. QED
    BY <2>1, <2>2
<1>. QED
  BY <1>1, <1>2, <1>3, <1>6, <1>7, <1>8

-----------------------------------------------------------------------------
(* The inductive invariant, and what it says of a Ready cell.              *)
LEMMA ReadyInvInit == Init => ReadyInv
<1> SUFFICES ASSUME Init PROVE ReadyInv
  OBVIOUS
<1>1. /\ todo = <<>> /\ Pos = 9 /\ secret = 1 /\ lost = {} /\ isCell0 \in BOOLEAN
      /\ cr = FullSpec /\ cr \in Specs
  BY TypesInit DEF Init, Pos, Types, TypeOK
<1>2. ServicesFollow /\ ServicesUpdated /\ EntriesTrue /\ Concluded /\ ConfigTrue
  BY <1>1 DEF ServicesFollow, ServicesUpdated, EntriesTrue, Concluded, ConfigTrue
<1>3. Passed
  BY <1>1 DEF Passed, Left
<1>4. SecretOrder /\ AppliedByAll /\ Reported
  <2>1. CASE New
    <3>1. status.applied = 0 /\ status.pending = Conditions
      BY <2>1, ConstantFacts DEF New
    <3>2. ~Ready
      BY <3>1, ConstantFacts DEF Ready
    <3>. QED
      BY <1>1, <3>1, <3>2 DEF SecretOrder, AppliedByAll, NoneOlder, Reported, Left
  <2>2. CASE Deployed
    <3>1. status.applied = 1 /\ status.hash = cr.templates
      BY <2>2 DEF Deployed
    <3>2. ASSUME NEW n \in Names PROVE child[n].owner = "cell" => child[n].config = 1
      BY <2>2, ChildTypes DEF Deployed
    <3>3. ASSUME NEW n \in Wanted(cr) \cup cr.templates
          PROVE  /\ Follows(n, IF n \in Services \ {"NovaNoVNCProxy"} THEN NoURL ELSE URLOf(cr))
                 /\ Updated(n)
      <4>1. n \in Names
        BY <1>1, ConstantFacts DEF Wanted, Specs, Services
      <4>. QED
        BY <1>1, <2>2, <4>1 DEF Deployed, Follows, Updated
    <3>4. ASSUME NEW s \in Wanted(cr) PROVE Follows(s, ServiceURL(s)) /\ Updated(s)
      <4>1. s \in Services /\ (s = "NovaNoVNCProxy" => URLOf(cr) = cr.url)
        BY <1>1, ConstantFacts DEF Wanted, Specs, Services, URLOf, VNC
      <4>. QED
        BY <3>3, <4>1 DEF ServiceURL
    <3>5. ASSUME NEW a \in cr.templates PROVE Follows(a, URLOf(cr)) /\ Updated(a)
      <4>1. a \notin Services
        BY <1>1, ConstantFacts DEF Specs
      <4>. QED
        BY <3>3, <4>1
    <3>6. ~isCell0 => config = [secret |-> 1, url |-> URLOf(cr)]
      BY <2>2 DEF Deployed
    <3>7. SecretOrder
      BY <1>1, <3>1 DEF SecretOrder, Left
    <3>8. AppliedByAll
      BY <1>1, <3>2, ConstantFacts DEF AppliedByAll, NoneOlder
    <3>. QED
      BY <1>1, <3>1, <3>4, <3>5, <3>6, <3>7, <3>8 DEF Reported, ServiceURL
  <2>. QED
    BY <2>1, <2>2 DEF Init
<1>. QED
  BY <1>2, <1>3, <1>4, TypesInit, ChildTrueInit, CopiesInit DEF ReadyInv

LEMMA ReadyInvStep == ReadyInv /\ [Next]_vars => ReadyInv'
<1> SUFFICES ASSUME ReadyInv, [Next]_vars PROVE ReadyInv'
  OBVIOUS
<1>1. Types' /\ ChildTrue' /\ SecretOrder' /\ Copies' /\ ServicesFollow'
  BY TypesStep, ChildTrueStep, SecretOrderStep, CopiesStep, ServicesFollowStep DEF ReadyInv
<1>2. AppliedByAll' /\ Passed'
  BY AppliedByAllStep, PassedStep DEF ReadyInv
<1>3. ServicesUpdated'
  BY <1>2, ServicesUpdatedStep DEF ReadyInv
<1>4. EntriesTrue' /\ Concluded' /\ ConfigTrue'
  BY EntriesTrueStep, ConcludedStep, ConfigTrueStep DEF ReadyInv
<1>5. Reported'
  BY ReportedStep DEF ReadyInv
<1>. QED
  BY <1>1, <1>2, <1>3, <1>4, <1>5 DEF ReadyInv

LEMMA ReadyInvMeans == ReadyInv => CellReadyTellsTruth
<1> SUFFICES ASSUME ReadyInv, Ready, status.applied = secret PROVE InPlace(lost)
  BY DEF CellReadyTellsTruth
<1>1. ASSUME NEW n \in Names, NEW url, Follows(n, url), Updated(n) PROVE Runs(n, url)
  <2>1. Honest(child[n])
    BY DEF ReadyInv, ChildTrue
  <2>. QED
    BY <1>1, <2>1 DEF Follows, Updated, Honest, Runs
<1>2. Wanted(cr) \subseteq Names /\ cr.templates \subseteq Names
  BY ConstantFacts DEF ReadyInv, Types, TypeOK, Specs, Wanted, Services
<1>. QED
  BY <1>1, <1>2 DEF ReadyInv, Reported, InPlace

(* A NovaCell that is Ready, of its generation, and says that it has       *)
(* applied the Secret of today, says so of all of its services, computes,  *)
(* compute config and discovery hash; but for a service that has outlived a*)
(* failed deletion.  So a Nova that maps the cell, or revokes the old      *)
(* credentials, because of that does not do it too early.                  *)
THEOREM ReadyTellsTruth == Spec => []CellReadyTellsTruth
<1>. QED
  BY ReadyInvInit, ReadyInvStep, ReadyInvMeans, PTL DEF Spec
=============================================================================
