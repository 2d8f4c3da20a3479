--------------------------- MODULE ImageUpgradeProofs ---------------------------
(***************************************************************************)
(* Proofs about ImageUpgrade, for any number of cells, services, images    *)
(* and failures: schema before conductor pods, cell0 before the top-level  *)
(* services, and a Ready Nova CR that tells the truth.                     *)
(***************************************************************************)
EXTENDS ImageUpgrade, TLAPS

Top == Elements(TopServices)
ServicesOf(c) == Elements(CellServices[c])

(* Cells, their conductors and services, and who owns what.                *)
LEMMA Names ==
    /\ Cell0 \in Cells
    /\ Len(CellOrder) \in Nat \ {0}
    /\ \A i \in 1 .. Len(CellOrder) : CellOrder[i] \in Cells
    /\ \A c \in Cells : \E i \in 1 .. Len(CellOrder) : c = CellOrder[i]
    /\ Top \subseteq Services
    /\ Len(TopServices) \in Nat
    /\ \A i \in 1 .. Len(TopServices) : TopServices[i] \in Top
    /\ \A s \in Services : s \in Top \/ \E c \in Cells : s \in ServicesOf(c)
    /\ \A c \in Cells : /\ ServicesOf(c) \subseteq Services
                        /\ Len(CellServices[c]) \in Nat
                        /\ \A i \in 1 .. Len(CellServices[c]) :
                              CellServices[c][i] \in ServicesOf(c)
                        /\ Conductor(c) \in ServicesOf(c)
                        /\ Conductor(c) \in Conductors
                        /\ ServicesOf(c) \cap Top = {}
    /\ \A c, d \in Cells : c # d => ServicesOf(c) \cap ServicesOf(d) = {}
    /\ Cells \cap Services = {}
    /\ NovaCR \notin Cells /\ NovaCR \notin Services
<1>1. /\ CellOrder \in Seq(Cells) /\ Len(CellOrder) >= 1
      /\ DOMAIN CellOrder = 1 .. Len(CellOrder) /\ Len(CellOrder) \in Nat
  BY UpgradeConstants
<1>2. TopServices \in Seq(Services) /\ DOMAIN TopServices = 1 .. Len(TopServices)
  BY UpgradeConstants
<1>3. ASSUME NEW c \in Cells
      PROVE  /\ CellServices[c] \in Seq(Services) /\ CellServices[c] # <<>>
             /\ DOMAIN CellServices[c] = 1 .. Len(CellServices[c])
             /\ Len(CellServices[c]) \in Nat /\ Len(CellServices[c]) >= 1
             /\ ServicesOf(c) \subseteq Services
             /\ Conductor(c) \in ServicesOf(c)
             /\ Conductor(c) \in Conductors
  <2>1. CellServices[c] \in Seq(Services) /\ CellServices[c] # <<>>
    BY UpgradeConstants
  <2>2. Len(CellServices[c]) \in Nat /\ Len(CellServices[c]) >= 1
    BY <2>1
  <2>3. DOMAIN CellServices[c] = 1 .. Len(CellServices[c])
    BY <2>1
  <2>4. \A i \in DOMAIN CellServices[c] : CellServices[c][i] \in Services
    BY <2>1
  <2>. QED
    BY <2>1, <2>2, <2>3, <2>4 DEF ServicesOf, Elements, Conductor, Conductors
<1>4. Cell0 \in Cells /\ \A i \in 1 .. Len(CellOrder) : CellOrder[i] \in Cells
  BY <1>1 DEF Cell0, Cells, Elements
<1>5. \A c \in Cells : \E i \in 1 .. Len(CellOrder) : c = CellOrder[i]
  BY <1>1 DEF Cells, Elements
<1>6. /\ Top \subseteq Services /\ Len(TopServices) \in Nat
      /\ \A i \in 1 .. Len(TopServices) : TopServices[i] \in Top
  BY <1>2 DEF Top, Elements
<1>7. \A s \in Services : s \in Top \/ \E c \in Cells : s \in ServicesOf(c)
  BY DEF Services, Top, ServicesOf
<1>8. \A c \in Cells : /\ ServicesOf(c) \cap Top = {}
                       /\ \A i \in 1 .. Len(CellServices[c]) :
                             CellServices[c][i] \in ServicesOf(c)
  BY <1>3, UpgradeConstants DEF ServicesOf, Top, Elements
<1>9. /\ \A c, d \in Cells : c # d => ServicesOf(c) \cap ServicesOf(d) = {}
      /\ Cells \cap Services = {}
      /\ NovaCR \notin Cells /\ NovaCR \notin Services
  BY UpgradeConstants DEF ServicesOf
<1>. QED
  BY <1>1, <1>3, <1>4, <1>5, <1>6, <1>7, <1>8, <1>9

(* Who owns what, in the form the steps below need it.                     *)
LEMMA Owners ==
    /\ Cells \subseteq CRNames /\ Services \subseteq CRNames /\ NovaCR \in CRNames
    /\ Top \subseteq Services
    /\ \A c \in Cells : /\ ServicesOf(c) \subseteq Services
                        /\ \A s \in ServicesOf(c) : s \notin Top /\ s \notin Cells
    /\ \A c, d \in Cells : \A s \in ServicesOf(c) : s \in ServicesOf(d) => c = d
    /\ \A s \in Services : s \notin Cells /\ s # NovaCR
    /\ \A c \in Cells : c \notin Services /\ c # NovaCR
BY Names DEF CRNames

(* The CRs whose spec the controller of x writes, and the services that a  *)
(* report about x is about.                                                *)
Children(x) == IF x = NovaCR THEN Cells \cup Top
               ELSE IF x \in Cells THEN ServicesOf(x) ELSE {}

Serves(x) == IF x = NovaCR THEN Services
             ELSE IF x \in Cells THEN ServicesOf(x) ELSE {x}

(* A CR has one owner, and it is not its own.                              *)
LEMMA Families ==
    /\ \A x \in CRNames : /\ Children(x) \subseteq CRNames /\ x \notin Children(x)
                          /\ Serves(x) \subseteq Services
    /\ \A x, y \in CRNames : Children(x) \cap Children(y) # {} => x = y
    /\ \A x \in CRNames : NovaCR \notin Children(x)
<1>1. \A x \in CRNames : x = NovaCR \/ x \in Cells \/ x \in Services
  BY DEF CRNames
<1>2. \A x \in CRNames : /\ Children(x) \subseteq CRNames /\ x \notin Children(x)
                         /\ Serves(x) \subseteq Services
                         /\ NovaCR \notin Children(x)
  BY <1>1, Owners DEF Children, Serves
<1>3. ASSUME NEW x \in CRNames, NEW y \in CRNames, NEW z \in Children(x), z \in Children(y)
      PROVE  x = y
  BY <1>1, <1>3, Owners DEF Children
<1>. QED
  BY <1>2, <1>3

-----------------------------------------------------------------------------
(* What CreateOrPatch does to CRs.                                         *)

(* r is cr, except that some of the CRs X now want image w.                *)
HandedOn(X, w, r) ==
    /\ r \in [CRNames -> CR]
    /\ \A x \in CRNames :
          /\ r[x].obs = cr[x].obs
          /\ r[x].ready = cr[x].ready
          /\ r[x].synced = cr[x].synced
          /\ r[x].founded = cr[x].founded
          /\ r[x].want = cr[x].want \/ (x \in X /\ r[x].want = w)

LEMMA EnsureType ==
  ASSUME TypeOK, NEW x \in CRNames, NEW w \in Image
  PROVE  /\ EnsureCR(x, w) \in CR
         /\ EnsureCR(x, w).obs = cr[x].obs
         /\ EnsureCR(x, w).ready = cr[x].ready
         /\ EnsureCR(x, w).synced = cr[x].synced
         /\ EnsureCR(x, w).founded = cr[x].founded
         /\ EnsureCR(x, w).want \in {cr[x].want, w}
         /\ ReturnedCR(x, w) \in CR
         /\ \/ ReturnedCR(x, w) = seen[x]
            \/ /\ ReturnedCR(x, w).obs = cr[x].obs
               /\ ReturnedCR(x, w).ready = cr[x].ready
               /\ ReturnedCR(x, w).founded = cr[x].founded
<1>1. cr[x] \in CR /\ seen[x] \in CR
  BY DEF TypeOK, CRNames
<1>2. [cr[x] EXCEPT !.want = w] \in CR
  BY <1>1 DEF CR
<1>. QED
  BY <1>1, <1>2 DEF EnsureCR, ReturnedCR, CR

(* A child that never wanted anything newer wants w once it is ensured.    *)
LEMMA EnsureWants ==
  ASSUME TypeOK, NEW x \in CRNames, NEW w \in Image,
         seen[x].want <= cr[x].want, cr[x].want <= w
  PROVE  EnsureCR(x, w).want = w /\ ReturnedCR(x, w).want = w
<1>1. cr[x] \in CR /\ seen[x] \in CR
  BY DEF TypeOK, CRNames
<1>2. [cr[x] EXCEPT !.want = w].want = w
  BY <1>1 DEF CR
<1>. QED
  BY <1>1, <1>2 DEF EnsureCR, ReturnedCR, CR, Image

LEMMA HandOn ==
  ASSUME TypeOK, NEW children, NEW n \in Nat, NEW w \in Image, NEW X \in SUBSET CRNames,
         \A i \in 1 .. n : children[i] \in X
  PROVE  HandedOn(X, w, CRsWith(children, n, w))
<1>1. ASSUME NEW x \in CRNames
      PROVE  /\ CRsWith(children, n, w)[x] \in {cr[x], EnsureCR(x, w)}
             /\ CRsWith(children, n, w)[x] # cr[x] => x \in X
  BY DEF CRsWith, CRNames
<1>2. \A x \in CRNames : cr[x] \in CR
  BY DEF TypeOK, CRNames
<1>3. CRsWith(children, n, w) \in [CRNames -> CR]
  BY <1>2, EnsureType DEF CRsWith, CRNames
<1>. QED
  BY <1>1, <1>2, <1>3, EnsureType DEF HandedOn

-----------------------------------------------------------------------------
(* Types.                                                                  *)

(* What the variables hold, in the form the steps below need it.           *)
LEMMA Values ==
  ASSUME TypeOK
  PROVE  /\ \A x \in CRNames :
              /\ cr[x] \in CR /\ seen[x] \in CR /\ base[x] \in CR
              /\ Copy(x) \in {base[x], seen[x]} /\ Copy(x) \in CR
              /\ base[x] = NoCR => Copy(x) = seen[x]
              /\ base[x] # NoCR => Copy(x) = base[x]
              /\ cr[x].want \in Nat /\ cr[x].obs \in Nat
              /\ seen[x].want \in Nat /\ seen[x].obs \in Nat
              /\ base[x].obs \in Nat
              /\ Copy(x).want \in Nat /\ Copy(x).want \in Image /\ Copy(x).synced \in Image
         /\ cr \in [CRNames -> CR] /\ seen \in [CRNames -> CR] /\ base \in [CRNames -> CR]
         /\ \A s \in Services : template[s] \in Nat /\ pods[s] \subseteq Nat
         /\ view \in Nat /\ view \in Image /\ next \in Nat /\ misled \in Nat
         /\ template \in [Services -> Image]
         /\ pods \in [Services -> SUBSET (1 .. MaxImage)]
<1>1. \A x \in CRNames : cr[x] \in CR /\ seen[x] \in CR /\ base[x] \in CR
  BY DEF TypeOK
<1>2. \A x \in CRNames : /\ base[x] = NoCR => Copy(x) = seen[x]
                         /\ base[x] # NoCR => Copy(x) = base[x]
  BY DEF Copy
<1>3. \A r \in CR : r.want \in Nat /\ r.obs \in Nat /\ r.want \in Image /\ r.synced \in Image
  BY DEF CR, Image
<1>4. \A s \in Services : template[s] \in Nat /\ pods[s] \subseteq Nat
  BY DEF TypeOK, Image
<1>5. next \in Nat /\ misled \in Nat /\ NovaCR \in CRNames
  BY Names, Owners DEF TypeOK, Image
<1>. QED
  BY <1>1, <1>2, <1>3, <1>4, <1>5 DEF TypeOK, view

(* What a status patch can make of the CRs.                                *)
Reported(r, x, found, i, q) ==
    /\ q \in [CRNames -> CR]
    /\ \A y \in CRNames : y # x => q[y] = r[y]
    /\ q[x].want = r[x].want
    /\ q[x].obs \in {r[x].obs, Copy(x).want}
    /\ q[x].synced \in {r[x].synced, i}
    /\ q[x].founded => \/ r[x].founded /\ q[x].obs = r[x].obs
                       \/ found /\ q[x].obs = Copy(x).want

LEMMA PatchReports ==
  ASSUME TypeOK, NEW r \in [CRNames -> CR], NEW x \in CRNames, NEW b \in BOOLEAN,
         NEW i \in Image, NEW f \in BOOLEAN, NEW q \in Patched(r, x, b, i, f)
  PROVE  Reported(r, x, b /\ f, i, q)
<1> DEFINE read == Copy(x)
           obs == Merge(read.want, read.obs, r[x].obs)
           synced == Merge(i, read.synced, r[x].synced)
<1>1. PICK shown \in {b, Merge(b, read.ready, r[x].ready)} :
         q = [r EXCEPT ![x].obs = obs, ![x].ready = shown, ![x].synced = synced,
                       ![x].founded = \/ b /\ f /\ shown /\ obs = read.want
                                      \/ r[x].founded /\ shown /\ obs = r[x].obs]
  BY DEF Patched
<1>2. read \in CR /\ r[x] \in CR
  BY Values
<1>3. /\ obs \in {r[x].obs, read.want} /\ obs \in Image
      /\ synced \in {r[x].synced, i} /\ synced \in Image
      /\ shown \in BOOLEAN
  BY <1>2 DEF Merge, CR
<1> DEFINE founded == \/ b /\ f /\ shown /\ obs = read.want
                      \/ r[x].founded /\ shown /\ obs = r[x].obs
<1>4. founded \in BOOLEAN
  OBVIOUS
<1>5. q = [r EXCEPT ![x] = [r[x] EXCEPT !.obs = obs, !.ready = shown, !.synced = synced,
                                        !.founded = founded]]
  BY <1>1
<1>f. founded => \/ r[x].founded /\ obs = r[x].obs
                 \/ b /\ f /\ obs = read.want
  OBVIOUS
<1> HIDE DEF obs, synced, founded, read
<1>6. LET e == [r[x] EXCEPT !.obs = obs, !.ready = shown, !.synced = synced,
                            !.founded = founded]
      IN /\ e \in CR
         /\ e.want = r[x].want /\ e.obs = obs /\ e.synced = synced /\ e.founded = founded
  <2>1. r[x] \in CR /\ obs \in Image /\ shown \in BOOLEAN /\ synced \in Image
        /\ founded \in BOOLEAN
    BY <1>2, <1>3, <1>4
  <2>. QED
    BY <2>1 DEF CR
<1>7. /\ q[x].want = r[x].want /\ q[x].obs = obs /\ q[x].synced = synced
      /\ q[x].founded = founded
      /\ q[x] \in CR
      /\ \A y \in CRNames : y # x => q[y] = r[y]
      /\ q \in [CRNames -> CR]
  BY <1>2, <1>3, <1>4, <1>5, <1>6 DEF CR
<1>. QED
  BY <1>3, <1>7, <1>f DEF Reported, read

LEMMA SyncType ==
  ASSUME TypeOK, NEW c \in Cells
  PROVE  Sync(c).job \in [state : {"none", "running", "done", "failed"}, image : Image]
<1>1. Conductor(c) \in CRNames
  BY Names DEF CRNames
<1>. QED
  BY <1>1, Values DEF Sync, DoJob, TypeOK

LEMMA FaultType ==
  ASSUME MaxFaults \in Nat, faults \in 0 .. MaxFaults, Fault
  PROVE  faults' \in 0 .. MaxFaults
BY DEF Fault

LEMMA EnsuredUpToType ==
  ASSUME NEW children, NEW n \in Nat, Len(children) \in Nat, n <= Len(children),
         MaxFaults \in Nat, faults \in 0 .. MaxFaults, EnsuredUpTo(children, n)
  PROVE  faults' \in 0 .. MaxFaults
BY FaultType DEF EnsuredUpTo

(* What is known of the children once they have all been found ready.      *)
AllFound(children, w) == AllReady(children, w) /\ AllFounded(children, w)

(* What the reconcile of x has found when it writes a founded Ready.       *)
FoundReady(x) ==
    IF x = NovaCR
    THEN /\ next = Len(CellOrder) + 1 /\ allFounded
         /\ AllFound(TopServices, view)
    ELSE IF x \in Cells
    THEN AllFound(CellServices[x], Copy(x).want)
    ELSE RolledOut(x, Copy(x).want) /\ template'[x] = Copy(x).want

(* What a reconcile of x writes to CRs: the image it works with to the     *)
(* children, and its status.                                               *)
Written(x) ==
    /\ cr' \in [CRNames -> CR]
    /\ \A y \in CRNames :
          \/ cr'[y].want = cr[y].want
          \/ y \in Children(x) /\ cr'[y].want = Copy(x).want
    /\ \A y \in CRNames : y # x =>
          /\ cr'[y].obs = cr[y].obs
          /\ cr'[y].synced = cr[y].synced
          /\ cr'[y].founded = cr[y].founded
    /\ cr'[x].obs \in {cr[x].obs, Copy(x).want}
    /\ cr'[x].founded => \/ cr[x].founded /\ cr'[x].obs = cr[x].obs
                         \/ FoundReady(x) /\ cr'[x].obs = Copy(x).want

LEMMA PatchWrites ==
  ASSUME TypeOK, NEW x \in CRNames, NEW r, HandedOn(Children(x), Copy(x).want, r),
         NEW b \in BOOLEAN, NEW i \in Image, NEW f \in BOOLEAN,
         cr' \in Patched(r, x, b, i, f), b /\ f => FoundReady(x)
  PROVE  Written(x) /\ cr'[x].synced \in {cr[x].synced, i}
<1>1. r \in [CRNames -> CR] /\ x \notin Children(x)
  BY Families DEF HandedOn
<1>2. Reported(r, x, b /\ f, i, cr')
  BY <1>1, PatchReports
<1>. QED
  BY <1>1, <1>2 DEF Written, Reported, HandedOn

LEMMA HandWrites ==
  ASSUME TypeOK, NEW x \in CRNames, HandedOn(Children(x), Copy(x).want, cr')
  PROVE  Written(x) /\ cr'[x].synced = cr[x].synced
BY Families DEF Written, HandedOn

-----------------------------------------------------------------------------
(* What the handlers write.                                                *)

LEMMA NovaCellWrites ==
  ASSUME TypeOK, NovaEnsureCell
  PROVE  /\ Written(NovaCR) /\ faults' \in 0 .. MaxFaults
         /\ \A s \in Services : s \in Top => cr'[s].want = cr[s].want
<1> DEFINE c == CellOrder[next]
<1>1. /\ c \in Cells /\ c \in CRNames /\ NovaCR \in CRNames
      /\ {c} \in SUBSET CRNames /\ {c} \subseteq Children(NovaCR)
      /\ \A s \in Top : s # c /\ s \in CRNames
      /\ view \in Image /\ view = Copy(NovaCR).want
      /\ faults \in 0 .. MaxFaults /\ MaxFaults \in Nat
  <2>1. c \in Cells
    BY Names DEF NovaEnsureCell, TypeOK
  <2>. QED
    BY <2>1, Owners, Values, UpgradeConstants DEF Children, view, TypeOK
<1>2. CASE SkipCell(c)
  <2>1. cr' = cr /\ faults' = faults
    BY <1>2 DEF NovaEnsureCell
  <2>2. HandedOn(Children(NovaCR), Copy(NovaCR).want, cr')
    BY <2>1, Values DEF HandedOn
  <2>. QED
    BY <1>1, <2>1, <2>2, HandWrites
<1>3. CASE ~SkipCell(c)
  <2>1. PICK n \in {0, 1} : EnsuredUpTo(<<c>>, n) /\ cr' = CRsWith(<<c>>, n, view)
    BY <1>3 DEF NovaEnsureCell
  <2>2. n \in Nat /\ (\A i \in 1 .. n : <<c>>[i] \in {c}) /\ Len(<<c>>) \in Nat /\ n <= Len(<<c>>)
    OBVIOUS
  <2>3. HandedOn({c}, view, cr')
    BY <2>1, <2>2, <1>1, HandOn
  <2>4. HandedOn(Children(NovaCR), Copy(NovaCR).want, cr')
    BY <1>1, <2>3 DEF HandedOn
  <2>5. faults' \in 0 .. MaxFaults
    BY <1>1, <2>1, <2>2, EnsuredUpToType
  <2>6. \A s \in Top : cr'[s].want = cr[s].want
    BY <1>1, <2>3 DEF HandedOn
  <2>. QED
    BY <1>1, <2>4, <2>5, <2>6, HandWrites
<1>. QED
  BY <1>2, <1>3

LEMMA NovaTopWrites ==
  ASSUME TypeOK, NovaEnsureTop
  PROVE  /\ Written(NovaCR) /\ faults' \in 0 .. MaxFaults
         /\ \/ Cell0Gate /\ misled' = (IF cell0.founded THEN misled ELSE view)
            \/ misled' = misled /\ \A y \in CRNames : cr'[y].want = cr[y].want
<1> DEFINE Hand(n) == CRsWith(TopServices, n, view)
           ready(n) == allReady /\ n = Len(TopServices) /\ AllReady(TopServices, view)
           founded == allFounded /\ AllFounded(TopServices, view)
<1>1. /\ Len(TopServices) \in Nat
      /\ faults \in 0 .. MaxFaults /\ MaxFaults \in Nat
      /\ NovaCR \in CRNames /\ Top \in SUBSET CRNames
      /\ view \in Image /\ view = Copy(NovaCR).want /\ 0 \in Image
      /\ next = Len(CellOrder) + 1
  <2>1. next = Len(CellOrder) + 1
    BY Names DEF NovaEnsureTop, TypeOK
  <2>. QED
    <3>1. Len(TopServices) \in Nat /\ Top \in SUBSET CRNames
      BY Owners, Names
    <3>2. /\ NovaCR \in CRNames /\ view \in Image /\ view = Copy(NovaCR).want
      BY Owners, Values DEF view
    <3>3. faults \in 0 .. MaxFaults /\ MaxFaults \in Nat /\ 0 \in Image
      BY UpgradeConstants DEF TypeOK, Image
    <3>. QED
      BY <2>1, <3>1, <3>2, <3>3
<1>2. ASSUME NEW n \in 0 .. Len(TopServices)
      PROVE  HandedOn(Children(NovaCR), Copy(NovaCR).want, Hand(n))
  <2>1. n \in Nat /\ \A i \in 1 .. n : TopServices[i] \in Top
    BY <1>1, Names
  <2>2. HandedOn(Top, view, Hand(n))
    BY <2>1, <1>1, HandOn
  <2>. QED
    BY <1>1, <2>2 DEF HandedOn, Children
<1>3. HandedOn(Children(NovaCR), Copy(NovaCR).want, cr)
  BY Values DEF HandedOn
<1>4. \A n : ready(n) \in BOOLEAN
  OBVIOUS
<1>5. founded \in BOOLEAN
  OBVIOUS
<1>6. \A n : ready(n) /\ founded => FoundReady(NovaCR)
  BY <1>1 DEF FoundReady, AllFound
<1>7. \/ ~Cell0Gate /\ cr' \in Patched(cr, NovaCR, FALSE, 0, FALSE)
         /\ UNCHANGED <<misled, faults>>
      \/ /\ Cell0Gate /\ misled' = (IF cell0.founded THEN misled ELSE view)
         /\ \/ \E n \in 0 .. Len(TopServices) :
                  /\ EnsuredUpTo(TopServices, n)
                  /\ cr' \in Patched(Hand(n), NovaCR, ready(n), 0, founded)
            \/ Fault /\ cr' = Hand(Len(TopServices))
  BY DEF NovaEnsureTop
<1> HIDE DEF Hand, ready, founded
<1>8. CASE ~Cell0Gate /\ cr' \in Patched(cr, NovaCR, FALSE, 0, FALSE) /\ UNCHANGED <<misled, faults>>
  <2>1. Written(NovaCR)
    BY <1>1, <1>3, <1>8, PatchWrites
  <2>2. Reported(cr, NovaCR, FALSE /\ FALSE, 0, cr')
    BY <1>1, <1>8, PatchReports, Values
  <2>. QED
    BY <1>1, <1>8, <2>1, <2>2 DEF Reported
<1>9. CASE /\ Cell0Gate /\ misled' = (IF cell0.founded THEN misled ELSE view)
           /\ \/ \E n \in 0 .. Len(TopServices) :
                    /\ EnsuredUpTo(TopServices, n)
                    /\ cr' \in Patched(Hand(n), NovaCR, ready(n), 0, founded)
              \/ Fault /\ cr' = Hand(Len(TopServices))
  <2>1. ASSUME NEW n \in 0 .. Len(TopServices), EnsuredUpTo(TopServices, n),
               cr' \in Patched(Hand(n), NovaCR, ready(n), 0, founded)
        PROVE  Written(NovaCR) /\ faults' \in 0 .. MaxFaults
    <3>1. Written(NovaCR)
      BY <1>1, <1>2, <1>4, <1>5, <1>6, <2>1, PatchWrites
    <3>2. n \in Nat /\ n <= Len(TopServices)
      BY <1>1
    <3>. QED
      BY <1>1, <2>1, <3>1, <3>2, EnsuredUpToType
  <2>2. ASSUME Fault, cr' = Hand(Len(TopServices))
        PROVE  Written(NovaCR) /\ faults' \in 0 .. MaxFaults
    <3>1. Len(TopServices) \in 0 .. Len(TopServices)
      BY <1>1
    <3>2. HandedOn(Children(NovaCR), Copy(NovaCR).want, cr')
      BY <1>2, <2>2, <3>1
    <3>. QED
      BY <1>1, <2>2, <3>2, HandWrites, FaultType
  <2>. QED
    BY <1>9, <2>1, <2>2
<1>. QED
  BY <1>7, <1>8, <1>9

LEMMA CellWrites ==
  ASSUME TypeOK, NEW c \in Cells, CellReconcile(c)
  PROVE  Written(c) /\ faults' \in 0 .. MaxFaults
<1> DEFINE w == Copy(c).want
           children == CellServices[c]
           Hand(n) == CRsWith(children, n, w)
           ready(n) == n = Len(children) /\ AllReady(children, w)
           founded == AllFounded(children, w)
<1>1. /\ c \in CRNames /\ c # NovaCR /\ w \in Image /\ 0 \in Image
      /\ Len(children) \in Nat
      /\ faults \in 0 .. MaxFaults /\ MaxFaults \in Nat
      /\ ServicesOf(c) \in SUBSET CRNames /\ Children(c) = ServicesOf(c)
      /\ \A i \in 1 .. Len(children) : children[i] \in ServicesOf(c)
  <2>1. c \in CRNames /\ c # NovaCR /\ ServicesOf(c) \in SUBSET CRNames
    BY Owners
  <2>2. w \in Image /\ Children(c) = ServicesOf(c)
    BY <2>1, Values DEF Children
  <2>3. faults \in 0 .. MaxFaults /\ MaxFaults \in Nat /\ 0 \in Image
    BY UpgradeConstants DEF TypeOK, Image
  <2>. QED
    BY <2>1, <2>2, <2>3, Names
<1>2. ASSUME NEW n \in 0 .. Len(children)
      PROVE  HandedOn(Children(c), Copy(c).want, Hand(n))
  <2>1. n \in Nat /\ \A i \in 1 .. n : children[i] \in ServicesOf(c)
    BY <1>1
  <2> HIDE DEF w, children
  <2>2. HandedOn(ServicesOf(c), w, Hand(n))
    BY <2>1, <1>1, HandOn
  <2>. QED
    BY <1>1, <2>2 DEF w
<1>4. \A n : ready(n) \in BOOLEAN
  OBVIOUS
<1>5. founded \in BOOLEAN
  BY DEF AllFounded
<1>6. \A n : ready(n) /\ founded => FoundReady(c)
  BY <1>1 DEF FoundReady, AllFound
<1>7. \/ \E n \in 0 .. Len(children) :
            /\ EnsuredUpTo(children, n)
            /\ cr' \in Patched(Hand(n), c, ready(n), 0, founded)
      \/ Fault /\ cr' = Hand(Len(children))
  BY DEF CellReconcile
<1> HIDE DEF Hand, ready, founded, children
<1>8. ASSUME NEW n \in 0 .. Len(children), EnsuredUpTo(children, n),
             cr' \in Patched(Hand(n), c, ready(n), 0, founded)
      PROVE  Written(c) /\ faults' \in 0 .. MaxFaults
  <2>1. Written(c)
    BY <1>1, <1>2, <1>4, <1>5, <1>6, <1>8, PatchWrites
  <2>2. n \in Nat /\ n <= Len(children)
    BY <1>1
  <2>. QED
    BY <1>1, <1>8, <2>1, <2>2, EnsuredUpToType
<1>9. ASSUME Fault, cr' = Hand(Len(children))
      PROVE  Written(c) /\ faults' \in 0 .. MaxFaults
  <2>1. Len(children) \in 0 .. Len(children)
    BY <1>1
  <2>2. HandedOn(Children(c), Copy(c).want, cr')
    BY <1>2, <1>9, <2>1
  <2>. QED
    BY <1>1, <1>9, <2>2, HandWrites, FaultType
<1>. QED
  BY <1>7, <1>8, <1>9

(* A service controller writes a status of its own CR, or none.            *)
LEMMA StatusWrites ==
  ASSUME TypeOK, NEW s \in Services, NEW b \in BOOLEAN, NEW i \in Image,
         cr' \in Status(s, b, i), b => FoundReady(s)
  PROVE  Written(s) /\ cr'[s].synced \in {cr[s].synced, i}
<1>1. s \in CRNames /\ HandedOn(Children(s), Copy(s).want, cr)
  BY Owners, Values DEF HandedOn
<1>. QED
  BY <1>1, PatchWrites DEF Status

LEMMA NothingWritten ==
  ASSUME TypeOK, NEW x \in CRNames, cr' = cr
  PROVE  Written(x) /\ cr'[x].synced = cr[x].synced
<1>1. HandedOn(Children(x), Copy(x).want, cr')
  BY Values DEF HandedOn
<1>. QED
  BY <1>1, HandWrites

LEMMA SvcErrorWrites ==
  ASSUME TypeOK, NEW s \in Services, SvcError(s)
  PROVE  /\ Written(s) /\ faults' \in 0 .. MaxFaults
         /\ cr'[s].synced \in {cr[s].synced, Copy(s).synced}
         /\ template' = template
<1>1. /\ s \in CRNames /\ Copy(s).synced \in Image
      /\ faults \in 0 .. MaxFaults /\ MaxFaults \in Nat
  BY Owners, Values, UpgradeConstants DEF TypeOK
<1>. QED
  BY <1>1, StatusWrites, FaultType DEF SvcError, podVars

LEMMA SvcRollsWrites ==
  ASSUME TypeOK, NEW s \in Services, SvcRolls(s)
  PROVE  /\ Written(s) /\ faults' \in 0 .. MaxFaults
         /\ template' = [template EXCEPT ![s] = Copy(s).want]
<1> DEFINE w == Copy(s).want
<1>1. /\ s \in CRNames /\ s # NovaCR /\ s \notin Cells /\ w \in Image /\ 0 \in Image
      /\ faults \in 0 .. MaxFaults /\ MaxFaults \in Nat
      /\ RolledOut(s, w) \in BOOLEAN
      /\ template' = [template EXCEPT ![s] = w]
      /\ template'[s] = w
  <2>1. s \in CRNames /\ s # NovaCR /\ s \notin Cells /\ w \in Image
    BY Owners, Values
  <2>2. faults \in 0 .. MaxFaults /\ MaxFaults \in Nat /\ 0 \in Image
    BY UpgradeConstants DEF TypeOK, Image
  <2>3. RolledOut(s, w) \in BOOLEAN
    BY DEF RolledOut
  <2>4. template' = [template EXCEPT ![s] = w]
    BY DEF SvcRolls
  <2>5. template'[s] = w
    BY <2>4, Values
  <2>. QED
    BY <2>1, <2>2, <2>3, <2>4, <2>5
<1>2. RolledOut(s, w) => FoundReady(s)
  BY <1>1 DEF FoundReady
<1>3. \/ cr' \in Status(s, RolledOut(s, w), 0) /\ faults' = faults
      \/ Fault /\ cr' = cr
      \/ Fault /\ cr' \in Status(s, FALSE, 0)
  BY DEF SvcRolls
<1>. QED
  BY <1>1, <1>2, <1>3, StatusWrites, NothingWritten, FaultType

LEMMA ConductorWrites ==
  ASSUME TypeOK, NEW c \in Cells, ConductorReconcile(c)
  PROVE  LET s == Conductor(c)
             w == Copy(s).want
         IN /\ Written(s) /\ faults' \in 0 .. MaxFaults
            /\ job' = [job EXCEPT ![c] = Sync(c).job]
            /\ \/ /\ template' = template /\ purge' = purge
                  /\ cr'[s].synced \in {cr[s].synced, Copy(s).synced}
               \/ /\ Synced(Sync(c).result)
                  /\ template' = template \/ template' = [template EXCEPT ![s] = w]
                  /\ purge' = purge \/ purge' = [purge EXCEPT ![c] = w]
                  /\ cr'[s].synced \in {cr[s].synced, w}
<1> DEFINE s == Conductor(c)
           w == Copy(s).want
<1>1. /\ s \in Services /\ s \in CRNames /\ s # NovaCR /\ s \notin Cells
      /\ w \in Image /\ Copy(s).synced \in Image
      /\ faults \in 0 .. MaxFaults /\ MaxFaults \in Nat
      /\ RolledOut(s, w) \in BOOLEAN
      /\ template \in [Services -> Image]
      /\ job' = [job EXCEPT ![c] = Sync(c).job]
  <2>1. s \in Services /\ s \in CRNames
    BY Names, Owners
  <2>. QED
    BY <2>1, Owners, Values, UpgradeConstants
       DEF TypeOK, RolledOut, ConductorReconcile, ConductorWaits, ConductorRolls
<1>2. CASE ConductorWaits(c)
  <2>1. /\ template' = template /\ purge' = purge
        /\ \/ cr' \in Status(s, FALSE, Copy(s).synced) /\ faults' = faults
           \/ Fault /\ cr' = cr
    BY <1>2 DEF ConductorWaits, podVars
  <2> HIDE DEF s, w
  <2>. QED
    BY <1>1, <2>1, StatusWrites, NothingWritten, FaultType DEF s, w
<1>3. CASE ConductorRolls(c)
  <2>1. /\ Synced(Sync(c).result)
        /\ template' = template \/ template' = [template EXCEPT ![s] = w]
        /\ purge' = purge \/ purge' = [purge EXCEPT ![c] = w]
        /\ \/ Fault /\ cr' \in Status(s, FALSE, w)
           \/ Fault /\ cr' = cr
           \/ /\ template' = [template EXCEPT ![s] = w] /\ faults' = faults
              /\ cr' \in Status(s, RolledOut(s, w), w)
    BY <1>3 DEF ConductorRolls
  <2>2. template' = [template EXCEPT ![s] = w] /\ RolledOut(s, w) => FoundReady(s)
    BY <1>1 DEF FoundReady
  <2> HIDE DEF s, w
  <2>3. Written(s) /\ cr'[s].synced \in {cr[s].synced, w} /\ faults' \in 0 .. MaxFaults
    BY <1>1, <2>1, <2>2, StatusWrites, NothingWritten, FaultType
  <2>. QED
    BY <1>1, <2>1, <2>3 DEF s, w
<1>. QED
  BY <1>2, <1>3 DEF ConductorReconcile

-----------------------------------------------------------------------------
(* The steps of Next, with those of each controller together.              *)

Reconcile(x) ==
    \/ x = NovaCR /\ (NovaEnsureCell \/ NovaEnsureTop)
    \/ x \in Cells /\ CellReconcile(x)
    \/ x \in Services /\ (SvcError(x) \/ SvcRolls(x))
    \/ \E c \in Cells : x = Conductor(c) /\ ConductorReconcile(c)

LEMMA Steps ==
  ASSUME [Next]_vars
  PROVE  \/ Upgrade
         \/ Restart
         \/ \E x \in CRNames : CacheSync(x)
         \/ \E x \in CRNames : Reconcile(x)
         \/ \E c \in Cells : DbSync(c) \/ DbSyncFails(c)
         \/ ApiDbSync
         \/ \E s \in Services : PodStart(s) \/ PodReplace(s)
         \/ UNCHANGED vars
<1>1. \A c \in Cells : Conductor(c) \in CRNames /\ c \in CRNames
  BY Names, Owners
<1>2. NovaCR \in CRNames /\ \A s \in Services : s \in CRNames
  BY Owners
<1>. QED
  BY <1>1, <1>2 DEF Next, Nova, Reconcile

LEMMA ReconcileWrites ==
  ASSUME TypeOK, NEW x \in CRNames, Reconcile(x)
  PROVE  /\ Written(x) /\ faults' \in 0 .. MaxFaults
         /\ UNCHANGED <<seen, schema, apiSchema, pods>>
         /\ \/ base' = [base EXCEPT ![x] = NoCR]
            \/ x = NovaCR /\ base' = [base EXCEPT ![x] = Copy(x)]
         /\ \/ template' = template
            \/ x \in Services /\ template' = [template EXCEPT ![x] = Copy(x).want]
         /\ x # NovaCR => UNCHANGED <<localVars, misled>>
<1> USE DEF dbVars, podVars
<1>1. CASE x = NovaCR /\ NovaEnsureCell
  <2>1. /\ base' = [base EXCEPT ![x] = Copy(x)]
        /\ UNCHANGED <<seen, schema, apiSchema, pods, template>>
    BY <1>1 DEF NovaEnsureCell
  <2>. QED
    BY <1>1, <2>1, NovaCellWrites
<1>2. CASE x = NovaCR /\ NovaEnsureTop
  <2>1. /\ base' = [base EXCEPT ![x] = NoCR]
        /\ UNCHANGED <<seen, schema, apiSchema, pods, template>>
    BY <1>2 DEF NovaEnsureTop, Done
  <2>. QED
    BY <1>2, <2>1, NovaTopWrites
<1>3. CASE x \in Cells /\ CellReconcile(x)
  <2>1. /\ base' = [base EXCEPT ![x] = NoCR] /\ UNCHANGED <<localVars, misled>>
        /\ UNCHANGED <<seen, schema, apiSchema, pods, template>>
    BY <1>3 DEF CellReconcile, Done
  <2>. QED
    BY <1>3, <2>1, CellWrites
<1>4. CASE x \in Services /\ SvcError(x)
  <2>1. /\ base' = [base EXCEPT ![x] = NoCR] /\ UNCHANGED <<localVars, misled>>
        /\ UNCHANGED <<seen, schema, apiSchema, pods>>
    BY <1>4 DEF SvcError, Done
  <2>. QED
    BY <1>4, <2>1, SvcErrorWrites
<1>5. CASE x \in Services /\ SvcRolls(x)
  <2>1. /\ base' = [base EXCEPT ![x] = NoCR] /\ UNCHANGED <<localVars, misled>>
        /\ UNCHANGED <<seen, schema, apiSchema, pods>>
    BY <1>5 DEF SvcRolls, Done
  <2>. QED
    BY <1>5, <2>1, SvcRollsWrites
<1>6. ASSUME NEW c \in Cells, x = Conductor(c), ConductorReconcile(c)
      PROVE  /\ Written(x) /\ faults' \in 0 .. MaxFaults
             /\ UNCHANGED <<seen, schema, apiSchema, pods>>
             /\ base' = [base EXCEPT ![x] = NoCR]
             /\ \/ template' = template
                \/ x \in Services /\ template' = [template EXCEPT ![x] = Copy(x).want]
             /\ UNCHANGED <<localVars, misled>>
  <2>1. /\ base' = [base EXCEPT ![x] = NoCR] /\ UNCHANGED <<localVars, misled>>
        /\ UNCHANGED <<seen, schema, apiSchema, pods>>
    BY <1>6 DEF ConductorReconcile, ConductorWaits, ConductorRolls, Done
  <2>. QED
    BY <1>6, <2>1, ConductorWrites, Names
<1>. QED
  BY <1>1, <1>2, <1>3, <1>4, <1>5, <1>6 DEF Reconcile

(* The steps of pods and jobs leave the controllers alone.                 *)
Outside ==
    \/ \E c \in Cells : DbSync(c) \/ DbSyncFails(c)
    \/ ApiDbSync
    \/ \E s \in Services : PodStart(s) \/ PodReplace(s)
    \/ UNCHANGED vars

LEMMA OutsideKeeps == Outside => UNCHANGED <<crVars, localVars, misled, template, purge>>
BY DEF Outside, DbSync, DbSyncFails, ApiDbSync, PodStart, PodReplace, podVars, vars

(* What a cache, or a reconcile, holds next.                               *)
LEMMA CacheStep ==
  ASSUME TypeOK, [Next]_vars, NEW x \in CRNames
  PROVE  /\ seen'[x] \in {seen[x], cr[x]}
         /\ base'[x] \in {base[x], seen[x], NoCR}
         /\ seen' \in [CRNames -> CR] /\ base' \in [CRNames -> CR]
<1> USE DEF crVars
<1>0. NoCR \in CR /\ \A y \in CRNames : Copy(y) \in CR
  BY Values, UpgradeConstants DEF NoCR, CR, Image
<1>1. CASE Upgrade \/ Outside
  <2>1. UNCHANGED <<seen, base>>
    BY <1>1, OutsideKeeps DEF Upgrade
  <2>. QED
    BY <2>1, Values
<1>2. CASE Restart
  <2>1. cr' = cr /\ seen' = seen /\ base' = [y \in CRNames |-> NoCR]
    BY <1>2 DEF Restart
  <2>. QED
    BY <2>1, <1>0, Values
<1>3. ASSUME NEW y \in CRNames, CacheSync(y) PROVE
         /\ seen'[x] \in {seen[x], cr[x]}
         /\ base'[x] \in {base[x], seen[x], NoCR}
         /\ seen' \in [CRNames -> CR] /\ base' \in [CRNames -> CR]
  <2>1. /\ cr' = cr /\ seen' = [seen EXCEPT ![y] = cr[y]]
        /\ \/ base' = base
           \/ base[y] = NoCR /\ seen[y] # NoCR /\ base' = [base EXCEPT ![y] = seen[y]]
    BY <1>3 DEF CacheSync
  <2>. QED
    BY <2>1, <1>0, Values
<1>4. ASSUME NEW y \in CRNames, Reconcile(y) PROVE
         /\ seen' = seen
         /\ base'[x] \in {base[x], seen[x], NoCR}
         /\ base' \in [CRNames -> CR]
  <2>1. /\ seen' = seen
        /\ \/ base' = [base EXCEPT ![y] = NoCR]
           \/ base' = [base EXCEPT ![y] = Copy(y)]
    BY <1>4, ReconcileWrites
  <2>. QED
    BY <2>1, <1>0, Values
<1>. QED
  BY <1>1, <1>2, <1>3, <1>4, Values, Steps DEF Outside

LEMMA TypeInit == Init => TypeOK
<1> SUFFICES ASSUME Init PROVE TypeOK
  OBVIOUS
<1>1. 0 \in Image /\ 1 \in Image /\ NoCR \in CR
  BY UpgradeConstants DEF NoCR, CR, Image
<1>2. cr \in [CRNames -> CR] /\ seen \in [CRNames -> CR] /\ base \in [CRNames -> CR]
  <2>1. [NoCR EXCEPT !.want = 1] \in CR
    BY <1>1 DEF CR
  <2>. QED
    BY <1>1, <2>1 DEF Init
<1>3. job \in [Cells -> [state : {"none", "running", "done", "failed"}, image : Image]]
  BY <1>1 DEF Init, NoJob
<1>4. /\ schema \in [Cells -> Image] /\ apiSchema \in Image /\ misled \in Image
      /\ template \in [Services -> Image] /\ purge \in [Cells -> Image]
      /\ pods \in [Services -> SUBSET (1 .. MaxImage)]
  BY <1>1 DEF Init
<1>5. /\ next \in 1 .. Len(CellOrder) + 1 /\ next = 1
      /\ cell0 \in CR /\ allReady \in BOOLEAN /\ allFounded \in BOOLEAN
      /\ faults \in 0 .. MaxFaults
  <2>1. 1 \in 1 .. Len(CellOrder) + 1
    BY Names
  <2>2. 0 \in 0 .. MaxFaults
    BY UpgradeConstants
  <2>. QED
    BY <1>1, <2>1, <2>2 DEF Init
<1>. QED
  BY <1>2, <1>3, <1>4, <1>5 DEF TypeOK

(* The local variables of a Nova reconcile.                                *)
LEMMA LocalTypes ==
  ASSUME TypeOK, view # 0, [Next]_vars
  PROVE  /\ next' \in 1 .. Len(CellOrder) + 1
         /\ cell0' \in CR /\ allReady' \in BOOLEAN /\ allFounded' \in BOOLEAN
         /\ misled' \in Image
         /\ next' > 1 => base'[NovaCR] # NoCR
<1>0. /\ next \in 1 .. Len(CellOrder) + 1 /\ Len(CellOrder) \in Nat \ {0}
      /\ cell0 \in CR /\ allReady \in BOOLEAN /\ allFounded \in BOOLEAN
      /\ misled \in Image
      /\ next > 1 => base[NovaCR] # NoCR
      /\ NoCR \in CR /\ view \in Image /\ NovaCR \in CRNames
      /\ Copy(NovaCR) # NoCR
  <2>1. NoCR \in CR
    BY UpgradeConstants DEF NoCR, CR, Image
  <2>2. Copy(NovaCR) # NoCR
    BY DEF view, NoCR
  <2>. QED
    BY <2>1, <2>2, Values, Names, Owners DEF TypeOK
<1>r. Return => /\ next' \in 1 .. Len(CellOrder) + 1 /\ next' = 1
                /\ cell0' \in CR /\ allReady' \in BOOLEAN /\ allFounded' \in BOOLEAN
  <2>1. 1 \in 1 .. Len(CellOrder) + 1
    BY <1>0
  <2>. QED
    BY <1>0, <2>1 DEF Return
<1>1. CASE NovaEnsureCell
  <2> DEFINE c == CellOrder[next]
  <2>1. /\ next' \in 1 .. Len(CellOrder) + 1
        /\ base'[NovaCR] = Copy(NovaCR) /\ misled' = misled /\ c \in CRNames
    BY <1>0, <1>1, Names, Values DEF NovaEnsureCell, CRNames
  <2>2. cell0' \in CR /\ allReady' \in BOOLEAN /\ allFounded' \in BOOLEAN
    <3>1. CASE SkipCell(c)
      BY <1>0, <1>1, <3>1 DEF NovaEnsureCell
    <3>2. CASE ~SkipCell(c)
      <4>1. ReturnedCR(c, view) \in CR
        BY <1>0, <2>1, EnsureType
      <4>2. /\ cell0' = cell0 \/ cell0' = ReturnedCR(c, view)
            /\ \E b \in BOOLEAN : allReady' = b
            /\ \E b \in BOOLEAN : allFounded' = b
        BY <1>1, <3>2 DEF NovaEnsureCell
      <4>. QED
        BY <1>0, <4>1, <4>2
    <3>. QED
      BY <3>1, <3>2
  <2>. QED
    BY <1>0, <2>1, <2>2
<1>2. CASE NovaEnsureTop
  <2>1. Return /\ misled' \in {misled, view}
    BY <1>2 DEF NovaEnsureTop
  <2>. QED
    BY <1>0, <1>r, <2>1
<1>3. CASE Restart
  BY <1>0, <1>r, <1>3 DEF Restart
<1>4. CASE UNCHANGED <<localVars, misled>> /\ (next > 1 => base'[NovaCR] = base[NovaCR])
  BY <1>0, <1>4 DEF localVars
<1>5. Upgrade \/ Outside => UNCHANGED <<localVars, misled, base>>
  BY OutsideKeeps DEF Upgrade, crVars
<1>6. ASSUME NEW y \in CRNames, CacheSync(y)
      PROVE  UNCHANGED <<localVars, misled>> /\ (next > 1 => base'[NovaCR] = base[NovaCR])
  BY <1>0, <1>6, Values DEF CacheSync
<1>7. ASSUME NEW y \in CRNames, Reconcile(y), y # NovaCR
      PROVE  UNCHANGED <<localVars, misled>> /\ base'[NovaCR] = base[NovaCR]
  BY <1>0, <1>7, Values, ReconcileWrites
<1>8. Reconcile(NovaCR) => NovaEnsureCell \/ NovaEnsureTop
  <2>1. \A c \in Cells : Conductor(c) # NovaCR
    BY Names, Owners
  <2>. QED
    BY <2>1, Names DEF Reconcile
<1>. QED
  BY <1>1, <1>2, <1>3, <1>4, <1>5, <1>6, <1>7, <1>8, Steps DEF Outside

LEMMA TypeStep ==
  ASSUME TypeOK, view # 0, [Next]_vars
  PROVE  TypeOK'
<1> USE DEF dbVars, podVars
<1>0. /\ MaxFaults \in Nat /\ NovaCR \in CRNames
      /\ faults \in 0 .. MaxFaults
      /\ Cell0 \in Cells
      /\ job \in [Cells -> [state : {"none", "running", "done", "failed"}, image : Image]]
      /\ schema \in [Cells -> Image] /\ apiSchema \in Image
      /\ template \in [Services -> Image] /\ purge \in [Cells -> Image]
      /\ pods \in [Services -> SUBSET (1 .. MaxImage)]
  BY UpgradeConstants, Owners, Names DEF TypeOK
<1> DEFINE World == /\ faults' \in 0 .. MaxFaults
                    /\ job' \in [Cells -> [state : {"none", "running", "done", "failed"},
                                           image : Image]]
                    /\ schema' \in [Cells -> Image] /\ apiSchema' \in Image
                    /\ template' \in [Services -> Image] /\ purge' \in [Cells -> Image]
                    /\ pods' \in [Services -> SUBSET (1 .. MaxImage)]
<1>s. /\ seen' \in [CRNames -> CR] /\ base' \in [CRNames -> CR]
  BY <1>0, CacheStep
<1>l. /\ next' \in 1 .. Len(CellOrder) + 1
      /\ cell0' \in CR /\ allReady' \in BOOLEAN /\ allFounded' \in BOOLEAN
      /\ misled' \in Image
      /\ next' > 1 => base'[NovaCR] # NoCR
  BY LocalTypes
<1> SUFFICES cr' \in [CRNames -> CR] /\ World
  BY <1>s, <1>l DEF TypeOK
<1>1. CASE Upgrade
  <2>1. image + 1 \in Image
    <3>1. image \in Nat /\ image < MaxImage /\ MaxImage \in Nat
      BY <1>1, <1>0, Values, UpgradeConstants DEF Upgrade, image
    <3>. QED
      BY <3>1 DEF Image
  <2>2. [cr[NovaCR] EXCEPT !.want = image + 1] \in CR
    BY <2>1, <1>0, Values DEF CR
  <2>3. cr' = [cr EXCEPT ![NovaCR] = [cr[NovaCR] EXCEPT !.want = image + 1]]
    BY <1>1 DEF Upgrade, image
  <2>. QED
    BY <1>0, <1>1, <2>2, <2>3, Values DEF Upgrade
<1>2. CASE Restart
  BY <1>0, <1>2, FaultType, Values DEF Restart
<1>3. ASSUME NEW y \in CRNames, CacheSync(y) PROVE cr' \in [CRNames -> CR] /\ World
  BY <1>0, <1>3, FaultType, Values DEF CacheSync
<1>4. ASSUME NEW y \in CRNames, Reconcile(y) PROVE cr' \in [CRNames -> CR] /\ World
  <2>1. /\ cr' \in [CRNames -> CR] /\ faults' \in 0 .. MaxFaults
        /\ UNCHANGED <<schema, apiSchema, pods>>
        /\ \/ template' = template
           \/ template' = [template EXCEPT ![y] = Copy(y).want]
    BY <1>4, ReconcileWrites DEF Written
  <2>2. Copy(y).want \in Image
    BY Values
  <2>3. /\ job' \in [Cells -> [state : {"none", "running", "done", "failed"}, image : Image]]
        /\ purge' \in [Cells -> Image]
    <3>1. \/ UNCHANGED <<job, purge>>
          \/ \E c \in Cells : y = Conductor(c) /\ ConductorReconcile(c)
      BY <1>4 DEF Reconcile, NovaEnsureCell, NovaEnsureTop, CellReconcile, SvcError, SvcRolls
    <3>2. ASSUME NEW c \in Cells, y = Conductor(c), ConductorReconcile(c)
          PROVE  /\ job' = [job EXCEPT ![c] = Sync(c).job]
                 /\ purge' = purge \/ purge' = [purge EXCEPT ![c] = Copy(y).want]
      BY <3>2, ConductorWrites
    <3>. QED
      BY <3>1, <3>2, <2>2, <1>0, SyncType
  <2>. QED
    BY <1>0, <2>1, <2>2, <2>3
<1>5. ASSUME NEW c \in Cells, DbSync(c) PROVE cr' \in [CRNames -> CR] /\ World
  BY <1>0, <1>5, Values DEF DbSync, crVars
<1>6. ASSUME NEW c \in Cells, DbSyncFails(c) PROVE cr' \in [CRNames -> CR] /\ World
  BY <1>0, <1>6, FaultType, Values DEF DbSyncFails, crVars
<1>7. CASE ApiDbSync
  BY <1>0, <1>7, Values DEF ApiDbSync, crVars
<1>8. ASSUME NEW s \in Services, PodStart(s) \/ PodReplace(s)
      PROVE  cr' \in [CRNames -> CR] /\ World
  <2>1. template[s] # 0 => template[s] \in 1 .. MaxImage
    BY <1>0, UpgradeConstants DEF Image
  <2>2. pods' \in [Services -> SUBSET (1 .. MaxImage)]
    BY <1>0, <1>8, <2>1 DEF PodStart, PodReplace
  <2>. QED
    BY <1>0, <1>8, <2>2, Values DEF PodStart, PodReplace, crVars
<1>9. CASE UNCHANGED vars
  BY <1>0, <1>9, Values DEF vars, crVars
<1>. QED
  BY <1>1, <1>2, <1>3, <1>4, <1>5, <1>6, <1>7, <1>8, <1>9, Steps

-----------------------------------------------------------------------------
(* Images grow.                                                            *)

CacheBehind == \A x \in CRNames : /\ Copy(x).want <= seen[x].want /\ seen[x].want <= cr[x].want
                                  /\ cr[x].obs <= cr[x].want
ChildrenBehind == \A x \in CRNames : \A y \in Children(x) : cr[y].want <= Copy(x).want
PodsBehind == \A s \in Services : /\ template[s] <= Copy(s).want
                                  /\ \A p \in pods[s] : p <= template[s]

LEMMA GrowParts ==
    /\ ImagesGrow <=> view # 0 /\ CacheBehind /\ ChildrenBehind /\ PodsBehind
    /\ ImagesGrow' <=> view' # 0 /\ CacheBehind' /\ ChildrenBehind' /\ PodsBehind'
<1>1. ChildrenBehind <=> /\ \A x \in Cells \cup Top : cr[x].want <= view
                         /\ \A c \in Cells : \A s \in ServicesOf(c) : cr[s].want <= Copy(c).want
  BY Owners DEF ChildrenBehind, Children, CRNames, view
<1>2. ChildrenBehind' <=> /\ \A x \in Cells \cup Top : cr'[x].want <= view'
                          /\ \A c \in Cells : \A s \in ServicesOf(c) : cr'[s].want <= Copy(c)'.want
  BY Owners DEF ChildrenBehind, Children, CRNames, view
<1>. QED
  BY <1>1, <1>2 DEF ImagesGrow, CacheBehind, PodsBehind, Top, ServicesOf

(* The copies that reconciles work with only get newer.                    *)
LEMMA CopyStep ==
  ASSUME TypeOK, [Next]_vars, NEW x \in CRNames
  PROVE  Copy(x)' \in {Copy(x), seen[x], seen'[x]}
<1>1. base'[x] \in {base[x], seen[x], NoCR}
  BY CacheStep
<1>2. Copy(x)' = IF base'[x] # NoCR THEN base'[x] ELSE seen'[x]
  BY DEF Copy
<1>. QED
  BY <1>1, <1>2, Values

LEMMA CopyGrows ==
  ASSUME TypeOK, ImagesGrow, [Next]_vars, NEW x \in CRNames
  PROVE  /\ Copy(x).want <= Copy(x)'.want
         /\ Copy(x)'.want <= seen'[x].want
         /\ seen'[x].want <= cr[x].want
         /\ Copy(x)'.want \in Nat /\ seen'[x].want \in Nat
<1>1. /\ Copy(x).want <= seen[x].want /\ seen[x].want <= cr[x].want
      /\ Copy(x).want \in Nat /\ seen[x].want \in Nat /\ cr[x].want \in Nat
  BY GrowParts, Values DEF CacheBehind
<1>2. seen'[x] \in {seen[x], cr[x]}
  BY CacheStep
<1>3. Copy(x)' \in {Copy(x), seen[x], seen'[x]}
  BY CopyStep
<1>. QED
  BY <1>1, <1>2, <1>3

(* Every image handed on is the one a reconcile works with.                *)
LEMMA WrittenGrows ==
  ASSUME TypeOK, ImagesGrow, NEW x \in CRNames, Reconcile(x), NEW y \in CRNames
  PROVE  /\ cr[y].want <= cr'[y].want /\ cr'[y].want \in Nat
         /\ cr'[y].obs <= cr'[y].want
         /\ \A z \in CRNames : y \in Children(z) => cr'[y].want <= Copy(z).want
<1>0. /\ cr[y].want \in Nat /\ Copy(y).want \in Nat /\ Copy(x).want \in Nat /\ cr[y].obs \in Nat
      /\ Copy(y).want <= cr[y].want /\ cr[y].obs <= cr[y].want
      /\ \A z \in CRNames : y \in Children(z) => /\ cr[y].want <= Copy(z).want
                                                 /\ y \in Children(x) => x = z
  <2>1. /\ cr[y].want \in Nat /\ Copy(y).want \in Nat /\ Copy(x).want \in Nat /\ cr[y].obs \in Nat
        /\ seen[y].want \in Nat
    BY Values
  <2>2. /\ Copy(y).want <= seen[y].want /\ seen[y].want <= cr[y].want /\ cr[y].obs <= cr[y].want
    BY GrowParts DEF CacheBehind
  <2>3. \A z \in CRNames : y \in Children(z) => /\ cr[y].want <= Copy(z).want
                                                /\ y \in Children(x) => x = z
    BY GrowParts, Families DEF ChildrenBehind
  <2>. QED
    BY <2>1, <2>2, <2>3
<1>1. /\ cr'[y].want = cr[y].want \/ (y \in Children(x) /\ cr'[y].want = Copy(x).want)
      /\ cr'[y].obs = cr[y].obs \/ (y = x /\ cr'[y].obs = Copy(x).want)
  BY ReconcileWrites DEF Written
<1>. QED
  BY <1>0, <1>1

LEMMA GrowStep ==
  ASSUME TypeOK, ImagesGrow, [Next]_vars
  PROVE  ImagesGrow'
<1>0. view # 0 /\ CacheBehind /\ ChildrenBehind /\ PodsBehind
  BY GrowParts
<1>c. /\ \A x \in CRNames : /\ Copy(x).want <= Copy(x)'.want
                            /\ Copy(x)'.want <= seen'[x].want
                            /\ seen'[x].want <= cr[x].want
                            /\ Copy(x)'.want \in Nat /\ seen'[x].want \in Nat
      /\ NovaCR \in CRNames
  BY CopyGrows, Owners
<1>1. view' # 0
  BY <1>0, <1>c, Values DEF view
<1>2. ASSUME NEW y \in CRNames
      PROVE  /\ cr[y].want <= cr'[y].want /\ cr'[y].want \in Nat
             /\ cr'[y].obs <= cr'[y].want
             /\ \A z \in CRNames : y \in Children(z) => cr'[y].want <= Copy(z).want
  <2>0. /\ cr[y].want \in Nat /\ cr[y].obs \in Nat /\ cr[y].obs <= cr[y].want
        /\ \A z \in CRNames : y \in Children(z) => cr[y].want <= Copy(z).want /\ y # NovaCR
    BY <1>0, Values, Families DEF CacheBehind, ChildrenBehind
  <2>1. CASE cr' = cr
    BY <2>0, <2>1
  <2>2. CASE Upgrade
    <3>1. cr'[y] = IF y = NovaCR THEN [cr[y] EXCEPT !.want = @ + 1] ELSE cr[y]
      BY <2>2, Values DEF Upgrade
    <3>2. cr'[y].obs = cr[y].obs /\ cr'[y].want \in {cr[y].want, cr[y].want + 1}
          /\ (y # NovaCR => cr'[y].want = cr[y].want)
      BY <3>1, Values DEF CR
    <3>. QED
      BY <2>0, <3>2
  <2>3. ASSUME NEW x \in CRNames, Reconcile(x)
        PROVE  /\ cr[y].want <= cr'[y].want /\ cr'[y].want \in Nat
               /\ cr'[y].obs <= cr'[y].want
               /\ \A z \in CRNames : y \in Children(z) => cr'[y].want <= Copy(z).want
    BY <2>3, WrittenGrows
  <2>4. Restart \/ Outside \/ (\E x \in CRNames : CacheSync(x)) => cr' = cr
    BY OutsideKeeps DEF Restart, CacheSync, crVars
  <2>. QED
    BY <2>1, <2>2, <2>3, <2>4, Steps DEF Outside
<1>3. CacheBehind'
  BY <1>2, <1>c, Values DEF CacheBehind
<1>4. ChildrenBehind'
  <2>1. ASSUME NEW x \in CRNames, NEW y \in Children(x)
        PROVE  cr'[y].want <= Copy(x)'.want
    <3>1. y \in CRNames
      BY Families
    <3>. QED
      BY <1>2, <1>c, <3>1, Values
  <2>. QED
    BY <2>1 DEF ChildrenBehind, Children
<1>5. PodsBehind'
  <2>1. ASSUME NEW s \in Services
        PROVE  /\ template[s] <= template'[s] /\ template'[s] \in {template[s], Copy(s).want}
               /\ \A p \in pods'[s] : p \in pods[s] \/ p = template[s]
               /\ s \in CRNames
    <3>1. CASE UNCHANGED <<template, pods>>
      BY <3>1, Values, Owners
    <3>2. ASSUME NEW x \in CRNames, Reconcile(x)
          PROVE  /\ template[s] <= template'[s] /\ template'[s] \in {template[s], Copy(s).want}
                 /\ pods' = pods
      <4>1. pods' = pods /\ \/ template' = template
                            \/ x \in Services /\ template' = [template EXCEPT ![x] = Copy(x).want]
        BY <3>2, ReconcileWrites
      <4>. QED
        BY <4>1, <1>0, Values DEF PodsBehind
    <3>3. ASSUME NEW t \in Services, PodStart(t) \/ PodReplace(t)
          PROVE  /\ template' = template
                 /\ \A p \in pods'[s] : p \in pods[s] \/ p = template[s]
      BY <3>3, Values DEF PodStart, PodReplace
    <3>4. /\ Upgrade \/ Restart \/ (\E x \in CRNames : CacheSync(x)) => UNCHANGED <<template, pods>>
          /\ ApiDbSync \/ UNCHANGED vars => UNCHANGED <<template, pods>>
          /\ (\E c \in Cells : DbSync(c) \/ DbSyncFails(c)) => UNCHANGED <<template, pods>>
      BY DEF Upgrade, Restart, CacheSync, ApiDbSync, DbSync, DbSyncFails, vars, podVars
    <3>. QED
      BY <3>1, <3>2, <3>3, <3>4, Steps, Values, Owners
  <2>2. ASSUME NEW s \in Services
        PROVE  template'[s] <= Copy(s)'.want /\ \A p \in pods'[s] : p <= template'[s]
    <3>1. /\ template[s] \in Nat /\ pods[s] \subseteq Nat /\ s \in CRNames
          /\ Copy(s).want \in Nat
          /\ template[s] <= Copy(s).want /\ \A p \in pods[s] : p <= template[s]
      BY <1>0, Values, Owners DEF PodsBehind
    <3>. QED
      BY <2>1, <3>1, <1>c
  <2>. QED
    BY <2>2 DEF PodsBehind
<1>. QED
  BY <1>1, <1>3, <1>4, <1>5, GrowParts

(* Rollouts never go back.                                                 *)
LEMMA RolloutsKept ==
  ASSUME TypeOK, ImagesGrow, [Next]_vars, NEW s \in Services, NEW v \in Nat, AtLeast(s, v)
  PROVE  AtLeast(s, v)'
<1>0. /\ template[s] \in Nat /\ pods[s] \subseteq Nat /\ Copy(s).want \in Nat
      /\ template[s] <= Copy(s).want /\ s \in CRNames
  BY Values, Owners, GrowParts DEF PodsBehind
<1>1. CASE UNCHANGED <<template, pods>>
  BY <1>1 DEF AtLeast
<1>2. ASSUME NEW x \in CRNames, Reconcile(x) PROVE AtLeast(s, v)'
  <2>1. pods' = pods /\ (template' = template \/ template' = [template EXCEPT ![x] = Copy(x).want])
    BY <1>2, ReconcileWrites
  <2>2. template'[s] \in {template[s], Copy(s).want}
    BY <2>1, Values
  <2>3. v <= template'[s]
    BY <2>2, <1>0 DEF AtLeast
  <2>. QED
    BY <2>1, <2>3 DEF AtLeast
<1>3. ASSUME NEW t \in Services, PodStart(t) PROVE AtLeast(s, v)'
  BY <1>3, <1>0, Values DEF PodStart, AtLeast
<1>4. ASSUME NEW t \in Services, PodReplace(t) PROVE AtLeast(s, v)'
  BY <1>4, <1>0, Values DEF PodReplace, AtLeast
<1>5. /\ Upgrade \/ Restart \/ (\E x \in CRNames : CacheSync(x)) => UNCHANGED <<template, pods>>
      /\ ApiDbSync \/ UNCHANGED vars => UNCHANGED <<template, pods>>
      /\ (\E c \in Cells : DbSync(c) \/ DbSyncFails(c)) => UNCHANGED <<template, pods>>
  BY DEF Upgrade, Restart, CacheSync, ApiDbSync, DbSync, DbSyncFails, vars, podVars
<1>. QED
  BY <1>1, <1>2, <1>3, <1>4, <1>5, Steps

-----------------------------------------------------------------------------
(* Syncs are recorded when they are done.                                  *)

SyncRecorded(c) ==
    LET s == Conductor(c)
    IN /\ schema[c] <= job[c].image /\ job[c].image <= Copy(s).want
       /\ c = Cell0 => apiSchema <= job[c].image
       /\ job[c].state = "done" => SchemaKnown(c, job[c].image)
       /\ SchemaKnown(c, cr[s].synced) /\ SchemaKnown(c, seen[s].synced)
       /\ SchemaKnown(c, base[s].synced)
       /\ SchemaKnown(c, template[s]) /\ SchemaKnown(c, purge[c])

LEMMA SyncParts ==
    /\ SyncsRecorded <=> \A c \in Cells : SyncRecorded(c)
    /\ SyncsRecorded' <=> \A c \in Cells : SyncRecorded(c)'
BY DEF SyncsRecorded, SyncRecorded

LEMMA SyncNumbers ==
  ASSUME TypeOK, NEW c \in Cells
  PROVE  /\ schema[c] \in Nat /\ job[c].image \in Nat /\ apiSchema \in Nat
         /\ Copy(Conductor(c)).synced \in Nat /\ Copy(Conductor(c)).want \in Nat
         /\ template[Conductor(c)] \in Nat /\ purge[c] \in Nat
         /\ Conductor(c) \in Services /\ Conductor(c) \in CRNames /\ Cell0 \in Cells
<1>1. Conductor(c) \in Services /\ Conductor(c) \in CRNames /\ Cell0 \in Cells
  BY Names, Owners
<1>2. schema[c] \in Nat /\ job[c].image \in Nat /\ apiSchema \in Nat /\ purge[c] \in Nat
  BY DEF TypeOK, Image
<1>3. Copy(Conductor(c)).synced \in Nat
  BY <1>1, Values DEF Image
<1>. QED
  BY <1>1, <1>2, <1>3, Values

(* No two cells share a conductor.                                         *)
LEMMA OneConductor ==
  \A c, d \in Cells : Conductor(c) = Conductor(d) => c = d
BY Names, Owners

(* A cell stays in order if its records and its rollout are of what is     *)
(* migrated, and its job of an image no newer than the conductor has.      *)
LEMMA SyncFollows ==
  ASSUME TypeOK, ImagesGrow, [Next]_vars, NEW c \in Cells, SyncRecorded(c),
         UNCHANGED <<schema, apiSchema>>,
         \/ job'[c] = job[c]
         \/ job'[c] = [state |-> "running", image |-> Copy(Conductor(c)).want]
         \/ job'[c] = [job[c] EXCEPT !.state = "failed"],
         SchemaKnown(c, cr'[Conductor(c)].synced),
         SchemaKnown(c, template'[Conductor(c)]), SchemaKnown(c, purge'[c])
  PROVE  SyncRecorded(c)'
<1> DEFINE s == Conductor(c)
<1>1. /\ s \in CRNames /\ Copy(s).want \in Nat /\ job[c].image \in Nat
      /\ schema[c] \in Nat /\ apiSchema \in Nat
      /\ job[c] \in [state : {"none", "running", "done", "failed"}, image : Image]
  BY SyncNumbers DEF TypeOK
<1>2. Copy(s).want <= Copy(s)'.want /\ Copy(s)'.want \in Nat
  BY <1>1, CopyGrows
<1>3. /\ schema[c] <= job[c].image /\ job[c].image <= Copy(s).want
      /\ c = Cell0 => apiSchema <= job[c].image
  BY DEF SyncRecorded
<1>d. job[c].state = "done" => SchemaKnown(c, job[c].image)
  BY DEF SyncRecorded
<1>4. /\ SchemaKnown(c, seen'[s].synced) /\ SchemaKnown(c, base'[s].synced)
  <2>1. seen'[s] \in {seen[s], cr[s]} /\ base'[s] \in {base[s], seen[s], NoCR}
    BY <1>1, CacheStep
  <2>2. SchemaKnown(c, 0)
    BY <1>1 DEF SchemaKnown
  <2>. QED
    BY <2>1, <2>2 DEF SyncRecorded, NoCR
<1>5. job'[c].image \in {job[c].image, Copy(s).want}
      /\ (job'[c].state = "done" => job'[c] = job[c])
  BY <1>1
<1> HIDE DEF s
<1>6. /\ schema[c] <= job'[c].image /\ job'[c].image <= Copy(s)'.want
      /\ c = Cell0 => apiSchema <= job'[c].image
  BY <1>1, <1>2, <1>3, <1>5
<1>7. job'[c].state = "done" => SchemaKnown(c, job'[c].image)
  BY <1>d, <1>5
<1>. QED
  BY <1>4, <1>6, <1>7 DEF SyncRecorded, SchemaKnown, s

(* What a conductor's own steps write is what it has seen migrated.        *)
LEMMA ConductorStep ==
  ASSUME TypeOK, ImagesGrow, NEW c \in Cells, SyncRecorded(c), ConductorReconcile(c),
         [Next]_vars
  PROVE  SyncRecorded(c)'
<1> DEFINE s == Conductor(c)
           w == Copy(s).want
<1>1. /\ UNCHANGED <<schema, apiSchema>>
      /\ s \in CRNames /\ s \in Services
      /\ job[c] \in [state : {"none", "running", "done", "failed"}, image : Image]
  <2>1. Reconcile(s)
    BY DEF Reconcile
  <2>. QED
    BY <2>1, SyncNumbers, ReconcileWrites DEF TypeOK
<1>2. /\ SchemaKnown(c, cr[s].synced) /\ SchemaKnown(c, Copy(s).synced)
      /\ SchemaKnown(c, template[s]) /\ SchemaKnown(c, purge[c])
      /\ job[c].state = "done" => SchemaKnown(c, job[c].image)
  BY <1>1, Values DEF SyncRecorded
<1>3. job'[c] = job[c] \/ job'[c] = [state |-> "running", image |-> w]
  BY ConductorWrites DEF TypeOK, Sync, DoJob
<1>4. Synced(Sync(c).result) => SchemaKnown(c, w)
  <2>1. w = Copy(s).synced \/ ~Synced(Sync(c).result)
        \/ (job[c].image = w /\ job[c].state = "done") \/ job[c].state = "unchanged"
    BY DEF Sync, DoJob, Synced
  <2>. QED
    BY <1>1, <1>2, <2>1
<1>5. /\ SchemaKnown(c, cr'[s].synced)
      /\ SchemaKnown(c, template'[s]) /\ SchemaKnown(c, purge'[c])
  <2>1. \/ /\ template' = template /\ purge' = purge
           /\ cr'[s].synced \in {cr[s].synced, Copy(s).synced}
        \/ /\ SchemaKnown(c, w)
           /\ template' = template \/ template' = [template EXCEPT ![s] = w]
           /\ purge' = purge \/ purge' = [purge EXCEPT ![c] = w]
           /\ cr'[s].synced \in {cr[s].synced, w}
    BY <1>4, ConductorWrites
  <2>2. template \in [Services -> Image] /\ purge \in [Cells -> Image]
    BY DEF TypeOK
  <2> HIDE DEF s, w
  <2>. QED
    BY <1>1, <1>2, <2>1, <2>2
<1>. QED
  BY <1>1, <1>3, <1>5, SyncFollows

LEMMA SyncStep ==
  ASSUME TypeOK, ImagesGrow, SyncsRecorded, [Next]_vars
  PROVE  SyncsRecorded'
<1> SUFFICES ASSUME NEW c \in Cells PROVE SyncRecorded(c)'
  BY SyncParts
<1> DEFINE s == Conductor(c)
<1>0. /\ SyncRecorded(c) /\ s \in Services /\ s \in CRNames /\ s \in Conductors
      /\ s # NovaCR /\ s \notin Cells
      /\ SchemaKnown(c, cr[s].synced) /\ SchemaKnown(c, Copy(s).synced)
      /\ SchemaKnown(c, template[s]) /\ SchemaKnown(c, purge[c])
  <2>1. SyncRecorded(c) /\ s \in Services /\ s \in CRNames /\ s \in Conductors
    BY SyncParts, SyncNumbers, Names
  <2>. QED
    BY <2>1, Owners, Values DEF SyncRecorded
<1>1. CASE /\ UNCHANGED <<schema, apiSchema>> /\ job'[c] = job[c]
           /\ cr'[s].synced \in {cr[s].synced, Copy(s).synced}
           /\ template'[s] = template[s] /\ purge'[c] = purge[c]
  BY <1>0, <1>1, SyncFollows
<1>2. CASE Upgrade
  <2>1. cr'[s].synced = cr[s].synced /\ UNCHANGED <<dbVars, podVars>>
    BY <1>0, <1>2, Values DEF Upgrade
  <2>. QED
    BY <1>1, <2>1 DEF dbVars, podVars
<1>3. CASE Restart \/ (\E y \in CRNames : CacheSync(y)) \/ UNCHANGED vars
  <2>1. UNCHANGED <<cr, dbVars, podVars>>
    BY <1>3 DEF Restart, CacheSync, vars, crVars, dbVars, podVars
  <2>. QED
    BY <1>1, <2>1 DEF dbVars, podVars
<1>4. ASSUME NEW x \in CRNames, Reconcile(x) PROVE SyncRecorded(c)'
  <2>1. CASE ConductorReconcile(c)
    BY <1>0, <2>1, ConductorStep
  <2>2. CASE ~ConductorReconcile(c)
    <3>1. /\ UNCHANGED <<schema, apiSchema>>
          /\ \/ template' = template
             \/ template' = [template EXCEPT ![x] = Copy(x).want]
          /\ x # s => cr'[s].synced = cr[s].synced
      BY <1>0, <1>4, ReconcileWrites DEF Written
    <3>2. CASE \E d \in Cells : x = Conductor(d) /\ ConductorReconcile(d)
      <4>1. PICK d \in Cells : x = Conductor(d) /\ ConductorReconcile(d)
        BY <3>2
      <4>2. d # c /\ x # s
        BY <2>2, <4>1, OneConductor
      <4>3. job'[c] = job[c] /\ purge'[c] = purge[c]
        BY <4>1, <4>2, ConductorWrites DEF TypeOK
      <4>4. template'[s] = template[s]
        BY <1>0, <3>1, <4>2, Values
      <4>. QED
        BY <1>1, <3>1, <4>2, <4>3, <4>4
    <3>3. CASE ~\E d \in Cells : x = Conductor(d) /\ ConductorReconcile(d)
      <4>1. job' = job /\ purge' = purge
        BY <1>4, <3>3
           DEF Reconcile, NovaEnsureCell, NovaEnsureTop, CellReconcile, SvcError, SvcRolls,
               dbVars, podVars
      <4>2. CASE x = s
        <5>1. SvcError(x)
          BY <1>0, <1>4, <3>3, <4>2 DEF Reconcile, SvcRolls
        <5>. QED
          BY <1>0, <1>1, <3>1, <4>1, <4>2, <5>1, SvcErrorWrites
      <4>3. CASE x # s
        BY <1>0, <1>1, <3>1, <4>1, <4>3, Values
      <4>. QED
        BY <4>2, <4>3
    <3>. QED
      BY <3>2, <3>3
  <2>. QED
    BY <2>1, <2>2
<1>5. ASSUME NEW d \in Cells, DbSync(d) PROVE SyncRecorded(c)'
  <2>1. /\ UNCHANGED <<cr, seen, base, apiSchema, template, purge>>
        /\ d = Cell0 => apiSchema = job[d].image
        /\ job' = [job EXCEPT ![d].state = "done"]
        /\ schema' = [schema EXCEPT ![d] = job[d].image]
    BY <1>5 DEF DbSync, crVars, podVars
  <2>2. /\ job'[c].image = job[c].image
        /\ schema'[c] = IF c = d THEN job[c].image ELSE schema[c]
        /\ c # d => job'[c].state = job[c].state
    BY <2>1 DEF TypeOK
  <2>3. schema[c] <= schema'[c] /\ schema'[c] <= job[c].image /\ schema'[c] \in Nat
    BY <2>2, <1>0, SyncNumbers DEF SyncRecorded
  <2>4. \A i \in Nat : SchemaKnown(c, i) => i <= schema'[c] /\ (c = Cell0 => i <= apiSchema)
    BY <2>3, SyncNumbers DEF SchemaKnown
  <2>5. job'[c].state = "done" =>
          job[c].image <= schema'[c] /\ (c = Cell0 => job[c].image <= apiSchema)
    BY <2>1, <2>2, <2>4, <1>0, SyncNumbers DEF SyncRecorded
  <2>6. Copy(s)'.want = Copy(s).want
    BY <2>1 DEF Copy
  <2>7. cr[s].synced \in Nat /\ seen[s].synced \in Nat /\ base[s].synced \in Nat
    BY <1>0, Values DEF CR, Image
  <2>. QED
    BY <2>1, <2>2, <2>3, <2>4, <2>5, <2>6, <2>7, <1>0, SyncNumbers
       DEF SyncRecorded, SchemaKnown
<1>6. ASSUME NEW d \in Cells, DbSyncFails(d) PROVE SyncRecorded(c)'
  <2>1. /\ UNCHANGED <<cr, schema, apiSchema, template, purge>>
        /\ job' = [job EXCEPT ![d].state = "failed"]
    BY <1>6 DEF DbSyncFails, crVars, podVars
  <2>2. job'[c] = job[c] \/ job'[c] = [job[c] EXCEPT !.state = "failed"]
    BY <2>1 DEF TypeOK
  <2>. QED
    BY <2>1, <2>2, <1>0, SyncFollows
<1>7. CASE ApiDbSync
  <2>1. /\ UNCHANGED <<cr, seen, base, job, schema, template, purge>>
        /\ apiSchema' = job[Cell0].image
    BY <1>7 DEF ApiDbSync, crVars, podVars
  <2>2. c = Cell0 => apiSchema <= apiSchema' /\ apiSchema' <= job[c].image /\ apiSchema' \in Nat
    BY <2>1, <1>0, SyncNumbers DEF SyncRecorded
  <2>3. \A i \in Nat : SchemaKnown(c, i) => i <= schema[c] /\ (c = Cell0 => i <= apiSchema')
    BY <2>2, SyncNumbers DEF SchemaKnown
  <2>4. Copy(s)'.want = Copy(s).want
    BY <2>1 DEF Copy
  <2>5. cr[s].synced \in Nat /\ seen[s].synced \in Nat /\ base[s].synced \in Nat
    BY <1>0, Values DEF CR, Image
  <2>. QED
    BY <2>1, <2>2, <2>3, <2>4, <2>5, <1>0, SyncNumbers DEF SyncRecorded, SchemaKnown
<1>8. ASSUME NEW t \in Services, PodStart(t) \/ PodReplace(t) PROVE SyncRecorded(c)'
  <2>1. UNCHANGED <<cr, job, schema, apiSchema, template, purge>>
    BY <1>8 DEF PodStart, PodReplace, crVars, dbVars
  <2>. QED
    BY <1>0, <1>1, <2>1
<1>. QED
  BY <1>2, <1>3, <1>4, <1>5, <1>6, <1>7, <1>8, Steps

-----------------------------------------------------------------------------
(* Founded reports are true.                                               *)

AllAtLeast(x, v) == \A s \in Serves(x) : AtLeast(s, v)

CRsTrue == \A x \in CRNames : \A r \in {cr[x], seen[x], base[x]} :
              r.founded => AllAtLeast(x, r.obs)
Cell0True == cell0.founded => next > 1 /\ cell0.want = view /\ CellAtLeast(Cell0, cell0.obs)
LoopTrue == allFounded => next > 1 /\ \A i \in 1 .. next - 1 : CellAtLeast(CellOrder[i], view)

LEMMA ServesCell ==
    /\ \A c \in Cells : \A v : AllAtLeast(c, v) <=> CellAtLeast(c, v)
    /\ \A s \in Services : \A v : AllAtLeast(s, v) <=> AtLeast(s, v)
    /\ \A v : AllAtLeast(NovaCR, v) <=> \A s \in Services : AtLeast(s, v)
BY Owners DEF AllAtLeast, Serves, CellAtLeast, ServicesOf

LEMMA ReportParts ==
    /\ ReportsTrue <=> CRsTrue /\ Cell0True /\ LoopTrue
    /\ ReportsTrue' <=> CRsTrue' /\ Cell0True' /\ LoopTrue'
<1>1. \A x \in CRNames : x = NovaCR \/ x \in Cells \/ x \in Services
  BY DEF CRNames
<1>2. CRsTrue <=>
        /\ \A s \in Services : \A r \in {cr[s], seen[s], base[s]} :
              r.founded => AtLeast(s, r.obs)
        /\ \A c \in Cells : \A r \in {cr[c], seen[c], base[c]} :
              r.founded => CellAtLeast(c, r.obs)
        /\ \A r \in {cr[NovaCR], seen[NovaCR], base[NovaCR]} :
              r.founded => \A s \in Services : AtLeast(s, r.obs)
  BY <1>1, Owners, ServesCell DEF CRsTrue
<1>3. CRsTrue' <=>
        /\ \A s \in Services : \A r \in {cr'[s], seen'[s], base'[s]} :
              r.founded => AtLeast(s, r.obs)'
        /\ \A c \in Cells : \A r \in {cr'[c], seen'[c], base'[c]} :
              r.founded => CellAtLeast(c, r.obs)'
        /\ \A r \in {cr'[NovaCR], seen'[NovaCR], base'[NovaCR]} :
              r.founded => \A s \in Services : AtLeast(s, r.obs)'
  BY <1>1, Owners DEF CRsTrue, AllAtLeast, Serves, CellAtLeast, ServicesOf, AtLeast
<1>4. ReportsTrue <=> CRsTrue /\ Cell0True /\ LoopTrue
  BY <1>2, Zenon DEF ReportsTrue, Cell0True, LoopTrue
<1>5. ReportsTrue' <=> CRsTrue' /\ Cell0True' /\ LoopTrue'
  BY <1>3, Zenon DEF ReportsTrue, Cell0True, LoopTrue
<1>. QED
  BY <1>4, <1>5

(* What a parent makes of a child that it has just ensured.                *)
LEMMA ReadyChild ==
  ASSUME TypeOK, ImagesGrow, ReportsTrue, NEW x \in CRNames, NEW w \in Image,
         cr[x].want <= w
  PROVE  LET r == ReturnedCR(x, w)
         IN /\ r.want = w /\ r \in CR
            /\ r.founded => AllAtLeast(x, r.obs)
            /\ ChildIsReady(r) /\ r.founded => AllAtLeast(x, w)
<1>1. seen[x].want <= cr[x].want
  BY GrowParts DEF CacheBehind
<1>2. ReturnedCR(x, w).want = w /\ ReturnedCR(x, w) \in CR
  BY <1>1, EnsureWants, EnsureType
<1>3. \/ ReturnedCR(x, w) = seen[x]
      \/ /\ ReturnedCR(x, w).obs = cr[x].obs
         /\ ReturnedCR(x, w).founded = cr[x].founded
  BY EnsureType
<1>4. ReturnedCR(x, w).founded => AllAtLeast(x, ReturnedCR(x, w).obs)
  BY <1>3, ReportParts DEF CRsTrue
<1>5. ChildIsReady(ReturnedCR(x, w)) => ReturnedCR(x, w).obs = w
  BY <1>2 DEF ChildIsReady
<1>. QED
  BY <1>2, <1>4, <1>5

LEMMA AllFoundTrue ==
  ASSUME TypeOK, ImagesGrow, ReportsTrue, NEW children, NEW w \in Image,
         AllFound(children, w),
         \A x \in Elements(children) : x \in CRNames /\ cr[x].want <= w
  PROVE  \A x \in Elements(children) : AllAtLeast(x, w)
<1> SUFFICES ASSUME NEW x \in Elements(children) PROVE AllAtLeast(x, w)
  OBVIOUS
<1>1. PICK i \in DOMAIN children : children[i] = x
  BY DEF Elements
<1>2. ChildIsReady(ReturnedCR(x, w)) /\ ReturnedCR(x, w).founded
  BY <1>1 DEF AllFound, AllReady, AllFounded
<1>. QED
  BY <1>2, ReadyChild

(* What a reconcile has found is true when it returns.                     *)
LEMMA FoundTrue ==
  ASSUME TypeOK, ImagesGrow, ReportsTrue, NEW x \in CRNames, Reconcile(x), FoundReady(x),
         [Next]_vars
  PROVE  \A s \in Serves(x) :
            \/ AtLeast(s, Copy(x).want)
            \/ RolledOut(s, Copy(x).want) /\ template'[s] = Copy(x).want
<1> DEFINE w == Copy(x).want
<1>0. w \in Image /\ \A y \in Children(x) : y \in CRNames /\ cr[y].want <= w
  BY Values, GrowParts, Families DEF ChildrenBehind
<1>1. CASE x = NovaCR
  <2>1. /\ next = Len(CellOrder) + 1 /\ allFounded
        /\ AllFound(TopServices, w) /\ view = w
    BY <1>1, Owners DEF FoundReady, view
  <2>2. \A s \in Top : AtLeast(s, w)
    <3>1. \A y \in Top : y \in CRNames /\ cr[y].want <= w
      BY <1>0, <1>1 DEF Children
    <3>2. \A y \in Elements(TopServices) : AllAtLeast(y, w)
      <4> HIDE DEF w
      <4>. QED
        BY <1>0, <2>1, <3>1, AllFoundTrue DEF Top
    <3>. QED
      BY <3>2, ServesCell, Owners DEF Top
  <2>3. \A c \in Cells : CellAtLeast(c, w)
    <3>1. \A i \in 1 .. next - 1 : CellAtLeast(CellOrder[i], w)
      BY <2>1, ReportParts DEF LoopTrue
    <3>2. next - 1 = Len(CellOrder)
      BY <2>1, Names
    <3>. QED
      BY <3>1, <3>2, Names
  <2>. QED
    BY <1>1, <2>2, <2>3, Names DEF Serves, CellAtLeast, ServicesOf
<1>2. CASE x \in Cells
  <2>1. AllFound(CellServices[x], w) /\ x # NovaCR
    BY <1>2, Owners DEF FoundReady
  <2>2. \A y \in Elements(CellServices[x]) : y \in CRNames /\ cr[y].want <= w
    BY <1>0, <1>2, <2>1 DEF Children, ServicesOf
  <2>3. \A y \in Elements(CellServices[x]) : AllAtLeast(y, w)
    <3> HIDE DEF w
    <3>. QED
      BY <1>0, <2>1, <2>2, AllFoundTrue
  <2>. QED
    BY <1>2, <2>1, <2>3, ServesCell, Owners DEF Serves, ServicesOf
<1>3. CASE x \in Services
  BY <1>3, Owners DEF FoundReady, Serves
<1>. QED
  BY <1>1, <1>2, <1>3 DEF CRNames

(* A truth about pods stays one.                                           *)
LEMMA StillTrue ==
  ASSUME TypeOK, ImagesGrow, [Next]_vars
  PROVE  /\ \A s \in Services : \A v \in Nat :
               AtLeast(s, v) => /\ pods'[s] # {} /\ v <= template'[s]
                                /\ \A p \in pods'[s] : v <= p
         /\ \A x \in CRNames : \A v \in Nat :
               AllAtLeast(x, v) => \A s \in Serves(x) :
                                       /\ pods'[s] # {} /\ v <= template'[s]
                                       /\ \A p \in pods'[s] : v <= p
<1>1. \A s \in Services : \A v \in Nat :
         AtLeast(s, v) => /\ pods'[s] # {} /\ v <= template'[s]
                          /\ \A p \in pods'[s] : v <= p
  <2>1. ASSUME NEW s \in Services, NEW v \in Nat, AtLeast(s, v)
        PROVE  /\ pods'[s] # {} /\ v <= template'[s]
               /\ \A p \in pods'[s] : v <= p
    BY <2>1, RolloutsKept DEF AtLeast
  <2>. QED
    BY <2>1
<1>. QED
  BY <1>1, Families DEF AllAtLeast

(* The reports of CRs: only their own controllers write them.              *)
LEMMA CRsTrueStep ==
  ASSUME TypeOK, ImagesGrow, ReportsTrue, [Next]_vars
  PROVE  CRsTrue'
<1> DEFINE Runs(y, v) == \A s \in Serves(y) : /\ pods'[s] # {} /\ v <= template'[s]
                                              /\ \A p \in pods'[s] : v <= p
<1>0. /\ \A x \in CRNames : \A v \in Nat : AllAtLeast(x, v) => Runs(x, v)
      /\ \A x \in CRNames : \A r \in {cr[x], seen[x], base[x]} : r.founded => Runs(x, r.obs)
  <2>1. \A x \in CRNames : \A v \in Nat : AllAtLeast(x, v) => Runs(x, v)
    BY StillTrue
  <2>2. \A x \in CRNames : \A r \in {cr[x], seen[x], base[x]} :
           r.obs \in Nat /\ (r.founded => AllAtLeast(x, r.obs))
    BY Values, ReportParts DEF CRsTrue
  <2> HIDE DEF Runs
  <2>. QED
    BY <2>1, <2>2
<1> SUFFICES ASSUME NEW x \in CRNames
             PROVE  \A r \in {cr'[x], seen'[x], base'[x]} : r.founded => Runs(x, r.obs)
  BY DEF CRsTrue, AllAtLeast, AtLeast, Serves
<1>c. seen'[x] \in {seen[x], cr[x]} /\ base'[x] \in {base[x], seen[x], NoCR}
  BY CacheStep
<1> SUFFICES cr'[x].founded => Runs(x, cr'[x].obs)
  <2> HIDE DEF Runs
  <2>. QED
    BY <1>0, <1>c DEF NoCR
<1>1. CASE cr'[x].founded = cr[x].founded /\ cr'[x].obs = cr[x].obs
  <2> HIDE DEF Runs
  <2>. QED
    BY <1>0, <1>1
<1>2. ASSUME NEW y \in CRNames, Reconcile(y) PROVE cr'[x].founded => Runs(x, cr'[x].obs)
  <2>1. Written(y)
    BY <1>2, ReconcileWrites
  <2>2. CASE y # x
    BY <1>1, <2>1, <2>2 DEF Written
  <2>3. CASE y = x /\ FoundReady(x) /\ cr'[x].obs = Copy(x).want
    <3> DEFINE w == Copy(x).want
    <3>1. ASSUME NEW s \in Serves(x)
          PROVE  pods'[s] # {} /\ w <= template'[s] /\ \A p \in pods'[s] : w <= p
      <4>1. s \in Services /\ w \in Nat /\ pods' = pods
        BY <1>2, Families, Values, ReconcileWrites
      <4>2. \/ AtLeast(s, w)
            \/ RolledOut(s, w) /\ template'[s] = w
        BY <1>2, <2>3, FoundTrue
      <4>3. CASE AtLeast(s, w)
        <5> HIDE DEF w
        <5>. QED
          BY <4>1, <4>3, StillTrue
      <4>4. CASE RolledOut(s, w) /\ template'[s] = w
        <5> HIDE DEF w
        <5>. QED
          BY <4>1, <4>4 DEF RolledOut
      <4>. QED
        BY <4>2, <4>3, <4>4
    <3>. QED
      BY <2>3, <3>1
  <2>. QED
    BY <1>1, <2>1, <2>2, <2>3, <1>0 DEF Written
<1>3. CASE Upgrade
  <2>1. cr' = [cr EXCEPT ![NovaCR] = [cr[NovaCR] EXCEPT !.want = @ + 1]]
    BY <1>3 DEF Upgrade
  <2>2. cr'[x].founded = cr[x].founded /\ cr'[x].obs = cr[x].obs
    BY <2>1, Values DEF CR
  <2>. QED
    BY <1>1, <2>2
<1>4. Restart \/ Outside \/ (\E y \in CRNames : CacheSync(y)) => cr' = cr
  BY OutsideKeeps DEF Restart, CacheSync, crVars
<1>. QED
  BY <1>1, <1>2, <1>3, <1>4, Steps DEF Outside

(* One turn of the loop over the cells.                                    *)
LEMMA CellTurn ==
  ASSUME TypeOK, ImagesGrow, ReportsTrue, NovaEnsureCell, [Next]_vars
  PROVE  /\ next \in 1 .. Len(CellOrder) /\ next' = next + 1
         /\ view' = view
         /\ \/ cell0' = cell0
            \/ cell0'.want = view /\ (cell0'.founded => CellAtLeast(Cell0, cell0'.obs))
         /\ allFounded' => (next = 1 \/ allFounded) /\ CellAtLeast(CellOrder[next], view)
<1> DEFINE c == CellOrder[next]
<1>1. /\ next \in 1 .. Len(CellOrder) /\ next' = next + 1
      /\ UNCHANGED seen
      /\ base'[NovaCR] = Copy(NovaCR)
  <2>1. next \in 1 .. Len(CellOrder) /\ next' = next + 1 /\ UNCHANGED seen
    BY Names DEF NovaEnsureCell, TypeOK
  <2>2. base' = [base EXCEPT ![NovaCR] = Copy(NovaCR)]
    BY DEF NovaEnsureCell
  <2>. QED
    BY <2>1, <2>2, Values, Owners
<1>2. view' = view
  <2>1. Copy(NovaCR) # NoCR
    BY GrowParts DEF view, NoCR
  <2>. QED
    BY <1>1, <2>1 DEF view, Copy
<1>3. c \in Cells /\ c \in CRNames /\ view \in Image /\ cr[c].want <= view
  <2>1. c \in Cells /\ c \in CRNames
    BY <1>1, Names, Owners
  <2>2. c \in Children(NovaCR) /\ NovaCR \in CRNames
    BY <2>1, Owners DEF Children
  <2>. QED
    BY <2>1, <2>2, GrowParts, Values DEF ChildrenBehind, view
<1> DEFINE r == ReturnedCR(c, view)
<1>4. /\ r.want = view /\ r \in CR
      /\ r.founded => CellAtLeast(c, r.obs)
      /\ ChildIsReady(r) /\ r.founded => CellAtLeast(c, view)
  <2>1. \A w \in Image : cr[c].want <= w =>
          LET q == ReturnedCR(c, w)
          IN /\ q.want = w /\ q \in CR /\ (q.founded => AllAtLeast(c, q.obs))
             /\ ChildIsReady(q) /\ q.founded => AllAtLeast(c, w)
    BY <1>3, ReadyChild
  <2> HIDE DEF c
  <2>. QED
    BY <2>1, <1>3, ServesCell
<1>5. AllReady(<<c>>, view) /\ AllFounded(<<c>>, view) => CellAtLeast(c, view)
  <2>1. AllReady(<<c>>, view) => ChildIsReady(r)
    BY DEF AllReady
  <2>2. AllFounded(<<c>>, view) => r.founded
    BY DEF AllFounded
  <2>. QED
    BY <2>1, <2>2, <1>4
<1>6. \/ cell0' = cell0 /\ ~allFounded'
      \/ /\ cell0' = cell0 \/ (c = Cell0 /\ cell0' = r)
         /\ allFounded' => (next = 1 \/ allFounded) /\ AllReady(<<c>>, view)
                           /\ AllFounded(<<c>>, view)
  <2>1. CASE SkipCell(c)
    BY <2>1 DEF NovaEnsureCell
  <2>2. CASE ~SkipCell(c)
    BY <2>2 DEF NovaEnsureCell
  <2>. QED
    BY <2>1, <2>2
<1> HIDE DEF c, r
<1>7. cell0' = r /\ c = Cell0 =>
        cell0'.want = view /\ (cell0'.founded => CellAtLeast(Cell0, cell0'.obs))
  BY <1>4
<1>8. allFounded' => (next = 1 \/ allFounded) /\ CellAtLeast(c, view)
  BY <1>5, <1>6
<1>. QED
  BY <1>1, <1>2, <1>6, <1>7, <1>8 DEF c

(* A running Nova reconcile works with one image.                          *)
LEMMA ViewKept ==
  ASSUME TypeOK, next > 1, [Next]_vars, ~NovaEnsureTop, ~NovaEnsureCell, ~Restart
  PROVE  UNCHANGED <<view, localVars, misled>>
<1>1. base[NovaCR] # NoCR /\ NovaCR \in CRNames /\ base \in [CRNames -> CR]
  BY Owners, Values DEF TypeOK
<1>2. CASE Upgrade \/ Outside
  BY <1>2, OutsideKeeps DEF Upgrade, view, Copy, crVars
<1>3. ASSUME NEW y \in CRNames, CacheSync(y) PROVE UNCHANGED <<view, localVars, misled>>
  <2>1. base'[NovaCR] = base[NovaCR]
    BY <1>1, <1>3 DEF CacheSync
  <2>. QED
    BY <1>1, <1>3, <2>1 DEF CacheSync, view, Copy
<1>4. ASSUME NEW y \in CRNames, Reconcile(y) PROVE UNCHANGED <<view, localVars, misled>>
  <2>1. y # NovaCR
    BY <1>4, Names, Owners DEF Reconcile
  <2>2. base'[NovaCR] = base[NovaCR] /\ UNCHANGED <<localVars, misled>>
    BY <1>1, <1>4, <2>1, ReconcileWrites
  <2>. QED
    BY <1>1, <2>2 DEF view, Copy
<1>. QED
  BY <1>2, <1>3, <1>4, Steps DEF Outside

(* What the Nova controller remembers.                                     *)
LEMMA NovaReportsStep ==
  ASSUME TypeOK, ImagesGrow, ReportsTrue, [Next]_vars
  PROVE  Cell0True' /\ LoopTrue'
<1> DEFINE CellRuns(c, v) == \A s \in ServicesOf(c) :
                                /\ pods'[s] # {} /\ v <= template'[s]
                                /\ \A p \in pods'[s] : v <= p
<1>t. TypeOK'
  BY TypeStep, GrowParts
<1>0. \A c \in Cells : \A v \in Nat : CellAtLeast(c, v) => CellRuns(c, v)
  BY StillTrue, Owners DEF CellAtLeast, ServicesOf
<1>n. /\ next \in 1 .. Len(CellOrder) + 1 /\ Len(CellOrder) \in Nat /\ view \in Nat
      /\ \A i \in 1 .. next - 1 : CellOrder[i] \in Cells
      /\ cell0.obs \in Nat /\ cell0'.obs \in Nat /\ Cell0 \in Cells
  <2>1. next \in 1 .. Len(CellOrder) + 1 /\ Len(CellOrder) \in Nat
    BY Names DEF TypeOK
  <2>2. \A i \in 1 .. next - 1 : CellOrder[i] \in Cells
    BY <2>1, Names
  <2>3. cell0 \in CR /\ cell0' \in CR
    BY <1>t DEF TypeOK
  <2>4. \A r \in CR : r.obs \in Nat
    BY DEF CR, Image
  <2>. QED
    BY <2>1, <2>2, <2>3, <2>4, Values, Names
<1> HIDE DEF CellRuns
<1>a. /\ cell0.founded => next > 1 /\ cell0.want = view /\ CellRuns(Cell0, cell0.obs)
      /\ allFounded => next > 1 /\ \A i \in 1 .. next - 1 : CellRuns(CellOrder[i], view)
  BY <1>0, <1>n, ReportParts DEF Cell0True, LoopTrue
<1> SUFFICES
      /\ cell0'.founded => next' > 1 /\ cell0'.want = view' /\ CellRuns(Cell0, cell0'.obs)
      /\ allFounded' => next' > 1 /\ \A i \in 1 .. next' - 1 : CellRuns(CellOrder[i], view')
  BY DEF Cell0True, LoopTrue, AtLeast, CellAtLeast, ServicesOf, CellRuns
<1>1. CASE NovaEnsureCell
  <2> USE CellTurn, <1>1
  <2>1. next \in 1 .. Len(CellOrder) /\ next' = next + 1 /\ next' > 1 /\ view' = view
    BY <1>n
  <2>2. cell0'.founded => cell0'.want = view' /\ CellRuns(Cell0, cell0'.obs)
    <3>1. CASE cell0' = cell0
      BY <3>1, <2>1, <1>a
    <3>2. CASE cell0'.want = view /\ (cell0'.founded => CellAtLeast(Cell0, cell0'.obs))
      BY <3>2, <2>1, <1>0, <1>n
    <3>. QED
      BY <3>1, <3>2
  <2>3. ASSUME allFounded', NEW i \in 1 .. next' - 1 PROVE CellRuns(CellOrder[i], view')
    <3>1. CASE i = next
      BY <2>3, <3>1, <2>1, <1>0, <1>n, Names
    <3>2. CASE i # next
      BY <2>3, <3>2, <2>1, <1>a
    <3>. QED
      BY <3>1, <3>2
  <2>. QED
    BY <2>1, <2>2, <2>3
<1>2. CASE NovaEnsureTop \/ Restart
  <2>1. Return
    BY <1>2 DEF NovaEnsureTop, Restart
  <2>2. ~cell0'.founded /\ ~allFounded'
    BY <2>1 DEF Return, NoCR
  <2>. QED
    BY <2>2
<1>3. CASE next > 1 /\ ~NovaEnsureTop /\ ~NovaEnsureCell /\ ~Restart
  BY <1>3, <1>a, ViewKept DEF localVars
<1>4. CASE ~(next > 1) /\ ~NovaEnsureTop /\ ~NovaEnsureCell /\ ~Restart
  <2>1. UNCHANGED localVars
    <3>1. \A c \in Cells : Conductor(c) # NovaCR
      BY Names, Owners
    <3>2. \A y \in CRNames : Reconcile(y) => y # NovaCR
      BY <1>4, <3>1, Owners DEF Reconcile
    <3>3. \A y \in CRNames : Reconcile(y) => UNCHANGED localVars
      BY <3>2, ReconcileWrites
    <3>4. Upgrade \/ Outside \/ (\E y \in CRNames : CacheSync(y)) => UNCHANGED localVars
      BY OutsideKeeps DEF Upgrade, CacheSync
    <3>. QED
      BY <1>4, <3>3, <3>4, Steps DEF Outside
  <2>. QED
    BY <1>4, <1>a, <2>1 DEF localVars
<1>. QED
  BY <1>1, <1>2, <1>3, <1>4

-----------------------------------------------------------------------------
(* The top-level services stay behind cell0.                               *)

LEMMA GateHolds ==
  ASSUME TypeOK, ImagesGrow, ReportsTrue, Cell0Gate, cell0.founded
  PROVE  AtLeast(Conductor(Cell0), view)
<1>1. CellAtLeast(Cell0, cell0.obs) /\ cell0.want = view /\ view <= cell0.obs
  BY ReportParts DEF Cell0True, Cell0Gate
<1>2. AtLeast(Conductor(Cell0), cell0.obs) /\ Conductor(Cell0) \in Services
  BY <1>1, Names DEF CellAtLeast, ServicesOf
<1>3. cell0.obs \in Nat
  BY DEF TypeOK, CR, Image
<1>. QED
  BY <1>1, <1>2, <1>3, Values DEF AtLeast

LEMMA TopStep ==
  ASSUME TypeOK, ImagesGrow, ReportsTrue, TopBehindCell0, [Next]_vars
  PROVE  TopBehindCell0'
<1> DEFINE k == Conductor(Cell0)
           Runs(v) == /\ pods'[k] # {} /\ v <= template'[k]
                      /\ \A p \in pods'[k] : v <= p
<1> SUFFICES ASSUME NEW s \in Top PROVE cr'[s].want > misled' => Runs(cr'[s].want)
  BY DEF TopBehindCell0, AtLeast, Top
<1>0. /\ k \in Services /\ s \in CRNames /\ s \in Services /\ s # NovaCR
      /\ NovaCR \in CRNames /\ s \in Children(NovaCR)
      /\ \A x \in CRNames : s \in Children(x) => x = NovaCR
      /\ cr[s].want \in Nat /\ misled \in Nat /\ view \in Nat /\ cr[s].want <= view
      /\ \A v \in Nat : AtLeast(k, v) => Runs(v)
  <2>1. /\ k \in Services /\ s \in CRNames /\ s \in Services /\ s # NovaCR
        /\ NovaCR \in CRNames /\ s \in Children(NovaCR)
    BY Owners, Names DEF Children
  <2>2. \A x \in CRNames : s \in Children(x) => x = NovaCR
    BY <2>1, Families
  <2>3. cr[s].want \in Nat /\ misled \in Nat /\ view \in Nat /\ cr[s].want <= view
    BY <2>1, Values, GrowParts DEF ChildrenBehind, view
  <2>. QED
    BY <2>1, <2>2, <2>3, StillTrue
<1>1. cr[s].want > misled => Runs(cr[s].want)
  BY <1>0 DEF TopBehindCell0, Top
<1> HIDE DEF Runs, k
<1>2. CASE cr'[s].want = cr[s].want /\ misled' = misled
  BY <1>1, <1>2
<1>3. CASE NovaEnsureTop
  <2>1. \/ Cell0Gate /\ misled' = (IF cell0.founded THEN misled ELSE view)
        \/ misled' = misled /\ cr'[s].want = cr[s].want
    BY <1>0, <1>3, NovaTopWrites
  <2>2. cr'[s].want \in {cr[s].want, view}
    BY <1>0, <1>3, NovaTopWrites DEF Written, view
  <2>3. CASE Cell0Gate /\ misled' = (IF cell0.founded THEN misled ELSE view)
    <3>1. CASE cell0.founded
      <4>1. AtLeast(k, view)
        BY <2>3, <3>1, GateHolds DEF k
      <4>. QED
        BY <1>0, <1>1, <2>2, <2>3, <3>1, <4>1
    <3>2. CASE ~cell0.founded
      BY <1>0, <2>2, <2>3, <3>2
    <3>. QED
      BY <3>1, <3>2
  <2>. QED
    BY <1>2, <2>1, <2>3
<1>4. CASE NovaEnsureCell
  BY <1>0, <1>2, <1>4, NovaCellWrites DEF NovaEnsureCell
<1>5. ASSUME NEW x \in CRNames, Reconcile(x), x # NovaCR
      PROVE  cr'[s].want = cr[s].want /\ misled' = misled
  BY <1>0, <1>5, ReconcileWrites DEF Written
<1>6. Upgrade => cr'[s].want = cr[s].want /\ misled' = misled
  BY <1>0, Values DEF Upgrade
<1>7. Restart \/ Outside \/ (\E x \in CRNames : CacheSync(x)) => cr' = cr /\ misled' = misled
  BY OutsideKeeps DEF Restart, CacheSync, crVars
<1>8. Reconcile(NovaCR) => NovaEnsureCell \/ NovaEnsureTop
  <2>1. \A c \in Cells : Conductor(c) # NovaCR
    BY Names, Owners
  <2>. QED
    BY <2>1, Names DEF Reconcile
<1>. QED
  BY <1>2, <1>3, <1>4, <1>5, <1>6, <1>7, <1>8, Steps DEF Outside

-----------------------------------------------------------------------------
(* The inductive invariant.                                                *)

LEMMA InvInit == Init => UpgradeInv
<1> SUFFICES ASSUME Init PROVE UpgradeInv
  OBVIOUS
<1>1. TypeOK
  BY TypeInit
<1>2. /\ \A x \in CRNames : /\ x # NovaCR => cr[x] = NoCR
                            /\ cr[x].obs = 0 /\ ~cr[x].founded /\ cr[x].synced = 0
                            /\ cr[x].want \in {0, 1}
                            /\ seen[x] = cr[x] /\ base[x] = NoCR /\ Copy(x) = cr[x]
      /\ cr[NovaCR].want = 1 /\ view = 1
      /\ \A s \in Services : template[s] = 0 /\ pods[s] = {}
      /\ \A c \in Cells : job[c] = NoJob /\ schema[c] = 0 /\ purge[c] = 0
      /\ next = 1 /\ apiSchema = 0 /\ misled = 0
      /\ ~cell0.founded /\ ~allFounded
  <2>1. \A x \in CRNames : /\ x # NovaCR => cr[x] = NoCR
                           /\ x = NovaCR => cr[x] = [NoCR EXCEPT !.want = 1]
                           /\ seen[x] = cr[x] /\ base[x] = NoCR
    BY DEF Init
  <2>2. \A x \in CRNames : Copy(x) = cr[x]
    BY <2>1 DEF Copy
  <2>3. \A x \in CRNames : /\ cr[x].obs = 0 /\ ~cr[x].founded /\ cr[x].synced = 0
                           /\ cr[x].want \in {0, 1} /\ (x = NovaCR => cr[x].want = 1)
    BY <2>1 DEF NoCR
  <2>4. NovaCR \in CRNames
    BY Owners
  <2>. QED
    BY <2>1, <2>2, <2>3, <2>4 DEF Init, view, NoCR
<1>3. ImagesGrow
  <2>1. \A x \in CRNames : \A y \in Children(x) : y \in CRNames /\ y # NovaCR
    BY Families
  <2>2. CacheBehind /\ PodsBehind
    BY <1>2, Owners DEF CacheBehind, PodsBehind
  <2>3. ChildrenBehind
    BY <1>2, <2>1 DEF ChildrenBehind, NoCR
  <2>. QED
    BY <1>2, <2>2, <2>3, GrowParts
<1>4. SyncsRecorded
  <2>1. \A c \in Cells : /\ Conductor(c) \in CRNames /\ Conductor(c) \in Services
                         /\ Conductor(c) # NovaCR
    BY Names, Owners
  <2>. QED
    BY <1>2, <2>1, SyncParts DEF SyncRecorded, SchemaKnown, NoCR, NoJob
<1>5. ReportsTrue
  BY <1>2, ReportParts DEF CRsTrue, Cell0True, LoopTrue, NoCR
<1>6. TopBehindCell0
  <2>1. \A s \in Top : s \in CRNames /\ s # NovaCR
    BY Owners
  <2>. QED
    BY <1>2, <2>1 DEF TopBehindCell0, Top, NoCR
<1>. QED
  BY <1>1, <1>3, <1>4, <1>5, <1>6 DEF UpgradeInv

LEMMA InvStep == UpgradeInv /\ [Next]_vars => UpgradeInv'
<1> SUFFICES ASSUME UpgradeInv, [Next]_vars PROVE UpgradeInv'
  OBVIOUS
<1>1. TypeOK /\ ImagesGrow /\ SyncsRecorded /\ ReportsTrue /\ TopBehindCell0 /\ view # 0
  BY GrowParts DEF UpgradeInv
<1>2. CRsTrue' /\ Cell0True' /\ LoopTrue'
  BY <1>1, CRsTrueStep, NovaReportsStep
<1>. QED
  BY <1>1, <1>2, ReportParts, TypeStep, GrowStep, SyncStep, TopStep DEF UpgradeInv

(* What the three properties of the run follow from.                       *)
LEMMA InvImpliesSchemaFirst == UpgradeInv => SchemaFirst
<1> SUFFICES ASSUME UpgradeInv, NEW c \in Cells,
                    NEW p \in pods[Conductor(c)] \cup {template[Conductor(c)], purge[c]}
             PROVE  p <= schema[c] /\ (c = Cell0 => p <= apiSchema)
  BY DEF SchemaFirst
<1> USE DEF UpgradeInv
<1>1. SchemaKnown(c, template[Conductor(c)]) /\ SchemaKnown(c, purge[c])
  BY SyncParts DEF SyncRecorded
<1>2. p \in Nat /\ (p = purge[c] \/ p <= template[Conductor(c)])
  BY GrowParts, SyncNumbers, Values DEF PodsBehind
<1>. QED
  BY <1>1, <1>2, SyncNumbers DEF SchemaKnown

LEMMA InvImpliesTopFollowsCell0 == UpgradeInv => TopFollowsCell0
<1> SUFFICES ASSUME UpgradeInv, NEW s \in Top, NEW p \in pods[s] \cup {template[s]}, p > misled
             PROVE  /\ p <= apiSchema /\ p <= schema[Cell0]
                    /\ pods[Conductor(Cell0)] # {}
                    /\ \A q \in pods[Conductor(Cell0)] : p <= q
  BY DEF TopFollowsCell0, Top
<1> DEFINE k == Conductor(Cell0)
           w == cr[s].want
<1> USE DEF UpgradeInv
<1>1. s \in Services /\ s \in CRNames /\ k \in Services /\ Cell0 \in Cells
  BY Owners, Names
<1>2. p \in Nat /\ w \in Nat /\ p <= w /\ w > misled
  <2>1. /\ p \in Nat /\ p <= template[s] /\ template[s] <= Copy(s).want
        /\ Copy(s).want <= seen[s].want /\ seen[s].want <= w
    BY <1>1, GrowParts, Values DEF PodsBehind, CacheBehind
  <2>. QED
    BY <1>1, <2>1, Values
<1>3. AtLeast(k, w)
  BY <1>2 DEF TopBehindCell0, Top
<1>4. template[k] <= schema[Cell0] /\ template[k] <= apiSchema
  BY <1>1, SyncParts DEF SyncRecorded, SchemaKnown
<1> HIDE DEF k, w, UpgradeInv
<1>5. /\ template[k] \in Nat /\ pods[k] \subseteq Nat
      /\ schema[Cell0] \in Nat /\ apiSchema \in Nat
  BY <1>1, Values, SyncNumbers DEF UpgradeInv
<1>. QED
  BY <1>2, <1>3, <1>4, <1>5 DEF AtLeast, k

LEMMA InvImpliesReadyMeansRolledOut == UpgradeInv => ReadyMeansRolledOut
BY DEF UpgradeInv, ReportsTrue, ReadyMeansRolledOut, AtLeast

-----------------------------------------------------------------------------
(* Every CR, cached copy, job, schema, StatefulSet and local variable of   *)
(* the reconciles keeps its type, and a Nova reconcile that has begun      *)
(* keeps the copy of the Nova CR it has read.                              *)
THEOREM UpgradeTypes == Spec => []TypeOK
<1>1. UpgradeInv => TypeOK
  BY DEF UpgradeInv
<1>. QED
  BY InvInit, InvStep, <1>1, PTL DEF Spec

(* Images only grow from the Nova CR down to the pods, recorded DB syncs   *)
(* are done, and every Ready that a reconcile has found for the generation *)
(* beside it is true, however old it is and wherever a copy of it is kept, *)
(* although the status is merged into a CR that may have moved on since it *)
(* was read; the top-level services stay behind such a Ready of cell0.     *)
THEOREM UpgradeInvariant == Spec => []UpgradeInv
BY InvInit, InvStep, PTL DEF Spec

(* The conductor controllers never give a StatefulSet, a cron job or a pod *)
(* an image that the databases are not migrated to, whatever is recorded   *)
(* in a stale copy of the conductor CR.                                    *)
THEOREM SchemaSafe == Spec => []SchemaFirst
BY UpgradeInvariant, InvImpliesSchemaFirst, PTL

(* The gate on cell0 in the Nova controller keeps the top-level services   *)
(* behind the conductor of cell0, although cell0's status was read from a  *)
(* cache and its image may have changed since, unless that status showed   *)
(* a Ready that a merge patch had put beside another generation.           *)
THEOREM TopSafe == Spec => []TopFollowsCell0
BY UpgradeInvariant, InvImpliesTopFollowsCell0, PTL

(* When the Ready of a Nova CR was found, by its reconcile and by those    *)
(* below it, for the generations shown, the pods of all services run the   *)
(* image of the generation it has observed, or a newer one.                *)
THEOREM ReadySafe == Spec => []ReadyMeansRolledOut
BY UpgradeInvariant, InvImpliesReadyMeansRolledOut, PTL
=============================================================================
