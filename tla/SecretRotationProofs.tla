-------------------------- MODULE SecretRotationProofs --------------------------
(***************************************************************************)
(* Proofs about SecretRotation, for any number of cells, services, secrets *)
(* and failures: its types, and, when no kind of credential goes back to   *)
(* an earlier secret, that a credential in use keeps its finalizer.        *)
(***************************************************************************)
EXTENDS SecretRotation, TLAPS

(* The cells of CellOrder are cells, and cell0 is the first.               *)
LEMMA CellFacts ==
    /\ Cell0 \in Cells
    /\ \A i \in 1 .. Len(CellOrder) : CellOrder[i] \in Cells
    /\ \A c \in Cells : \E i \in 1 .. Len(CellOrder) : c = CellOrder[i]
    /\ Len(CellOrder) \in Nat
    /\ CellKinds \subseteq Kinds /\ {AC, API, Notif} \subseteq Kinds
    /\ \A u \in Units : BusOf(u) \in Kinds /\ Uses(u) \subseteq Kinds
    /\ Cells \subseteq Units /\ Top \in Units
  BY RotationConstants DEF Cell0, Cells, CellKinds, Kinds, BusOf, Uses, Units

(* The content of an input Secret is a content.                            *)
LEMMA ContentType ==
  ASSUME NEW u \in Units, NEW names \in Contents
  PROVE  /\ Content(u, names) \in Contents
         /\ Content(u, names) # NoInput
  BY RotationConstants DEF Content, Contents, Name

LEMMA NoNamesType == NoNames \in Contents
  BY DEF NoNames, Contents, Name

(* Types are kept by every step: in particular a name that a reconcile got *)
(* while a bus was creating is still a name, and cell indexes stay in the  *)
(* range of orderedCellNames.                                              *)
LEMMA TypeInit == Init => TypeOK
<1> SUFFICES ASSUME Init PROVE TypeOK
  OBVIOUS
<1>1. available \in [Kinds -> BOOLEAN]
  BY DEF Init
<1>2. next \in 1 .. Len(CellOrder) + 1 /\ faults \in 0 .. MaxFaults
  BY RotationConstants, CellFacts DEF Init
<1>. QED
  BY <1>1, <1>2, NoNamesType DEF Init, TypeOK

LEMMA TypeStep == TypeOK /\ [ToggleNext]_vars => TypeOK'
<1> SUFFICES ASSUME TypeOK, [ToggleNext]_vars PROVE TypeOK'
  OBVIOUS
<1> USE DEF TypeOK, issuerVars, svcVars, cellVars, localVars, novaVars
<1>c. MaxFaults \in Nat /\ Len(CellOrder) \in Nat
  BY RotationConstants, CellFacts
<1>m. /\ \A f, g \in Contents, k \in Kinds : [f EXCEPT ![k] = g[k]] \in Contents
      /\ \A f \in Contents, k \in Kinds : f[k] \in Nat
  BY DEF Contents, Name
<1>1. ASSUME NEW k \in Kinds, Withdraw(k) PROVE TypeOK'
  BY <1>1 DEF Withdraw
<1>2. ASSUME NEW k \in Kinds, PublishNew(k) PROVE TypeOK'
  <2>1. /\ [issued EXCEPT ![k] = @ + 1] \in Contents
        /\ [current EXCEPT ![k] = issued[k] + 1] \in Contents
    BY DEF Contents, Name
  <2>. QED
    BY <1>2, <2>1 DEF PublishNew
<1>3. ASSUME NEW k \in Kinds, PublishOld(k) PROVE TypeOK'
  <2>1. PICK v \in 0 .. issued[k] : current' = [current EXCEPT ![k] = v]
    BY <1>3 DEF PublishOld
  <2>2. v \in Nat
    BY <1>m
  <2>3. current' \in Contents
    BY <2>1, <2>2 DEF Contents, Name
  <2>. QED
    BY <1>3, <2>3 DEF PublishOld
<1>4. CASE NovaEnsureMQ
  <2>1. \A ks \in SUBSET Kinds :
           ManageSecretConsumerFinalizer(ks) \subseteq Credential
    BY DEF ManageSecretConsumerFinalizer, ensureMQ, Credential, Contents, Name
  <2>2. finalizers' \subseteq Credential
    <3>1. \E ks \in SUBSET Kinds : finalizers' = ManageSecretConsumerFinalizer(ks)
      <4>1. {AC, API} \in SUBSET Kinds /\ Kinds \in SUBSET Kinds
        BY CellFacts
      <4>. QED
        BY <1>4, <4>1 DEF NovaEnsureMQ
    <3>. QED
      BY <2>1, <3>1
  <2>3. CASE UNCHANGED novaVars
    BY <1>4, <2>2, <2>3 DEF NovaEnsureMQ
  <2>4. CASE ~(UNCHANGED novaVars)
    <3>1. /\ [k \in Kinds |-> ensureMQ(k)] \in Contents
          /\ [k \in Kinds |-> IF k \in CellKinds /\ tracked[k] = 0
                               THEN ensureMQ(k) ELSE tracked[k]] \in Contents
      BY DEF ensureMQ, Contents, Name
    <3>2. view' \in Contents /\ mem' \in Contents
      BY <1>4, <2>4, <3>1 DEF NovaEnsureMQ
    <3>3. next' \in 1 .. Len(CellOrder) + 1
      BY <1>4, <1>c, <2>4 DEF NovaEnsureMQ
    <3>. QED
      BY <1>4, <2>2, <2>4, <3>2, <3>3 DEF NovaEnsureMQ
  <2>. QED
    BY <2>3, <2>4
<1>5. CASE NovaEnsureCell
  <2>1. /\ next' \in 1 .. Len(CellOrder) + 1
        /\ CellOrder[next] \in Cells
    BY <1>5, <1>c, CellFacts DEF NovaEnsureCell
  <2>2. Content(CellOrder[next], view) \in Contents
    BY <2>1, CellFacts, ContentType
  <2>3. input' \in [Units -> Contents \cup {NoInput}]
    BY <1>5, <2>2 DEF NovaEnsureCell
  <2>4. /\ faults' \in 0 .. MaxFaults
        /\ cell0Ready' \in BOOLEAN
    BY <1>5, <1>c, <2>1 DEF NovaEnsureCell
  <2>5. allReady' \in BOOLEAN
    BY <1>5 DEF NovaEnsureCell
  <2>. QED
    BY <1>5, <2>1, <2>3, <2>4, <2>5 DEF NovaEnsureCell
<1>6. CASE NovaEnsureTop
  <2>1. Content(Top, view) \in Contents
    BY CellFacts, ContentType
  <2>2. input' \in [Units -> Contents \cup {NoInput}]
    BY <1>6, <2>1 DEF NovaEnsureTop
  <2>3. allReady' \in BOOLEAN
    BY <1>6 DEF NovaEnsureTop
  <2>4. pending' \subseteq Kinds
    BY <1>6, CellFacts DEF NovaEnsureTop
  <2>5. pc' \in {"patch", "release"}
    BY <1>6 DEF NovaEnsureTop
  <2>. QED
    BY <1>6, <2>2, <2>3, <2>4, <2>5 DEF NovaEnsureTop
<1>7. ASSUME NEW k \in Kinds, NovaRelease(k) PROVE TypeOK'
  BY <1>7, <1>m DEF NovaRelease, FinalizeSecretRotation
<1>8. CASE NovaPrune
  BY <1>8 DEF NovaPrune
<1>9. CASE NovaPatch
  <2>1. next' \in 1 .. Len(CellOrder) + 1
    BY <1>9, <1>c DEF NovaPatch, Return
  <2>. QED
    BY <1>9, <2>1, NoNamesType DEF NovaPatch, Return
<1>10. CASE NovaError
  BY <1>10, <1>c DEF NovaError
<1>11. CASE NovaCrash
  <2>1. next' \in 1 .. Len(CellOrder) + 1 /\ faults' \in 0 .. MaxFaults
    BY <1>11, <1>c DEF NovaCrash, Return
  <2>. QED
    BY <1>11, <2>1, NoNamesType DEF NovaCrash, Return
<1>12. ASSUME NEW u \in Units, CacheSync(u) PROVE TypeOK'
  BY <1>12 DEF CacheSync
<1>13. ASSUME NEW c \in Cells, CellReconcile(c) PROVE TypeOK'
  <2>1. /\ cellReady' \in [Cells -> BOOLEAN]
        /\ cellApplied' \in [Cells -> Contents \cup {NoInput}]
    BY <1>13, CellFacts DEF CellReconcile
  <2>. QED
    BY <1>13, <2>1 DEF CellReconcile
<1>14. ASSUME NEW s \in Services, SvcReconcile(s) PROVE TypeOK'
  <2>1. cache[UnitOf[s]] \in Contents \cup {NoInput}
    BY RotationConstants
  <2>2. /\ template' \in [Services -> Contents \cup {NoInput}]
        /\ applied' \in [Services -> Contents \cup {NoInput}]
    BY <1>14, <2>1 DEF SvcReconcile
  <2>3. ready' \in [Services -> BOOLEAN]
    BY <1>14 DEF SvcReconcile, IsReadyForInput
  <2>. QED
    BY <1>14, <2>2, <2>3 DEF SvcReconcile
<1>15. ASSUME NEW s \in Services, SvcError(s) PROVE TypeOK'
  BY <1>15, <1>c DEF SvcError
<1>16. ASSUME NEW s \in Services, PodStart(s) PROVE TypeOK'
  BY <1>16 DEF PodStart
<1>17. ASSUME NEW s \in Services, PodReplace(s) PROVE TypeOK'
  BY <1>17 DEF PodReplace
<1>18. CASE UNCHANGED vars
  BY <1>18 DEF vars
<1>. QED
  BY <1>1, <1>2, <1>3, <1>4, <1>5, <1>6, <1>7, <1>8, <1>9, <1>10, <1>11,
     <1>12, <1>13, <1>14, <1>15, <1>16, <1>17, <1>18 DEF ToggleNext, Next, Nova

(* Users who toggle do no more than ToggleSpec allows; the others less.    *)
LEMMA NextToggles == [Next]_vars => [ToggleNext]_vars
  BY DEF ToggleNext

(* Every reachable state is well typed, also with a user who toggles.      *)
THEOREM TypeCorrect == (Spec => []TypeOK) /\ (ToggleSpec => []TypeOK)
<1>1. TypeOK /\ [ToggleNext]_vars => TypeOK'
  BY TypeStep
<1>2. ToggleSpec => []TypeOK
  BY <1>1, TypeInit, PTL DEF ToggleSpec
<1>3. Spec => ToggleSpec
  BY NextToggles, PTL DEF Spec, ToggleSpec
<1>. QED
  BY <1>2, <1>3

-----------------------------------------------------------------------------
(* The order of contents.                                                  *)
LEMMA NotNewerRefl ==
  ASSUME NEW p \in Contents PROVE NotNewer(p, p)
  BY DEF NotNewer, Contents, Name

LEMMA NotNewerTrans ==
  ASSUME NEW p \in Contents, NEW q \in Contents, NEW r \in Contents,
         NotNewer(p, q), NotNewer(q, r)
  PROVE  NotNewer(p, r)
  BY DEF NotNewer, Contents, Name

LEMMA NotNewerAntisym ==
  ASSUME NEW p \in Contents, NEW q \in Contents,
         NotNewer(p, q), NotNewer(q, p)
  PROVE  p = q
  BY DEF NotNewer, Contents, Name

(* Newer names make a newer content.                                       *)
LEMMA ContentMonotone ==
  ASSUME NEW u \in Units, NEW m \in Contents, NEW n \in Contents,
         NotNewer(m, n)
  PROVE  NotNewer(Content(u, m), Content(u, n))
  BY DEF NotNewer, Content, Contents, Name

(* The creds of a content built from names that all carry the finalizer.   *)
LEMMA ContentCreds ==
  ASSUME NEW u \in Units, NEW names \in Contents, NEW F,
         \A k \in Kinds : names[k] # 0 => <<k, names[k]>> \in F
  PROVE  CredsOf(Content(u, names)) \subseteq F
<1>1. Content(u, names) # NoInput
  BY ContentType
<1>2. ASSUME NEW k \in Kinds, Content(u, names)[k] # 0
      PROVE  <<k, Content(u, names)[k]>> \in F
  BY <1>2 DEF Content
<1>. QED
  BY <1>1, <1>2 DEF CredsOf

(* A service is never ahead of the Secret of its unit ...                  *)
LEMMA ServiceChain ==
  ASSUME TypeOK, CacheLags, RolloutLags, ReportsLag,
         NEW s \in Services, applied[s] # NoInput
  PROVE  LET u == UnitOf[s] IN
         /\ u \in Units
         /\ applied[s] \in Contents
         /\ template[s] \in Contents /\ NotNewer(applied[s], template[s])
         /\ cache[u] \in Contents /\ NotNewer(template[s], cache[u])
         /\ input[u] \in Contents /\ NotNewer(cache[u], input[u])
         /\ NotNewer(applied[s], input[u])
<1> DEFINE u == UnitOf[s]
<1>1. u \in Units
  BY RotationConstants
<1>2. applied[s] \in Contents
  BY DEF TypeOK
<1>3. template[s] \in Contents /\ NotNewer(applied[s], template[s])
  BY DEF TypeOK, ReportsLag
<1>4. cache[u] \in Contents /\ NotNewer(template[s], cache[u])
  BY <1>1, <1>3, RotationConstants DEF TypeOK, ReportsLag, RolloutLags
<1>5. input[u] \in Contents /\ NotNewer(cache[u], input[u])
  BY <1>1, <1>4, RotationConstants DEF TypeOK, CacheLags
<1>6. NotNewer(applied[s], input[u])
  BY <1>2, <1>3, <1>4, <1>5, NotNewerTrans
<1>. QED
  BY <1>1, <1>2, <1>3, <1>4, <1>5, <1>6

(* ... so one that reports the content of that Secret, or a newer one, as  *)
(* applied is on it, template and pods and all.                            *)
LEMMA AppliedInput ==
  ASSUME TypeOK, CacheLags, RolloutLags, ReportsLag,
         NEW s \in Services, applied[s] # NoInput,
         NotNewer(input[UnitOf[s]], applied[s])
  PROVE  /\ applied[s] = input[UnitOf[s]]
         /\ template[s] = input[UnitOf[s]]
         /\ cache[UnitOf[s]] = input[UnitOf[s]]
         /\ pods[s] = {input[UnitOf[s]]}
<1> DEFINE u == UnitOf[s]
<1>1. /\ applied[s] \in Contents
      /\ template[s] \in Contents /\ NotNewer(applied[s], template[s])
      /\ cache[u] \in Contents /\ NotNewer(template[s], cache[u])
      /\ input[u] \in Contents /\ NotNewer(cache[u], input[u])
      /\ NotNewer(applied[s], input[u])
  BY ServiceChain
<1>2. applied[s] = input[u]
  BY <1>1, NotNewerAntisym
<1>3. NotNewer(template[s], input[u]) /\ NotNewer(input[u], cache[u])
  BY <1>1, <1>2, NotNewerTrans
<1>4. template[s] = input[u] /\ cache[u] = input[u]
  BY <1>1, <1>2, <1>3, NotNewerAntisym
<1>5. ASSUME NEW p \in pods[s] PROVE p = input[u]
  <2>1. p \in Contents /\ NotNewer(p, template[s])
    BY DEF TypeOK, RolloutLags
  <2>2. NotNewer(applied[s], p)
    BY DEF ReportsLag
  <2>. QED
    BY <1>1, <1>2, <1>4, <2>1, <2>2, NotNewerAntisym
<1>6. pods[s] # {}
  BY DEF ReportsLag
<1>. QED
  BY <1>2, <1>4, <1>5, <1>6

-----------------------------------------------------------------------------
(* A cell that has applied the content of its Secret, or a newer one, has  *)
(* every service on it.                                                    *)
LEMMA CellSettled ==
  ASSUME TypeOK, CacheLags, RolloutLags, ReportsLag,
         NEW c \in Cells, cellApplied[c] # NoInput, input[c] \in Contents,
         NotNewer(input[c], cellApplied[c])
  PROVE  \A s \in ServicesOf(c) :
            /\ applied[s] # NoInput
            /\ NotNewer(input[c], applied[s])
<1> TAKE s \in ServicesOf(c)
<1>1. applied[s] # NoInput /\ NotNewer(cellApplied[c], applied[s])
  BY DEF ReportsLag
<1>2. cellApplied[c] \in Contents /\ applied[s] \in Contents
  BY <1>1 DEF TypeOK, ServicesOf
<1>. QED
  BY <1>1, <1>2, NotNewerTrans

(* While every unit is settled, what is in use, or about to be, is what    *)
(* this reconcile got.                                                     *)
LEMMA SettledCreds ==
  ASSUME TypeOK, CacheLags, RolloutLags, ReportsLag,
         \A u \in Units : Settled(u)
  PROVE  /\ \A u \in Units : /\ input[u] = Content(u, view)
                             /\ cache[u] = Content(u, view)
         /\ \A s \in Services : LET data == Content(UnitOf[s], view) IN
               /\ template[s] = data
               /\ pods[s] = {data}
<1>1. \A u \in Units : input[u] = Content(u, view) /\ input[u] \in Contents
  BY ContentType DEF Settled, TypeOK
<1>2. ASSUME NEW s \in Services
      PROVE  /\ template[s] = input[UnitOf[s]]
             /\ cache[UnitOf[s]] = input[UnitOf[s]]
             /\ pods[s] = {input[UnitOf[s]]}
  <2>1. UnitOf[s] \in Units
    BY RotationConstants
  <2>2. applied[s] = input[UnitOf[s]]
    BY <2>1 DEF Settled, ServicesOf
  <2>3. applied[s] # NoInput /\ NotNewer(input[UnitOf[s]], applied[s])
    BY <1>1, <2>1, <2>2, NotNewerRefl, RotationConstants
  <2>. QED
    BY <2>3, AppliedInput
<1>3. \A u \in Units : cache[u] = Content(u, view)
  BY <1>1, <1>2, RotationConstants
<1>4. \A s \in Services : UnitOf[s] \in Units
  BY RotationConstants
<1>. QED
  BY <1>1, <1>2, <1>3, <1>4

(* The release and the prune: taking a name that is not in the view off    *)
(* the finalizers leaves everything protected once all units are settled.  *)
LEMMA ReleaseUnused ==
  ASSUME RotationInv, pc # "idle", \A u \in Units : Settled(u),
         NEW f,
         \A k \in Kinds : view[k] # 0 => f # <<k, view[k]>>,
         finalizers' = finalizers \ {f},
         UNCHANGED <<input, cache, template, pods, view>>
  PROVE  /\ Protected'
         /\ \A k \in Kinds : view'[k] # 0 => <<k, view'[k]>> \in finalizers'
<1>1. \A k \in Kinds : view[k] # 0 => <<k, view[k]>> \in finalizers'
  BY DEF RotationInv, ViewOK
<1>2. view \in Contents
  BY DEF RotationInv, TypeOK
<1>3. \A u \in Units : CredsOf(Content(u, view)) \subseteq finalizers'
  BY <1>1, <1>2, ContentCreds
<1>4. /\ \A u \in Units : /\ input'[u] = Content(u, view)
                        /\ cache'[u] = Content(u, view)
      /\ \A s \in Services : LET data == Content(UnitOf[s], view) IN
            template'[s] = data /\ pods'[s] = {data}
  BY SettledCreds DEF RotationInv
<1>5. \A s \in Services : UnitOf[s] \in Units
  BY RotationConstants
<1>6. \A u \in Units : CredsOf(input[u])' \cup CredsOf(cache[u])' \subseteq finalizers'
  BY <1>3, <1>4 DEF CredsOf
<1>7. \A s \in Services :
         /\ CredsOf(template[s])' \subseteq finalizers'
         /\ \A p \in pods'[s] : CredsOf(p) \subseteq finalizers'
  BY <1>3, <1>4, <1>5 DEF CredsOf
<1>. QED
  BY <1>1, <1>6, <1>7 DEF Protected

-----------------------------------------------------------------------------
(* The invariant is inductive unless a user toggles.                       *)
LEMMA RotationInit == Init => RotationInv
<1> SUFFICES ASSUME Init PROVE RotationInv
  OBVIOUS
<1>1. TypeOK
  BY TypeInit
<1>2. /\ \A u \in Units : input[u] = NoInput /\ cache[u] = NoInput
      /\ \A s \in Services :
            template[s] = NoInput /\ applied[s] = NoInput /\ pods[s] = {}
      /\ \A c \in Cells : cellApplied[c] = NoInput
  BY DEF Init
<1>3. pc = "idle" /\ allReady = FALSE
  BY DEF Init
<1>4. IssuedBounds
  BY DEF Init, IssuedBounds, NoNames
<1>5. Protected
  BY <1>2 DEF Protected, CredsOf
<1>6. ReportsLag /\ RolloutLags
  BY <1>2 DEF ReportsLag, RolloutLags
<1>7. CacheLags /\ InputsAreIssued
  BY <1>2 DEF CacheLags, InputsAreIssued
<1>8. ViewOK /\ ViewIsLatest /\ ReadyMeansSettled
  BY <1>3 DEF ViewOK, ViewIsLatest, ReadyMeansSettled
<1>. QED
  BY <1>1, <1>4, <1>5, <1>6, <1>7, <1>8 DEF RotationInv

(* The issuers only make names newer.                                      *)
LEMMA IssuerStep ==
  ASSUME RotationInv, TypeOK', NEW k \in Kinds, Withdraw(k) \/ PublishNew(k)
  PROVE  RotationInv'
<1> USE DEF RotationInv
<1>1. /\ UNCHANGED <<finalizers, tracked, input, cache, svcVars, cellVars,
                     novaVars, faults>>
      /\ \/ UNCHANGED <<current, issued>>
         \/ /\ issued' = [issued EXCEPT ![k] = @ + 1]
            /\ current' = [current EXCEPT ![k] = issued[k] + 1]
  BY DEF Withdraw, PublishNew
<1>2. IssuedBounds' /\ NotNewer(current, current')
  <2>1. \A j \in Kinds : current[j] \in Nat /\ issued[j] \in Nat /\ current[j] <= issued[j]
    BY DEF TypeOK, Contents, Name, IssuedBounds
  <2>2. CASE UNCHANGED <<current, issued>>
    BY <2>1, <2>2 DEF IssuedBounds, NotNewer
  <2>3. CASE ~(UNCHANGED <<current, issued>>)
    <3>1. \A j \in Kinds : /\ issued'[j] = IF j = k THEN issued[k] + 1 ELSE issued[j]
                           /\ current'[j] = IF j = k THEN issued[k] + 1 ELSE current[j]
      BY <1>1, <2>3 DEF TypeOK, Contents
    <3>. QED
      BY <2>1, <3>1 DEF IssuedBounds, NotNewer
  <2>. QED
    BY <2>2, <2>3
<1>3. InputsAreIssued'
  <2> SUFFICES ASSUME NEW u \in Units, input[u] # NoInput
               PROVE  NotNewer(input[u], Content(u, current'))
    BY <1>1 DEF InputsAreIssued
  <2>1. current \in Contents /\ current' \in Contents /\ input[u] \in Contents
    BY DEF TypeOK
  <2>2. NotNewer(input[u], Content(u, current))
    BY DEF InputsAreIssued
  <2>3. NotNewer(Content(u, current), Content(u, current'))
    BY <1>2, <2>1, ContentMonotone
  <2>. QED
    BY <2>1, <2>2, <2>3, ContentType, NotNewerTrans
<1>4. ViewOK'
  <2>1. current \in Contents /\ current' \in Contents /\ view \in Contents
    BY DEF TypeOK
  <2>2. pc # "idle" => NotNewer(view, current')
    BY <1>2, <2>1, NotNewerTrans DEF ViewOK
  <2>. QED
    BY <1>1, <2>2 DEF ViewOK, novaVars
<1>5. CacheLags' /\ RolloutLags' /\ ReportsLag' /\ Protected'
  BY <1>1 DEF CacheLags, RolloutLags, ReportsLag, Protected, svcVars, cellVars
<1>6. ViewIsLatest' /\ ReadyMeansSettled'
  BY <1>1 DEF ViewIsLatest, ReadyMeansSettled, Settled, svcVars, novaVars
<1>. QED
  BY <1>2, <1>3, <1>4, <1>5, <1>6

(* The steps of a Nova reconcile that write no input Secret and release    *)
(* nothing.                                                                *)
LEMMA EnsureMQStep ==
  ASSUME RotationInv, TypeOK', NovaEnsureMQ
  PROVE  RotationInv'
<1> USE DEF RotationInv
<1>1. /\ UNCHANGED <<issuerVars, tracked, input, cache, svcVars, cellVars, faults>>
      /\ pc = "idle" /\ available[AC]
  BY DEF NovaEnsureMQ
<1>2. finalizers \subseteq finalizers'
  BY DEF NovaEnsureMQ, ManageSecretConsumerFinalizer
<1>3. IssuedBounds' /\ InputsAreIssued' /\ CacheLags' /\ RolloutLags' /\ ReportsLag'
  BY <1>1 DEF IssuedBounds, InputsAreIssued, CacheLags, RolloutLags, ReportsLag,
              issuerVars, svcVars, cellVars
<1>4. Protected'
  BY <1>1, <1>2 DEF Protected, svcVars
<1>5. CASE UNCHANGED novaVars
  BY <1>1, <1>3, <1>4, <1>5
     DEF ViewOK, ViewIsLatest, ReadyMeansSettled, novaVars
<1>6. CASE ~(UNCHANGED novaVars)
  <2>1. /\ available[Notif]
        /\ finalizers' = ManageSecretConsumerFinalizer(Kinds)
        /\ view' = [k \in Kinds |-> ensureMQ(k)]
        /\ pc' = "cells" /\ next' = 1
        /\ cell0Ready' = FALSE
    BY <1>6 DEF NovaEnsureMQ
  <2>2. \A k \in Kinds : ensureMQ(k) = IF available[k] THEN current[k] ELSE 0
    BY DEF ensureMQ
  <2>3. NotNewer(view', current)
    <3> SUFFICES ASSUME NEW k \in Kinds PROVE view'[k] <= current[k]
      BY DEF NotNewer
    <3>1. current[k] \in Nat
      BY DEF TypeOK, Contents, Name
    <3>. QED
      BY <2>1, <2>2, <3>1
  <2>4. \A k \in Kinds : view'[k] # 0 => <<k, view'[k]>> \in finalizers'
    BY <2>1 DEF ManageSecretConsumerFinalizer
  <2>5. ViewOK'
    BY <1>1, <2>1, <2>3, <2>4 DEF ViewOK, issuerVars
  <2>6. ViewIsLatest'
    <3> SUFFICES ASSUME NEW u \in Units, input[u] # NoInput, view'[BusOf(u)] # 0
                 PROVE  NotNewer(input[u], Content(u, view'))
      BY <1>1 DEF ViewIsLatest
    <3>1. BusOf(u) \in Kinds /\ Uses(u) \subseteq Kinds
      BY CellFacts
    <3>2. \A k \in Uses(u) : view'[k] = current[k]
      BY <1>1, <2>1, <2>2, <3>1 DEF Uses
    <3>3. Content(u, view') = Content(u, current)
      BY <3>2 DEF Content
    <3>. QED
      BY <3>3 DEF InputsAreIssued
  <2>7. ReadyMeansSettled'
    BY <2>1 DEF ReadyMeansSettled
  <2>. QED
    BY <1>3, <1>4, <2>5, <2>6, <2>7
<1>. QED
  BY <1>5, <1>6

(* A reconcile that ends, whether patched, cut short or crashed.           *)
LEMMA EndStep ==
  ASSUME RotationInv, TypeOK', NovaPatch \/ NovaError \/ NovaCrash
  PROVE  RotationInv'
<1> USE DEF RotationInv
<1>1. /\ UNCHANGED <<issuerVars, finalizers, input, cache, svcVars, cellVars>>
      /\ \/ pc' = "idle"
         \/ pc # "idle" /\ pc' = "patch" /\ UNCHANGED localVars
  BY DEF NovaPatch, NovaError, NovaCrash, Return
<1>2. IssuedBounds' /\ InputsAreIssued' /\ CacheLags' /\ RolloutLags' /\ ReportsLag'
  BY <1>1 DEF IssuedBounds, InputsAreIssued, CacheLags, RolloutLags, ReportsLag,
              issuerVars, svcVars, cellVars
<1>3. Protected'
  BY <1>1 DEF Protected, svcVars
<1>4. ViewOK' /\ ViewIsLatest' /\ ReadyMeansSettled'
  BY <1>1 DEF ViewOK, ViewIsLatest, ReadyMeansSettled, issuerVars, localVars
<1>. QED
  BY <1>2, <1>3, <1>4

(* One turn of the loop over the cells.                                    *)
LEMMA EnsureCellStep ==
  ASSUME RotationInv, TypeOK', NovaEnsureCell
  PROVE  RotationInv'
<1> USE DEF RotationInv
<1> DEFINE c == CellOrder[next]
           data == Content(c, view)
<1>1. /\ pc = "cells" /\ next \in 1 .. Len(CellOrder) /\ next' = next + 1
      /\ UNCHANGED <<issuerVars, finalizers, tracked, cache, svcVars, cellVars,
                     pc, view, mem, pending>>
  BY DEF NovaEnsureCell, TypeOK
<1>2. c \in Cells /\ c \in Units
  BY <1>1, CellFacts
<1>3. view \in Contents /\ data \in Contents /\ data # NoInput
  BY <1>2, ContentType DEF TypeOK
<1>4. IssuedBounds' /\ RolloutLags' /\ ReportsLag'
  BY <1>1 DEF IssuedBounds, RolloutLags, ReportsLag, issuerVars, svcVars, cellVars
<1>5. CASE allReady' = FALSE /\ UNCHANGED <<input, cell0Ready>>
  <2>1. InputsAreIssued' /\ CacheLags' /\ Protected'
    BY <1>1, <1>5 DEF InputsAreIssued, CacheLags, Protected, issuerVars, svcVars
  <2>2. ViewOK' /\ ViewIsLatest' /\ ReadyMeansSettled'
    BY <1>1, <1>5 DEF ViewOK, ViewIsLatest, ReadyMeansSettled, issuerVars
  <2>. QED
    BY <1>4, <2>1, <2>2
<1>6. CASE /\ ~SkipCell(c)
           /\ input' = [input EXCEPT ![c] = data]
           /\ allReady' = (allReady /\ CellHasApplied(c, data))
           /\ cell0Ready' = IF c = Cell0 THEN cellReady[c] ELSE cell0Ready
  <2>1. \A u \in Units : input'[u] = IF u = c THEN data ELSE input[u]
    BY <1>6 DEF TypeOK
  <2>2. view[BusOf(c)] # 0
    BY <1>6 DEF SkipCell
  <2>3. input[c] # NoInput => input[c] \in Contents /\ NotNewer(input[c], data)
    BY <1>1, <1>2, <2>2 DEF ViewIsLatest, TypeOK
  <2>4. InputsAreIssued'
    <3>1. NotNewer(data, Content(c, current))
      BY <1>1, <1>2, <1>3, ContentMonotone DEF ViewOK, TypeOK
    <3>. QED
      BY <1>1, <2>1, <3>1 DEF InputsAreIssued, issuerVars
  <2>5. CacheLags'
    <3>1. cache[c] # NoInput => NotNewer(cache[c], data)
      BY <1>2, <1>3, <2>3, NotNewerTrans DEF CacheLags, TypeOK
    <3>. QED
      BY <1>1, <1>3, <2>1, <3>1 DEF CacheLags
  <2>6. Protected'
    <3>1. CredsOf(data) \subseteq finalizers
      BY <1>1, <1>2, <1>3, ContentCreds DEF ViewOK
    <3>2. \A u \in Units : CredsOf(input'[u]) \subseteq finalizers
      BY <2>1, <3>1 DEF Protected
    <3>. QED
      BY <1>1, <3>2 DEF Protected, svcVars, CredsOf
  <2>7. ViewOK'
    <3>1. c = Cell0 => view[API] # 0
      BY <2>2, CellFacts DEF BusOf, CellKinds
    <3>. QED
      BY <1>1, <1>6, <3>1 DEF ViewOK, issuerVars
  <2>8. ViewIsLatest'
    <3>1. NotNewer(data, data)
      BY <1>3, NotNewerRefl
    <3>. QED
      BY <1>1, <2>1, <3>1 DEF ViewIsLatest
  <2>9. ReadyMeansSettled'
    <3> SUFFICES ASSUME allReady', NEW i \in 1 .. next' - 1
                 PROVE  Settled(CellOrder[i])'
      BY <1>1 DEF ReadyMeansSettled
    <3>1. allReady /\ cellApplied[c] = data
      BY <1>6 DEF CellHasApplied
    <3>2. CellOrder[i] \in Units /\ i \in 1 .. Len(CellOrder)
      BY <1>1, CellFacts DEF TypeOK
    <3>3. CASE CellOrder[i] = c
      <4>1. cache[c] # NoInput => input[c] \in Contents
        BY <1>2 DEF CacheLags, TypeOK
      <4>2. ASSUME NEW s \in ServicesOf(c) PROVE applied[s] = data
        <5>1. applied[s] # NoInput /\ NotNewer(data, applied[s])
          BY <1>2, <1>3, <3>1 DEF ReportsLag
        <5>2. s \in Services /\ UnitOf[s] = c
          BY DEF ServicesOf
        <5>3. applied[s] \in Contents /\ NotNewer(applied[s], input[c]) /\ input[c] \in Contents
          BY <5>1, <5>2, ServiceChain
        <5>4. NotNewer(applied[s], data)
          BY <1>3, <2>3, <5>3, NotNewerTrans, RotationConstants
        <5>. QED
          BY <1>3, <5>1, <5>3, <5>4, NotNewerAntisym
      <4>. QED
        BY <1>1, <1>2, <2>1, <3>3, <4>2 DEF Settled, svcVars
    <3>4. CASE CellOrder[i] # c
      <4>1. i \in 1 .. next - 1
        BY <1>1, <3>2, <3>4
      <4>2. Settled(CellOrder[i])
        BY <1>1, <3>1, <4>1 DEF ReadyMeansSettled
      <4>. QED
        BY <1>1, <2>1, <3>2, <3>4, <4>2 DEF Settled, svcVars
    <3>. QED
      BY <3>3, <3>4
  <2>. QED
    BY <1>4, <2>4, <2>5, <2>6, <2>7, <2>8, <2>9
<1>. QED
  BY <1>5, <1>6 DEF NovaEnsureCell

(* The top-level services.                                                 *)
LEMMA EnsureTopStep ==
  ASSUME RotationInv, TypeOK', NovaEnsureTop
  PROVE  RotationInv'
<1> USE DEF RotationInv
<1> DEFINE data == Content(Top, view)
<1>1. /\ pc = "cells" /\ next > Len(CellOrder)
      /\ UNCHANGED <<issuerVars, finalizers, tracked, cache, svcVars, cellVars,
                     next, view, mem, cell0Ready, faults>>
  BY DEF NovaEnsureTop
<1>2. Top \in Units /\ Top \notin Cells /\ BusOf(Top) = API
  BY CellFacts, RotationConstants DEF BusOf, CellKinds
<1>3. view \in Contents /\ data \in Contents /\ data # NoInput
  BY <1>2, ContentType DEF TypeOK
<1>4. IssuedBounds' /\ RolloutLags' /\ ReportsLag'
  BY <1>1 DEF IssuedBounds, RolloutLags, ReportsLag, issuerVars, svcVars, cellVars
<1>5. CASE pc' = "patch" /\ UNCHANGED <<input, allReady>>
  <2>1. InputsAreIssued' /\ CacheLags' /\ Protected'
    BY <1>1, <1>5 DEF InputsAreIssued, CacheLags, Protected, issuerVars, svcVars
  <2>2. ViewOK' /\ ViewIsLatest' /\ ReadyMeansSettled'
    BY <1>1, <1>5 DEF ViewOK, ViewIsLatest, ReadyMeansSettled, issuerVars
  <2>. QED
    BY <1>4, <2>1, <2>2
<1>6. CASE /\ cell0Ready
           /\ input' = [input EXCEPT ![Top] = data]
           /\ allReady' = (/\ allReady
                           /\ \A s \in ServicesOf(Top) : ServiceHasApplied(s, data))
           /\ pc' = "release"
  <2>1. \A u \in Units : input'[u] = IF u = Top THEN data ELSE input[u]
    BY <1>6 DEF TypeOK
  <2>2. view[API] # 0
    BY <1>1, <1>6 DEF ViewOK
  <2>3. input[Top] # NoInput => input[Top] \in Contents /\ NotNewer(input[Top], data)
    BY <1>1, <1>2, <2>2 DEF ViewIsLatest, TypeOK
  <2>4. InputsAreIssued'
    <3>1. NotNewer(data, Content(Top, current))
      BY <1>1, <1>2, <1>3, ContentMonotone DEF ViewOK, TypeOK
    <3>. QED
      BY <1>1, <2>1, <3>1 DEF InputsAreIssued, issuerVars
  <2>5. CacheLags'
    <3>1. cache[Top] # NoInput => NotNewer(cache[Top], data)
      BY <1>2, <1>3, <2>3, NotNewerTrans DEF CacheLags, TypeOK
    <3>. QED
      BY <1>1, <1>3, <2>1, <3>1 DEF CacheLags
  <2>6. Protected'
    <3>1. CredsOf(data) \subseteq finalizers
      BY <1>1, <1>2, <1>3, ContentCreds DEF ViewOK
    <3>2. \A u \in Units : CredsOf(input'[u]) \subseteq finalizers
      BY <2>1, <3>1 DEF Protected
    <3>. QED
      BY <1>1, <3>2 DEF Protected, svcVars, CredsOf
  <2>7. ViewOK' /\ ViewIsLatest'
    BY <1>1, <1>6 DEF ViewOK, ViewIsLatest, issuerVars
  <2>8. ReadyMeansSettled'
    <3> SUFFICES ASSUME allReady', NEW u \in Units PROVE Settled(u)'
      BY <1>6 DEF ReadyMeansSettled
    <3>1. allReady /\ \A s \in ServicesOf(Top) : applied[s] = data
      BY <1>6 DEF ServiceHasApplied
    <3>2. CASE u = Top
      BY <1>1, <1>2, <2>1, <3>1, <3>2 DEF Settled, svcVars
    <3>3. CASE u # Top
      <4>1. PICK i \in 1 .. Len(CellOrder) : u = CellOrder[i]
        BY <3>3, CellFacts DEF Units
      <4>2. i \in 1 .. next - 1
        BY <1>1, <4>1, CellFacts DEF TypeOK
      <4>3. Settled(u)
        BY <1>1, <3>1, <4>1, <4>2 DEF ReadyMeansSettled
      <4>. QED
        BY <1>1, <2>1, <3>3, <4>3 DEF Settled, svcVars
    <3>. QED
      BY <3>2, <3>3
  <2>. QED
    BY <1>4, <2>4, <2>5, <2>6, <2>7, <2>8
<1>. QED
  BY <1>5, <1>6 DEF NovaEnsureTop

(* A release: all units are settled, so only the tracked name that is no   *)
(* longer in the view goes.                                                *)
LEMMA ReleaseStep ==
  ASSUME RotationInv, TypeOK', NEW k \in Kinds, NovaRelease(k)
  PROVE  RotationInv'
<1> USE DEF RotationInv
<1>1. /\ pc = "release" /\ FinalizeSecretRotation(k)
      /\ pc' \in {"release", "prune", "patch"}
      /\ pc' = "prune" => allReady
      /\ UNCHANGED <<issuerVars, tracked, input, cache, svcVars, cellVars,
                     next, view, cell0Ready, allReady, faults>>
  BY DEF NovaRelease
<1>2. /\ IssuedBounds' /\ InputsAreIssued' /\ CacheLags' /\ RolloutLags'
      /\ ReportsLag'
  BY <1>1 DEF IssuedBounds, InputsAreIssued, CacheLags, RolloutLags, ReportsLag,
              issuerVars, svcVars, cellVars
<1>3. /\ Protected'
      /\ \A j \in Kinds : view'[j] # 0 => <<j, view'[j]>> \in finalizers'
  <2>1. CASE finalizers' = finalizers
    BY <1>1, <2>1 DEF Protected, ViewOK, svcVars
  <2>2. CASE finalizers' # finalizers
    <3>1. /\ allReady /\ mem[k] # view[k]
          /\ finalizers' = finalizers \ {<<k, mem[k]>>}
      BY <1>1, <2>2 DEF FinalizeSecretRotation
    <3>2. \A u \in Units : Settled(u)
      BY <1>1, <3>1 DEF ReadyMeansSettled
    <3>3. \A j \in Kinds : view[j] # 0 => <<k, mem[k]>> # <<j, view[j]>>
      BY <3>1
    <3>. QED
      BY <1>1, <3>1, <3>2, <3>3, ReleaseUnused DEF svcVars
  <2>. QED
    BY <2>1, <2>2
<1>4. ViewOK' /\ ViewIsLatest'
  BY <1>1, <1>3 DEF ViewOK, ViewIsLatest, issuerVars
<1>5. ReadyMeansSettled'
  BY <1>1 DEF ReadyMeansSettled, Settled, svcVars
<1>. QED
  BY <1>2, <1>3, <1>4, <1>5

(* A prune: a transport secret that transportKeep does not list goes.      *)
LEMMA PruneStep ==
  ASSUME RotationInv, TypeOK', NovaPrune
  PROVE  RotationInv'
<1> USE DEF RotationInv
<1>1. /\ pc = "prune"
      /\ UNCHANGED <<issuerVars, tracked, input, cache, svcVars, cellVars,
                     localVars, faults>>
      /\ \/ pc' = "patch" /\ UNCHANGED finalizers
         \/ UNCHANGED pc /\ \E f \in Stranded : finalizers' = finalizers \ {f}
  BY DEF NovaPrune
<1>2. /\ IssuedBounds' /\ InputsAreIssued' /\ CacheLags' /\ RolloutLags'
      /\ ReportsLag'
  BY <1>1 DEF IssuedBounds, InputsAreIssued, CacheLags, RolloutLags, ReportsLag,
              issuerVars, svcVars, cellVars
<1>3. /\ Protected'
      /\ \A j \in Kinds : view'[j] # 0 => <<j, view'[j]>> \in finalizers'
  <2>1. CASE UNCHANGED finalizers
    BY <1>1, <2>1 DEF Protected, ViewOK, svcVars, localVars
  <2>2. CASE \E f \in Stranded : finalizers' = finalizers \ {f}
    <3>1. PICK f \in Stranded : finalizers' = finalizers \ {f}
      BY <2>2
    <3>2. \A u \in Units : Settled(u)
      BY <1>1 DEF ReadyMeansSettled
    <3>3. \A j \in Kinds : view[j] # 0 => f # <<j, view[j]>>
      <4> SUFFICES ASSUME NEW j \in Kinds, f = <<j, view[j]>> PROVE FALSE
        OBVIOUS
      <4>1. f[1] # AC /\ f \notin transportKeep
        BY DEF Stranded
      <4>2. j \in Kinds \ {AC}
        BY <4>1
      <4>. QED
        BY <4>1, <4>2 DEF transportKeep
    <3>. QED
      BY <1>1, <3>1, <3>2, <3>3, ReleaseUnused DEF svcVars, localVars
  <2>. QED
    BY <1>1, <2>1, <2>2
<1>4. ViewOK' /\ ViewIsLatest'
  BY <1>1, <1>3 DEF ViewOK, ViewIsLatest, issuerVars, localVars
<1>5. ReadyMeansSettled'
  BY <1>1 DEF ReadyMeansSettled, Settled, svcVars, localVars
<1>. QED
  BY <1>2, <1>3, <1>4, <1>5

-----------------------------------------------------------------------------
(* The informer cache catches up with a Secret.                            *)
LEMMA CacheSyncStep ==
  ASSUME RotationInv, TypeOK', NEW u \in Units, CacheSync(u)
  PROVE  RotationInv'
<1> USE DEF RotationInv
<1>1. /\ cache[u] # input[u]
      /\ UNCHANGED <<issuerVars, finalizers, tracked, input, svcVars, cellVars,
                     novaVars, faults>>
  BY DEF CacheSync
<1>2. \A v \in Units : cache'[v] = IF v = u THEN input[u] ELSE cache[v]
  BY DEF CacheSync, TypeOK
<1>3. /\ \A v \in Units : input[v] # NoInput => input[v] \in Contents
      /\ \A v \in Units : cache[v] # NoInput => cache[v] \in Contents
  BY DEF TypeOK
<1>4. IssuedBounds' /\ InputsAreIssued' /\ ReportsLag'
  BY <1>1 DEF IssuedBounds, InputsAreIssued, ReportsLag, issuerVars, svcVars, cellVars
<1>5. CacheLags'
  BY <1>1, <1>2, <1>3, NotNewerRefl DEF CacheLags
<1>6. RolloutLags'
  <2> SUFFICES ASSUME NEW s \in Services, template[s] # NoInput
               PROVE  /\ cache'[UnitOf[s]] # NoInput
                      /\ NotNewer(template[s], cache'[UnitOf[s]])
    BY <1>1 DEF RolloutLags, svcVars
  <2>1. UnitOf[s] \in Units /\ template[s] \in Contents
    BY RotationConstants DEF TypeOK
  <2>2. cache[UnitOf[s]] # NoInput /\ NotNewer(template[s], cache[UnitOf[s]])
    BY DEF RolloutLags
  <2>3. input[UnitOf[s]] # NoInput /\ NotNewer(cache[UnitOf[s]], input[UnitOf[s]])
    BY <2>1, <2>2 DEF CacheLags
  <2>4. NotNewer(template[s], input[UnitOf[s]])
    BY <1>3, <2>1, <2>2, <2>3, NotNewerTrans
  <2>. QED
    BY <1>2, <2>1, <2>2, <2>3, <2>4
<1>7. Protected'
  <2>1. \A v \in Units : CredsOf(cache'[v]) \subseteq finalizers
    BY <1>2 DEF Protected
  <2>. QED
    BY <1>1, <2>1 DEF Protected, svcVars, CredsOf
<1>8. ViewOK' /\ ViewIsLatest' /\ ReadyMeansSettled'
  BY <1>1 DEF ViewOK, ViewIsLatest, ReadyMeansSettled, Settled, issuerVars,
              svcVars, novaVars
<1>. QED
  BY <1>4, <1>5, <1>6, <1>7, <1>8

(* A NovaCell reports what its services report.                            *)
LEMMA CellReconcileStep ==
  ASSUME RotationInv, TypeOK', NEW c \in Cells, CellReconcile(c)
  PROVE  RotationInv'
<1> USE DEF RotationInv
<1>1. /\ UNCHANGED <<issuerVars, finalizers, tracked, input, cache, svcVars,
                     novaVars, faults>>
      /\ cache[c] # NoInput
  BY DEF CellReconcile
<1>2. \A d \in Cells : \/ cellApplied'[d] = cellApplied[d]
                       \/ /\ d = c /\ cellApplied'[c] = cache[c]
                          /\ \A s \in ServicesOf(c) : applied[s] = cache[c]
  BY DEF CellReconcile, TypeOK, ServiceHasApplied
<1>3. ReportsLag'
  <2>1. ASSUME NEW d \in Cells, cellApplied'[d] # NoInput, NEW s \in ServicesOf(d)
        PROVE  applied[s] # NoInput /\ NotNewer(cellApplied'[d], applied[s])
    <3>1. CASE cellApplied'[d] = cellApplied[d]
      BY <2>1, <3>1 DEF ReportsLag
    <3>2. CASE /\ d = c /\ cellApplied'[c] = cache[c]
               /\ \A t \in ServicesOf(c) : applied[t] = cache[c]
      <4>1. cache[c] \in Contents
        BY <1>1, CellFacts DEF TypeOK
      <4>. QED
        BY <1>1, <2>1, <3>2, <4>1, NotNewerRefl
    <3>. QED
      BY <1>2, <3>1, <3>2
  <2>. QED
    BY <1>1, <2>1 DEF ReportsLag, svcVars
<1>4. /\ IssuedBounds' /\ InputsAreIssued' /\ CacheLags' /\ RolloutLags'
      /\ Protected'
  BY <1>1 DEF IssuedBounds, InputsAreIssued, CacheLags, RolloutLags, Protected,
              issuerVars, svcVars
<1>5. ViewOK' /\ ViewIsLatest' /\ ReadyMeansSettled'
  BY <1>1 DEF ViewOK, ViewIsLatest, ReadyMeansSettled, Settled, issuerVars,
              svcVars, novaVars
<1>. QED
  BY <1>3, <1>4, <1>5

(* A service controller renders what it has read, which is not older than  *)
(* what it rendered before.                                                *)
LEMMA SvcReconcileStep ==
  ASSUME RotationInv, TypeOK', NEW s \in Services, SvcReconcile(s)
  PROVE  RotationInv'
<1> USE DEF RotationInv
<1> DEFINE u == UnitOf[s]
           content == cache[u]
<1>1. /\ UNCHANGED <<issuerVars, finalizers, tracked, input, cache, pods,
                     cellVars, novaVars, faults>>
      /\ content # NoInput
  BY DEF SvcReconcile
<1>2. u \in Units /\ content \in Contents
  BY <1>1, RotationConstants DEF TypeOK
<1>3. /\ \A t \in Services : template'[t] = IF t = s THEN content ELSE template[t]
      /\ \A t \in Services :
            \/ applied'[t] = applied[t]
            \/ /\ t = s /\ applied'[s] = content
               /\ template[s] = content /\ pods[s] = {content}
  BY DEF SvcReconcile, TypeOK, IsReadyForInput
<1>4. template[s] # NoInput => template[s] \in Contents /\ NotNewer(template[s], content)
  BY DEF RolloutLags, TypeOK
<1>5. NotNewer(content, content)
  BY <1>2, NotNewerRefl
<1>6. RolloutLags'
  <2>1. \A p \in pods[s] : NotNewer(p, content)
    BY <1>2, <1>4, NotNewerTrans DEF RolloutLags, TypeOK
  <2>. QED
    BY <1>1, <1>2, <1>3, <1>5, <2>1 DEF RolloutLags
<1>7. applied[s] # NoInput => applied[s] \in Contents /\ NotNewer(applied[s], content)
  BY <1>2, <1>4, NotNewerTrans DEF ReportsLag, TypeOK
<1>8. ReportsLag'
  <2>1. ASSUME NEW t \in Services, applied'[t] # NoInput
        PROVE  /\ template'[t] # NoInput
               /\ NotNewer(applied'[t], template'[t])
               /\ pods[t] # {}
               /\ \A p \in pods[t] : NotNewer(applied'[t], p)
    <3>1. CASE t # s
      BY <1>3, <2>1, <3>1 DEF ReportsLag
    <3>2. CASE t = s /\ applied'[s] = applied[s]
      BY <1>1, <1>3, <1>7, <2>1, <3>2 DEF ReportsLag
    <3>3. CASE t = s /\ applied'[s] = content /\ pods[s] = {content}
      BY <1>1, <1>3, <1>5, <3>3
    <3>. QED
      BY <1>3, <3>1, <3>2, <3>3
  <2>2. ASSUME NEW c \in Cells, cellApplied[c] # NoInput, NEW t \in ServicesOf(c)
        PROVE  applied'[t] # NoInput /\ NotNewer(cellApplied[c], applied'[t])
    <3>1. t \in Services
      BY DEF ServicesOf
    <3>2. applied[t] # NoInput /\ NotNewer(cellApplied[c], applied[t])
      BY <2>2 DEF ReportsLag
    <3>3. CASE applied'[t] = applied[t]
      BY <3>2, <3>3
    <3>4. CASE t = s /\ applied'[s] = content
      <4>1. NotNewer(applied[s], content) /\ applied[s] \in Contents
        BY <1>7, <3>2, <3>4
      <4>2. cellApplied[c] \in Contents
        BY <2>2 DEF TypeOK
      <4>3. NotNewer(cellApplied[c], content)
        BY <1>2, <3>2, <3>4, <4>1, <4>2, NotNewerTrans
      <4>. QED
        BY <1>1, <3>4, <4>3
    <3>. QED
      BY <1>3, <3>1, <3>3, <3>4
  <2>. QED
    BY <1>1, <2>1, <2>2 DEF ReportsLag, cellVars
<1>9. Protected'
  <2>1. \A t \in Services : CredsOf(template'[t]) \subseteq finalizers
    BY <1>2, <1>3 DEF Protected
  <2>. QED
    BY <1>1, <2>1 DEF Protected, CredsOf
<1>10. IssuedBounds' /\ InputsAreIssued' /\ CacheLags' /\ ViewOK' /\ ViewIsLatest'
  BY <1>1 DEF IssuedBounds, InputsAreIssued, CacheLags, ViewOK, ViewIsLatest,
              issuerVars, novaVars
<1>11. ReadyMeansSettled'
  <2>1. ASSUME NEW v \in Units, Settled(v) PROVE Settled(v)'
    <3>1. ASSUME NEW t \in ServicesOf(v) PROVE applied'[t] = applied[t]
      <4>1. CASE t = s /\ applied'[s] = content
        <5>1. v = u /\ applied[s] = input[u]
          BY <2>1, <3>1, <4>1 DEF Settled, ServicesOf
        <5>2. applied[s] \in Contents
          BY <1>2, <2>1, <3>1, <4>1, <5>1, ContentType DEF Settled, TypeOK, ServicesOf
        <5>3. applied[s] # NoInput /\ NotNewer(input[u], applied[s])
          BY <5>1, <5>2, NotNewerRefl, RotationConstants
        <5>4. cache[u] = input[u]
          BY <5>3, AppliedInput
        <5>. QED
          BY <4>1, <5>1, <5>4
      <4>. QED
        BY <1>3, <4>1 DEF ServicesOf
    <3>. QED
      BY <1>1, <2>1, <3>1 DEF Settled, novaVars
  <2>2. \A i \in 1 .. next - 1 : pc = "cells" => CellOrder[i] \in Units
    BY CellFacts DEF TypeOK
  <2>. QED
    BY <1>1, <2>1, <2>2 DEF ReadyMeansSettled, novaVars
<1>. QED
  BY <1>6, <1>8, <1>9, <1>10, <1>11

(* Conditions that are reset, pods that come and go.                       *)
LEMMA SvcErrorStep ==
  ASSUME RotationInv, TypeOK', NEW s \in Services, SvcError(s)
  PROVE  RotationInv'
<1> USE DEF RotationInv
<1>1. UNCHANGED <<issuerVars, finalizers, tracked, input, cache, template,
                  pods, applied, cellVars, novaVars>>
  BY DEF SvcError
<1>2. /\ IssuedBounds' /\ InputsAreIssued' /\ CacheLags' /\ RolloutLags'
      /\ ReportsLag' /\ Protected'
  BY <1>1 DEF IssuedBounds, InputsAreIssued, CacheLags, RolloutLags, ReportsLag,
              Protected, issuerVars, cellVars
<1>3. ViewOK' /\ ViewIsLatest' /\ ReadyMeansSettled'
  BY <1>1 DEF ViewOK, ViewIsLatest, ReadyMeansSettled, Settled, issuerVars, novaVars
<1>. QED
  BY <1>2, <1>3

LEMMA PodStep ==
  ASSUME RotationInv, TypeOK', NEW s \in Services, PodStart(s) \/ PodReplace(s)
  PROVE  RotationInv'
<1> USE DEF RotationInv
<1>1. /\ UNCHANGED <<issuerVars, finalizers, tracked, input, cache, template,
                     ready, applied, cellVars, novaVars, faults>>
      /\ template[s] # NoInput
  BY DEF PodStart, PodReplace, TypeOK, RolloutLags
<1>2. \A t \in Services :
         \/ pods'[t] = pods[t]
         \/ /\ t = s /\ template[s] \in pods'[s]
            /\ pods'[s] \subseteq pods[s] \cup {template[s]}
  BY DEF PodStart, PodReplace, TypeOK
<1>3. template[s] \in Contents /\ NotNewer(template[s], template[s])
  BY <1>1, NotNewerRefl DEF TypeOK
<1>4. RolloutLags' /\ ReportsLag'
  BY <1>1, <1>2, <1>3 DEF RolloutLags, ReportsLag, cellVars
<1>5. Protected'
  BY <1>1, <1>2 DEF Protected
<1>6. IssuedBounds' /\ InputsAreIssued' /\ CacheLags'
  BY <1>1 DEF IssuedBounds, InputsAreIssued, CacheLags, issuerVars
<1>7. ViewOK' /\ ViewIsLatest' /\ ReadyMeansSettled'
  BY <1>1 DEF ViewOK, ViewIsLatest, ReadyMeansSettled, Settled, issuerVars, novaVars
<1>. QED
  BY <1>4, <1>5, <1>6, <1>7

LEMMA RotationStep ==
  ASSUME RotationInv, [Next]_vars PROVE RotationInv'
<1>1. TypeOK'
  BY TypeStep, NextToggles DEF RotationInv
<1>2. CASE UNCHANGED vars
  <2>. USE DEF RotationInv
  <2>1. /\ IssuedBounds' /\ InputsAreIssued' /\ CacheLags' /\ RolloutLags'
        /\ ReportsLag' /\ Protected'
    BY <1>2 DEF IssuedBounds, InputsAreIssued, CacheLags, RolloutLags,
                ReportsLag, Protected, vars, issuerVars, svcVars, cellVars
  <2>2. ViewOK' /\ ViewIsLatest' /\ ReadyMeansSettled'
    BY <1>2 DEF ViewOK, ViewIsLatest, ReadyMeansSettled, Settled, vars
  <2>. QED
    BY <1>1, <2>1, <2>2
<1>3. ASSUME NEW k \in Kinds, Withdraw(k) \/ PublishNew(k)
      PROVE  RotationInv'
  BY <1>1, <1>3, IssuerStep
<1>4. CASE Nova
  BY <1>1, <1>4, EnsureMQStep, EnsureCellStep, EnsureTopStep, ReleaseStep,
     PruneStep, EndStep DEF Nova
<1>5. CASE NovaError \/ NovaCrash
  BY <1>1, <1>5, EndStep
<1>6. ASSUME NEW u \in Units, CacheSync(u) PROVE RotationInv'
  BY <1>1, <1>6, CacheSyncStep
<1>7. ASSUME NEW c \in Cells, CellReconcile(c) PROVE RotationInv'
  BY <1>1, <1>7, CellReconcileStep
<1>8. ASSUME NEW s \in Services,
             SvcReconcile(s) \/ SvcError(s) \/ PodStart(s) \/ PodReplace(s)
      PROVE  RotationInv'
  BY <1>1, <1>8, SvcReconcileStep, SvcErrorStep, PodStep
<1>. QED
  BY <1>2, <1>3, <1>4, <1>5, <1>6, <1>7, <1>8 DEF Next

(* RotationInv holds in every reachable state.                             *)
THEOREM RotationInvariant == Spec => []RotationInv
<1>1. RotationInv /\ [Next]_vars => RotationInv'
  BY RotationStep
<1>. QED
  BY <1>1, RotationInit, PTL DEF Spec

-----------------------------------------------------------------------------
(* What the invariant gives.                                               *)
LEMMA ProtectedInUse == RotationInv => InUseProtected
<1> SUFFICES ASSUME RotationInv, NEW f \in InUse PROVE f \in finalizers
  BY DEF InUseProtected
<1>1. PICK s \in Services :
         \/ f \in CredsOf(template[s])
         \/ \E p \in pods[s] : f \in CredsOf(p)
  BY DEF InUse
<1>. QED
  BY <1>1 DEF RotationInv, Protected

LEMMA RolledOutCells == RotationInv => AppliedMeansRolledOut
<1> SUFFICES ASSUME RotationInv, NEW c \in Cells,
                    cellApplied[c] # NoInput, cellApplied[c] = input[c],
                    NEW s \in ServicesOf(c)
             PROVE  IsReadyForInput(s, input[c])
  BY DEF AppliedMeansRolledOut
<1> USE DEF RotationInv
<1>1. input[c] \in Contents /\ NotNewer(input[c], cellApplied[c])
  <2>1. input[c] \in Contents
    BY DEF TypeOK
  <2>. QED
    BY <2>1, NotNewerRefl
<1>2. applied[s] # NoInput /\ NotNewer(input[c], applied[s])
  BY <1>1, CellSettled
<1>3. s \in Services /\ UnitOf[s] = c
  BY DEF ServicesOf
<1>. QED
  BY <1>2, <1>3, AppliedInput DEF IsReadyForInput

(* For every number of cells, services, rotations and failures, provided   *)
(* that no kind goes back to an earlier secret (so Spec, not ToggleSpec):  *)
(* no credential that a pod or a pod template uses loses the consumer      *)
(* finalizer of Nova.                                                      *)
THEOREM RotationSafe == Spec => []InUseProtected
  BY RotationInvariant, ProtectedInUse, PTL

(* Likewise: a NovaCell that reports its Secret as applied is rolled out.  *)
THEOREM AppliedSafe == Spec => []AppliedMeansRolledOut
  BY RotationInvariant, RolledOutCells, PTL

(* What a step does to the finalizers and to what is in use.               *)
LEMMA StepShape ==
  ASSUME TypeOK, [Next]_vars
  PROVE  \/ UNCHANGED finalizers
         \/ UNCHANGED <<template, pods>> /\ finalizers \subseteq finalizers'
         \/ UNCHANGED <<template, pods>> /\ finalizers' \subseteq finalizers
<1>1. ASSUME NEW k \in Kinds, Withdraw(k) \/ PublishNew(k)
      PROVE  UNCHANGED finalizers
  BY <1>1 DEF Withdraw, PublishNew
<1>2. CASE NovaEnsureMQ
  BY <1>2 DEF NovaEnsureMQ, ManageSecretConsumerFinalizer, svcVars
<1>3. CASE NovaEnsureCell \/ NovaEnsureTop \/ NovaPatch \/ NovaError \/ NovaCrash
  BY <1>3 DEF NovaEnsureCell, NovaEnsureTop, NovaPatch, NovaError, NovaCrash
<1>4. ASSUME NEW k \in Kinds, NovaRelease(k)
      PROVE  UNCHANGED <<template, pods>> /\ finalizers' \subseteq finalizers
  BY <1>4 DEF NovaRelease, FinalizeSecretRotation, svcVars
<1>5. CASE NovaPrune
  BY <1>5 DEF NovaPrune, svcVars
<1>6. ASSUME NEW u \in Units, CacheSync(u) PROVE UNCHANGED finalizers
  BY <1>6 DEF CacheSync
<1>7. ASSUME NEW c \in Cells, CellReconcile(c) PROVE UNCHANGED finalizers
  BY <1>7 DEF CellReconcile
<1>8. ASSUME NEW s \in Services,
             SvcReconcile(s) \/ SvcError(s) \/ PodStart(s) \/ PodReplace(s)
      PROVE  UNCHANGED finalizers
  BY <1>8 DEF SvcReconcile, SvcError, PodStart, PodReplace
<1>9. CASE UNCHANGED vars
  BY <1>9 DEF vars
<1>. QED
  BY <1>1, <1>2, <1>3, <1>4, <1>5, <1>6, <1>7, <1>8, <1>9 DEF Next, Nova

(* The rotation implements the abstract lease: the controllers only ever   *)
(* hold, move to what is held, and release what is not used.               *)
LEMMA LeaseInit == Init => Lease!Init
<1> SUFFICES ASSUME Init PROVE Lease!Init
  OBVIOUS
<1>1. \A s \in Services : template[s] = NoInput /\ pods[s] = {}
  BY DEF Init
<1>2. InUse = {}
  BY <1>1 DEF InUse, CredsOf
<1>. QED
  BY <1>2 DEF Init, Lease!Init

LEMMA ProtectedInUseNext == RotationInv' => InUseProtected'
  BY ProtectedInUse, PTL

LEMMA LeaseStep ==
  ASSUME RotationInv, RotationInv', [Next]_vars
  PROVE  [Lease!Next]_(Lease!vars)
<1>1. InUse' \subseteq finalizers'
  BY ProtectedInUseNext DEF InUseProtected
<1>2. CASE UNCHANGED finalizers
  BY <1>1, <1>2 DEF Lease!Next, Lease!Move
<1>3. CASE UNCHANGED <<template, pods>>
  <2>1. InUse' = InUse
    BY <1>3 DEF InUse, CredsOf
  <2>2. finalizers' \subseteq Credential
    BY DEF RotationInv, TypeOK
  <2>3. CASE finalizers \subseteq finalizers'
    BY <2>1, <2>2, <2>3 DEF Lease!Next, Lease!Hold
  <2>4. CASE finalizers' \subseteq finalizers
    BY <1>1, <2>1, <2>4 DEF Lease!Next, Lease!Release
  <2>. QED
    BY <1>2, <2>3, <2>4, StepShape DEF RotationInv
<1>. QED
  BY <1>2, <1>3, StepShape DEF RotationInv

THEOREM RotationImplementsLease == Spec => LeaseSpec
<1>1. RotationInv /\ RotationInv' /\ [Next]_vars => [Lease!Next]_(Lease!vars)
  BY LeaseStep
<1>2. Spec => []RotationInv
  BY RotationInvariant
<1>. QED
  BY <1>1, <1>2, LeaseInit, PTL DEF Spec, LeaseSpec, Lease!Spec

-----------------------------------------------------------------------------
(* CurrentStaysHeld holds also of a user who toggles: no release or prune  *)
(* of a reconcile takes a name that the reconcile found current.           *)
ViewHeld == pc # "idle" => \A k \in Kinds : view[k] # 0 => <<k, view[k]>> \in finalizers

LEMMA ViewStaysHeld ==
  ASSUME TypeOK, ViewHeld, [ToggleNext]_vars, pc # "idle",
         NEW k \in Kinds, view[k] # 0
  PROVE  <<k, view[k]>> \in finalizers'
<1>1. <<k, view[k]>> \in finalizers
  BY DEF ViewHeld
<1>2. ASSUME NEW j \in Kinds, NovaRelease(j) PROVE <<k, view[k]>> \in finalizers'
  <2>1. CASE UNCHANGED finalizers
    BY <1>1, <2>1
  <2>2. CASE /\ mem[j] # view[j]
             /\ finalizers' = finalizers \ {<<j, mem[j]>>}
    BY <1>1, <2>2
  <2>. QED
    BY <1>2, <2>1, <2>2 DEF NovaRelease, FinalizeSecretRotation
<1>3. CASE NovaPrune
  <2>1. CASE UNCHANGED finalizers
    BY <1>1, <2>1
  <2>2. ASSUME NEW f \in Stranded, finalizers' = finalizers \ {f}
        PROVE  <<k, view[k]>> \in finalizers'
    <3> SUFFICES ASSUME f = <<k, view[k]>> PROVE FALSE
      BY <1>1, <2>2
    <3>1. f[1] # AC /\ f \notin transportKeep
      BY DEF Stranded
    <3>2. k \in Kinds \ {AC}
      BY <3>1
    <3>. QED
      BY <3>1, <3>2 DEF transportKeep
  <2>. QED
    BY <1>3, <2>1, <2>2 DEF NovaPrune
<1>4. ASSUME ~(\E j \in Kinds : NovaRelease(j)), ~NovaPrune
      PROVE  finalizers \subseteq finalizers'
  <2>1. CASE UNCHANGED vars
    BY <2>1 DEF vars
  <2>2. CASE NovaEnsureMQ
    BY <2>2 DEF NovaEnsureMQ, ManageSecretConsumerFinalizer
  <2>3. CASE NovaEnsureCell \/ NovaEnsureTop \/ NovaPatch \/ NovaError \/ NovaCrash
    BY <2>3 DEF NovaEnsureCell, NovaEnsureTop, NovaPatch, NovaError, NovaCrash
  <2>4. ASSUME NEW j \in Kinds, Withdraw(j) \/ PublishNew(j) \/ PublishOld(j)
        PROVE  finalizers \subseteq finalizers'
    BY <2>4 DEF Withdraw, PublishNew, PublishOld
  <2>5. ASSUME NEW u \in Units, CacheSync(u) PROVE finalizers \subseteq finalizers'
    BY <2>5 DEF CacheSync
  <2>6. ASSUME NEW c \in Cells, CellReconcile(c) PROVE finalizers \subseteq finalizers'
    BY <2>6 DEF CellReconcile
  <2>7. ASSUME NEW s \in Services,
               SvcReconcile(s) \/ SvcError(s) \/ PodStart(s) \/ PodReplace(s)
        PROVE  finalizers \subseteq finalizers'
    BY <2>7 DEF SvcReconcile, SvcError, PodStart, PodReplace
  <2>. QED
    BY <1>4, <2>1, <2>2, <2>3, <2>4, <2>5, <2>6, <2>7 DEF ToggleNext, Next, Nova
<1>. QED
  BY <1>1, <1>2, <1>3, <1>4

LEMMA ViewHeldStep ==
  ASSUME TypeOK, ViewHeld, [ToggleNext]_vars PROVE ViewHeld'
<1> SUFFICES ASSUME pc' # "idle", NEW k \in Kinds, view'[k] # 0
             PROVE  <<k, view'[k]>> \in finalizers'
  BY DEF ViewHeld
<1>1. CASE UNCHANGED view /\ pc # "idle"
  BY <1>1, ViewStaysHeld
<1>2. CASE NovaEnsureMQ /\ ~(UNCHANGED novaVars)
  BY <1>2 DEF NovaEnsureMQ, ManageSecretConsumerFinalizer
<1>3. CASE NovaEnsureMQ /\ UNCHANGED novaVars
  BY <1>3 DEF NovaEnsureMQ, novaVars
<1>4. ASSUME ~NovaEnsureMQ PROVE UNCHANGED view /\ pc # "idle"
  <2>1. CASE UNCHANGED vars
    BY <2>1 DEF vars
  <2>2. CASE Nova
    BY <1>4, <2>2 DEF Nova, NovaEnsureCell, NovaEnsureTop, NovaRelease, NovaPrune,
                      NovaPatch, Return, localVars
  <2>3. CASE NovaError \/ NovaCrash
    BY <2>3 DEF NovaError, NovaCrash, Return, localVars
  <2>4. ASSUME NEW j \in Kinds, Withdraw(j) \/ PublishNew(j) \/ PublishOld(j)
        PROVE  UNCHANGED <<view, pc>>
    BY <2>4 DEF Withdraw, PublishNew, PublishOld, novaVars
  <2>5. ASSUME NEW u \in Units, CacheSync(u) PROVE UNCHANGED <<view, pc>>
    BY <2>5 DEF CacheSync, novaVars
  <2>6. ASSUME NEW c \in Cells, CellReconcile(c) PROVE UNCHANGED <<view, pc>>
    BY <2>6 DEF CellReconcile, novaVars
  <2>7. ASSUME NEW s \in Services,
               SvcReconcile(s) \/ SvcError(s) \/ PodStart(s) \/ PodReplace(s)
        PROVE  UNCHANGED <<view, pc>>
    BY <2>7 DEF SvcReconcile, SvcError, PodStart, PodReplace, novaVars
  <2>. QED
    BY <2>1, <2>2, <2>3, <2>4, <2>5, <2>6, <2>7 DEF ToggleNext, Next
<1>. QED
  BY <1>1, <1>2, <1>3, <1>4

(* A secret that a running reconcile found current keeps its finalizer     *)
(* through every step, also when the user toggles.                         *)
THEOREM CurrentHeld == (Spec => CurrentStaysHeld) /\ (ToggleSpec => CurrentStaysHeld)
<1> DEFINE A == \A k \in Kinds :
                  pc # "idle" /\ view[k] # 0 => <<k, view[k]>> \in finalizers'
<1>1. Init => ViewHeld
  BY DEF Init, ViewHeld
<1>2. TypeOK /\ ViewHeld /\ [ToggleNext]_vars => ViewHeld'
  BY ViewHeldStep
<1>3. TypeOK /\ ViewHeld /\ [ToggleNext]_vars => [A]_vars
  BY ViewStaysHeld
<1>4. ToggleSpec => []TypeOK
  BY TypeCorrect
<1>5. ToggleSpec => CurrentStaysHeld
  BY <1>1, <1>2, <1>3, <1>4, PTL DEF ToggleSpec, CurrentStaysHeld
<1>6. Spec => ToggleSpec
  BY NextToggles, PTL DEF Spec, ToggleSpec
<1>. QED
  BY <1>5, <1>6
=============================================================================
