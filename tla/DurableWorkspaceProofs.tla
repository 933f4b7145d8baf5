------------------------ MODULE DurableWorkspaceProofs ------------------------
(***************************************************************************)
(* Proofs about DurableWorkspace, for any owner, any set of applications   *)
(* and any number of concurrent requests of each kind.                     *)
(***************************************************************************)
EXTENDS DurableWorkspace, FiniteSetTheorems, TLAPS

Live == state \in {"ABSENT", "PROVISIONING", "ACTIVE"}

(***************************************************************************)
(* The inductive invariant.  While the workspace is live, its records      *)
(* agree with one another: this is what a bootstrap concludes from an      *)
(* absent quota, and a backfill from an equal one.                         *)
(***************************************************************************)
Consistent ==
    Live =>
        /\ quota = Cardinality(Applications)
        /\ refs \subseteq Applications
        /\ \A a \in Apps : items[a] # {} => a \in Applications

\* A bootstrap only commits what it proposed from a live workspace.
BootFromLive == \A b \in Bootstrappers :
    bpc[b] = "commit" => bsnap[b].state \in {"ABSENT", "PROVISIONING", "ACTIVE"}

\* A backfill knows as many applications as it counted, and no others.
FillEvidence == \A f \in Operators :
    /\ Live /\ fpc[f] \in {"adopt", "verify", "mark"} =>
          ffound[f] \subseteq Applications /\ Cardinality(ffound[f]) = fcount[f]
    /\ Live /\ fpc[f] = "mark" => ffound[f] \subseteq refs

\* A deletion call erases only a frozen workspace; it drops a reference
\* only after, and finishes only after, it saw nothing left behind it.
EraseEvidence == \A e \in Erasers :
    /\ epc[e] \notin {"idle", "freeze"} => ~ Live
    /\ epc[e] \in {"page", "batch"} /\ ewhere[e] = Owner => refs = {}
    /\ epc[e] = "drop" => ewhere[e] \in Apps /\ items[ewhere[e]] = {}
    /\ epc[e] = "finish" => refs = {} /\ OwnerItems = {}

Frozen == state = "DELETING" => manifest

IInv ==
    /\ Consistent /\ BootFromLive /\ FillEvidence /\ EraseEvidence /\ Frozen
    /\ InventoryCoversData /\ TombstoneOnly /\ ErasureAnswersTruly

-------------------------------------------------------------------------------
(***************************************************************************)
(* Types.  A call that is about to read a page or to drop a reference has  *)
(* budget left.                                                            *)
(***************************************************************************)
Budgeted == \A e \in Erasers : epc[e] \in {"page", "drop"} => ebudget[e] > 0

LEMMA BootstrapTypes ==
    ASSUME StoreTypeOK, BootTypeOK, BootNext
    PROVE  StoreTypeOK' /\ BootTypeOK'
<1> USE BootstrapAssumption DEF StoreTypeOK, BootTypeOK, States, Snapshot
<1> PICK b \in Bootstrappers :
        BootStart(b) \/ BootRead(b) \/ BootCommit(b) \/ BootConflict(b) \/ BootAbandon(b)
  BY DEF BootNext
<1>0. NoSnapshot \in Snapshot /\ CurrentSnapshot \in Snapshot
  BY DEF NoSnapshot, CurrentSnapshot, HasOwnerData
<1>1. CASE BootStart(b)
  BY <1>1 DEF BootStart, storeVars
<1>2. CASE BootRead(b)
  BY <1>0, <1>2 DEF BootRead, storeVars
<1>3. CASE BootCommit(b)
  <2>1. manifest' \in BOOLEAN
    BY <1>3 DEF BootCommit
  <2>2. ProposedProfile(b) \in Names \cup {Missing}
    BY DEF ProposedProfile
  <2>3. StoreTypeOK'
    BY <1>3, <2>1, <2>2 DEF BootCommit
  <2>4. BootTypeOK'
    BY <1>0, <1>3 DEF BootCommit
  <2> QED BY <2>3, <2>4
<1>4. CASE BootConflict(b)
  BY <1>0, <1>4 DEF BootConflict, storeVars
<1>5. CASE BootAbandon(b)
  BY <1>0, <1>5 DEF BootAbandon, storeVars
<1> QED BY <1>1, <1>2, <1>3, <1>4, <1>5

LEMMA WriteTypes ==
    ASSUME StoreTypeOK, WriteTypeOK, WriteNext
    PROVE  StoreTypeOK' /\ WriteTypeOK'
<1> USE DEF StoreTypeOK, WriteTypeOK, States, Items, Canonical
<1> PICK w \in Writers :
        \/ Admit(w)
        \/ \E a \in Apps : CreateApplication(w, a)
        \/ \E a \in Apps, c \in Children : CreateChild(w, a, c)
        \/ \E a \in Apps, c \in Children : DeleteChild(w, a, c)
        \/ ReplaceSettings(w)
        \/ WriteDenied(w)
  BY DEF WriteNext
<1>1. CASE Admit(w) \/ WriteDenied(w) \/ ReplaceSettings(w)
  BY <1>1 DEF Admit, WriteDenied, ReplaceSettings, Answer, storeVars
<1>2. ASSUME NEW a \in Apps, CreateApplication(w, a) PROVE StoreTypeOK' /\ WriteTypeOK'
  BY <1>2 DEF CreateApplication, Answer
<1>3. ASSUME NEW a \in Apps, NEW c \in Children, CreateChild(w, a, c)
      PROVE StoreTypeOK' /\ WriteTypeOK'
  BY <1>3 DEF CreateChild, Answer
<1>4. ASSUME NEW a \in Apps, NEW c \in Children, DeleteChild(w, a, c)
      PROVE StoreTypeOK' /\ WriteTypeOK'
  BY <1>4 DEF DeleteChild, Answer
<1> QED BY <1>1, <1>2, <1>3, <1>4

LEMMA RemoveTypes ==
    ASSUME StoreTypeOK, NEW p \in Partitions, NEW keys, Remove(p, keys)
    PROVE  StoreTypeOK'
BY DEF StoreTypeOK, Remove, Partitions

\* The keys of a batch are finitely many, so that counting them means something.
LEMMA BatchCounted ==
    ASSUME NEW S \in SUBSET (Items \cup OwnerKeys)
    PROVE  IsFiniteSet(S) /\ Cardinality(S) \in Nat
<1>1. IsFiniteSet(Items)
  <2>1. IsFiniteSet({"METADATA"}) /\ IsFiniteSet({"ACTIVITY"})
    BY FS_Singleton
  <2>2. IsFiniteSet({"METADATA"} \cup {"ACTIVITY"})
    BY <2>1, FS_Union
  <2>3. IsFiniteSet(({"METADATA"} \cup {"ACTIVITY"}) \cup Children)
    BY <2>2, StoreAssumption, FS_Union
  <2>4. Items = ({"METADATA"} \cup {"ACTIVITY"}) \cup Children
    BY DEF Items, Canonical
  <2> QED BY <2>3, <2>4
<1>2. IsFiniteSet(OwnerKeys)
  <2>1. IsFiniteSet({"PROFILE"}) /\ IsFiniteSet({"SETTINGS"}) /\ IsFiniteSet({"WORKSPACE_QUOTA"})
    BY FS_Singleton
  <2>2. IsFiniteSet({"PROFILE"} \cup {"SETTINGS"})
    BY <2>1, FS_Union
  <2>3. IsFiniteSet(({"PROFILE"} \cup {"SETTINGS"}) \cup {"WORKSPACE_QUOTA"})
    BY <2>1, <2>2, FS_Union
  <2>4. OwnerKeys = ({"PROFILE"} \cup {"SETTINGS"}) \cup {"WORKSPACE_QUOTA"}
    BY DEF OwnerKeys
  <2> QED BY <2>3, <2>4
<1>3. IsFiniteSet(Items \cup OwnerKeys)
  BY <1>1, <1>2, FS_Union
<1> QED BY <1>3, FS_Subset, FS_CardinalityType

LEMMA EraseTypes ==
    ASSUME StoreTypeOK, EraseTypeOK, Budgeted, EraseNext
    PROVE  StoreTypeOK' /\ EraseTypeOK' /\ Budgeted'
<1> USE ErasureAssumption DEF EraseTypeOK, Budgeted, Go, Tell, Return, Setback, Partitions
<1> PICK e \in Erasers :
        \/ EraseAnswerDeleted(e) \/ EraseStart(e)
        \/ EraseStep(e) \/ EraseBatchPartly(e) \/ EraseStop(e)
  BY DEF EraseNext
<1>0. state \in States
  BY DEF StoreTypeOK
<1>1. CASE EraseAnswerDeleted(e) \/ EraseStart(e)
  BY <1>1 DEF EraseAnswerDeleted, EraseStart, StoreTypeOK, storeVars, States
<1>2. CASE Freeze(e) \/ FreezeLost(e)
  <2>1. StoreTypeOK'
    BY <1>2 DEF Freeze, FreezeLost, StoreTypeOK, storeVars, States
  <2>2. EraseTypeOK' /\ Budgeted'
    BY <1>2 DEF Freeze, FreezeLost, States
  <2> QED BY <2>1, <2>2
<1>3. CASE EraseScan(e)
  <2>1. PICK p \in Partitions : ewhere' = [ewhere EXCEPT ![e] = p]
    BY <1>3 DEF EraseScan, First, StoreTypeOK
  <2> QED BY <1>3, <2>1 DEF EraseScan, StoreTypeOK, storeVars
<1>4. CASE EraseSpent(e)
  BY <1>4 DEF EraseSpent, StoreTypeOK, storeVars, States
<1>5. CASE ErasePage(e)
  <2>1. PICK page \in SUBSET RecordsOf(ewhere[e]) : ebatch' = [ebatch EXCEPT ![e] = page]
    BY <1>5 DEF ErasePage
  <2>2. page \subseteq Items \cup OwnerKeys
    BY <2>1 DEF RecordsOf, OwnerItems, StoreTypeOK
  <2> QED BY <1>5, <2>1, <2>2 DEF ErasePage, StoreTypeOK, storeVars
<1>6. CASE EraseEmptyPage(e)
  BY <1>6 DEF EraseEmptyPage, StoreTypeOK, storeVars
<1>7. CASE EraseBatch(e)
  <2>1. StoreTypeOK'
    BY <1>7, RemoveTypes DEF EraseBatch
  <2>2. ebudget[e] - Cardinality(ebatch[e]) \in 0..MaxItems
    BY <1>7, BatchCounted DEF EraseBatch
  <2>3. EraseTypeOK' /\ Budgeted'
    BY <1>7, <2>2 DEF EraseBatch
  <2> QED BY <2>1, <2>3
<1>8. CASE EraseBatchSpent(e)
  BY <1>8 DEF EraseBatchSpent, StoreTypeOK, storeVars, States
<1>9. CASE EraseDropRef(e)
  BY <1>9 DEF EraseDropRef, StoreTypeOK
<1>10. CASE EraseFinish(e)
  <2>1. manifest' \in BOOLEAN
    BY <1>10, Zenon DEF EraseFinish
  <2>2. StoreTypeOK'
    BY <1>10, <2>1 DEF EraseFinish, StoreTypeOK, States
  <2>3. EraseTypeOK' /\ Budgeted'
    BY <1>10 DEF EraseFinish, States
  <2> QED BY <2>2, <2>3
<1>11. CASE EraseBatchPartly(e)
  <2>1. PICK done \in SUBSET ebatch[e] :
            /\ Remove(ewhere[e], done)
            /\ \/ /\ etry[e] < MaxAttempts
                  /\ etry' = [etry EXCEPT ![e] = @ + 1]
                  /\ ebatch' = [ebatch EXCEPT ![e] = @ \ done]
                  /\ ebudget' = [ebudget EXCEPT ![e] = @ - Cardinality(ebatch[e])]
                  /\ UNCHANGED <<epc, ewhere, etold>>
               \/ Return(e) /\ Tell(e, state)
    BY <1>11 DEF EraseBatchPartly
  <2>2. StoreTypeOK'
    BY <2>1, RemoveTypes
  <2>3. ebudget[e] - Cardinality(ebatch[e]) \in 0..MaxItems
    BY <1>11, BatchCounted DEF EraseBatchPartly
  <2>4. EraseTypeOK' /\ Budgeted'
    BY <1>0, <1>11, <2>1, <2>3 DEF EraseBatchPartly
  <2> QED BY <2>2, <2>4
<1>12. CASE EraseStop(e)
  <2>1. \/ etold' = etold
        \/ \E answer \in {"DELETING", state} : etold' = [etold EXCEPT ![e] = answer]
    BY <1>12 DEF EraseStop
  <2>2. etold' \in [Erasers -> {"NONE"} \cup States]
    BY <1>0, <2>1 DEF States
  <2>3. StoreTypeOK'
    BY <1>12 DEF EraseStop, StoreTypeOK, storeVars
  <2>4. failures' \in Nat
    BY <1>12 DEF EraseStop
  <2>5. epc' \in [Erasers -> {"idle", "freeze", "scan", "page", "batch", "drop", "finish"}]
        /\ ewhere' \in [Erasers -> Partitions] /\ etry' \in [Erasers -> 1..MaxAttempts]
        /\ ebatch' \in [Erasers -> SUBSET (Items \cup OwnerKeys)]
        /\ ebudget' \in [Erasers -> 0..MaxItems]
    BY <1>12 DEF EraseStop
  <2>6. Budgeted'
    BY <1>12 DEF EraseStop
  <2> QED BY <2>2, <2>3, <2>4, <2>5, <2>6
<1> QED BY <1>1, <1>2, <1>3, <1>4, <1>5, <1>6, <1>7, <1>8, <1>9, <1>10, <1>11, <1>12
        DEF EraseStep

LEMMA ExportTypes ==
    ASSUME StoreTypeOK, InventoryTypeOK, ExportNext, UNCHANGED fillVars
    PROVE  StoreTypeOK' /\ InventoryTypeOK'
<1> USE DEF StoreTypeOK, InventoryTypeOK, XGo, storeVars, fillVars
<1> PICK x \in Exporters :
        \/ ExportStart(x) \/ ExportListRef(x) \/ ExportListEnd(x) \/ ExportCheck(x)
        \/ ExportGet(x) \/ ExportPage(x) \/ ExportReadEnd(x) \/ ExportDeliver(x) \/ ExportEnd(x)
  BY DEF ExportNext
<1>1. CASE ExportStart(x) \/ ExportListEnd(x) \/ ExportReadEnd(x) \/ ExportDeliver(x)
  BY <1>1 DEF ExportStart, ExportListEnd, ExportReadEnd, ExportDeliver
<1>2. CASE ExportListRef(x)
  <2>1. PICK a \in Apps :
            /\ xlist' = [xlist EXCEPT ![x] = @ \cup {a}]
            /\ xcursor' = [xcursor EXCEPT ![x] = a]
    BY <1>2 DEF ExportListRef, First, Ahead
  <2> QED BY <1>2, <2>1 DEF ExportListRef
<1>3. CASE ExportCheck(x)
  BY <1>3 DEF ExportCheck, Applications
<1>4. CASE ExportGet(x)
  <2>1. PICK a \in Apps :
            /\ xcursor' = [xcursor EXCEPT ![x] = a]
            /\ xtodo' = [xtodo EXCEPT ![x] = @ \ {a}]
    BY <1>4 DEF ExportGet, First
  <2> QED BY <1>4, <2>1 DEF ExportGet
<1>6. CASE ExportPage(x)
  <2>1. [xgot[x] EXCEPT ![xcursor[x]] = items[xcursor[x]]] \in [Apps -> SUBSET Items]
    <3>1. xgot[x] \in [Apps -> SUBSET Items]
      OBVIOUS
    <3>2. \A a \in Apps : [xgot[x] EXCEPT ![xcursor[x]] = items[xcursor[x]]][a]
                              \in {xgot[x][a], items[a]}
      BY <3>1
    <3> QED BY <3>1, <3>2
  <2>2. xgot' = [xgot EXCEPT ![x] = [@ EXCEPT ![xcursor[x]] = items[xcursor[x]]]]
    BY <1>6 DEF ExportPage
  <2> QED BY <1>6, <2>1, <2>2 DEF ExportPage
<1>5. CASE ExportEnd(x)
  BY <1>5 DEF ExportEnd, XReturn
<1> QED BY <1>1, <1>2, <1>3, <1>4, <1>5, <1>6

LEMMA FillTypes ==
    ASSUME StoreTypeOK, InventoryTypeOK, NEW f \in Operators, FillStep(f), UNCHANGED exportVars
    PROVE  StoreTypeOK' /\ InventoryTypeOK'
<1> USE DEF StoreTypeOK, InventoryTypeOK, FGo, FReturn, storeVars, exportVars
<1> USE DEF FillStep
<1>1. CASE FillStart(f) \/ FillCount(f) \/ FillAdopted(f) \/ FillVerify(f)
  BY <1>1 DEF FillStart, FillCount, FillAdopted, FillVerify
<1>2. CASE FillDiscover(f)
  BY <1>2 DEF FillDiscover, Applications
<1>3. CASE FillAdopt(f)
  BY <1>3 DEF FillAdopt, fillVars
<1>4. CASE FillMark(f)
  BY <1>4 DEF FillMark
<1>5. CASE FillAbandon(f)
  BY <1>5 DEF FillAbandon
<1> QED BY <1>1, <1>2, <1>3, <1>4, <1>5

\* Every variable keeps its type, and in particular no erasure's budget
\* underflows and no bootstrap exceeds its rounds.
THEOREM TypeCorrect == Spec => [](TypeOK /\ Budgeted)
<1>1. Init => TypeOK /\ Budgeted
  <2>1. Init => StoreTypeOK
    <3>1. FreshInit => StoreTypeOK
      <4>1. FreshInit => manifest \in BOOLEAN
        BY Zenon DEF FreshInit
      <4> QED BY <4>1 DEF FreshInit, StoreTypeOK, States
    <3>2. LegacyInit => StoreTypeOK
      <4> SUFFICES ASSUME LegacyInit PROVE StoreTypeOK
        OBVIOUS
      <4>1. PICK old \in SUBSET Apps :
                /\ quota = Cardinality(old)
                /\ items = [a \in Apps |-> IF a \in old THEN Canonical ELSE {}]
        BY DEF LegacyInit
      <4>2. quota \in Nat
        BY <4>1, StoreAssumption, FS_Subset, FS_CardinalityType
      <4> QED BY <4>1, <4>2 DEF LegacyInit, StoreTypeOK, States, Items
    <3> QED BY <3>1, <3>2 DEF Init, StoreInit
  <2>2. Init => BootTypeOK /\ WriteTypeOK
    BY BootstrapAssumption DEF Init, BootInit, BootTypeOK, WriteInit, WriteTypeOK,
       NoSnapshot, Snapshot, States
  <2>3. Init => EraseTypeOK /\ Budgeted
    BY ErasureAssumption DEF Init, EraseInit, EraseTypeOK, Budgeted, Partitions
  <2>4. Init => InventoryTypeOK
    BY DEF Init, InventoryInit, InventoryTypeOK
  <2> QED BY <2>1, <2>2, <2>3, <2>4 DEF TypeOK
<1>2. ASSUME TypeOK, Budgeted, [Next]_vars PROVE TypeOK' /\ Budgeted'
  <2> USE <1>2 DEF TypeOK
  <2>1. CASE Bootstrapping
    BY <2>1, BootstrapTypes DEF Bootstrapping, WriteTypeOK, EraseTypeOK, InventoryTypeOK,
       Budgeted, eraseVars, exportVars, fillVars
  <2>2. CASE Writing
    BY <2>2, WriteTypes DEF Writing, BootTypeOK, EraseTypeOK, InventoryTypeOK,
       Budgeted, bootVars, eraseVars, exportVars, fillVars
  <2>3. CASE Erasing
    BY <2>3, EraseTypes DEF Erasing, BootTypeOK, WriteTypeOK, InventoryTypeOK,
       bootVars, exportVars, fillVars
  <2>4. CASE Exporting
    BY <2>4, ExportTypes DEF Exporting, BootTypeOK, WriteTypeOK, EraseTypeOK,
       Budgeted, bootVars, eraseVars
  <2>5. CASE Backfilling
    BY <2>5, FillTypes DEF Backfilling, BootTypeOK, WriteTypeOK, EraseTypeOK,
       Budgeted, bootVars, eraseVars
  <2>6. CASE UNCHANGED vars
    BY <2>6 DEF vars, storeVars, bootVars, eraseVars, exportVars, fillVars, Budgeted,
       StoreTypeOK, BootTypeOK, WriteTypeOK, EraseTypeOK, InventoryTypeOK
  <2> QED BY <2>1, <2>2, <2>3, <2>4, <2>5, <2>6 DEF Next
<1> QED BY <1>1, <1>2, PTL DEF Spec

-------------------------------------------------------------------------------
(***************************************************************************)
(* Safety.  IInv is inductive, one component at a time.                    *)
(***************************************************************************)
LEMMA ApplicationsCounted ==
    /\ IsFiniteSet(Applications) /\ Cardinality(Applications) \in Nat
    /\ Cardinality(Applications) = 0 => Applications = {}
<1>1. Applications \in SUBSET Apps
  BY DEF Applications
<1>2. IsFiniteSet(Applications)
  BY <1>1, StoreAssumption, FS_Subset
<1> QED BY <1>2, FS_CardinalityType, FS_EmptySet

LEMMA IInvInitially == Init => IInv
<1> SUFFICES ASSUME Init PROVE IInv
  OBVIOUS
<1>1. state # "DELETING" /\ state # "DELETED" /\ ~ manifest /\ refs = {}
  BY Zenon DEF Init, StoreInit, FreshInit, LegacyInit
<1>2. Consistent
  <2>1. CASE FreshInit
    <3>1. Applications = {} /\ \A a \in Apps : items[a] = {}
      BY <2>1 DEF FreshInit, Applications
    <3> QED BY <2>1, <3>1, FS_EmptySet DEF FreshInit, Consistent
  <2>2. CASE LegacyInit
    <3>1. PICK old \in SUBSET Apps :
              /\ quota = Cardinality(old)
              /\ items = [a \in Apps |-> IF a \in old THEN Canonical ELSE {}]
      BY <2>2 DEF LegacyInit
    <3>2. Applications = old /\ \A a \in Apps : items[a] # {} => a \in old
      BY <3>1 DEF Applications, Canonical
    <3> QED BY <1>1, <3>1, <3>2 DEF Consistent
  <2> QED BY <2>1, <2>2 DEF Init, StoreInit
<1>3. BootFromLive /\ FillEvidence /\ EraseEvidence /\ ErasureAnswersTruly
  BY DEF Init, BootInit, EraseInit, InventoryInit, BootFromLive, FillEvidence, EraseEvidence,
         ErasureAnswersTruly
<1>4. Frozen /\ InventoryCoversData /\ TombstoneOnly
  BY <1>1 DEF Frozen, InventoryCoversData, TombstoneOnly
<1> QED BY <1>2, <1>3, <1>4 DEF IInv

LEMMA BootstrapPreserves ==
    ASSUME TypeOK, IInv, Bootstrapping
    PROVE  IInv'
<1> USE DEF IInv
<1> PICK b \in Bootstrappers :
        BootStart(b) \/ BootRead(b) \/ BootCommit(b) \/ BootConflict(b) \/ BootAbandon(b)
  BY DEF Bootstrapping, BootNext
<1>1. CASE BootCommit(b)
  <2>1. Live /\ Live' /\ state' = "ACTIVE"
    BY <1>1 DEF BootCommit, BootFromLive, Unchanged, Live
  <2>2. UNCHANGED <<items, refs, quota, epc, ewhere, etold, fpc, ffound, fcount>>
    BY <1>1 DEF BootCommit, Bootstrapping, eraseVars, fillVars
  <2>3. Applications' = Applications
    BY <2>2 DEF Applications
  <2>4. Consistent' /\ FillEvidence'
    BY <2>1, <2>2, <2>3 DEF Consistent, FillEvidence
  <2>5. BootFromLive'
    BY <1>1 DEF BootFromLive, BootCommit, TypeOK, BootTypeOK
  <2>6. EraseEvidence' /\ ErasureAnswersTruly'
    BY <2>1, <2>2 DEF EraseEvidence, ErasureAnswersTruly, Live
  <2>7. Frozen' /\ TombstoneOnly'
    BY <2>1 DEF Frozen, TombstoneOnly
  <2>8. InventoryCoversData'
    <3> SUFFICES ASSUME manifest' PROVE \A a \in Apps : items[a] # {} => a \in refs
      BY <2>2 DEF InventoryCoversData
    <3>1. CASE bsnap[b].state = "ABSENT"
      <4>1. ~ bsnap[b].data
        BY <1>1, <3>1, Zenon DEF BootCommit
      <4>2. quota = 0
        BY <1>1, <3>1, <4>1 DEF BootCommit, Unchanged
      <4>3. Applications = {}
        BY <2>1, <4>2, ApplicationsCounted DEF Consistent
      <4> QED BY <2>1, <4>3 DEF Consistent
    <3>2. CASE bsnap[b].state # "ABSENT"
      <4>1. bsnap[b].manifest
        BY <1>1, <3>2, Zenon DEF BootCommit
      <4> QED BY <1>1, <4>1 DEF BootCommit, Unchanged, InventoryCoversData
    <3> QED BY <3>1, <3>2
  <2> QED BY <2>4, <2>5, <2>6, <2>7, <2>8
<1>2. CASE BootStart(b) \/ BootRead(b) \/ BootConflict(b) \/ BootAbandon(b)
  <2>1. UNCHANGED <<storeVars, eraseVars, fillVars>>
    BY <1>2 DEF Bootstrapping, BootStart, BootRead, BootConflict, BootAbandon
  <2>2. UNCHANGED <<Live, Applications, OwnerItems>>
    BY <2>1 DEF storeVars, Live, Applications, OwnerItems
  <2>3. BootFromLive'
    BY <1>2 DEF BootFromLive, BootStart, BootRead, BootConflict, BootAbandon, Refused,
       CurrentSnapshot, TypeOK, BootTypeOK, StoreTypeOK, States
  <2> QED BY <2>1, <2>2, <2>3 DEF storeVars, eraseVars, fillVars, Consistent, FillEvidence,
          EraseEvidence, Frozen, InventoryCoversData, TombstoneOnly, ErasureAnswersTruly
<1> QED BY <1>1, <1>2

\* A product write happens in an active workspace: no erasure is past its
\* freeze, so only the agreement of the records is at stake.
LEMMA WritePreserves ==
    ASSUME TypeOK, IInv, Writing
    PROVE  IInv'
<1> USE DEF IInv
<1> PICK w \in Writers :
        \/ Admit(w)
        \/ \E a \in Apps : CreateApplication(w, a)
        \/ \E a \in Apps, c \in Children : CreateChild(w, a, c)
        \/ \E a \in Apps, c \in Children : DeleteChild(w, a, c)
        \/ ReplaceSettings(w)
        \/ WriteDenied(w)
  BY DEF Writing, WriteNext
<1>0. UNCHANGED <<bpc, bsnap, epc, ewhere, etold, fpc, ffound, fcount>>
  BY DEF Writing, bootVars, eraseVars, fillVars
<1>1. CASE Admit(w) \/ WriteDenied(w)
  <2>1. UNCHANGED storeVars
    BY <1>1 DEF Admit, WriteDenied
  <2>2. UNCHANGED <<Live, Applications, OwnerItems>>
    BY <2>1 DEF storeVars, Live, Applications, OwnerItems
  <2> QED BY <1>0, <2>1, <2>2 DEF storeVars, BootFromLive, Consistent, FillEvidence,
          EraseEvidence, Frozen, InventoryCoversData, TombstoneOnly, ErasureAnswersTruly
<1>2. SUFFICES ASSUME state = "ACTIVE", UNCHANGED <<state, manifest>>,
                      Applications \subseteq Applications', refs \subseteq refs',
                      Consistent', InventoryCoversData'
               PROVE  IInv'
  <2>1. CASE ReplaceSettings(w)
    <3>1. state = "ACTIVE" /\ UNCHANGED <<state, manifest, items, refs, quota>>
      BY <2>1 DEF ReplaceSettings, ActiveGuard
    <3>2. UNCHANGED Applications
      BY <3>1 DEF Applications
    <3> QED BY <1>2, <3>1, <3>2 DEF Consistent, InventoryCoversData, Live
  <2>2. ASSUME NEW a \in Apps, CreateApplication(w, a) PROVE IInv'
    <3>1. state = "ACTIVE" /\ UNCHANGED <<state, manifest>> /\ refs' = refs \cup {a}
      BY <2>2 DEF CreateApplication, ActiveGuard
    <3>2. Applications' = Applications \cup {a} /\ a \notin Applications
      BY <2>2 DEF CreateApplication, Applications, Canonical, TypeOK, StoreTypeOK
    <3>3. Cardinality(Applications') = Cardinality(Applications) + 1
      BY <3>2, ApplicationsCounted, FS_AddElement
    <3>4. quota' = quota + 1 /\ quota = Cardinality(Applications)
      BY <2>2, <3>1 DEF CreateApplication, Consistent, Live
    <3>5. \A x \in Apps : items'[x] # {} => items[x] # {} \/ x = a
      BY <2>2 DEF CreateApplication, TypeOK, StoreTypeOK
    <3>6. Consistent'
      BY <3>1, <3>2, <3>3, <3>4, <3>5 DEF Consistent, Live
    <3>7. InventoryCoversData'
      BY <3>1, <3>5 DEF InventoryCoversData
    <3> QED BY <1>2, <3>1, <3>2, <3>6, <3>7
  <2>3. ASSUME NEW a \in Apps, NEW c \in Children, CreateChild(w, a, c) \/ DeleteChild(w, a, c)
        PROVE IInv'
    <3>1. state = "ACTIVE" /\ UNCHANGED <<state, manifest, refs, quota>>
      BY <2>3 DEF CreateChild, DeleteChild, ActiveGuard
    <3>2. \A x \in Apps : items'[x] # {} => items[x] # {}
      BY <2>3 DEF CreateChild, DeleteChild, TypeOK, StoreTypeOK
    <3>3. \A x \in Apps : "METADATA" \in items'[x] <=> "METADATA" \in items[x]
      BY <2>3, StoreAssumption DEF CreateChild, DeleteChild, TypeOK, StoreTypeOK
    <3>4. Applications' = Applications
      BY <3>3 DEF Applications
    <3> QED BY <1>2, <3>1, <3>2, <3>4 DEF Consistent, Live, InventoryCoversData
  <2> QED BY <1>1, <2>1, <2>2, <2>3
<1>3. Live /\ Live' /\ BootFromLive'
  BY <1>0, <1>2 DEF Live, BootFromLive
<1>4. FillEvidence'
  BY <1>0, <1>2, <1>3 DEF FillEvidence
<1>5. EraseEvidence' /\ Frozen' /\ TombstoneOnly' /\ ErasureAnswersTruly'
  BY <1>0, <1>2, <1>3 DEF EraseEvidence, Frozen, TombstoneOnly, ErasureAnswersTruly
<1> QED BY <1>2, <1>3, <1>4, <1>5

\* Removing records from a workspace that is not live disturbs nothing, as
\* long as the references still cover what is left.
LEMMA RemovalPreserves ==
    ASSUME IInv, ~ Live, UNCHANGED <<state, manifest, bootVars, fillVars>>,
           \A a \in Apps : items'[a] \subseteq items[a],
           refs' \subseteq refs, OwnerItems' \subseteq OwnerItems
    PROVE  Consistent' /\ BootFromLive' /\ FillEvidence' /\ Frozen' /\ TombstoneOnly'
BY DEF IInv, Live, Consistent, BootFromLive, FillEvidence, Frozen, TombstoneOnly,
       bootVars, fillVars

LEMMA RemoveRemoves ==
    ASSUME TypeOK, NEW p \in Partitions, NEW keys, Remove(p, keys)
    PROVE  /\ UNCHANGED <<state, manifest, refs>>
           /\ \A a \in Apps : items'[a] \subseteq items[a]
           /\ OwnerItems' \subseteq OwnerItems
<1>1. UNCHANGED <<state, manifest, refs>>
  BY DEF Remove
<1>2. \A a \in Apps : items'[a] \subseteq items[a]
  BY DEF Remove, TypeOK, StoreTypeOK
<1>3. OwnerItems' \subseteq OwnerItems
  BY DEF Remove, OwnerItems
<1> QED BY <1>1, <1>2, <1>3

LEMMA ErasePreserves ==
    ASSUME TypeOK, IInv, Erasing
    PROVE  IInv'
<1> USE DEF IInv, Go, Tell, Return
<1>0. UNCHANGED <<bootVars, fillVars>> /\ EraseTypeOK /\ Owner \notin Apps
  BY ErasureAssumption DEF Erasing, TypeOK
<1> PICK e \in Erasers :
        \/ EraseAnswerDeleted(e) \/ EraseStart(e)
        \/ EraseStep(e) \/ EraseBatchPartly(e) \/ EraseStop(e)
  BY DEF Erasing, EraseNext
<1>1. CASE \/ EraseAnswerDeleted(e) \/ EraseStart(e) \/ FreezeLost(e) \/ EraseScan(e)
           \/ EraseSpent(e) \/ ErasePage(e) \/ EraseEmptyPage(e) \/ EraseBatchSpent(e)
           \/ EraseStop(e)
  <2>1. UNCHANGED storeVars
    BY <1>1 DEF EraseAnswerDeleted, EraseStart, FreezeLost, EraseScan, EraseSpent, ErasePage,
       EraseEmptyPage, EraseBatchSpent, EraseStop
  <2>2. UNCHANGED <<Live, Applications, OwnerItems>>
    BY <2>1 DEF storeVars, Live, Applications, OwnerItems
  <2>3. /\ Consistent' /\ BootFromLive' /\ FillEvidence'
        /\ Frozen' /\ InventoryCoversData' /\ TombstoneOnly'
    BY <1>0, <2>1, <2>2 DEF storeVars, bootVars, fillVars, Consistent, BootFromLive,
       FillEvidence, Frozen, InventoryCoversData, TombstoneOnly
  <2>4. EraseEvidence' /\ ErasureAnswersTruly'
    <3> USE <1>0, <2>1, <2>2 DEF storeVars, EraseTypeOK, EraseEvidence, ErasureAnswersTruly
    <3>1. CASE EraseAnswerDeleted(e) \/ EraseStart(e)
      BY <3>1 DEF EraseAnswerDeleted, EraseStart, Live
    <3>2. CASE FreezeLost(e)
      BY <3>2 DEF FreezeLost, Live
    <3>3. CASE EraseScan(e)
      <4>1. PICK p \in IF refs = {} THEN {Owner} ELSE First(refs) :
                ewhere' = [ewhere EXCEPT ![e] = p]
        BY <3>3 DEF EraseScan
      <4>2. p = Owner => refs = {}
        BY <4>1 DEF First, TypeOK, StoreTypeOK
      <4> QED BY <3>3, <4>1, <4>2 DEF EraseScan
    <3>4. CASE ErasePage(e) \/ EraseSpent(e) \/ EraseBatchSpent(e)
      BY <3>4 DEF ErasePage, EraseSpent, EraseBatchSpent
    <3>5. CASE EraseEmptyPage(e)
      BY <3>5 DEF EraseEmptyPage, RecordsOf, Partitions
    <3>6. CASE EraseStop(e)
      <4>1. EraseEvidence'
        BY <3>6 DEF EraseStop
      <4>2. ErasureAnswersTruly'
        BY <3>6 DEF EraseStop
      <4> QED BY <4>1, <4>2
    <3> QED BY <1>1, <3>1, <3>2, <3>3, <3>4, <3>5, <3>6
  <2> QED BY <2>3, <2>4
<1>2. CASE Freeze(e)
  <2>1. state = "ACTIVE" /\ state' = "DELETING" /\ manifest /\ manifest' = manifest
    BY <1>2 DEF Freeze, ActiveGuard
  <2>2. Live /\ ~ Live' /\ UNCHANGED <<refs, items, ewhere, etold>>
    BY <1>2, <2>1 DEF Freeze, Live
  <2>3. Consistent' /\ FillEvidence' /\ Frozen' /\ TombstoneOnly' /\ BootFromLive'
    BY <1>0, <2>1, <2>2 DEF Consistent, FillEvidence, Frozen, TombstoneOnly, BootFromLive,
       bootVars
  <2>4. InventoryCoversData'
    BY <2>1, <2>2 DEF InventoryCoversData
  <2>5. EraseEvidence' /\ ErasureAnswersTruly'
    BY <1>0, <1>2, <2>1, <2>2 DEF Freeze, EraseEvidence, ErasureAnswersTruly, EraseTypeOK
  <2> QED BY <2>3, <2>4, <2>5
<1>3. CASE EraseBatch(e) \/ EraseBatchPartly(e)
  <2>1. PICK keys : Remove(ewhere[e], keys)
    BY <1>3 DEF EraseBatch, EraseBatchPartly
  <2>2. epc[e] = "batch" /\ ~ Live
    BY <1>3 DEF EraseBatch, EraseBatchPartly, EraseEvidence
  <2>3. /\ UNCHANGED <<state, manifest, refs>>
        /\ \A a \in Apps : items'[a] \subseteq items[a]
        /\ OwnerItems' \subseteq OwnerItems
    BY <1>0, <2>1, RemoveRemoves DEF EraseTypeOK
  <2>4. Consistent' /\ BootFromLive' /\ FillEvidence' /\ Frozen' /\ TombstoneOnly'
    BY <1>0, <2>2, <2>3, RemovalPreserves
  <2>5. InventoryCoversData'
    BY <2>3 DEF InventoryCoversData
  <2>6. CASE EraseBatch(e)
    <3>1. EraseEvidence' /\ ErasureAnswersTruly'
      BY <1>0, <2>2, <2>3, <2>6 DEF EraseBatch, EraseTypeOK, EraseEvidence,
         ErasureAnswersTruly, Live
    <3> QED BY <2>4, <2>5, <3>1
  <2>7. CASE EraseBatchPartly(e)
    <3>1. \/ UNCHANGED <<epc, ewhere, etold>>
          \/ Return(e) /\ Tell(e, state)
      BY <2>7 DEF EraseBatchPartly
    <3>2. EraseEvidence' /\ ErasureAnswersTruly'
      BY <1>0, <2>2, <2>3, <3>1 DEF EraseTypeOK, EraseEvidence, ErasureAnswersTruly, Live
    <3> QED BY <2>4, <2>5, <3>2
  <2> QED BY <1>3, <2>6, <2>7
<1>4. CASE EraseDropRef(e)
  <2>1. ~ Live /\ ewhere[e] \in Apps /\ items[ewhere[e]] = {}
    BY <1>4 DEF EraseDropRef, EraseEvidence
  <2>2. /\ UNCHANGED <<state, manifest, profile, settings, quota, items>>
        /\ refs' = refs \ {ewhere[e]}
    BY <1>4 DEF EraseDropRef
  <2>3. UNCHANGED <<OwnerItems, Live>>
    BY <2>2 DEF OwnerItems, Live
  <2>4. Consistent' /\ BootFromLive' /\ FillEvidence' /\ Frozen' /\ TombstoneOnly'
    BY <1>0, <2>1, <2>2, <2>3, RemovalPreserves
  <2>5. InventoryCoversData'
    BY <2>1, <2>2 DEF InventoryCoversData
  <2>6. EraseEvidence' /\ ErasureAnswersTruly'
    BY <1>0, <1>4, <2>2, <2>3 DEF EraseDropRef, EraseTypeOK, EraseEvidence, ErasureAnswersTruly
  <2> QED BY <2>4, <2>5, <2>6
<1>5. CASE EraseFinish(e)
  <2>1. refs = {} /\ OwnerItems = {} /\ ~ Live /\ state \in {"DELETING", "DELETED"}
    BY <1>5 DEF EraseFinish, EraseEvidence
  <2>2. \A a \in Apps : items[a] = {}
    BY <2>1 DEF Frozen, InventoryCoversData, TombstoneOnly
  <2>3. /\ state' = "DELETED" /\ ~ manifest'
        /\ UNCHANGED <<profile, settings, quota, refs, items>>
    BY <1>5, Zenon DEF EraseFinish
  <2>4. UNCHANGED OwnerItems /\ ~ Live'
    BY <2>3 DEF OwnerItems, Live
  <2>5. Consistent' /\ FillEvidence' /\ Frozen' /\ TombstoneOnly' /\ InventoryCoversData'
    BY <2>1, <2>2, <2>3, <2>4 DEF Consistent, FillEvidence, Frozen, TombstoneOnly,
       InventoryCoversData
  <2>6. BootFromLive'
    BY <1>0 DEF BootFromLive, bootVars
  <2>7. EraseEvidence' /\ ErasureAnswersTruly'
    BY <1>0, <1>5, <2>3, <2>4 DEF EraseFinish, EraseTypeOK, EraseEvidence, ErasureAnswersTruly
  <2> QED BY <2>5, <2>6, <2>7
<1> QED BY <1>1, <1>2, <1>3, <1>4, <1>5 DEF EraseStep

\* A backfill marks only when it found as many applications as the quota
\* still counts, all of them real: then it found all of them.
LEMMA FillPreserves ==
    ASSUME TypeOK, IInv, Backfilling
    PROVE  IInv'
<1> USE DEF IInv, FGo, FReturn
<1>0. UNCHANGED <<bootVars, eraseVars>> /\ InventoryTypeOK
  BY DEF Backfilling, TypeOK
<1> PICK f \in Operators :
        \/ FillStart(f) \/ FillCount(f) \/ FillDiscover(f) \/ FillAdopt(f)
        \/ FillAdopted(f) \/ FillVerify(f) \/ FillMark(f) \/ FillAbandon(f)
  BY DEF Backfilling, FillStep
<1>1. CASE \/ FillStart(f) \/ FillCount(f) \/ FillDiscover(f)
           \/ FillAdopted(f) \/ FillVerify(f) \/ FillAbandon(f)
  <2>1. UNCHANGED storeVars
    BY <1>1 DEF FillStart, FillCount, FillDiscover, FillAdopted, FillVerify, FillAbandon
  <2>2. UNCHANGED <<Live, Applications, OwnerItems>>
    BY <2>1 DEF storeVars, Live, Applications, OwnerItems
  <2>3. /\ Consistent' /\ BootFromLive' /\ EraseEvidence' /\ ErasureAnswersTruly'
        /\ Frozen' /\ InventoryCoversData' /\ TombstoneOnly'
    BY <1>0, <2>1, <2>2 DEF storeVars, bootVars, eraseVars, Consistent, BootFromLive,
       EraseEvidence, ErasureAnswersTruly, Frozen, InventoryCoversData, TombstoneOnly
  <2>4. FillEvidence'
    BY <1>0, <1>1, <2>1, <2>2 DEF FillStart, FillCount, FillDiscover, FillAdopted, FillVerify,
       FillAbandon, FillEvidence, InventoryTypeOK, storeVars
  <2> QED BY <2>3, <2>4
<1>2. CASE FillAdopt(f)
  <2>1. /\ state = "ACTIVE" /\ fpc[f] = "adopt"
        /\ UNCHANGED <<state, manifest, profile, settings, quota, items, fillVars>>
    BY <1>2 DEF FillAdopt, ActiveGuard
  <2>2. UNCHANGED <<Live, Applications, OwnerItems>> /\ Live
    BY <2>1 DEF Live, Applications, OwnerItems
  <2>3. PICK a \in Applications : refs' = refs \cup {a}
    BY <1>2 DEF FillAdopt, Applications, TypeOK, InventoryTypeOK
  <2>4. Consistent' /\ FillEvidence' /\ InventoryCoversData'
    BY <2>1, <2>2, <2>3 DEF Consistent, FillEvidence, InventoryCoversData, fillVars
  <2>5. BootFromLive' /\ EraseEvidence' /\ ErasureAnswersTruly' /\ Frozen' /\ TombstoneOnly'
    BY <1>0, <2>1, <2>2 DEF bootVars, eraseVars, BootFromLive, EraseEvidence,
       ErasureAnswersTruly, Frozen, TombstoneOnly
  <2> QED BY <2>4, <2>5
<1>3. CASE FillMark(f)
  <2>1. /\ state = "ACTIVE" /\ fpc[f] = "mark" /\ quota = fcount[f]
        /\ UNCHANGED <<state, profile, settings, quota, refs, items>>
    BY <1>3 DEF FillMark, ActiveGuard
  <2>2. UNCHANGED <<Live, Applications, OwnerItems>> /\ Live
    BY <2>1 DEF Live, Applications, OwnerItems
  <2>3. ffound[f] = Applications
    BY <2>1, <2>2, ApplicationsCounted, FS_Subset DEF FillEvidence, Consistent
  <2>4. Applications \subseteq refs
    BY <2>1, <2>2, <2>3 DEF FillEvidence
  <2>5. InventoryCoversData'
    BY <2>1, <2>2, <2>4 DEF Consistent, InventoryCoversData
  <2>6. FillEvidence'
    BY <1>0, <1>3, <2>1, <2>2 DEF FillMark, FillEvidence, InventoryTypeOK
  <2>7. Consistent' /\ BootFromLive' /\ EraseEvidence' /\ ErasureAnswersTruly'
        /\ Frozen' /\ TombstoneOnly'
    BY <1>0, <2>1, <2>2 DEF bootVars, eraseVars, Consistent, BootFromLive, EraseEvidence,
       ErasureAnswersTruly, Frozen, TombstoneOnly
  <2> QED BY <2>5, <2>6, <2>7
<1> QED BY <1>1, <1>2, <1>3

LEMMA ReadersPreserve ==
    ASSUME IInv, UNCHANGED <<storeVars, bootVars, eraseVars, fillVars>>
    PROVE  IInv'
<1>1. UNCHANGED <<Live, Applications, OwnerItems>>
  BY DEF storeVars, Live, Applications, OwnerItems
<1> QED BY <1>1 DEF IInv, storeVars, bootVars, eraseVars, fillVars, Consistent, BootFromLive,
        FillEvidence, EraseEvidence, Frozen, InventoryCoversData, TombstoneOnly,
        ErasureAnswersTruly

LEMMA IInvInductive == TypeOK /\ IInv /\ [Next]_vars => IInv'
<1> SUFFICES ASSUME TypeOK, IInv, [Next]_vars PROVE IInv'
  OBVIOUS
<1>1. CASE Exporting
  <2>1. UNCHANGED <<storeVars, bootVars, eraseVars, fillVars>>
    BY <1>1 DEF Exporting, ExportNext, ExportStart, ExportListRef, ExportListEnd, ExportCheck,
       ExportGet, ExportPage, ExportReadEnd, ExportDeliver, ExportEnd
  <2> QED BY <2>1, ReadersPreserve
<1>2. CASE UNCHANGED vars
  BY <1>2, ReadersPreserve DEF vars
<1> QED BY <1>1, <1>2, BootstrapPreserves, WritePreserves, ErasePreserves, FillPreserves
        DEF Next

LEMMA IInvHolds == Spec => [](TypeOK /\ IInv)
BY IInvInitially, IInvInductive, TypeCorrect, PTL DEF Spec

\* With a complete manifest, every application partition that still holds a
\* record is referenced: wherever an erasure stops or crashes, the next one
\* finds what is left.
THEOREM InventoryAlwaysCovers == Spec => []InventoryCoversData
BY IInvHolds, PTL DEF IInv

\* In an active workspace with a complete manifest the references are the
\* applications, and the lifetime quota counts them, for fresh and adopted
\* owners alike.
THEOREM ManifestAlwaysExact == Spec => []ManifestExact
<1>1. TypeOK /\ IInv => ManifestExact
  <2> SUFFICES ASSUME TypeOK, IInv, manifest, state = "ACTIVE"
               PROVE refs = Applications /\ quota = Cardinality(refs)
    BY DEF ManifestExact
  <2>1. refs \subseteq Applications /\ quota = Cardinality(Applications)
    BY DEF IInv, Consistent, Live
  <2>2. Applications \subseteq refs
    BY DEF IInv, InventoryCoversData, Applications
  <2> QED BY <2>1, <2>2
<1> QED BY <1>1, IInvHolds, PTL

\* An erased workspace is a bare tombstone, and no concurrent bootstrap,
\* write or adoption ever puts anything back.
THEOREM TombstoneStaysBare == Spec => []TombstoneOnly
BY IInvHolds, PTL DEF IInv

\* A deletion call that answered DELETED is never contradicted later.
THEOREM ErasureAnswersAreTrue == Spec => []ErasureAnswersTruly
BY IInvHolds, PTL DEF IInv

\* For an owner who started with nothing, the workspace is never active
\* without its profile and its preferences: a bootstrap commits all of what it
\* proposed, or nothing, and only an erasure takes either away again.
THEOREM ReadinessIsWhole == FreshSpec => []ReadyTogether
<1>1. FreshOwnerInit => Init /\ ReadyTogether
  BY DEF FreshOwnerInit, FreshInit, ReadyTogether
<1>2. ASSUME TypeOK, IInv, ReadyTogether, [Next]_vars PROVE ReadyTogether'
  <2> USE <1>2 DEF ReadyTogether
  <2>1. CASE Bootstrapping
    <3> PICK b \in Bootstrappers :
            BootStart(b) \/ BootRead(b) \/ BootCommit(b) \/ BootConflict(b) \/ BootAbandon(b)
      BY <2>1 DEF Bootstrapping, BootNext
    <3>1. CASE BootCommit(b)
      <4>1. ProposedProfile(b) # Missing
        BY StoreAssumption DEF ProposedProfile, TypeOK, BootTypeOK
      <4>2. settings' # "MISSING"
        BY <3>1 DEF BootCommit, Unchanged
      <4> QED BY <3>1, <4>1, <4>2 DEF BootCommit
    <3>2. CASE BootStart(b) \/ BootRead(b) \/ BootConflict(b) \/ BootAbandon(b)
      BY <3>2 DEF BootStart, BootRead, BootConflict, BootAbandon, storeVars
    <3> QED BY <3>1, <3>2
  <2>2. CASE Writing
    BY <2>2 DEF Writing, WriteNext, Admit, CreateApplication, CreateChild, DeleteChild,
       ReplaceSettings, WriteDenied, storeVars
  <2>3. CASE Erasing
    <3> PICK e \in Erasers :
            \/ EraseAnswerDeleted(e) \/ EraseStart(e)
            \/ EraseStep(e) \/ EraseBatchPartly(e) \/ EraseStop(e)
      BY <2>3 DEF Erasing, EraseNext
    <3>1. CASE EraseBatch(e) \/ EraseBatchPartly(e)
      <4>1. state # "ACTIVE"
        BY <3>1 DEF IInv, EraseEvidence, Live, EraseBatch, EraseBatchPartly, Go
      <4>2. UNCHANGED state
        BY <3>1 DEF EraseBatch, EraseBatchPartly, Remove
      <4> QED BY <4>1, <4>2
    <3>2. CASE Freeze(e) \/ EraseFinish(e)
      BY <3>2 DEF Freeze, EraseFinish
    <3>3. CASE EraseDropRef(e)
      BY <3>3 DEF EraseDropRef
    <3>4. CASE \/ EraseAnswerDeleted(e) \/ EraseStart(e) \/ FreezeLost(e) \/ EraseScan(e)
               \/ EraseSpent(e) \/ ErasePage(e) \/ EraseEmptyPage(e) \/ EraseBatchSpent(e)
               \/ EraseStop(e)
      BY <3>4 DEF EraseAnswerDeleted, EraseStart, FreezeLost, EraseScan, EraseSpent, ErasePage,
         EraseEmptyPage, EraseBatchSpent, EraseStop, storeVars
    <3> QED BY <3>1, <3>2, <3>3, <3>4 DEF EraseStep
  <2>4. CASE Exporting \/ Backfilling
    BY <2>4 DEF Exporting, ExportNext, ExportStart, ExportListRef, ExportListEnd, ExportCheck,
       ExportGet, ExportPage, ExportReadEnd, ExportDeliver, ExportEnd, Backfilling, FillStep,
       FillStart, FillCount, FillDiscover, FillAdopt, FillAdopted, FillVerify, FillMark,
       FillAbandon, storeVars
  <2> QED BY <2>1, <2>2, <2>3, <2>4 DEF Next, vars, storeVars
<1>3. FreshSpec => [](TypeOK /\ IInv)
  BY <1>1, IInvHolds, PTL DEF FreshSpec, Spec
<1> QED BY <1>1, <1>2, <1>3, PTL DEF FreshSpec

-------------------------------------------------------------------------------
(***************************************************************************)
(* Action properties.                                                      *)
(***************************************************************************)

\* Customised preferences survive every request but an erasure: a bootstrap
\* that proposed defaults from an older snapshot is refused.
THEOREM PreferencesAreKept == Spec => PreferencesKept
<1>1. ASSUME TypeOK, IInv, [Next]_vars
      PROVE  [settings = "CUSTOM" => settings' = "CUSTOM" \/ state = "DELETING"]_vars
  <2> SUFFICES ASSUME settings = "CUSTOM", settings' # "CUSTOM" PROVE state = "DELETING"
    OBVIOUS
  <2>1. CASE Bootstrapping
    <3>1. PICK b \in Bootstrappers : BootCommit(b)
      BY <2>1 DEF Bootstrapping, BootNext, BootStart, BootRead, BootConflict, BootAbandon,
         storeVars
    <3> QED BY <3>1 DEF BootCommit, Unchanged
  <2>2. CASE Writing
    BY <2>2 DEF Writing, WriteNext, Admit, CreateApplication, CreateChild, DeleteChild,
       ReplaceSettings, WriteDenied, storeVars
  <2>3. CASE Erasing
    <3>1. PICK e \in Erasers : EraseBatch(e) \/ EraseBatchPartly(e)
      BY <2>3 DEF Erasing, EraseNext, EraseStep, EraseAnswerDeleted, EraseStart, Freeze,
         FreezeLost, EraseScan, EraseSpent, ErasePage, EraseEmptyPage, EraseBatchSpent,
         EraseDropRef, EraseFinish, EraseStop, storeVars
    <3>2. ~ Live
      BY <1>1, <3>1 DEF IInv, EraseEvidence, EraseBatch, EraseBatchPartly, Go
    <3>3. state # "DELETED"
      BY <1>1 DEF IInv, TombstoneOnly, OwnerItems, OwnerKeys
    <3> QED BY <1>1, <3>2, <3>3 DEF Live, TypeOK, StoreTypeOK, States
  <2>4. CASE Exporting \/ Backfilling
    BY <2>4 DEF Exporting, ExportNext, ExportStart, ExportListRef, ExportListEnd, ExportCheck,
       ExportGet, ExportPage, ExportReadEnd, ExportDeliver, ExportEnd, Backfilling, FillStep, FillStart,
       FillCount, FillDiscover, FillAdopt, FillAdopted, FillVerify, FillMark, FillAbandon,
       storeVars
  <2> QED BY <1>1, <2>1, <2>2, <2>3, <2>4 DEF Next, vars, storeVars
<1> QED BY <1>1, IInvHolds, PTL DEF Spec, PreferencesKept

-------------------------------------------------------------------------------
(***************************************************************************)
(* What the JSON export delivers is whole.  The export reads references,   *)
(* quota and partitions in many requests, while everything else goes on.   *)
(* The argument: for as long as the workspace is live, applications and    *)
(* references only grow, together; so a list as long as the quota is the   *)
(* list of the applications, and none of them is torn when it is read.     *)
(***************************************************************************)
\* While the workspace is live, no application lacks a canonical record.
Whole == Live => \A a \in Applications : Canonical \subseteq items[a]

\* What export x has read of an application that must be in it.
Read(x, a) == Canonical \subseteq xgot[x][a]

(***************************************************************************)
(* What an export knows after each of its requests.  It knows it only of a *)
(* live workspace, until the second look at the lifecycle settles that the *)
(* workspace was live all along.                                           *)
(***************************************************************************)
ListedOnly(x) == xpc[x] \in {"idle", "list", "check"} => xlist[x] \subseteq Applications

ReadSoFar(x) ==
    /\ xpc[x] \in {"read", "page"} =>
          \A a \in xall[x] :
             a \in xtodo[x] \/ Read(x, a) \/ (xpc[x] = "page" /\ a = xcursor[x])
    /\ xpc[x] = "page" => xcursor[x] \in Applications
    /\ xpc[x] = "recheck" => \A a \in xall[x] : Read(x, a)

Underway(x) ==
    /\ xpc[x] # "idle" => refs = Applications
    /\ ListedOnly(x) /\ ReadSoFar(x)

ExportEvidence == Live => \A x \in Exporters : Underway(x)

-------------------------------------------------------------------------------
\* Nothing brings a frozen workspace back, and until it is frozen its
\* applications only grow, whole and together with their references.
LEMMA LiveGrows ==
    ASSUME TypeOK, IInv, Whole, [Next]_vars, ~ Exporting
    PROVE  /\ Live' => /\ Live /\ Applications \subseteq Applications'
                       /\ refs = Applications => refs' = Applications'
           /\ Whole'
<1> USE DEF Whole
<1>1. CASE UNCHANGED storeVars
  BY <1>1 DEF storeVars, Live, Applications
<1>2. CASE Bootstrapping
  <2> PICK b \in Bootstrappers :
          BootStart(b) \/ BootRead(b) \/ BootCommit(b) \/ BootConflict(b) \/ BootAbandon(b)
    BY <1>2 DEF Bootstrapping, BootNext
  <2>1. CASE BootCommit(b)
    <3>1. Live
      BY <2>1 DEF BootCommit, IInv, BootFromLive, Unchanged, Live
    <3>2. UNCHANGED <<refs, items>>
      BY <2>1 DEF BootCommit
    <3> QED BY <3>1, <3>2 DEF Applications
  <2>2. CASE BootStart(b) \/ BootRead(b) \/ BootConflict(b) \/ BootAbandon(b)
    BY <1>1, <2>2 DEF BootStart, BootRead, BootConflict, BootAbandon
  <2> QED BY <2>1, <2>2
<1>3. CASE Writing
  <2> USE DEF TypeOK, StoreTypeOK, Applications, Live, ActiveGuard, Canonical
  <2> PICK w \in Writers :
          \/ Admit(w)
          \/ \E a \in Apps : CreateApplication(w, a)
          \/ \E a \in Apps, c \in Children : CreateChild(w, a, c)
          \/ \E a \in Apps, c \in Children : DeleteChild(w, a, c)
          \/ ReplaceSettings(w)
          \/ WriteDenied(w)
    BY <1>3 DEF Writing, WriteNext
  <2>1. CASE Admit(w) \/ WriteDenied(w)
    BY <1>1, <2>1 DEF Admit, WriteDenied
  <2>2. ASSUME NEW a \in Apps, CreateApplication(w, a)
        PROVE  /\ Live' => /\ Live /\ Applications \subseteq Applications'
                           /\ refs = Applications => refs' = Applications'
               /\ Whole'
    <3>1. /\ Live /\ UNCHANGED state /\ refs' = refs \cup {a}
          /\ items' = [items EXCEPT ![a] = @ \cup Canonical]
      BY <2>2 DEF CreateApplication
    <3>2. Applications' = Applications \cup {a}
      BY <3>1
    <3> QED BY <3>1, <3>2
  <2>3. ASSUME NEW a \in Apps, NEW c \in Children, CreateChild(w, a, c) \/ DeleteChild(w, a, c)
        PROVE  /\ Live' => /\ Live /\ Applications \subseteq Applications'
                           /\ refs = Applications => refs' = Applications'
               /\ Whole'
    <3>1. /\ Live /\ UNCHANGED <<state, refs>> /\ c \notin Canonical
          /\ items' \in {[items EXCEPT ![a] = @ \cup {c}], [items EXCEPT ![a] = @ \ {c}]}
      BY <2>3, StoreAssumption DEF CreateChild, DeleteChild
    <3>2. \A b \in Apps : items'[b] \cap Canonical = items[b] \cap Canonical
      BY <3>1
    <3>3. Applications' = Applications
      BY <3>2
    <3> QED BY <3>1, <3>2, <3>3
  <2>4. CASE ReplaceSettings(w)
    BY <2>4 DEF ReplaceSettings
  <2> QED BY <2>1, <2>2, <2>3, <2>4
<1>4. CASE Erasing
  <2> PICK e \in Erasers :
          \/ EraseAnswerDeleted(e) \/ EraseStart(e)
          \/ EraseStep(e) \/ EraseBatchPartly(e) \/ EraseStop(e)
    BY <1>4 DEF Erasing, EraseNext
  <2>1. CASE EraseBatch(e) \/ EraseBatchPartly(e) \/ EraseDropRef(e)
    <3>1. ~ Live
      BY <2>1 DEF IInv, EraseEvidence, EraseBatch, EraseBatchPartly, EraseDropRef, Go
    <3>2. UNCHANGED state
      BY <2>1 DEF EraseBatch, EraseBatchPartly, EraseDropRef, Remove
    <3> QED BY <3>1, <3>2 DEF Live
  <2>2. CASE Freeze(e) \/ EraseFinish(e)
    BY <2>2 DEF Freeze, EraseFinish, Live
  <2>3. CASE \/ EraseAnswerDeleted(e) \/ EraseStart(e) \/ FreezeLost(e) \/ EraseScan(e)
             \/ EraseSpent(e) \/ ErasePage(e) \/ EraseEmptyPage(e) \/ EraseBatchSpent(e)
             \/ EraseStop(e)
    BY <1>1, <2>3 DEF EraseAnswerDeleted, EraseStart, FreezeLost, EraseScan, EraseSpent,
       ErasePage, EraseEmptyPage, EraseBatchSpent, EraseStop
  <2> QED BY <2>1, <2>2, <2>3 DEF EraseStep
<1>5. CASE Backfilling
  <2> PICK f \in Operators :
          \/ FillStart(f) \/ FillCount(f) \/ FillDiscover(f) \/ FillAdopt(f)
          \/ FillAdopted(f) \/ FillVerify(f) \/ FillMark(f) \/ FillAbandon(f)
    BY <1>5 DEF Backfilling, FillStep
  <2>1. CASE FillAdopt(f)
    <3>1. /\ UNCHANGED <<state, items>>
          /\ \E a \in Applications : refs' = refs \cup {a}
      BY <2>1 DEF FillAdopt, Applications, TypeOK, InventoryTypeOK
    <3> QED BY <3>1 DEF Live, Applications
  <2>2. CASE FillMark(f)
    BY <2>2 DEF FillMark, Live, Applications
  <2>3. CASE \/ FillStart(f) \/ FillCount(f) \/ FillDiscover(f)
             \/ FillAdopted(f) \/ FillVerify(f) \/ FillAbandon(f)
    BY <1>1, <2>3 DEF FillStart, FillCount, FillDiscover, FillAdopted, FillVerify, FillAbandon
  <2> QED BY <2>1, <2>2, <2>3
<1>6. CASE UNCHANGED vars
  BY <1>1, <1>6 DEF vars
<1> QED BY <1>2, <1>3, <1>4, <1>5, <1>6 DEF Next

\* A list of references that is as long as the quota names every application.
LEMMA EqualCountIsAll ==
    ASSUME TypeOK, IInv, Live, NEW L \in SUBSET Applications, Cardinality(L) = quota
    PROVE  L = Applications
BY ApplicationsCounted, FS_Subset DEF IInv, Consistent

\* The export's own steps.
LEMMA ExportPreserves ==
    ASSUME TypeOK, IInv, Whole, ExportEvidence, ExportComplete, Exporting
    PROVE  Whole' /\ ExportEvidence' /\ ExportComplete'
<1> USE DEF XGo
<1>0. InventoryTypeOK /\ StoreTypeOK
  BY DEF TypeOK
<1> PICK x \in Exporters :
        \/ ExportStart(x) \/ ExportListRef(x) \/ ExportListEnd(x) \/ ExportCheck(x)
        \/ ExportGet(x) \/ ExportPage(x) \/ ExportReadEnd(x) \/ ExportDeliver(x) \/ ExportEnd(x)
  BY DEF Exporting, ExportNext
<1>1. UNCHANGED storeVars
  BY DEF ExportStart, ExportListRef, ExportListEnd, ExportCheck, ExportGet, ExportPage,
     ExportReadEnd, ExportDeliver, ExportEnd
<1>2. UNCHANGED <<Live, Applications>> /\ UNCHANGED <<refs, items>>
  BY <1>1 DEF storeVars, Live, Applications
<1>3. Whole'
  BY <1>2 DEF Whole
<1>4. ASSUME NEW y \in Exporters, y # x
      PROVE  /\ xpc'[y] = xpc[y] /\ xlist'[y] = xlist[y] /\ xcursor'[y] = xcursor[y]
             /\ xtodo'[y] = xtodo[y] /\ xgot'[y] = xgot[y] /\ xall'[y] = xall[y]
  <2> USE <1>0, <1>4 DEF InventoryTypeOK
  <2>1. CASE ExportStart(x) \/ ExportListEnd(x) \/ ExportReadEnd(x) \/ ExportDeliver(x)
    BY <2>1 DEF ExportStart, ExportListEnd, ExportReadEnd, ExportDeliver
  <2>2. CASE ExportListRef(x)
    BY <2>2 DEF ExportListRef
  <2>3. CASE ExportCheck(x) \/ ExportGet(x) \/ ExportPage(x)
    BY <2>3 DEF ExportCheck, ExportGet, ExportPage
  <2>4. CASE ExportEnd(x)
    BY <2>4 DEF ExportEnd, XReturn
  <2> QED BY <2>1, <2>2, <2>3, <2>4
<1>5. Live => Underway(x)'
  <2> SUFFICES ASSUME Live PROVE Underway(x)'
    OBVIOUS
  <2>0. Underway(x)
    BY DEF ExportEvidence
  <2> USE <1>0, <1>2, <2>0 DEF InventoryTypeOK, Underway, ListedOnly, ReadSoFar, Read
  <2>1. CASE ExportStart(x)
    <3>1. state = "ACTIVE" /\ manifest
      BY <2>1 DEF ExportStart, Ready
    <3>2. refs = Applications
      BY <3>1 DEF IInv, Consistent, InventoryCoversData, Applications, Live, StoreTypeOK
    <3> QED BY <2>1, <3>2 DEF ExportStart, IInv
  <2>2. CASE ExportListRef(x)
    <3>1. PICK a \in refs : xlist' = [xlist EXCEPT ![x] = @ \cup {a}]
      BY <2>2 DEF ExportListRef, First, Ahead
    <3> QED BY <2>2, <3>1 DEF ExportListRef
  <2>3. CASE ExportListEnd(x)
    BY <2>3 DEF ExportListEnd
  <2>4. CASE ExportCheck(x)
    <3>1. xlist[x] = Applications
      BY <2>4, EqualCountIsAll DEF ExportCheck
    <3> QED BY <2>4, <3>1 DEF ExportCheck
  <2>5. CASE ExportGet(x)
    <3>1. PICK a \in Apps : /\ "METADATA" \in items[a]
                            /\ xcursor' = [xcursor EXCEPT ![x] = a]
                            /\ xtodo' = [xtodo EXCEPT ![x] = @ \ {a}]
      BY <2>5 DEF ExportGet, First
    <3>2. a \in Applications
      BY <3>1 DEF Applications
    <3> QED BY <2>5, <3>1, <3>2 DEF ExportGet
  <2>6. CASE ExportPage(x)
    <3>1. /\ xpc[x] = "page" /\ xpc'[x] = "read"
          /\ UNCHANGED <<xlist, xcursor, xtodo, xall>>
          /\ xgot'[x] = [xgot[x] EXCEPT ![xcursor[x]] = items[xcursor[x]]]
      BY <2>6 DEF ExportPage
    <3>2. Canonical \subseteq items[xcursor[x]] /\ xcursor[x] \in Apps
      BY <3>1 DEF Whole, Applications
    <3>3. xgot[x] \in [Apps -> SUBSET Items]
      OBVIOUS
    <3>4. xgot'[x][xcursor[x]] = items[xcursor[x]]
      BY <3>1, <3>2, <3>3
    <3>5. \A a \in Apps : a # xcursor[x] => xgot'[x][a] = xgot[x][a]
      BY <3>1, <3>3
    <3> QED BY <3>1, <3>2, <3>4, <3>5
  <2>7. CASE ExportReadEnd(x)
    BY <2>7 DEF ExportReadEnd
  <2>8. CASE ExportDeliver(x)
    BY <2>8 DEF ExportDeliver
  <2>9. CASE ExportEnd(x)
    BY <2>9 DEF ExportEnd, XReturn
  <2> QED BY <2>1, <2>2, <2>3, <2>4, <2>5, <2>6, <2>7, <2>8, <2>9
<1>6. ExportEvidence'
  <2> SUFFICES ASSUME Live, NEW y \in Exporters PROVE Underway(y)'
    BY <1>2 DEF ExportEvidence
  <2>1. CASE y = x
    BY <1>5, <2>1
  <2>2. CASE y # x
    BY <1>2, <1>4, <2>2 DEF ExportEvidence, Underway, ListedOnly, ReadSoFar, Read
  <2> QED BY <2>1, <2>2
<1>7. ASSUME xpc'[x] = "done" PROVE \A a \in xall'[x] : Read(x, a)'
  <2>1. ExportDeliver(x)
    BY <1>0, <1>7 DEF InventoryTypeOK, ExportStart, ExportListRef, ExportListEnd, ExportCheck,
       ExportGet, ExportPage, ExportReadEnd, ExportEnd, XReturn
  <2>2. Live /\ xpc[x] = "recheck"
    BY <2>1 DEF ExportDeliver, Live
  <2>3. \A a \in xall[x] : Read(x, a)
    BY <2>2 DEF ExportEvidence, Underway, ReadSoFar
  <2> QED BY <2>1, <2>3 DEF ExportDeliver, Read
<1>8. ExportComplete'
  BY <1>4, <1>7 DEF ExportComplete, Read
<1> QED BY <1>3, <1>6, <1>8

\* A delivered export holds every application that existed when it compared
\* its list with the quota, each with its canonical records: whatever is
\* created, erased, repaired or adopted while it walks the partitions.
THEOREM ExportIsComplete == Spec => []ExportComplete
<1>1. Init => Whole /\ ExportEvidence /\ ExportComplete
  <2> SUFFICES ASSUME Init PROVE Whole /\ ExportEvidence /\ ExportComplete
    OBVIOUS
  <2>1. Whole
    BY DEF Init, StoreInit, FreshInit, LegacyInit, Whole, Applications, Canonical
  <2>2. \A x \in Exporters : xpc[x] = "idle" /\ xlist[x] = {}
    BY DEF Init, InventoryInit
  <2> QED BY <2>1, <2>2 DEF ExportEvidence, Underway, ListedOnly, ReadSoFar, ExportComplete
<1>2. ASSUME TypeOK, IInv, Whole, ExportEvidence, ExportComplete, [Next]_vars
      PROVE  Whole' /\ ExportEvidence' /\ ExportComplete'
  <2>1. CASE Exporting
    BY <1>2, <2>1, ExportPreserves
  <2>2. CASE ~ Exporting
    <3>1. UNCHANGED exportVars
      BY <1>2, <2>2 DEF Next, vars, Bootstrapping, Writing, Erasing, Backfilling
    <3>2. ExportComplete'
      BY <1>2, <3>1 DEF exportVars, ExportComplete
    <3>3. /\ Live' => /\ Live /\ Applications \subseteq Applications'
                      /\ refs = Applications => refs' = Applications'
          /\ Whole'
      BY <1>2, <2>2, LiveGrows
    <3>4. ExportEvidence'
      BY <1>2, <3>1, <3>3 DEF exportVars, ExportEvidence, Underway, ListedOnly, ReadSoFar, Read
    <3> QED BY <3>2, <3>3, <3>4
  <2> QED BY <2>1, <2>2
<1> QED BY <1>1, <1>2, IInvHolds, PTL DEF Spec

-------------------------------------------------------------------------------
(***************************************************************************)
(* DurableWorkspace implements WorkspaceLifecycle: seen through the        *)
(* records it stores, every step of every request is a step of the         *)
(* lifecycle the owner is promised, or changes nothing.                    *)
(***************************************************************************)
Phase == IF state \in {"ABSENT", "PROVISIONING"} THEN "NONE" ELSE state

LEMMA StoredIsRecords ==
    /\ TypeOK => Stored \in SUBSET AllRecords
    /\ TypeOK' => Stored' \in SUBSET AllRecords
<1>1. TypeOK => Stored \in SUBSET AllRecords
  BY DEF TypeOK, StoreTypeOK, Stored, AllRecords, OwnerItems, OwnerKeys
<1>2. TypeOK' => Stored' \in SUBSET AllRecords
  BY DEF TypeOK, StoreTypeOK, Stored, AllRecords, OwnerItems, OwnerKeys
<1> QED BY <1>1, <1>2

LEMMA StoredUnchanged ==
    ASSUME UNCHANGED <<profile, settings, quota, refs, items>>
    PROVE  UNCHANGED Stored
<1>1. UNCHANGED OwnerItems
  BY DEF OwnerItems
<1> QED BY <1>1 DEF Stored

LEMMA StoredEmpty ==
    ASSUME OwnerItems = {}, refs = {}, \A a \in Apps : items[a] = {}
    PROVE  Stored = {}
BY DEF Stored

LEMMA StoredGrows ==
    ASSUME OwnerItems \subseteq OwnerItems', UNCHANGED <<refs, items>>
    PROVE  Stored \subseteq Stored'
BY DEF Stored

LEMMA StoredShrinks ==
    ASSUME OwnerItems' \subseteq OwnerItems, refs' \subseteq refs,
           \A a \in Apps : items'[a] \subseteq items[a]
    PROVE  Stored' \subseteq Stored
BY DEF Stored

\* The steps that change the table, by what they are to the owner.
LEMMA BootstrapImplements ==
    ASSUME TypeOK, TypeOK', IInv, Bootstrapping
    PROVE  [Promise!LifecycleNext]_<<Phase, Stored>>
<1>1. CASE UNCHANGED storeVars
  BY <1>1, StoredUnchanged DEF storeVars, Phase
<1>2. CASE \E b \in Bootstrappers : BootCommit(b)
  <2>1. PICK b \in Bootstrappers : BootCommit(b)
    BY <1>2
  <2>2. Live /\ state' = "ACTIVE"
    BY <2>1 DEF IInv, BootCommit, BootFromLive, Unchanged, Live
  <2>3. Stored \in SUBSET AllRecords /\ Stored' \in SUBSET AllRecords
    BY StoredIsRecords
  <2>4. CASE state = "ACTIVE"
    BY <2>2, <2>3, <2>4 DEF Phase, Promise!LifecycleNext, Promise!Work
  <2>5. CASE state # "ACTIVE"
    <3>1. profile' # Missing
      <4>1. profile' = ProposedProfile(b) /\ bsnap[b].profile = profile /\ battrs[b] \in Names
        BY <2>1 DEF BootCommit, Unchanged, TypeOK, BootTypeOK
      <4> QED BY <4>1, StoreAssumption DEF ProposedProfile
    <3>2. settings' # "MISSING" /\ UNCHANGED <<quota, refs, items>>
      BY <2>1 DEF BootCommit, Unchanged
    <3>3. OwnerItems \subseteq OwnerItems'
      BY <3>1, <3>2 DEF OwnerItems
    <3> QED BY <2>2, <2>3, <2>5, <3>2, <3>3, StoredGrows
            DEF Live, Phase, Promise!LifecycleNext, Promise!Open
  <2> QED BY <2>4, <2>5
<1> QED BY <1>1, <1>2 DEF Bootstrapping, BootNext, BootStart, BootRead, BootConflict, BootAbandon

LEMMA WriteImplements ==
    ASSUME TypeOK, TypeOK', Writing
    PROVE  [Promise!LifecycleNext]_<<Phase, Stored>>
<1>1. CASE UNCHANGED storeVars
  BY <1>1, StoredUnchanged DEF storeVars, Phase
<1>2. CASE state = "ACTIVE" /\ state' = "ACTIVE"
  BY <1>2, StoredIsRecords DEF Phase, Promise!LifecycleNext, Promise!Work
<1> QED BY <1>1, <1>2 DEF Writing, WriteNext, Admit, CreateApplication, CreateChild,
        DeleteChild, ReplaceSettings, WriteDenied, ActiveGuard

LEMMA FillImplements ==
    ASSUME TypeOK, TypeOK', Backfilling
    PROVE  [Promise!LifecycleNext]_<<Phase, Stored>>
<1>1. CASE UNCHANGED storeVars
  BY <1>1, StoredUnchanged DEF storeVars, Phase
<1>2. CASE state = "ACTIVE" /\ state' = "ACTIVE"
  BY <1>2, StoredIsRecords DEF Phase, Promise!LifecycleNext, Promise!Work
<1> QED BY <1>1, <1>2 DEF Backfilling, FillStep, FillStart, FillCount, FillDiscover, FillAdopt,
        FillAdopted, FillVerify, FillMark, FillAbandon, ActiveGuard

LEMMA EraseImplements ==
    ASSUME TypeOK, TypeOK', IInv, Erasing
    PROVE  [Promise!LifecycleNext]_<<Phase, Stored>>
<1> PICK e \in Erasers :
        \/ EraseAnswerDeleted(e) \/ EraseStart(e)
        \/ EraseStep(e) \/ EraseBatchPartly(e) \/ EraseStop(e)
  BY DEF Erasing, EraseNext
<1>0. state = "DELETED" => OwnerItems = {} /\ refs = {} /\ \A a \in Apps : items[a] = {}
  BY DEF IInv, TombstoneOnly
<1>1. CASE UNCHANGED storeVars
  BY <1>1, StoredUnchanged DEF storeVars, Phase
<1>2. CASE Freeze(e)
  <2>1. UNCHANGED Stored
    BY <1>2, StoredUnchanged DEF Freeze
  <2> QED BY <1>2, <2>1 DEF Freeze, ActiveGuard, Phase, Promise!LifecycleNext, Promise!Close
<1>3. CASE /\ UNCHANGED state /\ OwnerItems' \subseteq OwnerItems /\ refs' \subseteq refs
           /\ \A a \in Apps : items'[a] \subseteq items[a]
           /\ state \in {"DELETING", "DELETED"}
  <2>1. Stored' \in SUBSET Stored
    BY <1>3, StoredShrinks
  <2>2. CASE state = "DELETING"
    BY <1>3, <2>1, <2>2 DEF Phase, Promise!LifecycleNext, Promise!Purge
  <2>3. CASE state = "DELETED"
    <3>1. Stored = {}
      BY <1>0, <2>3, StoredEmpty
    <3> QED BY <1>3, <2>1, <3>1 DEF Phase
  <2> QED BY <1>3, <2>2, <2>3
<1>4. CASE EraseBatch(e) \/ EraseBatchPartly(e)
  <2>1. PICK keys : Remove(ewhere[e], keys)
    BY <1>4 DEF EraseBatch, EraseBatchPartly
  <2>2. state \in {"DELETING", "DELETED"}
    BY <1>4 DEF EraseBatch, EraseBatchPartly, Go, IInv, EraseEvidence, Live, TypeOK,
       StoreTypeOK, States
  <2> QED BY <1>3, <2>1, <2>2, RemoveRemoves DEF TypeOK, EraseTypeOK
<1>5. CASE EraseDropRef(e)
  <2>1. state \in {"DELETING", "DELETED"}
    BY <1>5 DEF EraseDropRef, Go, IInv, EraseEvidence, Live, TypeOK, StoreTypeOK, States
  <2>2. UNCHANGED <<state, items, OwnerItems>> /\ refs' \subseteq refs
    BY <1>5 DEF EraseDropRef, OwnerItems
  <2> QED BY <1>3, <2>1, <2>2
<1>6. CASE EraseFinish(e)
  <2>1. OwnerItems = {} /\ refs = {} /\ state \in {"DELETING", "DELETED"}
    BY <1>6 DEF EraseFinish, IInv, EraseEvidence
  <2>2. \A a \in Apps : items[a] = {}
    BY <1>0, <2>1 DEF IInv, Frozen, InventoryCoversData
  <2>3. Stored = {} /\ Stored' = {} /\ state' = "DELETED"
    BY <1>6, <2>1, <2>2, StoredEmpty, StoredUnchanged DEF EraseFinish
  <2> QED BY <2>1, <2>3 DEF Phase, Promise!LifecycleNext, Promise!Bury
<1> QED BY <1>1, <1>2, <1>4, <1>5, <1>6 DEF EraseStep, EraseAnswerDeleted, EraseStart,
        FreezeLost, EraseScan, EraseSpent, ErasePage, EraseEmptyPage, EraseBatchSpent, EraseStop

\* The promise is kept: data changes only while the workspace is active,
\* erasure only removes, and what is erased is empty and stays so.
THEOREM LifecycleImplemented == Spec => LifecyclePromise
<1>1. Init /\ TypeOK => Promise!LifecycleInit
  <2>1. Init => state \in {"ABSENT", "PROVISIONING", "ACTIVE"}
    BY DEF Init, StoreInit, FreshInit, LegacyInit
  <2> QED BY <2>1, StoredIsRecords DEF Promise!LifecycleInit
<1>2. ASSUME TypeOK, TypeOK', IInv, [Next]_vars
      PROVE  [Promise!LifecycleNext]_<<Phase, Stored>>
  <2>1. CASE Exporting \/ UNCHANGED vars
    <3>1. UNCHANGED storeVars
      BY <2>1 DEF vars, Exporting, ExportNext, ExportStart, ExportListRef, ExportListEnd,
         ExportCheck, ExportGet, ExportPage, ExportReadEnd, ExportDeliver, ExportEnd
    <3> QED BY <3>1, StoredUnchanged DEF storeVars, Phase
  <2> QED BY <1>2, <2>1, BootstrapImplements, WriteImplements, EraseImplements, FillImplements
          DEF Next
<1>3. ASSUME TypeOK, TypeOK', IInv, [Next]_vars
      PROVE  [Promise!LifecycleNext]_Promise!lifecycleVars
  BY <1>2, <1>3 DEF Phase, Promise!lifecycleVars
<1> QED BY <1>1, <1>3, IInvHolds, PTL DEF Spec, LifecyclePromise, Promise!Lifecycle
===============================================================================
