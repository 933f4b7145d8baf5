--------------------------- MODULE WorkspaceErasure ---------------------------
(***************************************************************************)
(* DELETE /me and POST /me/deletion/retry: freeze the workspace, then      *)
(* erase it a page at a time under a work budget.  The only progress       *)
(* records are the references that remain, so that any later call, or a    *)
(* concurrent one, continues where this one stopped.                       *)
(***************************************************************************)
EXTENDS WorkspaceStore

CONSTANTS
    Erasers,        \* concurrent deletion calls
    Owner,          \* stands for the owner partition among the partitions
    MaxItems,       \* records one call may delete: erasure's item budget
    PageSize,       \* keys in one page and in one batch (25 in the code)
    MaxAttempts,    \* attempts at one batch (4 in the code)
    MaxFailures     \* bound on crashes, errors, deadlines and partial batches

ASSUME ErasureAssumption ==
    /\ Owner \notin Apps
    /\ {MaxItems, PageSize, MaxAttempts} \subseteq Nat \ {0}
    /\ MaxFailures \in Nat

VARIABLES
    epc,        \* where each call is
    ewhere,     \* the partition it is erasing
    ebatch,     \* the keys of the batch it is deleting
    ebudget,    \* records it may still delete
    etry,       \* its attempt at the current batch
    etold,      \* the lifecycle state it last answered with
    failures    \* setbacks so far

eraseVars == <<epc, ewhere, ebatch, ebudget, etry, etold, failures>>

Partitions == Apps \cup {Owner}

EraseTypeOK ==
    /\ epc \in [Erasers -> {"idle", "freeze", "scan", "page", "batch", "drop", "finish"}]
    /\ ewhere \in [Erasers -> Partitions]
    /\ ebatch \in [Erasers -> SUBSET (Items \cup OwnerKeys)]
    /\ ebudget \in [Erasers -> 0..MaxItems]
    /\ etry \in [Erasers -> 1..MaxAttempts]
    /\ etold \in [Erasers -> {"NONE"} \cup States]
    /\ failures \in Nat

EraseInit ==
    /\ epc = [e \in Erasers |-> "idle"]
    /\ ewhere = [e \in Erasers |-> Owner]
    /\ ebatch = [e \in Erasers |-> {}]
    /\ ebudget = [e \in Erasers |-> MaxItems]
    /\ etry = [e \in Erasers |-> 1]
    /\ etold = [e \in Erasers |-> "NONE"]
    /\ failures = 0

\* A call moves on, or returns: then nothing of it is left.
Go(e, from, to) == epc[e] = from /\ epc' = [epc EXCEPT ![e] = to]

Return(e) ==
    /\ epc' = [epc EXCEPT ![e] = "idle"]
    /\ ewhere' = [ewhere EXCEPT ![e] = Owner]
    /\ ebatch' = [ebatch EXCEPT ![e] = {}]
    /\ ebudget' = [ebudget EXCEPT ![e] = MaxItems]
    /\ etry' = [etry EXCEPT ![e] = 1]

Tell(e, answer) == etold' = [etold EXCEPT ![e] = answer]

Setback == failures < MaxFailures /\ failures' = failures + 1

(***************************************************************************)
(* Starting and freezing.                                                  *)
(***************************************************************************)

\* The status read: an erased workspace is answered at once; anything else
\* needs a complete manifest before a single record is touched.
EraseAnswerDeleted(e) ==
    /\ epc[e] = "idle" /\ state = "DELETED"
    /\ Tell(e, "DELETED")
    /\ UNCHANGED <<epc, ewhere, ebatch, ebudget, etry, failures, storeVars>>

EraseStart_NoFreeze(e) ==
    /\ state \in {"ACTIVE", "DELETING"} /\ manifest
    /\ Go(e, "idle", "scan")
    /\ UNCHANGED <<ewhere, ebatch, ebudget, etry, etold, failures, storeVars>>

EraseStart_OnlyActive(e) ==
    /\ state = "ACTIVE" /\ manifest
    /\ Go(e, "idle", "freeze")
    /\ UNCHANGED <<ewhere, ebatch, ebudget, etry, etold, failures, storeVars>>

EraseStart(e) ==
    /\ state \in {"ACTIVE", "DELETING"} /\ manifest
    /\ Go(e, "idle", IF state = "ACTIVE" THEN "freeze" ELSE "scan")
    /\ UNCHANGED <<ewhere, ebatch, ebudget, etry, etold, failures, storeVars>>

\* A put conditional on ACTIVE with a complete manifest.
Freeze_Unconditional(e) ==
    /\ Go(e, "freeze", "scan")
    /\ state' = "DELETING" /\ manifest' = TRUE
    /\ UNCHANGED <<profile, settings, quota, refs, items>>
    /\ UNCHANGED <<ewhere, ebatch, ebudget, etry, etold, failures>>

Freeze(e) ==
    /\ ActiveGuard /\ manifest
    /\ Go(e, "freeze", "scan")
    /\ state' = "DELETING"
    /\ UNCHANGED <<manifest, profile, settings, quota, refs, items>>
    /\ UNCHANGED <<ewhere, ebatch, ebudget, etry, etold, failures>>

\* The condition failed: another call froze, or even erased, the workspace.
FreezeLost(e) ==
    /\ ~ (ActiveGuard /\ manifest)
    /\ Go(e, "freeze", IF state = "DELETING" THEN "scan" ELSE "idle")
    /\ Tell(e, IF state = "DELETED" THEN "DELETED" ELSE etold[e])
    /\ UNCHANGED <<ewhere, ebatch, ebudget, etry, failures, storeVars>>

(***************************************************************************)
(* One iteration of the loop: the first reference, or the owner partition  *)
(* once none is left.                                                      *)
(***************************************************************************)
EraseScan(e) ==
    /\ Go(e, "scan", "page")
    /\ ebudget[e] > 0
    /\ \E p \in IF refs = {} THEN {Owner} ELSE First(refs) :
          ewhere' = [ewhere EXCEPT ![e] = p]
    /\ UNCHANGED <<ebatch, ebudget, etry, etold, failures, storeVars>>

\* The budget is spent: the call answers that erasure is still in progress.
EraseSpent(e) ==
    /\ epc[e] = "scan" /\ ebudget[e] = 0
    /\ Return(e) /\ Tell(e, "DELETING")
    /\ UNCHANGED <<failures, storeVars>>

\* The owner partition is asked for when no reference is left in it, and none
\* can come back: whatever writes one carries the ACTIVE check.
RecordsOf(p) == IF p = Owner THEN OwnerItems ELSE items[p]

\* A strongly consistent page of the partition.
ErasePage(e) ==
    /\ RecordsOf(ewhere[e]) # {}
    /\ Go(e, "page", "batch")
    /\ \E page \in SUBSET RecordsOf(ewhere[e]) \ {{}} :
          /\ Cardinality(page) <= PageSize /\ Cardinality(page) <= ebudget[e]
          /\ ebatch' = [ebatch EXCEPT ![e] = page]
    /\ UNCHANGED <<ewhere, ebudget, etry, etold, failures, storeVars>>

\* An empty page: an application partition is finished, or the owner is.
EraseEmptyPage_AnyPage(e) ==
    /\ Go(e, "page", IF ewhere[e] = Owner THEN "finish" ELSE "drop")
    /\ UNCHANGED <<ewhere, ebatch, ebudget, etry, etold, failures, storeVars>>

EraseEmptyPage(e) ==
    /\ RecordsOf(ewhere[e]) = {}
    /\ Go(e, "page", IF ewhere[e] = Owner THEN "finish" ELSE "drop")
    /\ UNCHANGED <<ewhere, ebatch, ebudget, etry, etold, failures, storeVars>>

Remove(p, keys) ==
    /\ profile' = IF p = Owner /\ "PROFILE" \in keys THEN Missing ELSE profile
    /\ settings' = IF p = Owner /\ "SETTINGS" \in keys THEN "MISSING" ELSE settings
    /\ quota' = IF p = Owner /\ "WORKSPACE_QUOTA" \in keys THEN 0 ELSE quota
    /\ items' = IF p = Owner THEN items ELSE [items EXCEPT ![p] = @ \ keys]
    /\ UNCHANGED <<state, manifest, refs>>

\* The batch write deletes every key.
EraseBatch(e) ==
    /\ Go(e, "batch", "scan")
    /\ Cardinality(ebatch[e]) <= ebudget[e]
    /\ Remove(ewhere[e], ebatch[e])
    /\ ebudget' = [ebudget EXCEPT ![e] = @ - Cardinality(ebatch[e])]
    /\ ebatch' = [ebatch EXCEPT ![e] = {}]
    /\ ewhere' = [ewhere EXCEPT ![e] = Owner]
    /\ etry' = [etry EXCEPT ![e] = 1]
    /\ UNCHANGED <<etold, failures>>

\* The batch write leaves keys unprocessed: try them again, or give up.
EraseBatchPartly(e) ==
    /\ epc[e] = "batch"
    /\ Cardinality(ebatch[e]) <= ebudget[e]
    /\ Setback
    /\ \E done \in SUBSET ebatch[e] \ {ebatch[e]} :
          /\ Remove(ewhere[e], done)
          /\ \/ /\ etry[e] < MaxAttempts
                /\ etry' = [etry EXCEPT ![e] = @ + 1]
                /\ ebatch' = [ebatch EXCEPT ![e] = @ \ done]
                /\ ebudget' = [ebudget EXCEPT ![e] = @ - Cardinality(ebatch[e])]
                /\ UNCHANGED <<epc, ewhere, etold>>
             \/ /\ etry[e] = MaxAttempts
                /\ Return(e) /\ Tell(e, state)

\* A retry of the batch would exceed the budget.
EraseBatchSpent(e) ==
    /\ epc[e] = "batch" /\ Cardinality(ebatch[e]) > ebudget[e]
    /\ Return(e) /\ Tell(e, "DELETING")
    /\ UNCHANGED <<failures, storeVars>>

EraseDropRef(e) ==
    /\ Go(e, "drop", "scan")
    /\ refs' = refs \ {ewhere[e]}
    /\ ebudget' = [ebudget EXCEPT ![e] = @ - 1]
    /\ ewhere' = [ewhere EXCEPT ![e] = Owner]
    /\ UNCHANGED <<state, manifest, profile, settings, quota, items>>
    /\ UNCHANGED <<ebatch, etry, etold, failures>>

\* The tombstone: a put conditional on DELETING.  When another call wrote it
\* first, the failed call reads it and gives the same answer.
EraseFinish(e) ==
    /\ epc[e] = "finish"
    /\ state \in {"DELETING", "DELETED"}
    /\ state' = "DELETED"
    /\ manifest' = FALSE
    /\ Return(e) /\ Tell(e, "DELETED")
    /\ UNCHANGED <<profile, settings, quota, refs, items, failures>>

(***************************************************************************)
(* The call stops early: its deadline passes (it answers as it began, in   *)
(* DELETING), the table answers with an error (the status is read again),  *)
(* or the process dies and the caller learns nothing.                      *)
(***************************************************************************)
EraseStop(e) ==
    /\ epc[e] # "idle"
    /\ Return(e) /\ Setback
    /\ \/ epc[e] # "freeze" /\ \E answer \in {"DELETING", state} : Tell(e, answer)
       \/ UNCHANGED etold
    /\ UNCHANGED storeVars

EraseStep(e) ==
    \/ Freeze(e) \/ FreezeLost(e)
    \/ EraseScan(e) \/ EraseSpent(e)
    \/ ErasePage(e) \/ EraseEmptyPage(e)
    \/ EraseBatch(e) \/ EraseBatchSpent(e)
    \/ EraseDropRef(e)
    \/ EraseFinish(e)

EraseNext == \E e \in Erasers :
    \/ EraseAnswerDeleted(e) \/ EraseStart(e)
    \/ EraseStep(e)
    \/ EraseBatchPartly(e) \/ EraseStop(e)
===============================================================================
