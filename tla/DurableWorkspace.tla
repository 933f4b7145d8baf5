--------------------------- MODULE DurableWorkspace ---------------------------
(***************************************************************************)
(* Everything that touches one durable workspace, running concurrently     *)
(* against its records: bootstrap, product writes, erasure, export and     *)
(* manifest backfill.  This module composes the components and states what *)
(* they must keep together.                                                *)
(***************************************************************************)
EXTENDS WorkspaceBootstrap, WorkspaceWrites, WorkspaceErasure, WorkspaceInventory

vars == <<storeVars, bootVars, wpc, eraseVars, exportVars, fillVars>>

Init ==
    /\ StoreInit
    /\ BootInit /\ WriteInit /\ EraseInit /\ InventoryInit

FreshOwnerInit == Init /\ FreshInit

Bootstrapping == BootNext /\ UNCHANGED <<wpc, eraseVars, exportVars, fillVars>>
Writing       == WriteNext /\ UNCHANGED <<bootVars, eraseVars, exportVars, fillVars>>
Erasing       == EraseNext /\ UNCHANGED <<bootVars, wpc, exportVars, fillVars>>
Exporting     == ExportNext /\ UNCHANGED <<bootVars, wpc, eraseVars, fillVars>>
Backfilling   == \E f \in Operators :
    FillStep(f) /\ UNCHANGED <<bootVars, wpc, eraseVars, exportVars>>

Next == Bootstrapping \/ Writing \/ Erasing \/ Exporting \/ Backfilling

Spec == Init /\ [][Next]_vars

FreshSpec == FreshOwnerInit /\ [][Next]_vars

(***************************************************************************)
(* Fairness.  A deletion call that runs goes on to its next request, and   *)
(* an owner who was left with a half-erased workspace asks again.  Nobody  *)
(* has to start a deletion, and setbacks need not happen.                  *)
(***************************************************************************)
RetryErasure(e) == state = "DELETING" /\ EraseStart(e)

ErasureFairness == \A e \in Erasers :
    WF_vars((RetryErasure(e) \/ EraseStep(e))
            /\ UNCHANGED <<bootVars, wpc, exportVars, fillVars>>)

FairSpec == Spec /\ ErasureFairness

-------------------------------------------------------------------------------
TypeOK ==
    /\ StoreTypeOK /\ BootTypeOK /\ WriteTypeOK /\ EraseTypeOK /\ InventoryTypeOK

(***************************************************************************)
(* The inventory covers the data: with a complete manifest, an application *)
(* partition that holds any record is referenced, while the workspace is   *)
(* active and until erasure has emptied that partition.  This is what lets *)
(* erasure stop, crash and resume without losing track of anything.        *)
(***************************************************************************)
InventoryCoversData ==
    manifest => \A a \in Apps : items[a] # {} => a \in refs

(***************************************************************************)
(* The manifest is exact: in an active workspace it marks, the references  *)
(* are the applications and the lifetime quota counts them.  Export and    *)
(* erasure take their inventory from it.                                   *)
(***************************************************************************)
ManifestExact ==
    manifest /\ state = "ACTIVE" =>
        /\ refs = Applications
        /\ quota = Cardinality(refs)

\* A tombstone is all that is left of an erased workspace.
TombstoneOnly ==
    state = "DELETED" =>
        /\ OwnerItems = {} /\ refs = {} /\ ~ manifest
        /\ \A a \in Apps : items[a] = {}

\* A deletion call that answered DELETED told the truth, and it stays true.
ErasureAnswersTruly ==
    \A e \in Erasers : etold[e] = "DELETED" => state = "DELETED"

\* For an owner who started with nothing, readiness is all or nothing: the
\* workspace is never active without its profile and its preferences.
ReadyTogether == state = "ACTIVE" => profile # Missing /\ settings # "MISSING"

\* Customised preferences survive everything but erasure, whichever snapshot
\* a concurrent bootstrap proposed its defaults from.
PreferencesKept ==
    [][settings = "CUSTOM" => settings' = "CUSTOM" \/ state = "DELETING"]_vars

\* A delivered export holds every application that existed when it compared
\* its list with the quota, each with its canonical records: it is neither
\* short of an application created meanwhile nor torn by an erasure.
ExportComplete ==
    \A x \in Exporters : xpc[x] = "done" =>
        \A a \in xall[x] : Canonical \subseteq xgot[x][a]

\* A manifest that was established as complete stays so until erasure: no
\* bootstrap that repairs another record takes it back.
ManifestKept ==
    [][manifest /\ state' = "ACTIVE" => manifest']_vars

\* The lifecycle the owner is promised, seen through the table's records.
Stored ==
    {<<"owner", k>> : k \in OwnerItems} \cup {<<"ref", a>> : a \in refs}
    \cup UNION {{<<"app", a, i>> : i \in items[a]} : a \in Apps}

AllRecords ==
    {<<"owner", k>> : k \in OwnerKeys} \cup {<<"ref", a>> : a \in Apps}
    \cup {<<"app", a, i>> : a \in Apps, i \in Items}

Promise == INSTANCE WorkspaceLifecycle WITH
    Records <- AllRecords,
    phase <- IF state \in {"ABSENT", "PROVISIONING"} THEN "NONE" ELSE state,
    stored <- Stored

LifecyclePromise == Promise!Lifecycle

\* A started erasure ends in a tombstone, through any bounded number of
\* crashes, errors, expired deadlines and partly processed batches.
ErasureCompletes == state = "DELETING" ~> state = "DELETED"
===============================================================================
