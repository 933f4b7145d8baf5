---------------------------- MODULE WorkspaceStore ----------------------------
(***************************************************************************)
(* The records of one durable owner in the single DynamoDB table: the      *)
(* owner partition (the WORKSPACE lifecycle record, PROFILE, SETTINGS,     *)
(* WORKSPACE_QUOTA and one APPLICATION_REF per application) and one        *)
(* partition per application.  A request to the table is one step: a       *)
(* transaction, a conditional put and a strongly consistent read are       *)
(* atomic.                                                                 *)
(*                                                                         *)
(* An application is born with its METADATA record and the activity that   *)
(* records its creation, which no ordinary request removes (ACTIVITY also  *)
(* stands for the RESOURCE_QUOTA record, written with it and counted by no *)
(* property here).  Notes and interviews are Children.                     *)
(***************************************************************************)
EXTENDS Integers, FiniteSets

CONSTANTS
    Kind,       \* how this owner signs in: "LOCAL" or "PERSISTENT"
    Apps,       \* application identifiers, in key order
    Children,   \* kinds of removable records an application may own
    Names,      \* profile contents
    Missing     \* the profile of an owner that has none

ASSUME StoreAssumption ==
    /\ Kind \in {"LOCAL", "PERSISTENT"}
    /\ Apps \subseteq Nat /\ IsFiniteSet(Apps) /\ IsFiniteSet(Children)
    /\ Missing \notin Names
    /\ Children \cap {"METADATA", "ACTIVITY", "PROFILE", "SETTINGS", "WORKSPACE_QUOTA"} = {}

VARIABLES
    state,      \* WORKSPACE.state, "ABSENT" when there is no record
    manifest,   \* does WORKSPACE carry application_manifest_version = 1?
    profile,    \* the PROFILE record's name and e-mail
    settings,   \* the SETTINGS record: missing, default, or customised
    quota,      \* WORKSPACE_QUOTA.application_count; 0 is "no record"
    refs,       \* applications that have an APPLICATION_REF record
    items       \* the records of each application partition

storeVars == <<state, manifest, profile, settings, quota, refs, items>>

States == {"ABSENT", "PROVISIONING", "ACTIVE", "DELETING", "DELETED"}
Canonical == {"METADATA", "ACTIVITY"}
Items == Canonical \cup Children
OwnerKeys == {"PROFILE", "SETTINGS", "WORKSPACE_QUOTA"}

StoreTypeOK ==
    /\ state \in States
    /\ manifest \in BOOLEAN
    /\ profile \in Names \cup {Missing}
    /\ settings \in {"MISSING", "DEFAULT", "CUSTOM"}
    /\ quota \in Nat
    /\ refs \subseteq Apps
    /\ items \in [Apps -> SUBSET Items]

(***************************************************************************)
(* What requests read.                                                     *)
(***************************************************************************)
Applications == {a \in Apps : "METADATA" \in items[a]}

\* A query answers in key order.
First(S) == {a \in S : \A b \in S : a <= b}

\* The owner partition without WORKSPACE and the references.
OwnerItems == {k \in OwnerKeys :
    \/ k = "PROFILE" /\ profile # Missing
    \/ k = "SETTINGS" /\ settings # "MISSING"
    \/ k = "WORKSPACE_QUOTA" /\ quota > 0}

HasOwnerData == state # "ABSENT" \/ OwnerItems # {} \/ refs # {}

\* The readiness every ordinary route requires before it does anything.
Ready == state = "ACTIVE" /\ profile # Missing /\ settings # "MISSING"

\* The ConditionCheck that every durable write carries in its transaction.
ActiveGuard == state = "ACTIVE"

(***************************************************************************)
(* Initial states.  A new owner has nothing.  An owner older than the      *)
(* manifest may have applications without references, any of the lazily    *)
(* created owner records, and a lifecycle record in any state that predates*)
(* erasure; its lifetime quota counts its applications.  Only LOCAL owners *)
(* are that old.                                                           *)
(***************************************************************************)
FreshInit ==
    /\ state = "ABSENT" /\ manifest = FALSE
    /\ profile = Missing /\ settings = "MISSING"
    /\ quota = 0 /\ refs = {}
    /\ items = [a \in Apps |-> {}]

LegacyInit ==
    /\ Kind = "LOCAL"
    /\ state \in {"ABSENT", "PROVISIONING", "ACTIVE"} /\ manifest = FALSE
    /\ profile \in Names \cup {Missing}
    /\ settings \in {"MISSING", "DEFAULT", "CUSTOM"}
    /\ refs = {}
    /\ \E old \in SUBSET Apps :
          /\ quota = Cardinality(old)
          /\ items = [a \in Apps |-> IF a \in old THEN Canonical ELSE {}]

StoreInit == FreshInit \/ LegacyInit
===============================================================================
