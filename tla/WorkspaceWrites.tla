---------------------------- MODULE WorkspaceWrites ----------------------------
(***************************************************************************)
(* The ordinary product requests of a durable owner, as far as the         *)
(* lifecycle is concerned: a request passes the readiness check of its     *)
(* route, and later commits one transaction that carries the ACTIVE check. *)
(* Between the two, anything may happen to the workspace.                  *)
(***************************************************************************)
EXTENDS WorkspaceStore

CONSTANTS
    Writers,            \* concurrent product requests
    MaxApplications     \* the lifetime quota of a workspace

ASSUME WritesAssumption == MaxApplications \in Nat

VARIABLE wpc            \* "idle" or "admitted"

WriteTypeOK == wpc \in [Writers -> {"idle", "admitted"}]

WriteInit == wpc = [w \in Writers |-> "idle"]

\* get_workspace_identity: the route's dependency reads the workspace.
Admit(w) ==
    /\ wpc[w] = "idle"
    /\ Ready
    /\ wpc' = [wpc EXCEPT ![w] = "admitted"]
    /\ UNCHANGED storeVars

Answer(w) ==
    /\ wpc[w] = "admitted"
    /\ wpc' = [wpc EXCEPT ![w] = "idle"]

(***************************************************************************)
(* One transaction writes the reference, the quota and the application.    *)
(***************************************************************************)
CreateApplication_NoReference(w, a) ==
    /\ Answer(w)
    /\ ActiveGuard
    /\ quota < MaxApplications
    /\ items[a] \cap Canonical = {}
    /\ quota' = quota + 1
    /\ items' = [items EXCEPT ![a] = @ \cup Canonical]
    /\ UNCHANGED <<state, manifest, profile, settings, refs>>

CreateApplication(w, a) ==
    /\ Answer(w)
    /\ ActiveGuard
    /\ a \notin refs
    /\ quota < MaxApplications
    /\ items[a] \cap Canonical = {}
    /\ refs' = refs \cup {a}
    /\ quota' = quota + 1
    /\ items' = [items EXCEPT ![a] = @ \cup Canonical]
    /\ UNCHANGED <<state, manifest, profile, settings>>

\* A note or an interview: the application must still have its METADATA.
CreateChild_Unguarded(w, a, c) ==
    /\ Answer(w)
    /\ "METADATA" \in items[a] /\ c \notin items[a]
    /\ items' = [items EXCEPT ![a] = @ \cup {c}]
    /\ UNCHANGED <<state, manifest, profile, settings, quota, refs>>

CreateChild(w, a, c) ==
    /\ Answer(w)
    /\ ActiveGuard
    /\ "METADATA" \in items[a] /\ c \notin items[a]
    /\ items' = [items EXCEPT ![a] = @ \cup {c}]
    /\ UNCHANGED <<state, manifest, profile, settings, quota, refs>>

DeleteChild(w, a, c) ==
    /\ Answer(w)
    /\ ActiveGuard
    /\ c \in items[a]
    /\ items' = [items EXCEPT ![a] = @ \ {c}]
    /\ UNCHANGED <<state, manifest, profile, settings, quota, refs>>

ReplaceSettings(w) ==
    /\ Answer(w)
    /\ ActiveGuard
    /\ settings # "MISSING"
    /\ settings' = "CUSTOM"
    /\ UNCHANGED <<state, manifest, profile, quota, refs, items>>

\* Validation, a conflict or the ACTIVE check refuses the write.
WriteDenied(w) ==
    /\ Answer(w)
    /\ UNCHANGED storeVars

WriteNext == \E w \in Writers :
    \/ Admit(w)
    \/ \E a \in Apps : CreateApplication(w, a)
    \/ \E a \in Apps, c \in Children : CreateChild(w, a, c)
    \/ \E a \in Apps, c \in Children : DeleteChild(w, a, c)
    \/ ReplaceSettings(w)
    \/ WriteDenied(w)
===============================================================================
