-------------------------- MODULE WorkspaceLifecycle --------------------------
(***************************************************************************)
(* What the lifecycle promises an owner, whatever requests run             *)
(* concurrently: data changes only while the workspace is active, erasure  *)
(* is one-way and only removes, and an erased workspace holds nothing and  *)
(* stays erased.                                                           *)
(***************************************************************************)
CONSTANT Records        \* everything an owner may have stored

VARIABLES
    phase,              \* "NONE", "ACTIVE", "DELETING" or "DELETED"
    stored              \* what is stored

lifecycleVars == <<phase, stored>>

LifecycleInit ==
    /\ phase \in {"NONE", "ACTIVE"}
    /\ stored \in SUBSET Records

\* Opening a workspace completes its data and discards none.
Open ==
    /\ phase = "NONE" /\ phase' = "ACTIVE"
    /\ stored' \in SUBSET Records /\ stored \subseteq stored'

Work ==
    /\ phase = "ACTIVE" /\ phase' = "ACTIVE"
    /\ stored' \in SUBSET Records

Close ==
    /\ phase = "ACTIVE" /\ phase' = "DELETING"
    /\ UNCHANGED stored

Purge ==
    /\ phase = "DELETING" /\ phase' = "DELETING"
    /\ stored' \in SUBSET stored

Bury ==
    /\ phase = "DELETING" /\ phase' = "DELETED"
    /\ stored = {} /\ stored' = {}

LifecycleNext == Open \/ Work \/ Close \/ Purge \/ Bury

Lifecycle == LifecycleInit /\ [][LifecycleNext]_lifecycleVars
===============================================================================
