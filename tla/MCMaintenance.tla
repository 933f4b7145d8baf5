----------------------------- MODULE MCMaintenance -----------------------------
(***************************************************************************)
(* What an operator runs over tables that an older build left, for TLC:    *)
(* the backfill of the manifest, beside the requests of the workspace; and *)
(* the repair of what is derived from applications and interviews, beside  *)
(* requests that create records, read them and leave: no request changes   *)
(* one here.  A behaviour is about one of the two and nothing passes       *)
(* between them; `route' says which.                                       *)
(***************************************************************************)
EXTENDS DurableWorkspace, ProjectionRepair, TLC

VARIABLE route

TwoApps == {1, 2}

\* Runs of the backfill are interchangeable, and so are the applications of
\* the repair.
Interchangeable == Permutations(Operators) \cup Permutations(Tracked)

\* What is not looked at has one beginning.
MCInit ==
    /\ route \in {"backfill", "repair"}
    /\ Init /\ (route = "repair" => state = "ABSENT" /\ OwnerItems = {})
    /\ IF route = "repair" THEN RepairInit ELSE CountersInit /\ RoundsInit /\ repair = Off

MCNext ==
    \/ route = "backfill" /\ Next /\ UNCHANGED <<route, repairVars>>
    \/ route = "repair" /\ RepairNext /\ UNCHANGED <<route, vars>>

MCSpec == MCInit /\ [][MCNext]_<<route, vars, repairVars>>
===============================================================================
