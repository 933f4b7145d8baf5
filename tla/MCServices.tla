------------------------------ MODULE MCServices ------------------------------
(***************************************************************************)
(* What begins and what ends an owner, and what is kept in step with its   *)
(* records, for TLC: demos being admitted and provisioned; an account's    *)
(* identity being deleted; the counters of applications; the labels and    *)
(* the projection of interviews.  A behaviour is about one of them and     *)
(* nothing passes between them; `route' says which.                        *)
(***************************************************************************)
EXTENDS DemoProvisioning, AccountFinalization, ApplicationCounters, InterviewRounds, TLC

VARIABLE route

\* A policy that lets both calls have a demo, even in one minute; what it
\* becomes while they run may be too little for a day or for a minute.
FewBudgets == {[daily |-> 2, minute |-> 2], [daily |-> 2, minute |-> 1], [daily |-> 1, minute |-> 2]}
Generous == [version |-> 1, enabled |-> TRUE, budget |-> [daily |-> 2, minute |-> 2]]

\* Changes of interviews alone, with the query for the projection lagging.
Late == INSTANCE InterviewRounds WITH Labels <- {"old"}, LastLabel <- 1, Lagging <- TRUE

\* The configuration gives the calls of every part the same names, and the
\* keys those of the applications.
Interchangeable == Permutations(Calls) \cup Permutations(Keys)

\* Each part has its beginnings where it is looked at.
MCInit ==
    /\ route \in {"demo", "account", "counters", "rounds", "late"}
    /\ DemoInit /\ policy = Generous
    /\ FinalizationInit
    /\ CountersInit
    /\ IF route = "late" THEN Late!RoundsInit ELSE RoundsInit /\ application.label = "old"

\* The other parts stand still.
MCNext ==
    /\ UNCHANGED route
    /\ route # "demo" => UNCHANGED demoVars
    /\ route # "account" => UNCHANGED accountVars
    /\ route # "counters" => UNCHANGED countersVars
    /\ route \notin {"rounds", "late"} => UNCHANGED roundsVars
    /\ \/ route = "demo" /\ DemoNext
       \/ route = "account" /\ FinalizationNext
       \/ route = "counters" /\ CountersNext
       \/ route = "rounds" /\ RoundsNext
       \/ route = "late" /\ Late!RoundsNext

MCSpec == MCInit /\ [][MCNext]_<<route, demoVars, accountVars, countersVars, roundsVars>>
===============================================================================
