--------------------------- MODULE ProjectionRepair ---------------------------
(***************************************************************************)
(* The operator's repair of what is derived from applications and their    *)
(* interviews, in a local table: it scans the records, writes back what it *)
(* saw wherever a record still exists, and writes the context and the      *)
(* counters anew, without a condition.  It may stop anywhere and be run    *)
(* again; requests may go on while it runs.                                *)
(***************************************************************************)
EXTENDS ApplicationCounters, InterviewRounds

VARIABLE repair         \* where it is, what is left to do there, and what it saw

repairVars == <<countersVars, roundsVars, repair>>

Off == [stage |-> "off", left |-> {}, seen |-> [a \in Tracked |-> Untracked],
        table |-> [r \in Rounds |-> NoRound], alone |-> TRUE]

\* A table that an older build wrote, or in which the context went stale.
RepairInit ==
    /\ applications \in [Tracked -> {Untracked} \cup
           {[version |-> 1, status |-> s, from |-> s, dated |-> TRUE, miles |-> Reached(s)] :
                s \in {"APPLIED", "INTERVIEW"}}]
    /\ \E n \in 0..1 : statusCount = [s \in Statuses |-> n] /\ funnel = [k \in Steps |-> n]
    /\ application \in [version : {1}, label : Labels, active : {TRUE}]
    /\ \E at \in Hours :
        /\ rounds \in [Rounds -> {NoRound} \cup
               [version : {1}, status : {"SCHEDULED", "CANCELED"}, at : {at}, label : {application.label}]]
        /\ context \in {NoContext} \cup {[version |-> 2, round |-> r, at |-> at] : r \in Rounds}
    /\ replica = rounds
    /\ edits = {} /\ changes = {} /\ renames = {}
    /\ repair = Off

-----------------------------------------------------------------------------
\* One item of a stage is done, and the stage with the last one.
Done(now, item, next, items) ==
    repair' = [now EXCEPT !.stage = IF now.left = {item} THEN next ELSE @,
                          !.left = IF now.left = {item} THEN items ELSE @ \ {item}]

Doing(stage, item) == repair.stage = stage /\ item \in repair.left

StartRepair ==
    /\ repair.stage \in {"off", "done"}
    /\ repair' = [Off EXCEPT !.stage = "scan applications", !.left = Tracked]
    /\ UNCHANGED <<countersVars, roundsVars>>

ScanApplication(a) ==
    /\ Doing("scan applications", a)
    /\ Done([repair EXCEPT !.seen[a] = applications[a]], a, "scan interviews", Rounds)
    /\ UNCHANGED <<countersVars, roundsVars>>

ScanInterview(r) ==
    /\ Doing("scan interviews", r)
    /\ Done([repair EXCEPT !.table[r] = rounds[r]], r, "applications", Tracked)
    /\ UNCHANGED <<countersVars, roundsVars>>

\* What was seen is put back, whatever version is there now.
RewriteApplication(a) ==
    /\ Doing("applications", a)
    /\ applications' = [applications EXCEPT ![a] =
           IF repair.seen[a].version > 0 /\ @.version > 0 THEN repair.seen[a] ELSE @]
    /\ Done(repair, a, "interviews", Rounds)
    /\ UNCHANGED <<counters, edits, roundsVars>>

RewriteInterview(r) ==
    /\ Doing("interviews", r)
    /\ rounds' = [rounds EXCEPT ![r] =
           IF repair.table[r].version > 0 /\ @.version > 0 THEN repair.table[r] ELSE @]
    /\ replica' = IF Lagging THEN replica ELSE rounds'
    /\ Done(repair, r, "context", {"context"})
    /\ UNCHANGED <<countersVars, application, context, changes, renames>>

\* Where no interview is scheduled, nothing is deleted.
WriteContext_OnlyFound ==
    /\ Doing("context", "context")
    /\ context' = IF Scheduled(repair.table) = {} THEN context ELSE NextInterview(repair.table, 1)
    /\ Done(repair, "context", "counters", Statuses)
    /\ UNCHANGED <<countersVars, application, rounds, replica, changes, renames>>

WriteContext ==
    /\ Doing("context", "context")
    /\ context' = NextInterview(repair.table, 1)
    /\ Done(repair, "context", "counters", Statuses)
    /\ UNCHANGED <<countersVars, application, rounds, replica, changes, renames>>

Seen == {a \in Tracked : repair.seen[a].version > 0}

\* The statuses one by one, always in the same order, those of none as well.
WriteStatusCounter ==
    LET s == CHOOSE s \in repair.left : TRUE IN
    /\ repair.stage = "counters"
    /\ statusCount' = [statusCount EXCEPT ![s] = Cardinality({a \in Seen : repair.seen[a].status = s})]
    /\ Done(repair, s, "funnel", {"funnel"})
    /\ UNCHANGED <<applications, funnel, edits, roundsVars>>

WriteFunnel ==
    /\ Doing("funnel", "funnel")
    /\ funnel' = [k \in Steps |-> Cardinality({a \in Seen : k \in {"tracked"} \cup repair.seen[a].miles})]
    /\ Done(repair, "funnel", "done", {})
    /\ UNCHANGED <<applications, statusCount, edits, roundsVars>>

\* The table fails, or the operator gives up.
StopRepair ==
    /\ repair.stage # "off"
    /\ repair' = Off
    /\ UNCHANGED <<countersVars, roundsVars>>

Repairing ==
    \/ StartRepair \/ StopRepair
    \/ \E a \in Tracked : ScanApplication(a) \/ RewriteApplication(a)
    \/ \E r \in Rounds : ScanInterview(r) \/ RewriteInterview(r)
    \/ WriteContext
    \/ WriteStatusCounter
    \/ WriteFunnel

\* The application, not the repair, is at work; a step of it that changes
\* the table ends the repair's being alone.
Interferes ==
    repair' = [repair EXCEPT !.alone =
        repair.stage = "off" \/ (@ /\ UNCHANGED <<applications, counters, application, rounds, context>>)]

RepairNext ==
    \/ Repairing
    \/ CountersNext /\ UNCHANGED roundsVars /\ Interferes
    \/ RoundsNext /\ UNCHANGED countersVars /\ Interferes

RepairSpec == RepairInit /\ [][RepairNext]_repairVars

-----------------------------------------------------------------------------
RepairTypeOK ==
    /\ CountersTypeOK /\ RoundsTypeOK
    /\ repair.seen \in [Tracked -> Versions] /\ repair.table \in [Rounds -> RoundRecords]
    /\ repair.stage = "off" => repair = Off

(***************************************************************************)
(* A repair that ran to its end while nothing else was written leaves the  *)
(* counters and the context exact, whatever they held before it, and       *)
(* however often it was stopped half-way before.                           *)
(***************************************************************************)
RepairsAll == repair.stage = "done" /\ repair.alone => CountersExact /\ ContextExact
===============================================================================
