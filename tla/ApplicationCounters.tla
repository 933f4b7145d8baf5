------------------------- MODULE ApplicationCounters -------------------------
(***************************************************************************)
(* The status of applications and what the dashboard counts of it.  Each   *)
(* status has a counter, and the funnel counts how many applications ever  *)
(* reached a milestone.  A request computes what to add from the copy it   *)
(* read, and commits the new version of the application and the counters   *)
(* in one transaction, on the condition that the copy is still current.    *)
(*                                                                         *)
(* A commit whose answer is lost is a commit; the table's client sends it  *)
(* again under the same token, which has no effect.                        *)
(***************************************************************************)
EXTENDS Integers, FiniteSets

CONSTANTS
    Tracked,            \* an owner's applications, made or to be made
    Editors,            \* requests that may be under way at a time
    LastVersion         \* bound: versions of an application

ASSUME CountersAssumption == IsFiniteSet(Tracked)

VARIABLES
    applications,       \* the METADATA of each; version 0 where there is none
    statusCount,        \* COUNTER#STATUS of each status
    funnel,             \* COUNTER#FUNNEL
    edits               \* requests under way: the copy each has read

counters == <<statusCount, funnel>>
countersVars == <<applications, statusCount, funnel, edits>>

Statuses == {"DRAFT", "APPLIED", "SCREENING", "INTERVIEW", "OFFER",
             "ACCEPTED", "REJECTED", "WITHDRAWN", "ARCHIVED"}

\* Where a status may lead, but for the restoration of an archived one.
Onward == [
    DRAFT     |-> {"APPLIED", "ARCHIVED"},
    APPLIED   |-> {"DRAFT", "SCREENING", "INTERVIEW", "OFFER", "REJECTED", "WITHDRAWN", "ARCHIVED"},
    SCREENING |-> {"INTERVIEW", "OFFER", "REJECTED", "WITHDRAWN", "ARCHIVED"},
    INTERVIEW |-> {"OFFER", "REJECTED", "WITHDRAWN", "ARCHIVED"},
    OFFER     |-> {"ACCEPTED", "REJECTED", "WITHDRAWN", "ARCHIVED"},
    ACCEPTED  |-> {"ARCHIVED"},
    REJECTED  |-> {"OFFER", "ARCHIVED"},
    WITHDRAWN |-> {"ARCHIVED"},
    ARCHIVED  |-> {}]

Submitted == Statuses \ {"DRAFT", "ARCHIVED"}       \* needs an applied_date

\* What reaching a status marks, when it was not marked before.
ReachedBy == [
    submitted  |-> Submitted,
    response   |-> {"SCREENING", "INTERVIEW", "OFFER", "ACCEPTED", "REJECTED"},
    screening  |-> {"SCREENING"},
    interview  |-> {"INTERVIEW"},
    offer      |-> {"OFFER"},
    acceptance |-> {"ACCEPTED"}]
Milestones == {"submitted", "response", "screening", "interview", "offer", "acceptance"}
Reached(status) == {m \in Milestones : status \in ReachedBy[m]}

Steps == {"tracked"} \cup Milestones

Versions ==
    [version : Nat, status : Statuses, from : Statuses,     \* archived_from_status, or its status
     dated : BOOLEAN, miles : SUBSET Milestones]

Untracked == [version |-> 0, status |-> "DRAFT", from |-> "DRAFT", dated |-> FALSE, miles |-> {}]
Existing == {a \in Tracked : applications[a].version > 0}

CountersInit ==
    /\ applications = [a \in Tracked |-> Untracked]
    /\ statusCount = [s \in Statuses |-> 0]
    /\ funnel = [k \in Steps |-> 0]
    /\ edits = {}

-----------------------------------------------------------------------------
\* Creating one, at the stage it is entered at.
Create(a, status) ==
    /\ applications[a].version = 0
    /\ status \in {"DRAFT", "APPLIED", "INTERVIEW"}
    /\ applications' = [applications EXCEPT ![a] =
           [version |-> 1, status |-> status, from |-> status,
            dated |-> status # "DRAFT", miles |-> Reached(status)]]
    /\ statusCount' = [statusCount EXCEPT ![status] = @ + 1]
    /\ funnel' = [k \in Steps |-> IF k \in {"tracked"} \cup Reached(status) THEN funnel[k] + 1 ELSE funnel[k]]
    /\ UNCHANGED edits

\* A request for the version its client knows; another one is refused.
ReadApplication(e, a) ==
    /\ \A x \in edits : x.by # e
    /\ applications[a].version \in 1..LastVersion - 1
    /\ edits' = edits \cup {[by |-> e, app |-> a, copy |-> applications[a]]}
    /\ UNCHANGED <<applications, counters>>

\* The condition of a transaction is that the record exists.
Current_Exists(x) == applications[x.app].version > 0

\* The condition of a transaction: the version that was read.
Current(x) == applications[x.app].version = x.copy.version

Replaces(x, new) ==
    /\ Current(x)
    /\ applications' = [applications EXCEPT ![x.app] = new]
    /\ edits' = edits \ {x}

Allowed(copy) == IF copy.status = "ARCHIVED" THEN {copy.from} ELSE Onward[copy.status]

\* The next version, in its new status.  Correcting to a draft takes the date.
Moved(copy, target, supplied) ==
    [version |-> copy.version + 1, status |-> target,
     from |-> IF target = "ARCHIVED" THEN copy.status ELSE target,
     dated |-> target # "DRAFT" /\ (copy.dated \/ supplied),
     miles |-> copy.miles \cup Reached(target)]

\* Archiving and restoring move nothing in the funnel.
Gained(copy, target) ==
    IF "ARCHIVED" \in {copy.status, target} THEN {} ELSE Reached(target) \ copy.miles

ChangeStatus(x, target, supplied) ==
    /\ target \in Allowed(x.copy)
    /\ target = "DRAFT" => ~ supplied
    /\ target \in Submitted => x.copy.dated \/ supplied
    /\ applications[x.app].status = x.copy.status
    /\ Replaces(x, Moved(x.copy, target, supplied))
    /\ statusCount' = [statusCount EXCEPT ![x.copy.status] = @ - 1, ![target] = @ + 1]
    /\ funnel' = [k \in Steps |-> IF k \in Gained(x.copy, target) THEN funnel[k] + 1 ELSE funnel[k]]

\* Details, the next step or a follow-up: the date stays where it is needed.
ChangeDetails(x, dated) ==
    /\ x.copy.from \in Submitted => dated
    /\ Replaces(x, [x.copy EXCEPT !.version = @ + 1, !.dated = dated])
    /\ UNCHANGED counters

\* A conflict, an invalid request, nothing to change, or a failure.
LeaveApplication(x) ==
    /\ edits' = edits \ {x}
    /\ UNCHANGED <<applications, counters>>

CountersNext ==
    \/ \E a \in Tracked, status \in Statuses : Create(a, status)
    \/ \E e \in Editors, a \in Tracked : ReadApplication(e, a)
    \/ \E x \in edits :
        \/ \E target \in Statuses, supplied \in BOOLEAN : ChangeStatus(x, target, supplied)
        \/ \E dated \in BOOLEAN : ChangeDetails(x, dated)
        \/ LeaveApplication(x)

CountersSpec == CountersInit /\ [][CountersNext]_countersVars

-----------------------------------------------------------------------------
CountersTypeOK ==
    /\ applications \in [Tracked -> Versions]
    /\ statusCount \in [Statuses -> Int]
    /\ funnel \in [Steps -> Int]
    /\ edits \subseteq [by : Editors, app : Tracked, copy : Versions]

(***************************************************************************)
(* The dashboard's numbers are exact at every moment: each status counts   *)
(* the applications that are in it, each step of the funnel those that     *)
(* have ever reached it, whatever requests computed their deltas from the  *)
(* same copy, and through archiving, restoring and correcting.             *)
(***************************************************************************)
WithStatus(s) == {a \in Existing : applications[a].status = s}
Beyond(k) == {a \in Existing : k \in {"tracked"} \cup applications[a].miles}

CountersExact ==
    /\ \A s \in Statuses : statusCount[s] = Cardinality(WithStatus(s))
    /\ \A k \in Steps : funnel[k] = Cardinality(Beyond(k))
===============================================================================
