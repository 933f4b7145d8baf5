--------------------------- MODULE InterviewRounds ---------------------------
(***************************************************************************)
(* The interviews of one application and what is derived with them: the    *)
(* labels each takes from the application, and WORKSPACE_CONTEXT, the      *)
(* projection that names the next interview.  Every operation reads first  *)
(* and then commits one transaction on the conditions its reads supplied.  *)
(*                                                                         *)
(* Interviews are never deleted, so their lifetime count is their number.  *)
(***************************************************************************)
EXTENDS Integers, FiniteSets

CONSTANTS
    Rounds,             \* interviews, numbered: a tie in time goes by the number
    Hours,              \* when one may be scheduled
    Labels,             \* the application's company, title and role
    Schedulers,         \* requests that may be under way at a time
    LastRound,          \* bound: versions of an interview
    LastLabel,          \* bound: versions of the application
    Lagging             \* whether the query for the projection may be late

ASSUME RoundsAssumption == IsFiniteSet(Rounds) /\ Rounds \subseteq Nat /\ Hours \subseteq Nat

VARIABLES
    application,        \* the application: its version, label, and if it is active
    rounds,             \* the interviews; version 0 where there is none
    replica,            \* the interviews as the query for the projection sees them
    context,            \* WORKSPACE_CONTEXT; version 0 when there is none
    changes,            \* changes of an interview under way
    renames             \* changes of the application's label under way

roundsVars == <<application, rounds, replica, context, changes, renames>>

Workflow == {"NONE", "SCHEDULED", "COMPLETED", "CANCELED"}
NoRound == [version |-> 0, status |-> "NONE", at |-> 0, label |-> ""]
NoContext == [version |-> 0, round |-> 0, at |-> 0]

Held == {r \in Rounds : rounds[r].version > 0}
Scheduled(table) == {r \in Rounds : table[r].status = "SCHEDULED"}

RoundsInit ==
    /\ application \in [version : {1}, label : Labels, active : {TRUE}]
    /\ rounds = [r \in Rounds |-> NoRound] /\ replica = rounds
    /\ context = NoContext
    /\ changes = {} /\ renames = {}

Idle(c) == (\A x \in changes : x.by # c) /\ (\A x \in renames : x.by # c)

-----------------------------------------------------------------------------
(***************************************************************************)
(* The next interview of a table, as the projection stores it.  Whether it *)
(* is prepared for is stored with its time, and is left out here.          *)
(***************************************************************************)
Sooner(table, r, s) == table[r].at < table[s].at \/ (table[r].at = table[s].at /\ r <= s)
Earliest(table) == CHOOSE r \in Scheduled(table) : \A s \in Scheduled(table) : Sooner(table, r, s)

NextInterview(table, version) ==
    IF Scheduled(table) = {} THEN NoContext
    ELSE [version |-> version, round |-> Earliest(table), at |-> table[Earliest(table)].at]

(***************************************************************************)
(* Scheduling and changing an interview.  The client's version was sent    *)
(* before anything is read, so it is the present one at the latest.        *)
(***************************************************************************)
Schedule(c, r, at) ==
    /\ Idle(c) /\ application.active
    /\ rounds[r].version = 0 /\ \A x \in changes : x.round # r
    /\ changes' = changes \cup {[by |-> c, stage |-> "planned", round |-> r, version |-> 0,
           label |-> application.label, seen |-> 0, next |-> NoContext,
           plan |-> [version |-> 1, status |-> "SCHEDULED", at |-> at,
                     label |-> application.label]]}
    /\ UNCHANGED <<application, rounds, replica, context, renames>>

AskChange(c, r) ==
    /\ Idle(c) /\ rounds[r].version \in 1..LastRound - 1
    /\ changes' = changes \cup {[by |-> c, stage |-> "asked", round |-> r, version |-> rounds[r].version,
           label |-> application.label, seen |-> 0, next |-> NoContext, plan |-> NoRound]}
    /\ UNCHANGED <<application, rounds, replica, context, renames>>

\* What may become of an interview: edited, prepared or reviewed, or over.
\* Preparing it is the only change that leaves its label alone.
Plans(old, label) ==
    LET fresh == [old EXCEPT !.version = @ + 1, !.label = label] IN
    (IF old.status = "SCHEDULED"
     THEN {[fresh EXCEPT !.at = at] : at \in Hours} \cup {[fresh EXCEPT !.status = s] : s \in {"COMPLETED", "CANCELED"}}
     ELSE {})
    \cup {plan \in {[old EXCEPT !.version = @ + 1]} : old.status # "CANCELED"}

Onto(x, stage) == [x EXCEPT !.stage = stage]
Progress(x, y) == changes' = (changes \ {x}) \cup {y}

PlanChange(x, plan) ==
    /\ x.stage = "asked" /\ rounds[x.round].version = x.version
    /\ plan \in Plans(rounds[x.round], x.label)
    /\ Progress(x, [Onto(x, "planned") EXCEPT !.plan = plan])
    /\ UNCHANGED <<application, rounds, replica, context, renames>>

(***************************************************************************)
(* The projection is computed of what a query finds, with the planned      *)
(* interview in its place, and only then is its own version read.          *)
(***************************************************************************)
QueryRounds(x) ==
    /\ x.stage = "planned"
    /\ Progress(x, [Onto(x, "queried") EXCEPT !.next = NextInterview([replica EXCEPT ![x.round] = x.plan], 1)])
    /\ UNCHANGED <<application, rounds, replica, context, renames>>

ReadContext(x) ==
    /\ x.stage = "queried"
    /\ Progress(x, [Onto(x, "ready") EXCEPT !.seen = context.version])
    /\ UNCHANGED <<application, rounds, replica, context, renames>>

\* A context that was seen must be unchanged; one that was not seen must
\* not be there, unless it is to be deleted.
ContextAsSeen(x) == context.version = x.seen \/ (x.seen = 0 /\ x.next = NoContext)

CommitChange(x) ==
    /\ x.stage = "ready"
    /\ rounds[x.round].version = x.version
    /\ ContextAsSeen(x)
    /\ rounds' = [rounds EXCEPT ![x.round] = x.plan]
    /\ context' = IF x.next = NoContext THEN NoContext ELSE [x.next EXCEPT !.version = x.seen + 1]
    /\ replica' = IF Lagging THEN replica ELSE rounds'
    /\ changes' = changes \ {x}
    /\ UNCHANGED <<application, renames>>

\* A conflict, a refusal, nothing to change, or a failure.
LeaveChange(x) ==
    /\ changes' = changes \ {x}
    /\ UNCHANGED <<application, rounds, replica, context, renames>>

CatchUp ==
    /\ Lagging /\ replica' = rounds
    /\ UNCHANGED <<application, rounds, context, changes, renames>>

(***************************************************************************)
(* A new label is given to the application and to all its interviews, as   *)
(* their keys and versions were listed, if there are still as many.        *)
(***************************************************************************)
AskRename(c, label) ==
    /\ Idle(c) /\ application.version < LastLabel
    /\ label # application.label
    /\ renames' = renames \cup {[by |-> c, listed |-> FALSE, version |-> application.version,
           label |-> label, versions |-> [r \in Rounds |-> 0]]}
    /\ UNCHANGED <<application, rounds, replica, context, changes>>

ListRounds(x) ==
    /\ ~ x.listed
    /\ renames' = (renames \ {x}) \cup
           {[x EXCEPT !.listed = TRUE, !.versions = [r \in Rounds |-> rounds[r].version]]}
    /\ UNCHANGED <<application, rounds, replica, context, changes>>

Listed(x) == {r \in Rounds : x.versions[r] > 0}

\* How many there are is not compared.
AsListed_OfAny(x) == \A r \in Listed(x) : rounds[r].version = x.versions[r]

AsListed(x) ==
    /\ Cardinality(Held) = Cardinality(Listed(x))
    /\ \A r \in Listed(x) : rounds[r].version = x.versions[r]

CommitRename(x) ==
    /\ x.listed /\ application.version = x.version /\ AsListed(x)
    /\ application' = [application EXCEPT !.version = @ + 1, !.label = x.label]
    /\ rounds' = [r \in Rounds |->
           IF r \in Listed(x) THEN [rounds[r] EXCEPT !.label = x.label, !.version = @ + 1] ELSE rounds[r]]
    /\ replica' = IF Lagging THEN replica ELSE rounds'
    /\ renames' = renames \ {x}
    /\ UNCHANGED <<context, changes>>

LeaveRename(x) ==
    /\ renames' = renames \ {x}
    /\ UNCHANGED <<application, rounds, replica, context, changes>>

\* Every other change of the application, from its read to its commit: it
\* is a new version, and may archive or restore it.
ChangeApplication(active) ==
    /\ application.version < LastLabel
    /\ application' = [application EXCEPT !.version = @ + 1, !.active = active]
    /\ UNCHANGED <<rounds, replica, context, changes, renames>>

RoundsNext ==
    \/ \E c \in Schedulers, r \in Rounds :
        \/ \E at \in Hours : Schedule(c, r, at)
        \/ AskChange(c, r)
    \/ \E x \in changes :
        \/ \E plan \in Plans(rounds[x.round], x.label) : PlanChange(x, plan)
        \/ QueryRounds(x) \/ ReadContext(x) \/ CommitChange(x) \/ LeaveChange(x)
    \/ CatchUp
    \/ \E c \in Schedulers, label \in Labels : AskRename(c, label)
    \/ \E x \in renames : ListRounds(x) \/ CommitRename(x) \/ LeaveRename(x)
    \/ \E active \in BOOLEAN : ChangeApplication(active)

RoundsSpec == RoundsInit /\ [][RoundsNext]_roundsVars

-----------------------------------------------------------------------------
RoundRecords ==
    [version : Nat, status : Workflow, at : Hours \cup {0}, label : Labels \cup {""}]
Contexts == [version : Nat, round : Rounds \cup {0}, at : Hours \cup {0}]
Changes ==
    [by : Schedulers, stage : {"asked", "planned", "queried", "ready"}, round : Rounds, version : Nat,
     label : Labels, seen : Nat, next : Contexts, plan : RoundRecords]
Renames ==
    [by : Schedulers, listed : BOOLEAN, version : Nat, label : Labels, versions : [Rounds -> Nat]]

RoundsTypeOK ==
    /\ application \in [version : Nat, label : Labels, active : BOOLEAN]
    /\ rounds \in [Rounds -> RoundRecords] /\ replica \in [Rounds -> RoundRecords]
    /\ context \in Contexts
    /\ changes \subseteq Changes /\ renames \subseteq Renames

(***************************************************************************)
(* An interview that carries the application's label carries it from then  *)
(* on: no rename leaves one behind that was scheduled while it ran, and no *)
(* change puts back the label it read before a rename.                     *)
(***************************************************************************)
LabelsKept ==
    [][\A r \in Held : rounds[r].label = application.label => rounds'[r].label = application'.label]_roundsVars

(***************************************************************************)
(* The projection names the earliest scheduled interview and its time,     *)
(* whatever changes were concurrent.                                       *)
(***************************************************************************)
ContextExact == context = NextInterview(rounds, context.version)
===============================================================================
