---------------------------- MODULE InterviewDesk ----------------------------
(***************************************************************************)
(* The page of all interviews: a list that arrives page by page, the one   *)
(* interview the address names, which may be on any page or on none, what  *)
(* each interview's state offers to do, and the forms it opens.            *)
(***************************************************************************)
EXTENDS Integers, FiniteSets

CONSTANTS
    Dates,              \* interviews, named by the order in which they are listed
    Booked,             \* those that exist at first
    Moving,             \* those whose state changes (bound)
    NoDate

VARIABLES
    agenda,             \* the server's interviews and their states
    listed,             \* the pages that have arrived
    fetching,           \* "no", "first", "next" or "all"
    requested,          \* the interview in the address: may name none there is
    intent,             \* arrived with the wish to open preparation
    workspace,          \* the interview whose drawer is open, as it was then
    schedule,           \* the schedule form, if it is open: what it edits
    saving,             \* a save under way: what it edits.  Its form may be closed
    canceling,          \* the interview whose cancellation is to be confirmed
    outcome             \* the change of an interview's state under way

deskVars == <<agenda, listed, fetching, requested, intent, workspace, schedule, saving, canceling, outcome>>
formVars == <<intent, workspace, schedule, saving, canceling, outcome>>

Scheduled == {"PREPARE", "UPCOMING", "IMMINENT", "MISSED"}
Completed == {"CAPTURE", "FOLLOW_UP", "HISTORY"}
WorkflowStates == Scheduled \cup Completed \cup {"CANCELED"}

STATE_PRIORITY ==
    [IMMINENT |-> 0, CAPTURE |-> 1, FOLLOW_UP |-> 2, MISSED |-> 3,
     PREPARE |-> 4, UPCOMING |-> 5, HISTORY |-> 6, CANCELED |-> 7]

Exists == {d \in Dates : agenda[d] # "NONE"}
Known == DOMAIN listed.states
Found == requested \in Known

\* Past ones latest first, the others earliest first.
Before(d, e) ==
    LET p == STATE_PRIORITY[listed.states[d]]
        q == STATE_PRIORITY[listed.states[e]]
    IN  p < q \/ (p = q /\ IF p >= 6 THEN d > e ELSE d < e)

PreferredInterview ==
    IF Known = {} THEN NoDate ELSE CHOOSE d \in Known : \A e \in Known \ {d} : Before(d, e)

Selected == IF requested = NoDate THEN PreferredInterview ELSE IF Found THEN requested ELSE NoDate

NeedsAttention == {d \in Known : listed.states[d] \in {"PREPARE", "IMMINENT", "MISSED", "CAPTURE", "FOLLOW_UP"}}
Upcoming == {d \in Known : listed.states[d] = "UPCOMING"}
History == {d \in Known : listed.states[d] \in {"HISTORY", "CANCELED"}}

\* What the queue lists, group after group.
Queue == NeedsAttention \cup Upcoming \cup History

Resolving == requested # NoDate /\ ~ Found /\ (listed.status = "pending" \/ fetching # "no" \/ listed.more)
Missing == requested # NoDate /\ ~ Found /\ listed.status = "success" /\ fetching = "no" /\ ~ listed.more
Failed == listed.status = "error"

\* Which of its panels the page shows.
Panels ==
    (IF listed.status = "pending" THEN {"skeleton"} ELSE {})
    \cup (IF Failed THEN {"error"} ELSE {})
    \cup (IF Resolving THEN {"finding"} ELSE {})
    \cup (IF Missing THEN {"missing"} ELSE {})
    \cup (IF Selected # NoDate THEN {"detail", "queue"} ELSE {})

\* The one step that a state asks for, by the server's choice among these.
NextActions(state) ==
    CASE state = "PREPARE" -> {"PREPARE"}
      [] state = "UPCOMING" -> {"JOIN_MEETING", "OPEN_APPLICATION"}
      [] state = "IMMINENT" -> {"JOIN_MEETING", "PREPARE", "OPEN_APPLICATION"}
      [] state = "MISSED" -> {"MARK_COMPLETE"}
      [] state = "CAPTURE" -> {"CAPTURE_NOTES"}
      [] state = "FOLLOW_UP" -> {"REVIEW_FOLLOW_UP"}
      [] state = "HISTORY" -> {"REVIEW_DEBRIEF", "OPEN_APPLICATION"}
      [] OTHER -> {"OPEN_APPLICATION"}

\* Beside it, what was prepared, or said of it afterwards.
PreparationSnapshot(state) ==
    IF state \in Scheduled THEN "checklist" ELSE IF state \in {"FOLLOW_UP", "HISTORY"} THEN "reflection" ELSE "nothing"

\* The round before one that is still to come.
PreviousRounds(d) ==
    {e \in Known : /\ listed.states[d] \in Scheduled /\ e < d
                   /\ PreparationSnapshot(listed.states[e]) = "reflection"
                   /\ \A r \in Known : e < r /\ r < d => PreparationSnapshot(listed.states[r]) # "reflection"}

\* The interviews whose drawer the detail of one offers.
Openable(d) ==
    LET opens == {"PREPARE", "CAPTURE_NOTES", "REVIEW_DEBRIEF"} \cap NextActions(listed.states[d]) # {}
    IN  PreviousRounds(d) \cup
        (IF opens \/ PreparationSnapshot(listed.states[d]) = "reflection" THEN {d} ELSE {})

DeskInit ==
    /\ agenda = [d \in Dates |-> IF d \notin Booked THEN "NONE" ELSE IF d \in Moving THEN "PREPARE" ELSE "HISTORY"]
    /\ listed = [states |-> [d \in {} |-> "NONE"], pages |-> 0, more |-> FALSE, status |-> "pending"]
    /\ fetching = "first"
    /\ requested \in Dates \cup {NoDate} /\ intent \in BOOLEAN
    /\ workspace = NoDate /\ schedule = NoDate /\ saving = NoDate
    /\ canceling = NoDate /\ outcome = NoDate

-----------------------------------------------------------------------------
(***************************************************************************)
(* The list: an interview a page.                                          *)
(***************************************************************************)
Pages(n) == {d \in Exists : Cardinality({e \in Exists : e < d}) < n}
Later == {d \in Exists : \A e \in Known : e < d}

Listing(dates, n) ==
    [states |-> [d \in dates |-> IF d \in Known /\ fetching = "next" THEN listed.states[d] ELSE agenda[d]],
     pages |-> n, more |-> \E e \in Exists : \A d \in dates : d < e, status |-> "success"]

Arrives ==
    /\ fetching # "no"
    /\ fetching' = "no"
    /\ listed' =
        CASE fetching = "first" -> Listing(Pages(1), 1)
          [] fetching = "all" -> Listing(Pages(listed.pages), listed.pages)
          [] OTHER -> Listing(Known \cup {d \in Later : \A e \in Later : d <= e}, listed.pages + 1)
    /\ UNCHANGED <<agenda, requested, formVars>>

Fails ==
    /\ fetching # "no"
    /\ fetching' = "no" /\ listed' = [listed EXCEPT !.status = "error"]
    /\ UNCHANGED <<agenda, requested, formVars>>

Retry ==
    /\ Failed /\ fetching = "no"
    /\ fetching' = IF listed.pages = 0 THEN "first" ELSE "all"
    /\ UNCHANGED <<agenda, listed, requested, formVars>>

FetchNext_OnePageOn ==
    /\ requested # NoDate /\ ~ Found /\ listed.more /\ fetching = "no" /\ listed.pages < 2
    /\ fetching' = "next"
    /\ UNCHANGED <<agenda, listed, requested, formVars>>

\* As long as the interview in the address has not been found.
FetchNext ==
    /\ requested # NoDate /\ ~ Found /\ listed.more /\ fetching = "no"
    /\ fetching' = "next"
    /\ UNCHANGED <<agenda, listed, requested, formVars>>

\* Disabled while a next page is fetched; a refetch under way is given up.
LoadMore ==
    /\ "queue" \in Panels /\ listed.more /\ fetching # "next"
    /\ fetching' = "next"
    /\ UNCHANGED <<agenda, listed, requested, formVars>>

Invalidated == fetching' = IF listed.pages = 0 THEN "first" ELSE "all"

-----------------------------------------------------------------------------
(***************************************************************************)
(* The selection and the drawer.                                           *)
(***************************************************************************)
Snapshot(d) == [of |-> d, movable |-> listed.states[d] \in Scheduled]
\* Bound: an outcome and a save, or the form for one, never go on at once.
Form(d) == [edits |-> d]
Free == workspace = NoDate /\ schedule = NoDate       \* nothing covers the page

DefaultSelection ==
    /\ requested = NoDate /\ Selected # NoDate
    /\ requested' = Selected
    /\ UNCHANGED <<agenda, listed, fetching, formVars>>

AutomaticPreparation ==
    /\ intent /\ Found
    /\ intent' = FALSE /\ workspace' = Snapshot(requested)
    /\ UNCHANGED <<agenda, listed, fetching, requested, schedule, saving, canceling, outcome>>

Choose(d) ==
    /\ Free /\ requested # d
    /\ \/ "queue" \in Panels /\ d \in Queue
       \/ "missing" \in Panels /\ d = PreferredInterview
    /\ requested' = d
    /\ UNCHANGED <<agenda, listed, fetching, formVars>>

OpenWorkspace ==
    /\ Free /\ outcome = NoDate /\ Selected # NoDate
    /\ \E d \in Openable(Selected) : workspace' = Snapshot(d)
    /\ UNCHANGED <<agenda, listed, fetching, requested, intent, schedule, saving, canceling, outcome>>

CloseWorkspace ==
    /\ workspace # NoDate
    /\ workspace' = NoDate
    /\ \/ UNCHANGED schedule
       \/ workspace.movable /\ schedule' = Form(workspace.of)
    /\ UNCHANGED <<agenda, listed, fetching, requested, intent, saving, canceling, outcome>>

-----------------------------------------------------------------------------
(***************************************************************************)
(* Scheduling and outcomes.                                                *)
(***************************************************************************)
\* A new interview, or a change to the one selected.
OpenSchedule ==
    /\ Free /\ outcome = NoDate
    /\ \/ schedule' = Form(NoDate)
       \/ Selected # NoDate /\ listed.states[Selected] \in Scheduled /\ schedule' = Form(Selected)
    /\ UNCHANGED <<agenda, listed, fetching, requested, intent, workspace, saving, canceling, outcome>>

\* Possible while it saves: the save goes on.
CloseSchedule ==
    /\ schedule # NoDate
    /\ schedule' = NoDate
    /\ UNCHANGED <<agenda, listed, fetching, requested, intent, workspace, saving, canceling, outcome>>

\* Bound: one save at a time, although a form opened meanwhile could save too.
ScheduleInterview ==
    /\ schedule # NoDate /\ saving = NoDate
    /\ saving' = schedule
    /\ UNCHANGED <<agenda, listed, fetching, requested, intent, workspace, schedule, canceling, outcome>>

\* The list is read again, the address names what was saved, and the form
\* that is open now is closed, whichever that is.
InterviewScheduled ==
    /\ saving # NoDate
    /\ \/ /\ saving.edits = NoDate
          /\ \E d \in Dates \ Exists : agenda' = [agenda EXCEPT ![d] = "PREPARE"] /\ requested' = d
       \/ /\ saving.edits # NoDate /\ agenda[saving.edits] \in Scheduled
          /\ requested' = saving.edits /\ UNCHANGED agenda
    /\ saving' = NoDate /\ schedule' = NoDate
    /\ Invalidated
    /\ UNCHANGED <<listed, intent, workspace, canceling, outcome>>

NotScheduled ==
    /\ saving # NoDate
    /\ saving' = NoDate
    /\ UNCHANGED <<agenda, listed, fetching, requested, intent, workspace, schedule, canceling, outcome>>

CancelRequest ==
    /\ Free /\ Selected # NoDate /\ listed.states[Selected] \in Scheduled /\ canceling # Selected
    /\ canceling' = Selected
    /\ UNCHANGED <<agenda, listed, fetching, requested, intent, workspace, schedule, saving, outcome>>

CancelKeep ==
    /\ canceling # NoDate /\ canceling = Selected
    /\ canceling' = NoDate
    /\ UNCHANGED <<agenda, listed, fetching, requested, intent, workspace, schedule, saving, outcome>>

Transition ==
    /\ Free /\ Selected # NoDate /\ outcome = NoDate /\ saving = NoDate
    /\ \E to \in {"CAPTURE", "CANCELED"} :
        /\ IF to = "CAPTURE" THEN listed.states[Selected] = "MISSED" ELSE canceling = Selected
        /\ outcome' = [of |-> Selected, to |-> to]
    /\ UNCHANGED <<agenda, listed, fetching, requested, intent, workspace, schedule, saving, canceling>>

Transitioned ==
    /\ outcome # NoDate /\ agenda[outcome.of] \in Scheduled
    /\ agenda' = [agenda EXCEPT ![outcome.of] = outcome.to]
    /\ outcome' = NoDate /\ canceling' = NoDate
    /\ Invalidated
    /\ UNCHANGED <<listed, requested, intent, workspace, schedule, saving>>

NotTransitioned ==
    /\ outcome # NoDate
    /\ outcome' = NoDate
    /\ UNCHANGED <<agenda, listed, fetching, requested, intent, workspace, schedule, saving, canceling>>

\* Time, preparation and reflection move an interview on, here or elsewhere.
Follows(from, to) ==
    \/ from \in {"PREPARE", "UPCOMING"} /\ to = "IMMINENT"
    \/ from = "PREPARE" /\ to = "UPCOMING"
    \/ from = "IMMINENT" /\ to = "MISSED"
    \/ from = "MISSED" /\ to = "CAPTURE"
    \/ from = "CAPTURE" /\ to = "FOLLOW_UP"
    \/ from = "FOLLOW_UP" /\ to = "HISTORY"

MovesOn ==
    /\ \E d \in Exists \cap Moving, to \in WorkflowStates :
        Follows(agenda[d], to) /\ agenda' = [agenda EXCEPT ![d] = to]
    /\ UNCHANGED <<listed, fetching, requested, formVars>>

EffectDue == \/ requested # NoDate /\ ~ Found /\ listed.more /\ fetching = "no"
             \/ requested = NoDate /\ Selected # NoDate
             \/ intent /\ Found

Effects == FetchNext \/ DefaultSelection \/ AutomaticPreparation

Using ==
    \/ Arrives \/ Fails \/ Retry \/ LoadMore \/ OpenWorkspace \/ CloseWorkspace
    \/ \E d \in Dates : Choose(d)
    \/ OpenSchedule \/ CloseSchedule \/ ScheduleInterview \/ InterviewScheduled \/ NotScheduled
    \/ CancelRequest \/ CancelKeep \/ Transition \/ Transitioned \/ NotTransitioned

\* An effect whose condition holds runs before the page is used again.
DeskNext == Effects \/ (~ EffectDue /\ Using) \/ MovesOn

\* A request is answered or fails, and an effect that is due runs.
DeskFairness == WF_deskVars(Arrives \/ Fails) /\ WF_deskVars(Effects)

DeskSpec == DeskInit /\ [][DeskNext]_deskVars /\ DeskFairness

-----------------------------------------------------------------------------
(***************************************************************************)
(* The interview in the address is shown in the end, or reported missing,  *)
(* or the page says that it could not look: it does not look for ever.     *)
(***************************************************************************)
DeskResolves == (requested # NoDate) ~> (Panels \cap {"detail", "missing", "error"} # {})
===============================================================================
