--------------------------- MODULE OpportunityList ---------------------------
(***************************************************************************)
(* The list of opportunities.  What it shows is in the address: the view,  *)
(* the search and the filters; a page that has the address of an earlier   *)
(* navigation still on screen derives the next one from that.  The search  *)
(* field runs ahead of the address by a timer, the filters by a drawer in  *)
(* which they are staged, and the view that a person prefers arrives last. *)
(***************************************************************************)
EXTENDS Naturals

CONSTANTS
    Views,              \* of APPLICATION_VIEWS
    Statuses,           \* of APPLICATION_STATUSES
    Words,              \* what may be typed: a text, and whether with space around
    Absent

VARIABLES
    asked,              \* the address the page was sent to
    shown,              \* the address it was last drawn for
    typed,              \* the search field
    waiting,            \* the search's timer runs
    preferred,          \* the saved default view, or Absent until it arrives
    due,                \* effects of the drawing that have yet to run
    staged,             \* the filter drawer's draft, or Absent
    undone              \* a navigation was undone before it was drawn

listVars == <<asked, shown, typed, waiting, preferred, due, staged, undone>>

Nothing == <<0, FALSE>>     \* the text 0 is empty
Trim(word) == <<word[1], FALSE>>

\* `age' stands for the stage age and the follow-up filter, which share their
\* rules, `more' for what leaves the view alone: source, work mode, sorting.
Addresses ==
    [view : Views \cup {Absent}, status : Statuses \cup {Absent}, q : Words, age : BOOLEAN,
     more : BOOLEAN, layout : BOOLEAN, state : BOOLEAN]

ViewForStatus(status) ==
    CASE status = "ARCHIVED" -> "ARCHIVED"
      [] status \in {"APPLIED", "SCREENING", "INTERVIEW", "OFFER"} -> "ACTIVE"
      [] OTHER -> "ALL"

ApplicationView ==
    IF shown.view # Absent THEN shown.view
    ELSE IF shown.status # Absent THEN ViewForStatus(shown.status)
    ELSE IF preferred # Absent THEN preferred ELSE "ACTIVE"

StageAge == shown.age /\ ApplicationView = "ACTIVE"
Filtered == shown.q # Nothing \/ shown.status # Absent \/ shown.more \/ StageAge
GroupedActiveMode == ApplicationView = "ACTIVE" /\ ~ Filtered
AgeRefused == shown.age /\ ApplicationView # "ACTIVE"

Tidying ==
    (IF shown.layout THEN {"layout"} ELSE {}) \cup (IF AgeRefused THEN {"age"} ELSE {})

\* A state comes with an address that the list was left at, which was tidy.
ListInit ==
    /\ asked \in Addresses /\ shown = asked
    /\ typed = shown.q /\ waiting = (Trim(typed) # shown.q)
    /\ preferred = Absent /\ staged = Absent
    /\ shown.state => ~ AgeRefused
    /\ due = Tidying \cup (IF shown.state THEN {"state"} ELSE {}) /\ undone = FALSE

\* The field and the address, and the address and its view.
Agrees == Trim(typed) = shown.q /\ ~ shown.layout /\ ~ AgeRefused

\* The parameters of an address, which the effects look at.
Search(address) == [address EXCEPT !.state = FALSE]

\* Each navigation replaces the address, and the state it was opened with.
Go(address) == asked' = [address EXCEPT !.state = FALSE]

-----------------------------------------------------------------------------
(***************************************************************************)
(* Drawing: the search field follows the address when that changes.  The   *)
(* effects run again, and the timer is set again, when the parameters have *)
(* changed; all effects start from what is drawn, and the last one wins.   *)
(***************************************************************************)
Render ==
    /\ asked # shown
    /\ shown' = asked
    /\ UNCHANGED <<asked, preferred, staged>>
    /\ typed' = IF asked.q = shown.q THEN typed ELSE asked.q
    /\ IF Search(asked) = Search(shown) THEN UNCHANGED <<waiting, due, undone>>
       ELSE waiting' = (Trim(typed') # asked.q) /\ due' = Tidying' /\ undone' = FALSE

Normalized ==
    IF "state" \notin due /\ "age" \in due THEN [shown EXCEPT !.age = FALSE] ELSE [shown EXCEPT !.layout = FALSE]

Normalize ==
    /\ due # {}
    /\ due' = {} /\ Go(Normalized)
    /\ UNCHANGED <<shown, typed, waiting, preferred, staged, undone>>

SettingsArrive ==
    /\ preferred = Absent
    /\ preferred' \in Views
    /\ UNCHANGED <<asked, shown, typed, waiting, staged, undone>>
    /\ due' = IF AgeRefused' /\ ~ AgeRefused THEN due \cup {"age"} ELSE due

-----------------------------------------------------------------------------
(***************************************************************************)
(* Searching.                                                              *)
(***************************************************************************)
Type(word) ==
    /\ word # typed
    /\ typed' = word /\ waiting' = (Trim(word) # shown.q)
    /\ UNCHANGED <<asked, shown, preferred, staged>>

Searched_AsTyped == [shown EXCEPT !.q = typed]

Searched == [shown EXCEPT !.q = Trim(typed)]

SearchTimer ==
    /\ waiting
    /\ waiting' = FALSE /\ Go(Searched)
    /\ UNCHANGED <<shown, typed, preferred, due, staged, undone>>

SubmitSearch == Go(Searched) /\ UNCHANGED <<shown, typed, waiting, preferred, staged>>

(***************************************************************************)
(* The view, the sorting and single filters.                               *)
(***************************************************************************)
SetApplicationView(view) ==
    /\ Go([shown EXCEPT !.view = view, !.status = Absent, !.age = @ /\ view = "ACTIVE"])
    /\ UNCHANGED <<shown, typed, waiting, preferred, staged>>

\* Offered with the results of a flat list, which may be there at any time.
SetSort(more) ==
    /\ ~ GroupedActiveMode
    /\ Go([shown EXCEPT !.more = more])
    /\ UNCHANGED <<shown, typed, waiting, preferred, staged>>

RemoveFilter ==
    /\ \/ shown.q # Nothing /\ Go([shown EXCEPT !.q = Nothing])
       \/ shown.status # Absent /\ Go([shown EXCEPT !.status = Absent])
       \/ StageAge /\ Go([shown EXCEPT !.age = FALSE])
       \/ shown.more /\ Go([shown EXCEPT !.more = FALSE])
    /\ UNCHANGED <<shown, typed, waiting, preferred, staged>>

\* The view stays, and so does what is typed and not yet searched for.
ClearAllFilters ==
    /\ Filtered
    /\ Go([shown EXCEPT !.q = Nothing, !.status = Absent, !.age = FALSE, !.more = FALSE])
    /\ UNCHANGED <<shown, typed, waiting, preferred, staged>>

(***************************************************************************)
(* The filter drawer.                                                      *)
(***************************************************************************)
OpenFilters ==
    /\ staged = Absent
    /\ staged' = [status |-> shown.status, age |-> StageAge, more |-> shown.more]
    /\ UNCHANGED <<asked, shown, typed, waiting, preferred>>

ViewOf(status) == IF status # Absent THEN ViewForStatus(status) ELSE ApplicationView

ChangeStaged ==
    /\ staged # Absent
    /\ \/ \E status \in (Statuses \cup {Absent}) \ {staged.status} :
            staged' = [staged EXCEPT !.status = status, !.age = @ /\ ViewOf(status) = "ACTIVE"]
       \/ ViewOf(staged.status) = "ACTIVE" /\ staged' = [staged EXCEPT !.age = ~ @]
       \/ staged' = [staged EXCEPT !.more = ~ @]
       \/ staged' = [status |-> Absent, age |-> FALSE, more |-> FALSE]
    /\ UNCHANGED <<asked, shown, typed, waiting, preferred>>

CloseFilters ==
    /\ staged # Absent
    /\ staged' = Absent
    /\ UNCHANGED <<asked, shown, typed, waiting, preferred>>

\* An age filter brings its view with it, whatever the preferred one is.
ApplyFilters ==
    LET age == staged.age /\ (staged.status = Absent \/ ViewForStatus(staged.status) = "ACTIVE")
        view == IF age THEN "ACTIVE"
                ELSE IF staged.status # Absent THEN ViewForStatus(staged.status) ELSE shown.view
    IN  /\ staged # Absent
        /\ Go([shown EXCEPT !.view = view, !.status = staged.status, !.age = age, !.more = staged.more])
        /\ staged' = Absent
        /\ UNCHANGED <<shown, typed, waiting, preferred>>

\* The drawer covers the page.  Bound: it is opened, and filters are changed
\* in it, while no navigation is waiting to be drawn.
Using ==
    /\ \/ asked = shown /\ (OpenFilters \/ ChangeStaged)
       \/ CloseFilters \/ ApplyFilters
       \/ /\ staged = Absent
          /\ \/ \E word \in Words : Type(word)
             \/ SubmitSearch \/ RemoveFilter \/ ClearAllFilters
             \/ \E view \in Views : SetApplicationView(view)
             \/ \E more \in BOOLEAN : SetSort(more)
    /\ undone' = (Search(asked') = Search(shown) /\ ~ Agrees' /\ (undone \/ Search(asked) # Search(shown)))
    /\ UNCHANGED due

\* The effects of a drawing run before anything else happens.
ListNext ==
    \/ Render \/ Normalize
    \/ due = {} /\ (SearchTimer \/ SettingsArrive \/ Using)

\* What the browser does by itself; nobody has to go on typing.
ListFairness == WF_listVars(Render) /\ WF_listVars(Normalize) /\ WF_listVars(SearchTimer)

ListSpec == ListInit /\ [][ListNext]_listVars /\ ListFairness

-----------------------------------------------------------------------------
(***************************************************************************)
(* When its person stops, the list comes to rest, and it agrees with its   *)
(* address: the text in the field is the one searched for, and no filter   *)
(* is left in the address that the view does not know.  Only if a person   *)
(* asked for what is on the screen before another navigation was drawn may *)
(* the two differ: nothing is drawn then, and no timer or effect is left.  *)
(***************************************************************************)
ListSettles == (<>[][~ Using]_listVars) => <>[](asked = shown /\ (Agrees \/ undone))
===============================================================================
