-------------------------- MODULE OpportunityCapture --------------------------
(***************************************************************************)
(* The form that adds an opportunity: what is entered, the advice that it  *)
(* may be tracked already, which follows what is entered by a timer and a  *)
(* request, the question before entered details are lost, and the request  *)
(* that adds it, whose answer may find the form gone or another one open.  *)
(***************************************************************************)
EXTENDS Naturals, FiniteSets

CONSTANTS
    Jobs,               \* company and role together
    Partial,            \* a posting's address alone: advice, but not enough to add
    MaxAdds,            \* bound: applications
    None

VARIABLES
    place,              \* "form", the "origin" it returns to, or "elsewhere"
    returns,            \* opened from the dashboard or the list, to return there
    entered,            \* what the form holds
    details,            \* its optional part is open
    allow,              \* leaving is not asked about, while it is added
    blocked,            \* "Leave without adding this application?"
    timer,              \* the advice's timer runs
    wanted,             \* what advice is asked for, or None
    advice,             \* the answer to it: what is tracked already, or None
    adding,             \* the request under way, or None
    tracked,            \* the server's applications: how many of each job
    added               \* the banner of an application just added

captureVars ==
    <<place, returns, entered, details, allow, blocked, timer, wanted, advice, adding, tracked, added>>
pageVars == <<place, returns, blocked, added>>
adviceVars == <<timer, wanted, advice>>

Stages == {"DRAFT", "APPLIED", "INTERVIEW"}
Dates == {"none", "today", "future"}
Evidence == Jobs \cup {Partial}

Entries == [what : Evidence \cup {None}, stage : Stages, date : Dates]
Advices == [on : Evidence, candidates : SUBSET Jobs]
Additions ==
    [request : [what : Jobs, date : Dates], state : {"sent", "created"}, mine : BOOLEAN, returns : BOOLEAN]

ASSUME CaptureAssumption ==
    /\ IsFiniteSet(Jobs) /\ MaxAdds \in Nat \ {0}
    /\ None \notin Evidence \cup Advices \cup Additions

Defaults == [what |-> None, stage |-> "DRAFT", date |-> "none"]
IsDirty == entered # Defaults

\* The date is judged whether the stage shows it or not.
Valid ==
    /\ entered.what \in Jobs
    /\ entered.date # "future"
    /\ entered.stage \in {"APPLIED", "INTERVIEW"} => entered.date # "none"

DateShown == entered.stage \in {"APPLIED", "INTERVIEW"}

\* A saved opportunity has no applied date, whatever was entered for one.
ToCreateRequest ==
    [what |-> entered.what, date |-> IF entered.stage = "DRAFT" THEN "none" ELSE entered.date]

CaptureInit ==
    /\ place = "form" /\ returns \in BOOLEAN
    /\ entered = Defaults /\ details = FALSE /\ allow = FALSE /\ blocked = FALSE
    /\ timer = FALSE /\ wanted = None /\ advice = None
    /\ adding = None /\ added = FALSE
    /\ tracked \in [Jobs -> {0, 1}]

Adding == adding # None /\ adding.mine
Blocks == IsDirty /\ ~ Adding /\ ~ allow
Usable == place = "form" /\ ~ blocked

-----------------------------------------------------------------------------
(***************************************************************************)
(* Entering.                                                               *)
(***************************************************************************)
Reconsidered_Kept(what) == timer' = (what # None) /\ UNCHANGED <<wanted, advice>>

\* The effect of new evidence: earlier advice goes at once.
Reconsidered(what) == timer' = (what # None) /\ wanted' = None /\ advice' = None

EnterEvidence(what) ==
    /\ Usable /\ what # entered.what
    /\ entered' = [entered EXCEPT !.what = what]
    /\ Reconsidered(what)
    /\ UNCHANGED <<pageVars, details, allow, adding, tracked>>

ChooseStatus(stage) ==
    /\ Usable /\ stage # entered.stage
    /\ entered' = [entered EXCEPT !.stage = stage,
                                  !.date = IF stage = "APPLIED" /\ @ = "none" THEN "today" ELSE @]
    /\ UNCHANGED <<pageVars, details, allow, adviceVars, adding, tracked>>

EnterDate(date) ==
    /\ Usable /\ DateShown /\ date # entered.date
    /\ entered' = [entered EXCEPT !.date = date]
    /\ UNCHANGED <<pageVars, details, allow, adviceVars, adding, tracked>>

ToggleDetails ==
    /\ Usable
    /\ details' = ~ details
    /\ UNCHANGED <<pageVars, entered, allow, adviceVars, adding, tracked>>

-----------------------------------------------------------------------------
(***************************************************************************)
(* Advice.                                                                 *)
(***************************************************************************)
AdviceTimer ==
    /\ place = "form" /\ timer
    /\ timer' = FALSE /\ wanted' = entered.what
    /\ UNCHANGED <<pageVars, entered, details, allow, advice, adding, tracked>>

\* The posting's address alone may be that of any of them.
Candidates(what) == {j \in Jobs : tracked[j] > 0 /\ what \in {j, Partial}}

AdviceArrives ==
    /\ place = "form" /\ wanted # None
    /\ advice' = [on |-> wanted, candidates |-> Candidates(wanted)]
    /\ UNCHANGED <<pageVars, entered, details, allow, timer, wanted, adding, tracked>>

Advisory == IF advice = None THEN {} ELSE advice.candidates

-----------------------------------------------------------------------------
(***************************************************************************)
(* Adding.                                                                 *)
(***************************************************************************)
Submit ==
    /\ Usable /\ Valid /\ adding = None
    /\ allow' = TRUE
    /\ adding' = [request |-> ToCreateRequest, state |-> "sent", mine |-> TRUE, returns |-> returns]
    /\ UNCHANGED <<pageVars, entered, details, adviceVars, tracked>>

\* The first field at fault is focused; its part of the form is opened.
SubmitInvalid ==
    /\ Usable /\ ~ Valid /\ ~ details
    /\ details' \in BOOLEAN
    /\ UNCHANGED <<pageVars, entered, allow, adviceVars, adding, tracked>>

Total == Cardinality({p \in Jobs \X (1..MaxAdds) : p[2] <= tracked[p[1]]})

Created ==
    /\ adding # None /\ adding.state = "sent" /\ Total < MaxAdds
    /\ tracked' = [tracked EXCEPT ![adding.request.what] = @ + 1]
    /\ adding' = [adding EXCEPT !.state = "created"]
    /\ UNCHANGED <<pageVars, entered, details, allow, adviceVars>>

AddFails_NoFinally ==
    /\ adding # None
    /\ adding' = None
    /\ UNCHANGED <<pageVars, entered, details, allow, adviceVars, tracked>>

\* Before or after the server added it.
AddFails ==
    /\ adding # None
    /\ adding' = None
    /\ allow' = (allow /\ ~ Adding)
    /\ UNCHANGED <<pageVars, entered, details, adviceVars, tracked>>

Emptied ==
    /\ entered' = Defaults /\ details' = FALSE /\ allow' = FALSE
    /\ timer' = FALSE /\ wanted' = None /\ advice' = None

\* A form to which nobody returns is emptied for the next one.
AddHeard ==
    /\ Adding /\ adding.state = "created"
    /\ adding' = None
    /\ Emptied
    /\ IF adding.returns THEN place' = "origin" /\ added' = TRUE ELSE place' = place /\ added' = TRUE
    /\ UNCHANGED <<returns, blocked, tracked>>

\* A form that is gone still returns to where it was opened from, away from
\* whatever is there now; another form with details in it asks first.
AddHeardLate ==
    /\ adding # None /\ ~ adding.mine /\ adding.state = "created"
    /\ adding' = None
    /\ IF ~ adding.returns THEN UNCHANGED <<place, blocked, entered, details, allow, adviceVars>>
       ELSE IF place = "form" /\ Blocks
       THEN blocked' = TRUE /\ UNCHANGED <<place, entered, details, allow, adviceVars>>
       ELSE place' = "origin" /\ Emptied /\ UNCHANGED blocked
    /\ UNCHANGED <<returns, tracked, added>>

-----------------------------------------------------------------------------
(***************************************************************************)
(* Leaving.                                                                *)
(***************************************************************************)
Left ==
    /\ place' = "elsewhere" /\ blocked' = FALSE
    /\ Emptied
    /\ adding' = IF adding = None THEN None ELSE [adding EXCEPT !.mine = FALSE]

\* By a link, by the browser's buttons, or by closing the page.
Leave ==
    /\ Usable
    /\ IF Blocks THEN blocked' = TRUE /\ UNCHANGED <<place, entered, details, allow, adviceVars, adding>>
       ELSE Left
    /\ UNCHANGED <<returns, added, tracked>>

KeepEditing ==
    /\ blocked
    /\ blocked' = FALSE
    /\ UNCHANGED <<place, returns, added, entered, details, allow, adviceVars, adding, tracked>>

Proceed ==
    /\ blocked
    /\ Left
    /\ UNCHANGED <<returns, added, tracked>>

OpenForm ==
    /\ place # "form"
    /\ place' = "form" /\ returns' \in BOOLEAN /\ added' = FALSE
    /\ Emptied
    /\ UNCHANGED <<blocked, adding, tracked>>

Entering ==
    \/ \E what \in Evidence \cup {None} : EnterEvidence(what)
    \/ \E stage \in Stages : ChooseStatus(stage)
    \/ \E date \in Dates : EnterDate(date)

CaptureNext ==
    \/ Entering \/ ToggleDetails
    \/ AdviceTimer \/ AdviceArrives
    \/ Submit \/ SubmitInvalid \/ Created \/ AddFails \/ AddHeard \/ AddHeardLate
    \/ Leave \/ KeepEditing \/ Proceed \/ OpenForm

CaptureSpec == CaptureInit /\ [][CaptureNext]_captureVars

-----------------------------------------------------------------------------
CaptureTypeOK ==
    /\ place \in {"form", "origin", "elsewhere"}
    /\ returns \in BOOLEAN /\ details \in BOOLEAN /\ added \in BOOLEAN
    /\ allow \in BOOLEAN /\ blocked \in BOOLEAN /\ timer \in BOOLEAN
    /\ entered \in Entries
    /\ wanted \in Evidence \cup {None}
    /\ advice \in Advices \cup {None} /\ adding \in Additions \cup {None}
    /\ tracked \in [Jobs -> 0..MaxAdds]

(***************************************************************************)
(* The advice on screen is about what is entered now.                      *)
(***************************************************************************)
AdviceIsForEntered == advice # None => place = "form" /\ advice.on = entered.what

(***************************************************************************)
(* Details that were entered leave the form because they were added, or    *)
(* left while that was under way, or with the consent of who entered them. *)
(***************************************************************************)
EnteredKept == [][IsDirty /\ entered' = Defaults => Entering \/ Proceed \/ Adding]_captureVars
===============================================================================
