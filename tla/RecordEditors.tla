---------------------------- MODULE RecordEditors -----------------------------
(***************************************************************************)
(* The forms that edit one record of the workspace, one at a time: the     *)
(* schedule of an interview, a note, the status of an application (on its  *)
(* page, or as a card moved between the lanes of the pipeline), and its    *)
(* details, beside which the next step of the same application is planned. *)
(* Each keeps what its person typed, and each has its own idea of the      *)
(* version it sends.                                                       *)
(***************************************************************************)
EXTENDS ServerRecord

CONSTANTS
    Forms,              \* the forms that are used
    Own,                \* the field of a note, a status or a move
    Planned             \* the field that the planner sets

VARIABLES
    form,               \* the form of this page
    editor,             \* what it was started from and holds, or Nothing
    plan,               \* what the next step's planner holds, or Nothing
    claimed,            \* the fields edited when each change was sent
    replaced            \* fields an accepted save changed that nobody had edited

editorVars == <<form, editor, plan, claimed, replaced>>
editingVars == <<recordVars, editorVars>>

KnownForms == {"schedule", "note", "status", "move", "details"}

ASSUME EditorsAssumption ==
    /\ Forms \subseteq KnownForms /\ {Own, Planned} \subseteq Fields
    /\ {"editor", "planner"} \subseteq Savers

\* The fields a form shows; a note, a status and a move have one.
FieldsShown(f) == IF f \in {"note", "status", "move"} THEN {Own} ELSE Fields

VersionSent_Newest == cached.ver

\* The interview, or the card, as it was when editing began; what the list or
\* the application shows now, for the others.
VersionSent == IF form \in {"schedule", "move"} THEN editor.base.ver ELSE cached.ver

EditorInit ==
    /\ form \in Forms /\ editor = Nothing /\ plan = Nothing /\ replaced = {}
    /\ claimed = [s \in Savers |-> {}]

EditingInit == RecordInit /\ EditorInit

Arrives == ReadArrives /\ UNCHANGED editorVars

(***************************************************************************)
(* Opening and leaving a form.                                             *)
(***************************************************************************)
Started == [base |-> cached, draft |-> cached.val, edited |-> {}]

Begin ==
    /\ editor = Nothing /\ cached # Nothing
    /\ editor' = Started
    /\ UNCHANGED <<recordVars, form, plan, claimed, replaced>>

StartEdit == form = "schedule" /\ Begin
EditNote == form = "note" /\ Begin
BeginMove == form = "move" /\ Begin

\* The lanes that take a card of this status.
Targets == {x \in Values : cached # Nothing /\ x # cached.val[Own]}

\* A card dropped on one of them: a move with its stage.
OnDragEnd(x) ==
    /\ form = "move" /\ editor = Nothing /\ x \in Targets
    /\ editor' = [Started EXCEPT !.draft[Own] = x, !.edited = {Own}]
    /\ UNCHANGED <<recordVars, form, plan, claimed, replaced>>

\* The page of the details comes with the planner beside them.
OpenDetails ==
    /\ form = "details" /\ editor = Nothing /\ plan = Nothing /\ cached # Nothing
    /\ editor' = Started /\ plan' = [date |-> cached.val[Planned], edited |-> FALSE]
    /\ UNCHANGED <<recordVars, form, claimed, replaced>>

\* Closing with changes asks first; either way nothing of them stays.
CloseEditor ==
    /\ editor # Nothing
    /\ editor' = Nothing /\ plan' = Nothing
    /\ UNCHANGED <<recordVars, form, claimed, replaced>>

CloseForm == form = "schedule" /\ CloseEditor
CancelNote == form = "note" /\ CloseEditor
Unchoose == form = "status" /\ CloseEditor
CancelMove == form = "move" /\ CloseEditor
LeaveDetails == form = "details" /\ CloseEditor

(***************************************************************************)
(* Entering.                                                               *)
(***************************************************************************)
Type(f, x) ==
    /\ editor # Nothing /\ f \in FieldsShown(form) /\ editor.draft[f] # x
    /\ editor' = [editor EXCEPT !.draft[f] = x, !.edited = @ \cup {f}]
    /\ UNCHANGED <<recordVars, form, plan, claimed, replaced>>

EnterSchedule(f, x) == form = "schedule" /\ Type(f, x)
EnterNote(x) == form = "note" /\ Type(Own, x)
ChooseTarget(x) == form = "move" /\ Type(Own, x)
EnterDetail(f, x) == form = "details" /\ Type(f, x)

SelectStatus(x) ==
    /\ form = "status" /\ x \in Targets
    /\ editor' = [base |-> cached, draft |-> [cached.val EXCEPT ![Own] = x], edited |-> {Own}]
    /\ UNCHANGED <<recordVars, form, plan, claimed, replaced>>

(***************************************************************************)
(* Saving: a form sends every field it shows, whether it was edited or not.*)
(***************************************************************************)
SaveForm ==
    /\ editor # Nothing
    /\ Send("editor", VersionSent, [f \in FieldsShown(form) |-> editor.draft[f]])
    /\ claimed' = [claimed EXCEPT !["editor"] = editor.edited]
    /\ UNCHANGED <<server, cached, reading, left, form, editor, plan, replaced>>

SaveSchedule == form = "schedule" /\ SaveForm
SaveNote == form = "note" /\ SaveForm
SaveDetails == form = "details" /\ SaveForm

\* Among what the application allows now.
SaveStatus == form = "status" /\ editor # Nothing /\ editor.draft[Own] # cached.val[Own] /\ SaveForm

\* A stage other than the one the card was taken from.
ConfirmMove == form = "move" /\ editor # Nothing /\ editor.draft[Own] # editor.base.val[Own] /\ SaveForm

\* The form closes.  Notes, interviews and the pipeline are read again, and
\* may be seen as they were until then; an application is kept from the answer.
EditorSaved ==
    /\ Saved("editor")
    /\ Answered("editor")
    /\ IF form \in {"note", "schedule", "move"} THEN cached' = cached /\ reading' = Nothing
       ELSE cached' = sent["editor"].answer /\ UNCHANGED reading
    /\ editor' = Nothing /\ plan' = Nothing
    /\ UNCHANGED <<server, left, form, claimed, replaced>>

\* The form stays open with what was typed; a conflict does not fetch the
\* newer record by itself, but the application's pages offer to.
EditorRefused ==
    /\ NotSaved("editor")
    /\ Answered("editor")
    /\ UNCHANGED <<server, cached, reading, left, editorVars>>

(***************************************************************************)
(* The next step, beside the details: the other field, on its own.         *)
(***************************************************************************)
Plan(x) ==
    /\ plan # Nothing /\ plan.date # x
    /\ plan' = [date |-> x, edited |-> TRUE]
    /\ UNCHANGED <<recordVars, form, editor, claimed, replaced>>

SavePlan ==
    /\ plan # Nothing
    /\ Send("planner", cached.ver, [f \in {Planned} |-> plan.date])
    /\ claimed' = [claimed EXCEPT !["planner"] = IF plan.edited THEN {Planned} ELSE {}]
    /\ UNCHANGED <<server, cached, reading, left, form, editor, plan, replaced>>

\* The application is read again, and so it is after a conflict.
PlanHeard ==
    /\ Saved("planner")
    /\ Answered("planner")
    /\ cached' = sent["planner"].answer /\ reading' = Nothing
    /\ UNCHANGED <<server, left, editorVars>>

PlanRefused ==
    /\ NotSaved("planner")
    /\ Answered("planner")
    /\ reading' \in {Nothing, reading}
    /\ UNCHANGED <<server, cached, left, editorVars>>

-----------------------------------------------------------------------------
\* The server takes a save, and notes what it put back unasked.
Unasked(s) ==
    {f \in DOMAIN sent[s].patch : sent[s].patch[f] # server.val[f] /\ f \notin claimed[s]}

Committed(s) ==
    /\ Commit(s)
    /\ replaced' = replaced \cup Unasked(s)
    /\ UNCHANGED <<form, editor, plan, claimed>>

EditingNext ==
    \/ \E f \in Fields, x \in Values : ElsewhereSaves(f, x) /\ UNCHANGED editorVars
    \/ Read /\ UNCHANGED editorVars
    \/ \E s \in Savers : Committed(s) \/ ((Refuse(s) \/ AnswerLost(s)) /\ UNCHANGED editorVars)
    \/ Arrives
    \/ StartEdit \/ EditNote \/ BeginMove \/ OpenDetails
    \/ CloseForm \/ CancelNote \/ Unchoose \/ CancelMove \/ LeaveDetails
    \/ \E f \in Fields, x \in Values : EnterSchedule(f, x) \/ EnterDetail(f, x)
    \/ \E x \in Values : EnterNote(x) \/ SelectStatus(x) \/ OnDragEnd(x) \/ ChooseTarget(x)
    \/ SaveSchedule \/ SaveNote \/ SaveStatus \/ ConfirmMove \/ SaveDetails \/ EditorSaved \/ EditorRefused
    \/ \E x \in Values : Plan(x)
    \/ SavePlan \/ PlanHeard \/ PlanRefused

EditingSpec == EditingInit /\ [][EditingNext]_editingVars

-----------------------------------------------------------------------------
EditingTypeOK ==
    /\ RecordTypeOK
    /\ form \in KnownForms /\ replaced \subseteq Fields
    /\ editor # Nothing => editor.base \in Records /\ editor.draft \in [Fields -> Values]

(***************************************************************************)
(* "Stale writes receive a conflict instead of silently winning": a save   *)
(* that the server takes changes no field its person had not edited.       *)
(***************************************************************************)
StaleWritesConflict == replaced = {}
===============================================================================
