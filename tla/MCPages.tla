------------------------------- MODULE MCPages -------------------------------
(***************************************************************************)
(* The pages that change something, one at a time: the settings, the forms *)
(* that edit a record, the drawer in which an interview is prepared, the   *)
(* form that adds an opportunity, and the frame around all of them.  A     *)
(* behaviour is about one of them and nothing passes between them; `route' *)
(* says which.  The settings and the forms each have a record of their     *)
(* own; the variables of ServerRecord are about the one of the route.      *)
(***************************************************************************)
EXTENDS SettingsForm, RecordEditors, PreparationDrawer, OpportunityCapture, WorkspaceShell

VARIABLE route

\* The frame of an account, which cannot be reset.
AccountShell == INSTANCE WorkspaceShell WITH CanReset <- FALSE

\* The forms that send the version they were opened with, or a single field.
Careful == {"schedule", "status", "move"}

\* What has a choice of beginnings has it where it is looked at.
MCInit ==
    /\ route \in {"settings", "record", "drawer", "capture", "shell", "account shell"}
    /\ SettingsInit /\ EditorInit /\ (route # "record" => form = "status")
    /\ DrawerInit
    /\ CaptureInit /\ (route # "capture" => returns /\ \A j \in Jobs : tracked[j] = 0)
    /\ ShellInit

\* The other pages stand still.
Others ==
    /\ UNCHANGED route
    /\ route \notin {"settings", "record"} => UNCHANGED recordVars
    /\ route # "settings" => UNCHANGED <<formVars, zoneVars>>
    /\ route # "record" => UNCHANGED editorVars
    /\ route # "drawer" => UNCHANGED drawerVars
    /\ route # "capture" => UNCHANGED captureVars
    /\ route \notin {"shell", "account shell"} => UNCHANGED shellVars

\* Bound: notes and details have one request under way.
MCNext ==
    \/ route = "settings" /\ SettingsNext /\ Others
    \/ route = "record" /\ EditingNext /\ (form \in Careful \/ UnderWay' <= 1) /\ Others
    \/ route = "drawer" /\ DrawerNext /\ Others
    \/ route = "capture" /\ CaptureNext /\ Others
    \/ route = "shell" /\ ShellNext /\ Others
    \/ route = "account shell" /\ AccountShell!ShellNext /\ Others

MCSpec == MCInit /\ [][MCNext]_<<route, settingsVars, editorVars, drawerVars, captureVars, shellVars>>

-----------------------------------------------------------------------------
(***************************************************************************)
(* No accepted save puts back what others changed: not from the settings   *)
(* form, not from the schedule of an interview, a status or a card moved   *)
(* in the pipeline.  A note and the details of an application do;          *)
(* MCStaleDraft.cfg shows how.                                             *)
(***************************************************************************)
OnlyOwnEdits == OnlyEditedSent /\ (form \in Careful => StaleWritesConflict)
===============================================================================
