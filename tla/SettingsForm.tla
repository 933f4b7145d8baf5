----------------------------- MODULE SettingsForm -----------------------------
(***************************************************************************)
(* The saved preferences of a workspace and the three parts of the page    *)
(* that change them: the preferences form, which keeps a draft, the theme  *)
(* switch of the header, and the automatic time zone of a demo.  All three *)
(* work from the one cached copy and send the version of it.               *)
(***************************************************************************)
EXTENDS ServerRecord

CONSTANT Detected       \* the browser's time zone, among Values

VARIABLES
    draft,              \* what the form shows, or Nothing
    dirty,              \* fields the person changed in it
    attempted,          \* the automatic zone was tried since the page loaded
    listening,          \* its answer will still be taken
    marked              \* session storage: a zone chosen by hand was saved

formVars == <<draft, dirty>>
zoneVars == <<attempted, listening, marked>>
settingsVars == <<recordVars, formVars, zoneVars>>

ASSUME SettingsAssumption ==
    /\ {"form", "header", "automatic"} \subseteq Savers /\ {"zone", "theme"} \subseteq Fields
    /\ Detected \in Values /\ Nothing \notin [Fields -> Values]

FormInit ==
    /\ draft = Nothing /\ dirty = {}
    /\ attempted = FALSE /\ listening = FALSE /\ marked = FALSE

SettingsInit == RecordInit /\ FormInit

MergeRefreshedDraft(record) ==
    IF draft = Nothing THEN record.val
    ELSE [f \in Fields |-> IF f \in dirty THEN draft[f] ELSE record.val[f]]

\* A new copy in the cache reaches the form, and ends the automatic zone's
\* wait for its answer: the effect that waits belongs to the old copy.
Shown(record) ==
    /\ cached' = record
    /\ draft' = MergeRefreshedDraft(record)
    /\ listening' = IF record = cached THEN listening ELSE FALSE

Refreshed ==
    /\ ReadArrives
    /\ Shown(reading)
    /\ UNCHANGED <<dirty, attempted, marked>>

(***************************************************************************)
(* The form.                                                               *)
(***************************************************************************)
\* What differs from the copy is worked out anew for every field.
Change(f, x) ==
    /\ draft # Nothing /\ draft[f] # x
    /\ draft' = [draft EXCEPT ![f] = x]
    /\ dirty' = {g \in Fields : draft'[g] # cached.val[g]}
    /\ UNCHANGED <<recordVars, zoneVars>>

ChangedSettings == [f \in {g \in Fields : draft[g] # cached.val[g]} |-> draft[f]]

SubmitSettings ==
    /\ draft # Nothing /\ draft # cached.val
    /\ Send("form", cached.ver, ChangedSettings)
    /\ UNCHANGED <<server, cached, reading, left, formVars, zoneVars>>

\* A zone the form sends is a new one, and counts as chosen by hand when the
\* answer confirms it.
ByHand == "zone" \in DOMAIN sent["form"].patch

Submitted ==
    /\ Saved("form")
    /\ Answered("form")
    /\ cached' = sent["form"].answer
    /\ draft' = sent["form"].answer.val /\ dirty' = {}
    /\ listening' = FALSE
    /\ marked' = (marked \/ ByHand)
    /\ UNCHANGED <<server, reading, left, attempted>>

NotSubmitted ==
    /\ NotSaved("form")
    /\ Answered("form")
    /\ UNCHANGED <<server, cached, reading, left, formVars, zoneVars>>

(***************************************************************************)
(* The header's theme switch.                                              *)
(***************************************************************************)
SwitchTheme(x) ==
    /\ cached # Nothing /\ x # cached.val["theme"]
    /\ Send("header", cached.ver, [f \in {"theme"} |-> x])
    /\ UNCHANGED <<server, cached, reading, left, formVars, zoneVars>>

ThemeSwitched ==
    /\ Saved("header")
    /\ Answered("header")
    /\ Shown(sent["header"].answer)
    /\ UNCHANGED <<server, reading, left, dirty, attempted, marked>>

ThemeNotSwitched ==
    /\ NotSaved("header")
    /\ Answered("header")
    /\ UNCHANGED <<server, cached, reading, left, formVars, zoneVars>>

(***************************************************************************)
(* The automatic time zone: tried once per load, never after a choice.     *)
(***************************************************************************)
AutoDue_Always == cached # Nothing /\ ~ attempted

AutoDue == cached # Nothing /\ ~ attempted /\ ~ marked

AutoDetect ==
    /\ AutoDue
    /\ Send("automatic", cached.ver, [f \in {"zone"} |-> Detected])
    /\ attempted' = TRUE /\ listening' = TRUE
    /\ UNCHANGED <<server, cached, reading, left, formVars, marked>>

AutoDetected ==
    /\ Saved("automatic")
    /\ Answered("automatic")
    /\ IF listening
       THEN Shown(sent["automatic"].answer)
       ELSE UNCHANGED <<cached, draft, listening>>
    /\ UNCHANGED <<server, reading, left, dirty, attempted, marked>>

NotAutoDetected ==
    /\ NotSaved("automatic")
    /\ Answered("automatic")
    /\ UNCHANGED <<server, cached, reading, left, formVars, zoneVars>>

\* Leaving the form, or the whole page: only session storage stays.  A
\* reload also forgets that the zone was tried, and no answer reaches it.
Unmount ==
    /\ draft # Nothing /\ ~ Pending("form")     \* bound: one form hears each answer
    /\ draft' = cached.val /\ dirty' = {}
    /\ UNCHANGED <<recordVars, zoneVars>>

Reload ==
    /\ cached # Nothing
    /\ Abandoned
    /\ draft' = Nothing /\ dirty' = {}
    /\ attempted' = FALSE /\ listening' = FALSE
    /\ UNCHANGED <<server, marked>>

\* The effect that starts it runs before the page does anything else.
PageNext ==
    \/ Refreshed
    \/ \E f \in Fields, x \in Values : Change(f, x)
    \/ SubmitSettings \/ Submitted \/ NotSubmitted
    \/ \E x \in Values : SwitchTheme(x)
    \/ ThemeSwitched \/ ThemeNotSwitched
    \/ AutoDetected \/ NotAutoDetected
    \/ Unmount \/ Reload

SettingsNext ==
    \/ ServerNext /\ UNCHANGED <<formVars, zoneVars>>
    \/ AutoDetect
    \/ ~ AutoDue /\ PageNext

SettingsSpec == SettingsInit /\ [][SettingsNext]_settingsVars

-----------------------------------------------------------------------------
SettingsTypeOK ==
    /\ RecordTypeOK
    /\ draft \in [Fields -> Values] \cup {Nothing} /\ dirty \subseteq Fields
    /\ draft = Nothing <=> cached = Nothing
    /\ attempted \in BOOLEAN /\ listening \in BOOLEAN /\ marked \in BOOLEAN

(***************************************************************************)
(* A save of the form that the server accepts sends no field the person    *)
(* did not change: what others changed meanwhile is never put back.        *)
(***************************************************************************)
OnlyEditedSent ==
    draft # Nothing => \A f \in Fields : draft[f] # cached.val[f] => f \in dirty

AutomaticCommits ==
    \/ Pending("automatic") /\ sent'["automatic"] # sent["automatic"]
                           /\ sent'["automatic"] # Nothing /\ sent'["automatic"].state = "saved"
    \/ server' # server /\ \E change \in left \ left' : change.by = "automatic"

(***************************************************************************)
(* A zone that was chosen by hand, and confirmed, is never replaced by the *)
(* automatic one: not by one under way, nor after the page is loaded anew. *)
(***************************************************************************)
ChosenZoneKept == [][AutomaticCommits => ~ marked]_settingsVars
===============================================================================
