---------------------------- MODULE WorkspaceShell ----------------------------
(***************************************************************************)
(* The frame around the pages of a workspace: its drawers and dialogs,     *)
(* which stop the page behind them from scrolling and give back what they  *)
(* found, the reset of a demo, which replaces the frame under its own      *)
(* dialog, and the ways out of the workspace.                              *)
(***************************************************************************)
EXTENDS Integers, Sequences

CONSTANT CanReset       \* a demo; otherwise an account, which is signed out of

VARIABLES
    status,            \* "ready", "switching" to a new demo, or "gone"
    error,              \* the last reset failed
    unsaved,            \* a page holds unsaved changes
    open,               \* the overlays, in the order in which they opened
    overflow,           \* what the page's scrolling is set to
    found,              \* what each overlay found it set to
    together            \* overlays were closed by one event

shellVars == <<status, error, unsaved, open, overflow, found, together>>

\* In the order of the tree, in which React cleans up.
Tree == <<"tablet", "page", "more", "reset", "exit">>
Overlays == {Tree[i] : i \in 1..5}
Depth(o) == CHOOSE i \in 1..5 : Tree[i] = o

Showing == {open[i] : i \in 1..Len(open)}
Top == open[Len(open)]
Uncovered == status = "ready" /\ open = <<>>
OnTop(o) == open # <<>> /\ Top = o

ShellInit ==
    /\ status = "ready" /\ error = FALSE /\ unsaved = FALSE
    /\ open = <<>> /\ overflow = "scroll" /\ together = FALSE
    /\ found = [o \in Overlays |-> "scroll"]

-----------------------------------------------------------------------------
(***************************************************************************)
(* Opening and closing.                                                    *)
(***************************************************************************)
Restored_Scroll(o) == "scroll"

Restored(o) == found[o]

\* Overlays closed one after the other leave what the last of them found.
AfterClosing(last) == IF last = "none" THEN overflow ELSE Restored(last)

LastInTree(S) == IF S = {} THEN "none" ELSE CHOOSE o \in S : \A p \in S : Depth(p) <= Depth(o)

Opened(o, before, rest) ==
    /\ open' = Append(rest, o)
    /\ found' = [found EXCEPT ![o] = before]
    /\ overflow' = "hidden"

OpenOverlay(o) == Opened(o, overflow, open) /\ UNCHANGED <<status, error, unsaved, together>>

CloseTop ==
    /\ open' = SubSeq(open, 1, Len(open) - 1)
    /\ overflow' = Restored(Top)
    /\ UNCHANGED <<status, unsaved, found, together>>

\* The bar's buttons, or a page's own.
OpenFromPage ==
    /\ Uncovered
    /\ \/ \E o \in {"tablet", "more", "page"} : OpenOverlay(o)
       \/ CanReset /\ OpenOverlay("reset")

\* Its button, the space around it, or a link in it.
CloseOverlay ==
    /\ open # <<>>
    /\ IF OnTop("reset") THEN status = "ready" /\ error' = FALSE ELSE UNCHANGED error
    /\ CloseTop

\* One commit: what is closed is cleaned up before the new one opens.
RequestReset ==
    /\ OnTop("more") /\ CanReset
    /\ Opened("reset", Restored("more"), <<>>)
    /\ UNCHANGED <<status, error, unsaved, together>>

\* Every open overlay listens for it, the first one opened first, and they
\* close together.  A page's own may ask before it closes, and a reset under
\* way is not given up; either is then the only one, and stays.
Escape ==
    /\ open # <<>> /\ ~ (OnTop("reset") /\ status = "switching")
    /\ open' = <<>> /\ overflow' = Restored(Top)
    /\ together' = (together \/ Len(open) > 1)
    /\ error' = (error /\ "reset" \notin Showing)
    /\ UNCHANGED <<status, unsaved, found>>

(***************************************************************************)
(* A new generation of the session replaces the frame.  Of what was open   *)
(* only the wish to reset survives.                                        *)
(***************************************************************************)
Torn == AfterClosing(LastInTree(Showing))

Replaced ==
    /\ together' = (together \/ Len(open) > 1)
    /\ IF "reset" \in Showing THEN Opened("reset", Torn, <<>>)
       ELSE open' = <<>> /\ overflow' = Torn /\ UNCHANGED found

Gone ==
    /\ status' = "gone" /\ unsaved' = FALSE /\ error' = FALSE
    /\ open' = <<>> /\ overflow' = Torn /\ together' = (together \/ Len(open) > 1)
    /\ UNCHANGED found

ResetWorkspace ==
    /\ OnTop("reset") /\ status = "ready"
    /\ status' = "switching" /\ error' = FALSE
    /\ Replaced
    /\ UNCHANGED unsaved

\* The dialog is in the frame of the new demo until it is told to close.
ResetDone ==
    /\ status = "switching"
    /\ status' = "ready" /\ unsaved' = FALSE
    /\ open' = <<>> /\ overflow' = Torn
    /\ UNCHANGED <<error, found, together>>

ResetFails ==
    /\ status = "switching"
    /\ status' = "ready" /\ error' = TRUE
    /\ Replaced
    /\ UNCHANGED unsaved

-----------------------------------------------------------------------------
(***************************************************************************)
(* Leaving.                                                                *)
(***************************************************************************)
ExitOffered == status = "ready" /\ (OnTop("more") \/ OnTop("reset") \/ (open = <<>> /\ ~ CanReset))

ExitWorkspace ==
    /\ ExitOffered
    /\ IF unsaved THEN OpenOverlay("exit") ELSE Gone

DiscardAndLeave == OnTop("exit") /\ status = "ready" /\ Gone

\* It expires, is refused, or is ended by another tab.
SessionEnds == status # "gone" /\ Gone

Enter ==
    /\ status = "gone"
    /\ status' = "ready"
    /\ UNCHANGED <<error, unsaved, open, overflow, found, together>>

Edit ==
    /\ status = "ready" /\ open \in {<<>>, <<"page">>}
    /\ unsaved' = ~ unsaved
    /\ UNCHANGED <<status, error, open, overflow, found, together>>

ShellNext ==
    \/ OpenFromPage \/ CloseOverlay \/ RequestReset \/ Escape
    \/ ResetWorkspace \/ ResetDone \/ ResetFails
    \/ ExitWorkspace \/ DiscardAndLeave \/ SessionEnds \/ Enter \/ Edit

ShellSpec == ShellInit /\ [][ShellNext]_shellVars

-----------------------------------------------------------------------------
\* One overlay is open at a time, but for the question before leaving, which
\* may be asked on top of what leads to it.
Stacks == {<<>>} \cup {<<o>> : o \in Overlays} \cup {<<"more", "exit">>, <<"reset", "exit">>}

ShellTypeOK ==
    /\ status \in {"ready", "switching", "gone"}
    /\ unsaved \in BOOLEAN /\ together \in BOOLEAN /\ error \in BOOLEAN
    /\ open \in Stacks
    /\ overflow \in {"scroll", "hidden"} /\ found \in [Overlays -> {"scroll", "hidden"}]
    /\ status = "switching" => open = <<"reset">> /\ ~ error
    /\ error => open \in {<<"reset">>, <<"reset", "exit">>}

(***************************************************************************)
(* The page scrolls exactly when nothing covers it, through every order of *)
(* drawers, dialogs, resets and session changes, as long as no one event   *)
(* has closed two overlays.                                                *)
(***************************************************************************)
ScrollFollows == together \/ (overflow = "hidden" <=> open # <<>>)
===============================================================================
