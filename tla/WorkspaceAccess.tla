---------------------------- MODULE WorkspaceAccess ----------------------------
(***************************************************************************)
(* What the session promises the application that runs in it: a workspace  *)
(* is entered only out of an attempt to enter one, and nobody finds        *)
(* another workspace in the place of theirs without leaving it first.      *)
(***************************************************************************)
CONSTANTS Identities, None

VARIABLES phase, who

Init == phase \in {"out", "entering"} /\ who = None

\* Somebody asks to enter, to change or to leave a workspace, or reloads.
Ask == phase' = "entering" /\ who' = None

Enter == phase = "entering" /\ phase' = "in" /\ who' \in Identities

\* Verified for one account action, without a workspace.
Verify == phase = "entering" /\ phase' = "managing" /\ who' = None

End == phase' = "out" /\ who' = None

Next == Ask \/ Enter \/ Verify \/ End

Spec == Init /\ [][Next]_<<phase, who>>
===============================================================================
