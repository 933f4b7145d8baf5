--------------------------- MODULE SessionSensitive ----------------------------
(***************************************************************************)
(* What a verified intent allows: one export, or one deletion and then     *)
(* reading how far it has come.  No request is ever repeated by itself.    *)
(***************************************************************************)
EXTENDS SessionAccount

\* The stored intent must still be the published one, its user signed in.
Consumable(want) ==
    /\ Configured /\ ctl.account
    /\ view.status = "account-management" /\ ~ manage.busy /\ ~ manage.consumed
    /\ manage.intent.operation = want
    /\ disk.intent = manage.intent /\ mem = manage.intent.subject

Managing(m) == Publish("account-management", None, None) /\ manage' = m

Performing_Again(want) ==
    /\ Consumable(want)
    /\ gen' = gen
    /\ conts' = conts \cup {Wait(want, manage)}
    /\ log' = [log EXCEPT !.requests = @ + 1, !.performed = @ \cup {<<manage.intent.id, mem>>},
                          !.dispatched = @ \/ want = "delete"]
    /\ disk' = [disk EXCEPT !.notice = IF want = "delete" THEN "unknown" ELSE @]
    /\ UNCHANGED <<view, manage, ctl, mem, page>>

Performing(want) ==
    /\ Consumable(want)
    /\ Managing([manage EXCEPT !.busy = TRUE, !.consumed = TRUE, !.failed = FALSE])
    /\ conts' = conts \cup {Wait(want, manage)}
    /\ log' = [log EXCEPT !.requests = @ + 1,
                          !.performed = @ \cup {<<manage.intent.id, mem>>},
                          !.dispatched = @ \/ want = "delete"]
    /\ disk' = [disk EXCEPT !.intent = None,
                            !.notice = IF want = "delete" THEN "unknown" ELSE @]
    /\ UNCHANGED <<ctl, mem, page>>

PerformSensitiveExport == Performing("export")
PerformAccountDeletion == Performing("delete")

\* The archive is downloaded under the scope that asked for it.
Exported(c) ==
    /\ Resume(c, "export")
    /\ conts' = conts \ {c}
    /\ Managing([c.arg EXCEPT !.consumed = TRUE, !.completed = TRUE])
    /\ UNCHANGED <<ctl, mem, disk, page, log>>

\* The outcome of a request that failed is not known.
SensitiveFails(c) ==
    /\ \E want \in Wants \cup {"review"} : Resume(c, want)
    /\ conts' = conts \ {c}
    /\ Managing([c.arg EXCEPT !.consumed = @ \/ c.kind # "review", !.failed = TRUE])
    /\ UNCHANGED <<ctl, mem, disk, page, log>>

ReviewAccountDeletion ==
    /\ view.status = "account-management" /\ ~ manage.busy
    /\ manage.intent.operation = "delete" /\ manage.consumed /\ manage.failed
    /\ Managing([manage EXCEPT !.busy = TRUE])
    /\ conts' = conts \cup {Wait("review", manage)}
    /\ UNCHANGED <<ctl, mem, disk, page, log>>

\* The server erases what a deletion asked for, whether or not it is heard.
ServerErases(c) ==
    /\ c.kind = "delete" /\ ~ log.erased
    /\ log' = [log EXCEPT !.erased = TRUE]
    /\ UNCHANGED <<gen, view, manage, ctl, mem, disk, page, conts>>

\* Erased, and its sign-in removed or left for the operator: access ends here.
DeletionFinalized(c, complete) ==
    /\ Resume(c, "delete") \/ Resume(c, "review")
    /\ log.erased
    /\ conts' = conts \ {c}
    /\ Move("account-management", None, None)
    /\ manage' = [c.arg EXCEPT !.busy = FALSE, !.consumed = TRUE, !.completed = complete]
    /\ disk' = [AccountCleared(disk) EXCEPT !.selected = "none",
                                            !.notice = IF complete THEN "complete" ELSE "review"]
    /\ mem' = None
    /\ ctl' = [ctl EXCEPT !.dirty = FALSE]
    /\ UNCHANGED <<page, log>>

DeletionUnfinished(c) ==
    /\ Resume(c, "delete") \/ Resume(c, "review")
    /\ conts' = conts \ {c}
    /\ Managing([c.arg EXCEPT !.consumed = TRUE, !.busy = FALSE, !.failed = FALSE])
    /\ UNCHANGED <<ctl, mem, disk, page, log>>
===============================================================================
