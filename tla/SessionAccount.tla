---------------------------- MODULE SessionAccount ----------------------------
(***************************************************************************)
(* Signing in and out of an account: the redirect to the provider and its  *)
(* answer, the bootstrap of the account's workspace, a failed renewal, and *)
(* sign-outs of this tab and of another.                                   *)
(***************************************************************************)
EXTENDS SessionEntry

AccountEntryAvailable == Configured /\ ctl.account

\* The account adapter forgets its user, and its store the rest.
AccountForgotten == /\ mem' = None
                    /\ disk' = AccountCleared(disk)

(***************************************************************************)
(* Starting a sign-in, ordinary or to verify a sensitive intent.           *)
(***************************************************************************)
LoginPending ==
    /\ view.status = "authenticating"
    /\ \E c \in conts : c.kind = "login" /\ c.scope = gen

StartAccountLogin(intent, entry) ==
    /\ ~ LoginPending
    /\ Move("authenticating", None, None)
    /\ disk' = [AdapterCleared(disk) EXCEPT !.selected = "cognito", !.notice = None]
    /\ mem' = IF ctl.adapter = "account" THEN None ELSE mem
    /\ manage' = None
    /\ ctl' = [Reset(ctl) EXCEPT !.attempted = FALSE]
    /\ conts' = conts \cup {Wait("login", [intent |-> intent, entry |-> entry, begun |-> FALSE])}
    /\ log' = [GivenUp EXCEPT !.dispatched = FALSE,
                              !.names = IF intent = None THEN @ ELSE intent.id]
    /\ UNCHANGED page

BeginSignIn(entry, discard) ==
    /\ ~ Local /\ MayLeave(discard)
    /\ StartAccountLogin(None, entry)

\* Only from the account's own workspace, and a deletion only where it is offered.
BeginSensitiveOperation(want) ==
    /\ Configured /\ ctl.adapter = "account" /\ mem # None
    /\ want = "delete" => "manage" \in ctl.caps
    /\ log.names < MaxNames
    /\ StartAccountLogin([id |-> Fresh, operation |-> want, subject |-> mem], "signin")

\* Once the configuration is known, the account adapter takes over and its
\* store makes room for a new sign-in.
EntryOffered(c) == AccountEntryAvailable /\ (c.arg.entry = "signup" => "signup" \in ctl.caps)

LoginBegins(c) ==
    /\ Resume(c, "login") /\ ~ c.arg.begun /\ EntryOffered(c)
    /\ ctl' = [ctl EXCEPT !.adapter = "account"]
    /\ AccountForgotten
    /\ UNCHANGED <<gen, view, manage, page, log>>
    /\ conts' = (conts \ {c}) \cup {Wait("login", [intent |-> c.arg.intent, entry |-> c.arg.entry, begun |-> TRUE])}

\* The transaction, then the intent, are stored and the browser leaves.
LoginRedirects(c) ==
    /\ Resume(c, "login") /\ c.arg.begun
    /\ log.names < MaxNames
    /\ LET tx == [name |-> Fresh, intent |-> IF c.arg.intent = None THEN None ELSE c.arg.intent.id]
       IN  /\ disk' = [disk EXCEPT !.tx = tx, !.intent = c.arg.intent]
           /\ page' = [path |-> "away", code |-> tx.name]
    /\ log' = [log EXCEPT !.names = Fresh]
    /\ conts' = conts \ {c}
    /\ UNCHANGED <<gen, view, manage, ctl, mem>>

LoginFails(c) ==
    /\ Resume(c, "login")
    /\ c.arg.begun \/ (ctl.config \in {"known", "failed"} /\ ~ EntryOffered(c))
    /\ conts' = conts \ {c}
    /\ IF ctl.account THEN AccountForgotten ELSE UNCHANGED <<mem, disk>>
    /\ Publish("error", None, "account")
    /\ UNCHANGED <<manage, ctl, page, log>>

\* The provider answers for whoever signed in there, or with an error.
ProviderAnswers ==
    /\ page.path = "away"
    /\ \E s \in Subjects \cup {None} : Load("callback", [tx |-> page.code, subject |-> s])

\* The browser comes back to an answer it was given before.
Revisit ==
    /\ log.answer # None
    /\ Load("callback", log.answer)

(***************************************************************************)
(* The provider's answer.  It is looked at once; the stored transaction it *)
(* belongs to is consumed before it is exchanged.                          *)
(***************************************************************************)
CompleteOAuthCallback ==
    /\ page.path = "callback" /\ disk.selected = "cognito" /\ ~ ctl.attempted /\ Room(3)
    /\ Move("callback", None, None)
    /\ ctl' = [ctl EXCEPT !.attempted = TRUE, !.dirty = FALSE]
    /\ page' = [page EXCEPT !.code = None]
    /\ manage' = None
    /\ conts' = conts \cup {Wait("callback", page.code)}
    /\ UNCHANGED <<mem, disk, log>>

CallbackRefused_Silent(c) ==
    /\ Resume(c, "callback") /\ ctl.config \in {"known", "failed"}
    /\ AccountEntryAvailable => disk.intent # None
    /\ conts' = conts \ {c}
    /\ UNCHANGED <<gen, view, manage, ctl, mem, disk, page, log>>

CallbackRefused(c) ==
    /\ Resume(c, "callback") /\ ctl.config \in {"known", "failed"}
    /\ AccountEntryAvailable => disk.intent # None
    /\ conts' = conts \ {c}
    /\ Publish("error", None, "account")
    /\ UNCHANGED <<manage, ctl, mem, disk, page, log>>

CallbackProceeds(c) ==
    /\ Resume(c, "callback") /\ AccountEntryAvailable
    /\ Move("callback", None, None)
    /\ disk' = [disk EXCEPT !.selected = "cognito",
                            !.demo = IF ctl.adapter = "demo" THEN None ELSE @]
    /\ ctl' = [ctl EXCEPT !.adapter = "account", !.dirty = FALSE]
    /\ log' = GivenUp
    /\ conts' = (conts \ {c}) \cup {Wait("exchange", [code |-> c.arg, intent |-> disk.intent])}
    /\ UNCHANGED <<manage, mem, page>>

\* An answer that is refused or lost; verifying an intent also gives it up.
ExchangeFailed(c, cleared) ==
    /\ conts' = conts \ {c}
    /\ IF c.arg.intent # None THEN AccountForgotten
       ELSE disk' = cleared /\ UNCHANGED mem
    /\ Publish("error", None, IF mem # None /\ c.arg.intent = None THEN "account-bootstrap" ELSE "account")
    /\ UNCHANGED <<manage, ctl, page, log>>

\* Another tab owns this session's lock, or the answer is malformed.
ExchangeRefused(c) ==
    /\ Resume(c, "exchange")
    /\ \E cleared \in {disk, AccountCleared(disk)} : ExchangeFailed(c, cleared)

ExchangeStarts(c) ==
    /\ Resume(c, "exchange")
    /\ c.arg.code # None /\ disk.tx # None /\ c.arg.code.tx = disk.tx.name
    /\ disk' = [disk EXCEPT !.tx = None]
    /\ conts' = (conts \ {c}) \cup {[c EXCEPT !.kind = "tokens", !.arg =
                    [subject |-> c.arg.code.subject, named |-> disk.tx.intent, intent |-> c.arg.intent]]}
    /\ UNCHANGED <<gen, view, manage, ctl, mem, page, log>>

\* The ten seconds are up, or the tokens are not the expected ones.
TokensRefused(c) ==
    /\ Resume(c, "tokens")
    /\ \E cleared \in {disk, AccountCleared(disk)} : ExchangeFailed(c, cleared)

Expected(a) ==
    /\ a.subject # None
    /\ IF a.intent = None THEN a.named = None
       ELSE a.named = a.intent.id /\ a.subject = a.intent.subject

\* Only a tab that owns the session's lock keeps it across a reload.
TokensArrive(c) ==
    /\ Resume(c, "tokens") /\ Expected(c.arg)
    /\ mem' = c.arg.subject
    /\ disk' \in {disk, [disk EXCEPT !.user = c.arg.subject]}
    /\ IF c.arg.intent = None
       THEN /\ UNCHANGED <<gen, view, manage, log>>
            /\ conts' = (conts \ {c}) \cup {Wait("bootstrap", None)}
       ELSE /\ Publish("account-management", None, None)
            /\ manage' = [intent |-> c.arg.intent, busy |-> FALSE, consumed |-> FALSE,
                          failed |-> FALSE, completed |-> FALSE]
            /\ log' = [log EXCEPT !.verified = @ \cup {<<c.arg.intent.id, c.arg.subject>>}]
            /\ conts' = conts \ {c}
    /\ UNCHANGED <<ctl, page>>

(***************************************************************************)
(* The account's workspace.                                                *)
(***************************************************************************)
Bootstrapped(c) ==
    /\ Resume(c, "bootstrap") /\ mem # None
    /\ conts' = conts \ {c}
    /\ BecomeReady(Account(mem), None)
    /\ ctl' = [ctl EXCEPT !.dirty = FALSE]
    /\ UNCHANGED <<manage, mem, page, log>>

\* Somebody else's workspace answered: the credentials are not kept.
IdentityMismatch(c) ==
    /\ Resume(c, "bootstrap") /\ mem # None
    /\ conts' = conts \ {c}
    /\ AccountForgotten
    /\ Publish("error", None, IF view.status = "bootstrapping" THEN "account-bootstrap" ELSE "account")
    /\ UNCHANGED <<manage, ctl, page, log>>

BootstrapFails(c) ==
    /\ Resume(c, "bootstrap")
    /\ conts' = conts \ {c}
    /\ Publish("error", None, "account-bootstrap")
    /\ UNCHANGED <<manage, ctl, mem, disk, page, log>>

RetryAccountBootstrap ==
    /\ AccountEntryAvailable /\ mem # None /\ Room(2)
    /\ \/ view.status = "error" /\ view.op = "account-bootstrap"
       \/ view.status = "account-management" /\ manage.intent.operation = "export" /\ ~ manage.busy
    /\ Move("bootstrapping", None, None)
    /\ ctl' = [ctl EXCEPT !.dirty = FALSE]
    /\ manage' = None
    /\ conts' = conts \cup {Wait("bootstrap", None)}
    /\ UNCHANGED <<mem, disk, page, log>>

\* One renewal attempt: its answer lost or refused, the session ends.
RenewalFails ==
    /\ ctl.adapter = "account" /\ mem # None
    /\ view.status \in Authorized
    /\ Move("error", None, "account")
    /\ mem' = None
    /\ disk' = [AccountCleared(disk) EXCEPT !.selected = "none"]
    /\ ctl' = [ctl EXCEPT !.dirty = FALSE]
    /\ manage' = None
    /\ UNCHANGED <<page, conts, log>>

(***************************************************************************)
(* Signing out.  Local access ends before the provider is asked.           *)
(***************************************************************************)
SignOut(discard) ==
    /\ view.scope = gen /\ MayLeave(discard)
    /\ IF ctl.adapter = "account"
       THEN /\ Move("signing-out", None, None)
            /\ disk' = [AccountCleared(disk) EXCEPT !.selected = "none"]
            /\ mem' = None /\ manage' = None
            /\ ctl' = Reset(ctl)
            /\ conts' = conts \cup {Wait("revoke", None)}
            /\ log' = GivenUp
            /\ UNCHANGED page
       ELSE Leave(discard)

Revoked(c) ==
    /\ Resume(c, "revoke")
    /\ conts' = conts \ {c}
    /\ \/ Publish("anonymous", None, None) /\ page' = [path |-> "leaving", code |-> None]
       \/ Publish("error", None, "logout") /\ page' = page
    /\ UNCHANGED <<manage, ctl, mem, disk, log>>

ProviderSignedOut ==
    /\ page.path = "leaving"
    /\ Load("signedout", None)

\* The signed-out page clears when it is shown, before anything is started on it.
AcceptSignedOut ==
    /\ page.path = "signedout" /\ gen = 1
    /\ Move("anonymous", None, None)
    /\ disk' = [AccountCleared(disk) EXCEPT !.selected = "none"]
    /\ mem' = None /\ manage' = None
    /\ ctl' = [ctl EXCEPT !.dirty = FALSE]
    /\ UNCHANGED <<page, conts, log>>

\* Another tab signed out; a demo keeps its own session.
AnotherTabSignsOut ==
    /\ ctl.account
    /\ IF ctl.adapter = "account" /\ disk.selected = "cognito"
       THEN Away("expired", "invalidated")
       ELSE /\ mem # None \/ AccountCleared(disk) # disk
            /\ AccountForgotten
            /\ UNCHANGED <<gen, view, manage, ctl, page, conts, log>>
===============================================================================
