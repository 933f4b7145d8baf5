--------------------------- MODULE WorkspaceSession ----------------------------
(***************************************************************************)
(* The browser's workspace session: one tab, its controller, the provider  *)
(* it is redirected to and the servers it asks.                            *)
(***************************************************************************)
EXTENDS SessionSensitive

Init == TabInit

Opening ==
    \/ OpenTab
    \/ \E caps \in Offers : ConfigurationLoads(caps)
    \/ ConfigurationFails
    \/ \E discard \in BOOLEAN : RetryConfiguration(discard)
    \/ \E c \in conts : Initialize(c) \/ RestoreAccount(c) \/ Restored(c)

Starting ==
    \/ \E reset \in BOOLEAN : Activate(reset)
    \/ \E c \in conts : \/ Activated(c) \/ ActivationRefused(c) \/ ActivationUnclear(c)
                        \/ EnterDemo(c) \/ DemoRefused(c) \/ ServerProvisions(c)
    \/ AbandonReset
    \/ \E discard \in BOOLEAN : AskForDemo(discard)

SigningIn ==
    \/ \E entry \in {"signin", "signup"}, discard \in BOOLEAN : BeginSignIn(entry, discard)
    \/ \E c \in conts : LoginBegins(c) \/ LoginRedirects(c) \/ LoginFails(c)
    \/ ProviderAnswers
    \/ Revisit
    \/ CompleteOAuthCallback
    \/ \E c \in conts : \/ CallbackRefused(c) \/ CallbackProceeds(c)
                        \/ ExchangeRefused(c) \/ ExchangeStarts(c)
                        \/ TokensRefused(c) \/ TokensArrive(c)

UsingAccount ==
    \/ \E c \in conts : Bootstrapped(c) \/ IdentityMismatch(c) \/ BootstrapFails(c)
    \/ RetryAccountBootstrap

Sensitive ==
    \/ \E want \in Wants : BeginSensitiveOperation(want)
    \/ PerformSensitiveExport \/ PerformAccountDeletion \/ ReviewAccountDeletion
    \/ \E c \in conts : \/ Exported(c) \/ SensitiveFails(c) \/ ServerErases(c)
                        \/ DeletionUnfinished(c)
                        \/ \E complete \in BOOLEAN : DeletionFinalized(c, complete)

Ending ==
    \/ \E discard \in BOOLEAN : Leave(discard) \/ SignOut(discard)
    \/ \E c \in conts : Revoked(c) \/ Retire(c)
    \/ Unauthorized \/ DemoExpires \/ RenewalFails \/ AnotherTabSignsOut
    \/ ProviderSignedOut \/ AcceptSignedOut

Editing == Edit \/ Settle

\* A tab in which nobody asks for a sensitive operation, and any tab.
Plain == Opening \/ Starting \/ SigningIn \/ UsingAccount \/ Ending \/ Editing

Next == Plain \/ Sensitive

Spec == Init /\ [][Next]_tabVars

(***************************************************************************)
(* What the controller waits for: each kind of continuation is answered,   *)
(* by the network, the provider or the ten seconds the code allows it.     *)
(***************************************************************************)
Answer(c) ==
    \/ Initialize(c) \/ RestoreAccount(c) \/ Restored(c)
    \/ Activated(c) \/ ActivationRefused(c) \/ ActivationUnclear(c)
    \/ LoginBegins(c) \/ LoginRedirects(c) \/ LoginFails(c)
    \/ CallbackRefused(c) \/ CallbackProceeds(c)
    \/ ExchangeRefused(c) \/ ExchangeStarts(c) \/ TokensRefused(c) \/ TokensArrive(c)
    \/ Bootstrapped(c) \/ BootstrapFails(c) \/ Revoked(c)

Kinds == {"initialize", "restore", "activate", "login", "callback",
          "exchange", "tokens", "bootstrap", "revoke"}

FairSpec ==
    /\ Init /\ [][Plain]_tabVars
    /\ WF_tabVars(ConfigurationFails \/ \E caps \in Offers : ConfigurationLoads(caps))
    /\ \A kind \in Kinds : WF_tabVars(\E c \in conts : c.kind = kind /\ Answer(c))

-----------------------------------------------------------------------------
(***************************************************************************)
(* What the variables hold.                                                *)
(***************************************************************************)
Maybe(S) == S \cup {None}
Scopes == 1..MaxGen
Named == 1..MaxNames

Demos == {Demo(k) : k \in Named}
Identities == {Account(s) : s \in Subjects} \cup Demos \cup {LocalWorkspace}

Intents == [id : Named, operation : Wants, subject : Subjects]
OAuthAnswers == [tx : Named, subject : Maybe(Subjects)]
Managed == [intent : Intents, busy : BOOLEAN, consumed : BOOLEAN, failed : BOOLEAN, completed : BOOLEAN]

Reasons == {"configuration", "restore", "activate", "account", "account-bootstrap",
               "logout", "expired", "invalidated", "error"}

\* What is absent is nothing else.
ASSUME SessionAssumption ==
    /\ None \notin Nat /\ None \notin Identities /\ None \notin Intents /\ None \notin OAuthAnswers
    /\ None \notin Reasons \cup {"none", "demo", "cognito", "unknown", "complete", "review"}

Storages ==
    [build : Builds, selected : {None, "none", "demo", "cognito"}, user : Maybe(Subjects),
     demo : Maybe(Named), tx : Maybe([name : Named, intent : Maybe(Named)]),
     intent : Maybe(Intents), left : BOOLEAN, notice : {None, "unknown", "complete", "review"}]

Controllers ==
    [adapter : {"demo", "account", "local"}, config : {"unknown", "loading", "known", "failed"},
     caps : SUBSET {"demo", "cognito", "signup", "manage"}, account : BOOLEAN,
     key : Maybe(Named), attempted : BOOLEAN, dirty : BOOLEAN]

Locations ==
    [path : {"app", "leaving", "signedout"}, code : {None}]
    \cup [path : {"away"}, code : Named]
    \cup [path : {"callback"}, code : Maybe(OAuthAnswers)]

Logs ==
    [names : 0..MaxNames, demos : SUBSET Named, given : SUBSET Named,
     answer : Maybe(OAuthAnswers), verified : SUBSET (Named \X Subjects), requests : Nat,
     performed : SUBSET (Named \X Subjects), dispatched : BOOLEAN, erased : BOOLEAN]

\* What each kind of continuation takes along.
Suspended ==
    [kind : {"initialize", "demo", "restore", "bootstrap", "revoke"}, scope : Scopes, arg : {None}]
    \cup [kind : {"activate"}, scope : Scopes, arg : [key : Maybe(Named), previous : Maybe(Demos)]]
    \cup [kind : {"login"}, scope : Scopes,
          arg : [intent : Maybe(Intents), entry : {"signin", "signup"}, begun : BOOLEAN]]
    \cup [kind : {"callback"}, scope : Scopes, arg : Maybe(OAuthAnswers)]
    \cup [kind : {"exchange"}, scope : Scopes, arg : [code : Maybe(OAuthAnswers), intent : Maybe(Intents)]]
    \cup [kind : {"tokens"}, scope : Scopes,
          arg : [subject : Maybe(Subjects), named : Maybe(Named), intent : Maybe(Intents)]]
    \cup [kind : {"export", "delete", "review"}, scope : Scopes, arg : Managed]

ViewTyped ==
    /\ view \in [status : Statuses, scope : Scopes, who : Maybe(Identities), op : Maybe(Reasons)]
    /\ IF view.status # "ready" THEN view.who = None
       ELSE view.who \in Identities /\ (Local <=> view.who = LocalWorkspace)
    /\ view.status = "account-management" => manage \in Managed

\* The local build has one adapter, no public configuration and no accounts.
ControllerTyped ==
    /\ ctl \in Controllers
    /\ (Local <=> ctl.adapter = "local") /\ (Local <=> ctl.config = "unknown")

\* A demo is asked for under a key; the local workspace without one, and it
\* replaces nothing.
ForBuild(kind, arg) ==
    /\ kind = "activate" => (Local <=> arg.key = None) /\ (Local => arg.previous = None)
    /\ kind \in {"exchange", "tokens", "bootstrap"} => ~ Local

ContsTyped == conts \subseteq Suspended /\ \A c \in conts : ForBuild(c.kind, c.arg)

TypeOK ==
    /\ gen \in Scopes /\ mem \in Maybe(Subjects)
    /\ disk \in Storages /\ page \in Locations /\ log \in Logs
    /\ ViewTyped /\ ControllerTyped /\ ContsTyped

\* A tab that remembers "none" holds nothing that could open a workspace
\* again: no user in memory or storage, no transaction, no intent.
SignedOutHoldsNothing ==
    disk.selected = "none" => {mem, disk.user, disk.tx, disk.intent} = {None}

\* A ready workspace is the one whose credentials the tab holds: the
\* account of the user in memory, or the stored demo, and then no account
\* is held beside it.
ReadyIsOwned ==
    view.status = "ready" /\ ~ Local =>
        IF view.who[1] = "demo" THEN disk.demo = view.who[2] /\ mem = None
        ELSE view.who = Account(mem) /\ ctl.adapter = "account"

(***************************************************************************)
(* What is shown and what is held agree: an open workspace is the one the  *)
(* tab holds credentials of, and a tab that signed out holds none, though  *)
(* either may be given up by another tab, an expiry or a refusal, in the   *)
(* middle of a sign-in or of a restore.                                    *)
(***************************************************************************)
HeldIsShown == SignedOutHoldsNothing /\ ReadyIsOwned

(***************************************************************************)
(* A sensitive operation is asked of the server at most once, and only for *)
(* the person who verified this very intent at the provider.               *)
(***************************************************************************)
SensitiveOnce ==
    log.requests = Cardinality(log.performed) /\ log.performed \subseteq log.verified

(***************************************************************************)
(* A deletion that was sent leaves a notice in the tab until the next      *)
(* sign-in, whatever reload, sign-out or expiry follows; a notice that the *)
(* workspace was erased is only ever left when it was.                     *)
(***************************************************************************)
DeletionNoticed ==
    /\ log.dispatched => disk.notice # None
    /\ disk.notice \in {"complete", "review"} => log.erased

(***************************************************************************)
(* A demo the server may have made is held by the tab, or can be asked for *)
(* again under the same key, or was let go: by an answer, by somebody      *)
(* leaving, or by a page load.                                             *)
(***************************************************************************)
NoOrphanDemo == log.demos \subseteq log.given \cup Held

(***************************************************************************)
(* The promise to the application: see WorkspaceAccess.                    *)
(***************************************************************************)
Phase ==
    IF view.status = "ready" THEN "in"
    ELSE IF view.status = "account-management" THEN "managing"
    ELSE IF view.status \in Transient THEN "entering" ELSE "out"

Access == INSTANCE WorkspaceAccess WITH
              phase <- Phase,
              who <- IF view.status = "ready" THEN view.who ELSE None

AccessPromise == Access!Spec

(***************************************************************************)
(* Once the page is not loaded again, preparing, verifying or signing out  *)
(* ends, unless the browser has left for the provider.                     *)
(***************************************************************************)
AnotherLoad == OpenTab \/ ProviderAnswers \/ Revisit \/ ProviderSignedOut

Settles ==
    <>[][~ AnotherLoad]_tabVars =>
        (view.status \in Transient ~> (view.status \notin Transient \/ page.path = "away"))
===============================================================================
