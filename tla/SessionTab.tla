------------------------------ MODULE SessionTab ------------------------------
(***************************************************************************)
(* One browser tab: the session controller's fields, the credentials it    *)
(* holds in memory and in tab storage, and the continuations suspended at  *)
(* an await.  A scope is the generation a continuation started under; the  *)
(* controller moves to a new one before it replaces what it publishes.     *)
(* A page load starts the program, and its generations, again.             *)
(***************************************************************************)
EXTENDS Integers, FiniteSets

CONSTANTS
    Builds,             \* "hosted", or "local" for the fixed local identity
    Subjects,           \* people who can sign in at the provider
    Offers,             \* the capability sets a public configuration may name
    Wants,              \* the sensitive operations somebody may ask for
    MaxGen,             \* bound: generations of one page load
    MaxNames,           \* bound: operation keys, transactions and intents made
    None

ASSUME TabAssumption ==
    /\ Builds \subseteq {"hosted", "local"}
    /\ MaxGen \in Nat \ {0} /\ MaxNames \in Nat
    /\ Offers \subseteq SUBSET {"demo", "cognito", "signup", "manage"}
    /\ None \notin Subjects /\ Wants \subseteq {"export", "delete"}

VARIABLES
    gen,                \* the generation of the current scope
    view,               \* the published state: status, scope, who and operation
    manage,             \* what an account-management state adds
    ctl,                \* the controller's private fields
    mem,                \* the account adapter's user
    disk,               \* this tab's session storage
    page,               \* where the browser is
    conts,              \* suspended continuations
    log                 \* what the servers saw

tabVars == <<gen, view, manage, ctl, mem, disk, page, conts, log>>

\* Which build the tab was served, kept with the tab's storage.
Local == disk.build = "local"

Demo(k) == <<"demo", k>>
Account(s) == <<"account", s>>
LocalWorkspace == <<"local", 0>>

Transient == {"initializing", "activating", "bootstrapping", "authenticating",
              "callback", "restoring", "signing-out", "switching"}
Statuses == Transient \cup {"anonymous", "expired", "error", "ready", "account-management"}

DemoAllowed == ctl.config = "known" /\ "demo" \in ctl.caps
Configured == ctl.config = "known"

(***************************************************************************)
(* What the controller's private helpers do.                               *)
(***************************************************************************)
PublishAs(scope, status, who, op) ==
    view' = [status |-> status, scope |-> scope, who |-> who, op |-> op]

\* Another state of the same scope.
Publish(status, who, op) == gen' = gen /\ PublishAs(gen, status, who, op)

\* A new scope, and the first state published under it.
Move(status, who, op) ==
    /\ gen < MaxGen
    /\ gen' = gen + 1
    /\ PublishAs(gen + 1, status, who, op)

\* The store forgets the user, the sensitive intent and the transactions.
AccountCleared_WithNotice(d) == [d EXCEPT !.user = None, !.intent = None, !.tx = None, !.notice = None]

AccountCleared(d) == [d EXCEPT !.user = None, !.intent = None, !.tx = None]

AdapterCleared(d) ==
    [demo |-> [d EXCEPT !.demo = None],
     account |-> AccountCleared(d),
     local |-> [d EXCEPT !.left = TRUE]][ctl.adapter]

\* Nothing that could open a workspace again without a sign-in or a fresh demo.
Forgotten_AdapterOnly(d) == [AdapterCleared(d) EXCEPT !.selected = "none"]

Forgotten(d) == [AccountCleared(AdapterCleared(d)) EXCEPT !.selected = "none"]

\* The account adapter's user is gone once it, or the account, is cleared.
MemForgotten == mem' = None

\* A demo held or being replaced, or the key one may have been made under.
Replacing ==
    {c.arg.previous[2] : c \in {d \in conts : d.kind = "activate" /\ d.scope = gen /\ d.arg.previous # None}}
Held == ({ctl.key, disk.demo} \cup Replacing) \ {None}

\* What a departure lets go of.
GivenUp == [log EXCEPT !.given = @ \cup (Held \ {disk'.demo, ctl'.key})]

\* Operation keys, transactions and sensitive intents are named afresh.
Fresh == log.names + 1

Reset(c) == [c EXCEPT !.key = None, !.dirty = FALSE]

\* Bound: what somebody starts leaves its continuations room for their own scopes.
Room(scopes) == gen + scopes <= MaxGen

Wait(kind, arg) == [kind |-> kind, scope |-> gen', arg |-> arg]

\* A continuation goes on only under the scope it started with.
Resume_AnyScope(c, kind) == c.kind = kind

Resume(c, kind) == c.kind = kind /\ c.scope = gen

Pending == \E c \in conts : c.kind = "activate" /\ c.scope = gen

(***************************************************************************)
(* A page load: the constructor, then the provider's mount effect.         *)
(***************************************************************************)
FreshController ==
    [adapter |-> IF Local THEN "local" ELSE "demo", config |-> IF Local THEN "unknown" ELSE "loading",
     caps |-> {}, account |-> FALSE, key |-> None, attempted |-> FALSE, dirty |-> FALSE]

\* The local workspace is restored at once unless the tab had left it.
FirstStatus(d) ==
    IF ~ Local THEN "initializing" ELSE IF d.left THEN "anonymous" ELSE "bootstrapping"

FirstView(d) == [status |-> FirstStatus(d), scope |-> 1, who |-> None, op |-> None]

FirstWait(d) ==
    IF FirstStatus(d) = "anonymous" THEN {}
    ELSE {[kind |-> IF Local THEN "restore" ELSE "initialize", scope |-> 1, arg |-> None]}

Load(path, code) ==
    /\ gen' = 1
    /\ page' = [path |-> path, code |-> code]
    /\ mem' = None /\ manage' = None
    /\ ctl' = FreshController
    /\ view' = FirstView(disk)
    /\ conts' = FirstWait(disk)
    /\ log' = [log EXCEPT !.given = @ \cup (Held \ {disk.demo}), !.answer = IF code = None THEN @ ELSE code]
    /\ UNCHANGED disk

EmptyDisk(build) ==
    [build |-> build, selected |-> None, user |-> None, demo |-> None, tx |-> None,
     intent |-> None, left |-> FALSE, notice |-> None]

\* A new tab, its page just loaded.
TabInit ==
    /\ gen = 1 /\ mem = None /\ manage = None
    /\ \E build \in Builds : disk = EmptyDisk(build)
    /\ view = FirstView(disk)
    /\ ctl = FreshController
    /\ conts = FirstWait(disk)
    /\ page = [path |-> "app", code |-> None]
    /\ log = [names |-> 0, demos |-> {}, given |-> {}, answer |-> None, verified |-> {},
              requests |-> 0, performed |-> {}, dispatched |-> FALSE, erased |-> FALSE]

\* The page is reloaded, or comes back from the provider without an answer.
OpenTab == Load("app", None)

\* A continuation of an earlier scope throws a stale-session error.
Retire(c) ==
    /\ c.scope # gen
    /\ conts' = conts \ {c}
    /\ UNCHANGED <<gen, view, manage, ctl, mem, disk, page, log>>

\* The reader edits a form of the ready workspace.
Edit ==
    /\ view.status = "ready" /\ ~ ctl.dirty
    /\ ctl' = [ctl EXCEPT !.dirty = TRUE]
    /\ UNCHANGED <<gen, view, manage, mem, disk, page, conts, log>>

\* The form is saved or its edits are undone: it unregisters.
Settle ==
    /\ ctl.dirty
    /\ ctl' = [ctl EXCEPT !.dirty = FALSE]
    /\ UNCHANGED <<gen, view, manage, mem, disk, page, conts, log>>

(***************************************************************************)
(* Leaving.  Unsaved work stops a voluntary departure unless it is         *)
(* discarded; an expired or rejected session ends at once.                 *)
(***************************************************************************)
MayLeave(discard) == ctl.dirty => discard

Away(status, op) ==
    /\ Move(status, None, op)
    /\ disk' = Forgotten(disk)
    /\ MemForgotten
    /\ ctl' = Reset(ctl)
    /\ manage' = None
    /\ log' = GivenUp
    /\ UNCHANGED <<page, conts>>

Leave(discard) == view.scope = gen /\ MayLeave(discard) /\ Away("anonymous", None)

\* A request was refused for its credentials.
Authorized == {"ready", "account-management", "bootstrapping", "restoring", "callback"}

Unauthorized ==
    /\ view.status \in Authorized
    /\ mem # None \/ (view.status = "ready" /\ view.who[1] = "demo")
    /\ \E reason \in {"expired", "invalidated"} : Away("expired", reason)

\* The clock reached the demo's end.
DemoExpires ==
    /\ view.status = "ready" /\ view.who[1] = "demo"
    /\ Away("expired", "expired")
===============================================================================
