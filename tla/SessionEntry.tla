----------------------------- MODULE SessionEntry -----------------------------
(***************************************************************************)
(* Opening a workspace: the configuration a public build must trust first, *)
(* restoring what the tab remembers, starting or resetting a demo, and     *)
(* opening the local workspace.                                            *)
(***************************************************************************)
EXTENDS SessionTab

(***************************************************************************)
(* The public configuration: loaded once, kept until an explicit retry.    *)
(***************************************************************************)
\* A build that remembers no selection clears the account it has just built.
ConfigurationLoads(caps) ==
    /\ ctl.config = "loading"
    /\ ctl' = [ctl EXCEPT !.config = "known", !.caps = caps,
                          !.account = @ \/ "cognito" \in caps]
    /\ disk' = IF "cognito" \in caps /\ ~ ctl.account /\ disk.selected = "none"
               THEN AccountCleared(disk) ELSE disk
    /\ UNCHANGED <<gen, view, manage, mem, page, conts, log>>

ConfigurationFails ==
    /\ ctl.config = "loading"
    /\ ctl' = [ctl EXCEPT !.config = "failed"]
    /\ UNCHANGED <<gen, view, manage, mem, disk, page, conts, log>>

\* Everything held is retired before another contract is trusted.
RetryConfiguration(discard) ==
    /\ ~ Local /\ MayLeave(discard) /\ ctl.config # "loading"
    /\ Move("anonymous", None, None)
    /\ disk' = Forgotten(disk)
    /\ MemForgotten /\ manage' = None
    /\ ctl' = [Reset(ctl) EXCEPT !.config = "loading", !.caps = {}, !.account = FALSE,
                                 !.adapter = IF @ = "account" THEN "demo" ELSE @]
    /\ log' = GivenUp
    /\ UNCHANGED <<page, conts>>

(***************************************************************************)
(* A workspace is ready under a scope of its own, and is remembered.       *)
(***************************************************************************)
Persisted(d, who) ==
    IF who[1] = "demo" THEN [d EXCEPT !.demo = who[2]]
    ELSE IF who[1] = "local" THEN [d EXCEPT !.left = FALSE] ELSE d

BecomeReady(who, op) ==
    /\ Move("ready", who, op)
    /\ disk' = Persisted(disk, who)

(***************************************************************************)
(* initialize, once the configuration has answered: one branch for each    *)
(* page the tab may have been opened at and each thing it may remember.    *)
(***************************************************************************)
Remembers(selections) == page.path = "app" /\ disk.selected \in selections

RestoresDemo == Remembers({None, "demo"}) /\ Configured

Initialize(c) ==
    /\ Resume(c, "initialize") /\ ctl.config \in {"known", "failed"}
    /\ conts' = conts \ {c}
    /\ \/ /\ page.path = "callback" \/ Remembers({"none"})
          /\ Publish("anonymous", None, None)
          /\ UNCHANGED <<mem, disk>>
       \/ /\ page.path = "signedout"
          /\ disk' = [AccountCleared(disk) EXCEPT !.selected = "none"] /\ MemForgotten
          /\ Publish("anonymous", None, None)

       \/ /\ Remembers({None, "demo", "cognito"})
          /\ ~ Configured \/ (disk.selected = "cognito" /\ ~ ctl.account)
          /\ Publish("error", None, "configuration")
          /\ UNCHANGED <<mem, disk>>
       \/ /\ RestoresDemo /\ ~ DemoAllowed
          /\ disk' = AdapterCleared(disk)
          /\ Publish("anonymous", None, None)
          /\ UNCHANGED mem
       \/ /\ RestoresDemo /\ DemoAllowed /\ disk.demo = None
          /\ Publish("anonymous", None, None)
          /\ UNCHANGED <<mem, disk>>
       \/ /\ RestoresDemo /\ DemoAllowed /\ disk.demo # None
          /\ BecomeReady(Demo(disk.demo), None)
          /\ UNCHANGED mem
       \/ /\ RestoresDemo /\ DemoAllowed /\ disk.demo # None
          /\ Publish("expired", None, "expired")
          /\ disk' = [disk EXCEPT !.demo = None]
          /\ UNCHANGED mem
    /\ UNCHANGED <<manage, ctl, page>>
    /\ log' = GivenUp

\* The remembered account is restored under a scope with its credentials.
RestoreAccount(c) ==
    /\ Resume(c, "initialize") /\ Configured
    /\ page.path = "app" /\ disk.selected = "cognito" /\ ctl.account
    /\ Move("restoring", None, None)
    /\ ctl' = [ctl EXCEPT !.adapter = "account", !.dirty = FALSE]
    /\ conts' = (conts \ {c}) \cup {Wait("restore", None)}
    /\ UNCHANGED <<manage, mem, disk, page, log>>

\* Ownership and the stored user: another tab may hold the session's lock, the
\* record may be of an earlier sign-out epoch, or there may be none.
Restored(c) ==
    /\ Resume(c, "restore")
    /\ IF ctl.adapter = "local"
       THEN /\ conts' = conts \ {c}
            /\ \/ BecomeReady(LocalWorkspace, None)
               \/ /\ Publish("error", None, "restore")
                  /\ UNCHANGED disk
            /\ UNCHANGED mem
       ELSE \/ /\ disk.user # None
               /\ mem' = disk.user
               /\ UNCHANGED <<gen, view, disk>>
               /\ conts' = (conts \ {c}) \cup {Wait("bootstrap", None)}
            \/ /\ conts' = conts \ {c}
               /\ disk' \in {disk, AccountCleared(disk)}
               /\ disk' = disk => disk.user = None
               /\ Publish("anonymous", None, None)
               /\ UNCHANGED mem
            \/ /\ conts' = conts \ {c}
               /\ disk' = AccountCleared(disk)
               /\ Publish("error", None, "account")
               /\ UNCHANGED mem
    /\ UNCHANGED <<manage, ctl, page, log>>

(***************************************************************************)
(* Starting, replacing or retrying a workspace.                            *)
(***************************************************************************)
\* An operation key outlives an ambiguous failure; a demo asked for again
\* under it is the one the server may already have made.
StartKey(c) == IF c.key = None THEN Fresh ELSE c.key

Start(c, previous, rest) ==
    /\ c.key = None => log.names < MaxNames
    /\ ctl' = [c EXCEPT !.key = StartKey(c), !.dirty = FALSE]
    /\ conts' = rest \cup {Wait("activate", [key |-> IF c.adapter = "demo" THEN StartKey(c) ELSE None,
                                             previous |-> previous])}

KeyMade(l) == IF ctl.key = None THEN [l EXCEPT !.names = @ + 1] ELSE l

Startable == Local \/ (ctl.adapter = "demo" /\ DemoAllowed)

\* A second call while one is under way returns the same promise.  The local
\* workspace is opened again from where it was left.
Activate(reset) ==
    /\ ~ Pending /\ Startable /\ Room(2)
    /\ IF reset THEN view.status = "ready" /\ view.who[1] = "demo"
       ELSE \/ view.status = "error" /\ view.op \in {"restore", "activate"}
            \/ Local /\ view.status = "anonymous"
    /\ Move(IF reset THEN "switching" ELSE IF ctl.adapter = "demo" THEN "activating" ELSE "bootstrapping",
            None, None)
    /\ disk' = AdapterCleared(disk)
    /\ manage' = None
    /\ Start(ctl, IF reset THEN view.who ELSE None, conts)
    /\ log' = KeyMade([log EXCEPT !.given = @ \cup (IF reset THEN {} ELSE {disk.demo} \ {None})])
    /\ UNCHANGED <<mem, page>>

PreviousKey(c) == IF c.arg.previous = None THEN {} ELSE {c.arg.previous[2]}

\* The new workspace opens; a demo it replaces is given up.
Activated(c) ==
    /\ Resume(c, "activate") /\ ctl.adapter \in {"demo", "local"}
    /\ conts' = conts \ {c}
    /\ ctl' = Reset(ctl)
    /\ BecomeReady(IF Local THEN LocalWorkspace ELSE Demo(c.arg.key), None)
    /\ log' = IF Local THEN log
              ELSE [log EXCEPT !.demos = @ \cup {c.arg.key}, !.given = @ \cup PreviousKey(c)]
    /\ UNCHANGED <<manage, mem, page>>

\* It failed.  A reset falls back to the demo it was to replace, if that one
\* has not expired meanwhile.
FallBack(c, dropped) ==
    \/ /\ c.arg.previous # None
       /\ BecomeReady(c.arg.previous, "error")
       /\ log' = [log EXCEPT !.given = @ \cup dropped]
    \/ /\ Publish("error", None, "activate")
       /\ log' = [log EXCEPT !.given = @ \cup dropped \cup PreviousKey(c)]
       /\ UNCHANGED disk

\* An answer: whatever it says, the key is not used again.
ActivationRefused(c) ==
    /\ Resume(c, "activate")
    /\ conts' = conts \ {c}
    /\ FallBack(c, {c.arg.key} \ {None})
    /\ ctl' = Reset(ctl)
    /\ UNCHANGED <<manage, mem, page>>

\* Nobody knows whether the demo was made: the server may make it at any time.
ActivationUnclear_NewKey(c) ==
    /\ Resume(c, "activate") /\ ctl.adapter # "account"
    /\ conts' = conts \ {c}
    /\ FallBack(c, {})
    /\ ctl' = Reset(ctl)
    /\ UNCHANGED <<manage, mem, page>>

ActivationUnclear(c) ==
    /\ Resume(c, "activate") /\ ctl.adapter # "account"
    /\ conts' = conts \ {c}
    /\ FallBack(c, {})
    /\ ctl' = [ctl EXCEPT !.dirty = FALSE]
    /\ UNCHANGED <<manage, mem, page>>

\* The server makes the demo a request asked for, answered or not.
ServerProvisions(c) ==
    /\ c.kind = "activate" /\ c.arg.key # None
    /\ log' = [log EXCEPT !.demos = @ \cup {c.arg.key}]
    /\ UNCHANGED <<gen, view, manage, ctl, mem, disk, page, conts>>

AbandonReset ==
    /\ view.status # "switching" /\ ctl.key # None
    /\ ctl' = [ctl EXCEPT !.key = None]
    /\ view' = IF view.status = "ready" THEN [view EXCEPT !.op = None] ELSE view
    /\ log' = [log EXCEPT !.given = @ \cup {ctl.key}]
    /\ UNCHANGED <<gen, manage, mem, disk, page, conts>>

\* Asking for a demo waits for the configuration under the present scope.
AskForDemo(discard) ==
    /\ ~ Local /\ MayLeave(discard) /\ Room(3)
    /\ view.status = "ready" => view.who[1] = "account"
    /\ conts' = conts \cup {[kind |-> "demo", scope |-> gen, arg |-> None]}
    /\ UNCHANGED <<gen, view, manage, ctl, mem, disk, page, log>>

\* Coming from an account, its credentials go first, under a scope of their own.
EnterDemo(c) ==
    /\ Resume(c, "demo") /\ DemoAllowed
    /\ IF Pending /\ ctl.adapter = "demo"
       THEN /\ disk' = [disk EXCEPT !.selected = "demo"]
            /\ conts' = conts \ {c}
            /\ UNCHANGED <<gen, view, manage, ctl, mem, log>>
       ELSE LET leaving == ctl.adapter = "account"
                cleared == IF leaving THEN AccountCleared(disk) ELSE disk
            IN  /\ gen' = gen + (IF leaving THEN 2 ELSE 1) /\ gen' <= MaxGen
                /\ PublishAs(gen', "activating", None, None)
                /\ mem' = IF leaving THEN None ELSE mem
                /\ disk' = [cleared EXCEPT !.selected = "demo", !.demo = None]
                /\ manage' = None
                /\ Start([ctl EXCEPT !.adapter = "demo"], None, conts \ {c})
                /\ log' = KeyMade([log EXCEPT !.given = @ \cup ({disk.demo} \ {None})])
    /\ UNCHANGED page

DemoRefused(c) ==
    /\ Resume(c, "demo") /\ ctl.config \in {"known", "failed"} /\ ~ DemoAllowed
    /\ conts' = conts \ {c}
    /\ UNCHANGED <<gen, view, manage, ctl, mem, disk, page, log>>
===============================================================================
