----------------------------- MODULE SessionProofs -----------------------------
(***************************************************************************)
(* Theorems about the session of one tab, for any number of people, pages  *)
(* of any length and either build.                                         *)
(***************************************************************************)
EXTENDS WorkspaceSession, FiniteSetTheorems, TLAPS

-----------------------------------------------------------------------------
(***************************************************************************)
(* What the helpers of the controller do to the storage.                   *)
(***************************************************************************)
LEMMA ClearedAccount ==
    ASSUME NEW d \in Storages
    PROVE  /\ AccountCleared(d) \in Storages
           /\ AccountCleared(d).build = d.build /\ AccountCleared(d).selected = d.selected
           /\ AccountCleared(d).demo = d.demo /\ AccountCleared(d).left = d.left
           /\ AccountCleared(d).notice = d.notice
           /\ AccountCleared(d).user = None /\ AccountCleared(d).tx = None
           /\ AccountCleared(d).intent = None
BY DEF Storages, AccountCleared, Maybe

LEMMA ClearedAdapter ==
    ASSUME NEW d \in Storages, ctl \in Controllers
    PROVE  /\ AdapterCleared(d) \in Storages
           /\ AdapterCleared(d).build = d.build /\ AdapterCleared(d).selected = d.selected
           /\ AdapterCleared(d).notice = d.notice
           /\ AdapterCleared(d).demo = IF ctl.adapter = "demo" THEN None ELSE d.demo
           /\ AdapterCleared(d).user = IF ctl.adapter = "account" THEN None ELSE d.user
           /\ AdapterCleared(d).tx = IF ctl.adapter = "account" THEN None ELSE d.tx
           /\ AdapterCleared(d).intent = IF ctl.adapter = "account" THEN None ELSE d.intent
<1>1. CASE ctl.adapter = "account"
  BY <1>1, ClearedAccount DEF AdapterCleared
<1>2. CASE ctl.adapter = "demo"
  BY <1>2 DEF AdapterCleared, Storages, Maybe
<1>3. CASE ctl.adapter = "local"
  <2> AdapterCleared(d) = [d EXCEPT !.left = TRUE]
    BY <1>3 DEF AdapterCleared
  <2>1. TRUE \in BOOLEAN
    OBVIOUS
  <2> QED BY <1>3, <2>1 DEF Storages
<1> QED BY <1>1, <1>2, <1>3 DEF Controllers

LEMMA ForgottenAll ==
    ASSUME NEW d \in Storages, ctl \in Controllers
    PROVE  /\ Forgotten(d) \in Storages
           /\ Forgotten(d).build = d.build /\ Forgotten(d).selected = "none"
           /\ Forgotten(d).notice = d.notice
           /\ Forgotten(d).demo = IF ctl.adapter = "demo" THEN None ELSE d.demo
           /\ Forgotten(d).user = None /\ Forgotten(d).tx = None /\ Forgotten(d).intent = None
<1> DEFINE e == AccountCleared(AdapterCleared(d))
<1>1. /\ e \in Storages /\ e.build = d.build /\ e.notice = d.notice
      /\ e.demo = IF ctl.adapter = "demo" THEN None ELSE d.demo
      /\ e.user = None /\ e.tx = None /\ e.intent = None
  BY ClearedAdapter, ClearedAccount
<1>2. Forgotten(d) = [e EXCEPT !.selected = "none"]
  BY DEF Forgotten
<1> QED BY <1>1, <1>2 DEF Storages

LEMMA PersistedDisk ==
    ASSUME NEW d \in Storages, NEW who \in Identities
    PROVE  /\ Persisted(d, who) \in Storages
           /\ Persisted(d, who).build = d.build /\ Persisted(d, who).selected = d.selected
           /\ Persisted(d, who).notice = d.notice /\ Persisted(d, who).user = d.user
           /\ Persisted(d, who).tx = d.tx /\ Persisted(d, who).intent = d.intent
           /\ Persisted(d, who).demo = IF who[1] = "demo" THEN who[2] ELSE d.demo
<1>1. who[1] = "demo" => who[2] \in Named
  BY DEF Identities, Demos, Demo, Account, LocalWorkspace
<1> QED BY <1>1 DEF Persisted, Storages, Maybe

-----------------------------------------------------------------------------
(***************************************************************************)
(* What the steps do to the view, the controller and the continuations.    *)
(***************************************************************************)
LEMMA AbsentApart ==
    /\ \A n \in Named : n # None
    /\ \A i \in Identities : i # None
    /\ \A i \in Intents \cup OAuthAnswers : i # None
    /\ \A t \in {"none", "demo", "cognito", "unknown", "complete", "review", "restore", "activate"} : t # None
<1>1. \A n \in Named : n # None
  BY SessionAssumption, TabAssumption DEF Named
<1>2. \A t \in {"none", "demo", "cognito", "unknown", "complete", "review", "restore", "activate"} : t # None
  BY SessionAssumption DEF Reasons
<1>3. \A i \in Identities : i # None
  BY SessionAssumption
<1>4. \A i \in Intents \cup OAuthAnswers : i # None
  BY SessionAssumption
<1> QED BY <1>1, <1>2, <1>3, <1>4

LEMMA ViewOut ==
    ASSUME NEW status \in Statuses, status \notin {"ready", "account-management"},
           NEW scope \in Scopes, NEW op \in Maybe(Reasons),
           PublishAs(scope, status, None, op)
    PROVE  ViewTyped'
BY DEF PublishAs, ViewTyped, Maybe

LEMMA ViewManaging ==
    ASSUME NEW scope \in Scopes, PublishAs(scope, "account-management", None, None),
           manage' \in Managed
    PROVE  ViewTyped'
BY DEF PublishAs, ViewTyped, Maybe, Statuses

LEMMA ViewSame ==
    ASSUME ViewTyped, UNCHANGED view, disk'.build = disk.build,
           view.status = "account-management" => UNCHANGED manage
    PROVE  ViewTyped'
BY DEF ViewTyped, Local

LEMMA ReadyTyped ==
    ASSUME TypeOK, NEW who \in Identities, Local <=> who = LocalWorkspace,
           NEW op \in Maybe(Reasons), BecomeReady(who, op)
    PROVE  /\ gen' \in Scopes /\ gen' = gen + 1 /\ ViewTyped'
           /\ disk' \in Storages /\ disk'.build = disk.build
<1>1. gen' \in Scopes /\ gen' = gen + 1
  BY TabAssumption DEF BecomeReady, Move, TypeOK, Scopes
<1>2. disk' \in Storages /\ disk'.build = disk.build
  BY PersistedDisk DEF BecomeReady, TypeOK
<1>3. view' = [status |-> "ready", scope |-> gen', who |-> who, op |-> op]
  BY DEF BecomeReady, Move, PublishAs
<1>4. ViewTyped'
  BY <1>1, <1>2, <1>3 DEF ViewTyped, Maybe, Local, Statuses
<1> QED BY <1>1, <1>2, <1>4

\* A step that takes no new continuation along, or one.
LEMMA ContsFewer ==
    ASSUME ContsTyped, disk'.build = disk.build, conts' \subseteq conts
    PROVE  ContsTyped'
BY DEF ContsTyped, ForBuild, Local

LEMMA ContsMore ==
    ASSUME ContsTyped, disk'.build = disk.build, NEW n \in Suspended,
           conts' \subseteq conts \cup {n}, ForBuild(n.kind, n.arg)
    PROVE  ContsTyped'
BY DEF ContsTyped, ForBuild, Local

LEMMA ControllerSame ==
    ASSUME ControllerTyped, disk'.build = disk.build, UNCHANGED ctl
    PROVE  ControllerTyped'
BY DEF ControllerTyped, Local

LEMMA ResetTyped ==
    ASSUME NEW c \in Controllers
    PROVE  /\ Reset(c) \in Controllers
           /\ Reset(c).adapter = c.adapter /\ Reset(c).config = c.config
           /\ Reset(c).account = c.account /\ Reset(c).key = None /\ Reset(c).caps = c.caps
           /\ Reset(c).attempted = c.attempted
<1>1. FALSE \in BOOLEAN
  OBVIOUS
<1> QED BY <1>1 DEF Reset, Controllers, Maybe

LEMMA UndirtyTyped ==
    ASSUME NEW c \in Controllers, NEW b \in BOOLEAN
    PROVE  /\ [c EXCEPT !.dirty = b] \in Controllers
           /\ [c EXCEPT !.dirty = b].adapter = c.adapter
           /\ [c EXCEPT !.dirty = b].config = c.config
           /\ [c EXCEPT !.dirty = b].key = c.key
BY DEF Controllers

\* The continuations, kind by kind.
LEMMA SuspendedArgs ==
    ASSUME NEW c \in Suspended
    PROVE  /\ c.scope \in Scopes
           /\ c = [kind |-> c.kind, scope |-> c.scope, arg |-> c.arg]
           /\ c.kind \in {"initialize", "demo", "restore", "bootstrap", "revoke", "activate", "login",
                          "callback", "exchange", "tokens", "export", "delete", "review"}
           /\ c.kind = "activate" => c.arg \in [key : Maybe(Named), previous : Maybe(Demos)]
           /\ c.kind = "login" => c.arg \in [intent : Maybe(Intents), entry : {"signin", "signup"}, begun : BOOLEAN]
           /\ c.kind = "callback" => c.arg \in Maybe(OAuthAnswers)
           /\ c.kind = "exchange" => c.arg \in [code : Maybe(OAuthAnswers), intent : Maybe(Intents)]
           /\ c.kind = "tokens" =>
                 c.arg \in [subject : Maybe(Subjects), named : Maybe(Named), intent : Maybe(Intents)]
           /\ c.kind \in {"export", "delete", "review"} => c.arg \in Managed
BY DEF Suspended

LEMMA PreviousTyped ==
    ASSUME NEW c \in Suspended, c.kind = "activate"
    PROVE  PreviousKey(c) \subseteq Named
BY SuspendedArgs DEF PreviousKey, Demos, Demo, Maybe

LEMMA HeldTyped ==
    ASSUME TypeOK
    PROVE  Held \subseteq Named
<1>1. Replacing \subseteq Named
  BY SuspendedArgs DEF Replacing, Demos, Demo, Maybe, TypeOK, ContsTyped
<1>2. ctl.key \in Maybe(Named) /\ disk.demo \in Maybe(Named)
  BY DEF TypeOK, ControllerTyped, Controllers, Storages
<1> QED BY <1>1, <1>2 DEF Held, Maybe

LEMMA GivenUpTyped ==
    ASSUME TypeOK
    PROVE  GivenUp \in Logs
<1>1. log.given \cup (Held \ {disk'.demo, ctl'.key}) \in SUBSET Named
  BY HeldTyped DEF TypeOK, Logs
<1> HIDE DEF Held
<1> QED BY <1>1 DEF GivenUp, TypeOK, Logs

-----------------------------------------------------------------------------
(***************************************************************************)
(* Every step keeps the types.                                             *)
(***************************************************************************)
LEMMA FirstController ==
    ASSUME disk \in Storages
    PROVE  /\ FreshController \in Controllers
           /\ (Local <=> FreshController.adapter = "local")
           /\ (Local <=> FreshController.config = "unknown")
           /\ FreshController.key = None /\ FreshController.adapter # "account"
<1>1. FALSE \in BOOLEAN /\ {} \in SUBSET {"demo", "cognito", "signup", "manage"}
  OBVIOUS
<1> QED BY <1>1 DEF FreshController, Controllers, Maybe

LEMMA FirstTyped ==
    ASSUME disk \in Storages
    PROVE  /\ FirstView(disk) \in [status : Statuses, scope : Scopes, who : {None}, op : {None}]
           /\ FirstView(disk).status \notin {"ready", "account-management"}
           /\ FirstWait(disk) \subseteq [kind : {"initialize", "restore"}, scope : {1}, arg : {None}]
BY TabAssumption DEF FirstView, FirstWait, FirstStatus, Scopes, Statuses, Transient

LEMMA InitTyped == Init => TypeOK
<1> SUFFICES ASSUME Init PROVE TypeOK
  OBVIOUS
<1> USE DEF Init, TabInit
<1>1. gen \in Scopes /\ mem \in Maybe(Subjects) /\ page \in Locations
  BY TabAssumption DEF Scopes, Maybe, Locations
<1>2. disk \in Storages
  <2>1. PICK build \in Builds : disk = EmptyDisk(build)
    OBVIOUS
  <2>2. FALSE \in BOOLEAN
    OBVIOUS
  <2> QED BY <2>1, <2>2 DEF EmptyDisk, Storages, Maybe
<1>3. log \in Logs
  <2>1. FALSE \in BOOLEAN /\ 0 \in 0..MaxNames /\ {} \in SUBSET Named /\ {} \in SUBSET (Named \X Subjects)
    BY TabAssumption
  <2> QED BY <2>1 DEF Logs, Maybe
<1>4. ViewTyped
  BY <1>2, FirstTyped DEF ViewTyped, Maybe
<1>5. ControllerTyped
  BY <1>2, FirstController DEF ControllerTyped
<1>6. ContsTyped
  <2>1. conts \subseteq [kind : {"initialize", "restore"}, scope : {1}, arg : {None}]
    BY <1>2, FirstTyped
  <2>2. 1 \in Scopes
    BY TabAssumption DEF Scopes
  <2> QED BY <2>1, <2>2 DEF ContsTyped, ForBuild, Suspended
<1> QED BY <1>1, <1>2, <1>3, <1>4, <1>5, <1>6 DEF TypeOK

LEMMA LoadTyped ==
    ASSUME TypeOK, NEW path, NEW code \in Maybe(OAuthAnswers), Load(path, code),
           [path |-> path, code |-> code] \in Locations
    PROVE  TypeOK'
<1> USE DEF Load
<1>1. gen' \in Scopes /\ mem' \in Maybe(Subjects) /\ page' \in Locations
  BY TabAssumption DEF Scopes, Maybe
<1>2. disk' \in Storages /\ disk \in Storages /\ Local' = Local
  BY DEF TypeOK, Local
<1>3. log' \in Logs
  <2>1. log.given \cup (Held \ {disk.demo}) \in SUBSET Named
    BY HeldTyped DEF TypeOK, Logs
  <2> HIDE DEF Held
  <2> QED BY <2>1 DEF TypeOK, Logs
<1>4. ViewTyped'
  BY <1>2, FirstTyped DEF ViewTyped, Maybe
<1>5. ControllerTyped'
  BY <1>2, FirstController DEF ControllerTyped
<1>6. ContsTyped'
  <2>1. conts' \subseteq [kind : {"initialize", "restore"}, scope : {1}, arg : {None}]
    BY <1>2, FirstTyped
  <2>2. 1 \in Scopes
    BY TabAssumption DEF Scopes
  <2> QED BY <2>1, <2>2 DEF ContsTyped, ForBuild, Suspended
<1> QED BY <1>1, <1>2, <1>3, <1>4, <1>5, <1>6 DEF TypeOK

\* A step that changes none of what was published or is kept.
LEMMA OtherTyped ==
    ASSUME TypeOK, UNCHANGED <<gen, view, manage, page, log>>,
           mem' \in Maybe(Subjects), disk' \in Storages, disk'.build = disk.build,
           ctl' \in Controllers, ctl'.config # "unknown" <=> ctl.config # "unknown",
           ctl'.adapter = "local" <=> ctl.adapter = "local",
           conts' \subseteq conts
    PROVE  TypeOK'
<1>1. ViewTyped' /\ ContsTyped'
  BY ViewSame, ContsFewer DEF TypeOK
<1>2. ControllerTyped'
  BY DEF TypeOK, ControllerTyped, Local
<1> QED BY <1>1, <1>2 DEF TypeOK

LEMMA ConfigurationTyped ==
    ASSUME TypeOK, (\E caps \in Offers : ConfigurationLoads(caps)) \/ ConfigurationFails
    PROVE  TypeOK'
<1>1. CASE \E caps \in Offers : ConfigurationLoads(caps)
  <2>1. PICK caps \in Offers : ConfigurationLoads(caps)
    BY <1>1
  <2> USE <2>1 DEF ConfigurationLoads
  <2>2. caps \in SUBSET {"demo", "cognito", "signup", "manage"}
    BY TabAssumption
  <2>3. (ctl.account \/ "cognito" \in caps) \in BOOLEAN
    BY DEF TypeOK, ControllerTyped, Controllers
  <2>4. ctl' \in Controllers /\ ctl'.adapter = ctl.adapter /\ ctl'.config = "known"
    <3>1. PICK b \in BOOLEAN : ctl' = [ctl EXCEPT !.config = "known", !.caps = caps, !.account = b]
      BY <2>3
    <3> QED BY <3>1, <2>2 DEF TypeOK, ControllerTyped, Controllers
  <2>5. disk' \in Storages /\ disk'.build = disk.build
    BY ClearedAccount DEF TypeOK
  <2> QED BY <2>4, <2>5, OtherTyped DEF TypeOK
<1>2. CASE ConfigurationFails
  <2>1. ctl' \in Controllers /\ ctl'.adapter = ctl.adapter /\ ctl'.config = "failed"
    BY <1>2 DEF ConfigurationFails, TypeOK, ControllerTyped, Controllers
  <2> QED BY <1>2, <2>1, OtherTyped DEF ConfigurationFails, TypeOK
<1> QED BY <1>1, <1>2

LEMMA RetryTyped ==
    ASSUME TypeOK, NEW discard \in BOOLEAN, RetryConfiguration(discard)
    PROVE  TypeOK'
<1> USE DEF RetryConfiguration
<1>1. gen' \in Scopes /\ mem' \in Maybe(Subjects)
  BY TabAssumption DEF Move, TypeOK, Scopes, MemForgotten, Maybe
<1>2. disk' \in Storages /\ disk'.build = disk.build
  BY ForgottenAll DEF TypeOK, ControllerTyped
<1>3. ViewTyped'
  BY <1>1, ViewOut DEF Move, Statuses, Maybe
<1>4. ControllerTyped'
  <2>1. Reset(ctl) \in Controllers /\ Reset(ctl).adapter = ctl.adapter
    BY ResetTyped DEF TypeOK, ControllerTyped
  <2>2. FALSE \in BOOLEAN /\ {} \in SUBSET {"demo", "cognito", "signup", "manage"}
    OBVIOUS
  <2>3. ctl' \in Controllers /\ ctl'.adapter # "local" /\ ctl'.config # "unknown"
    BY <2>1, <2>2 DEF Controllers, TypeOK, ControllerTyped
  <2> QED BY <2>3, <1>2 DEF ControllerTyped, Local
<1>5. ContsTyped'
  BY <1>2, ContsFewer DEF TypeOK
<1>6. log' \in Logs /\ page' \in Locations
  BY GivenUpTyped DEF TypeOK
<1> QED BY <1>1, <1>2, <1>3, <1>4, <1>5, <1>6 DEF TypeOK

LEMMA AwayTyped ==
    ASSUME TypeOK, NEW status \in {"anonymous", "expired"}, NEW op \in Maybe(Reasons), Away(status, op)
    PROVE  TypeOK'
<1> USE DEF Away
<1>1. gen' \in Scopes /\ mem' \in Maybe(Subjects)
  BY TabAssumption DEF Move, TypeOK, Scopes, MemForgotten, Maybe
<1>2. disk' \in Storages /\ disk'.build = disk.build
  BY ForgottenAll DEF TypeOK, ControllerTyped
<1>3. ViewTyped'
  BY <1>1, ViewOut DEF Move, Statuses
<1>4. ControllerTyped'
  BY ResetTyped, <1>2 DEF TypeOK, ControllerTyped, Local
<1>5. ContsTyped'
  BY <1>2, ContsFewer DEF TypeOK
<1>6. log' \in Logs /\ page' \in Locations
  BY GivenUpTyped DEF TypeOK
<1> QED BY <1>1, <1>2, <1>3, <1>4, <1>5, <1>6 DEF TypeOK

LEMMA InitializeTyped ==
    ASSUME TypeOK, NEW c \in conts, Initialize(c)
    PROVE  TypeOK'
<1> USE DEF Initialize
<1>1. UNCHANGED <<manage, ctl, page>> /\ conts' \subseteq conts /\ log' \in Logs
  BY GivenUpTyped
<1>2. /\ gen' \in Scopes /\ mem' \in Maybe(Subjects) /\ ViewTyped'
      /\ disk' \in Storages /\ disk'.build = disk.build
  <2>1. CASE /\ page.path = "callback" \/ Remembers({"none"})
             /\ Publish("anonymous", None, None) /\ UNCHANGED <<mem, disk>>
    BY <2>1, ViewOut DEF Publish, TypeOK, Statuses, Maybe
  <2>2. CASE /\ disk' = [AccountCleared(disk) EXCEPT !.selected = "none"] /\ MemForgotten
             /\ Publish("anonymous", None, None)
    <3>1. AccountCleared(disk) \in Storages /\ AccountCleared(disk).build = disk.build
      BY ClearedAccount DEF TypeOK
    <3>2. disk' \in Storages /\ disk'.build = disk.build
      BY <2>2, <3>1 DEF Storages
    <3> QED BY <2>2, <3>2, ViewOut DEF Publish, TypeOK, Statuses, Maybe, MemForgotten
  <2>3. CASE Publish("error", None, "configuration") /\ UNCHANGED <<mem, disk>>
    BY <2>3, ViewOut DEF Publish, TypeOK, Statuses, Maybe, Reasons
  <2>4. CASE /\ disk' = AdapterCleared(disk) /\ Publish("anonymous", None, None)
             /\ UNCHANGED mem
    BY <2>4, ClearedAdapter, ViewOut DEF Publish, TypeOK, Statuses, Maybe, ControllerTyped
  <2>5. CASE Publish("anonymous", None, None) /\ UNCHANGED <<mem, disk>>
    BY <2>5, ViewOut DEF Publish, TypeOK, Statuses, Maybe
  <2>6. CASE Configured /\ disk.demo # None /\ BecomeReady(Demo(disk.demo), None) /\ UNCHANGED mem
    <3>1. Demo(disk.demo) \in Identities /\ Demo(disk.demo) # LocalWorkspace
      BY <2>6 DEF TypeOK, Storages, Identities, Demos, Demo, LocalWorkspace, Maybe
    <3>2. ~ Local
      BY <2>6 DEF Configured, TypeOK, ControllerTyped
    <3> QED BY <2>6, <3>1, <3>2, ReadyTyped DEF Maybe, TypeOK
  <2>7. CASE Publish("expired", None, "expired") /\ disk' = [disk EXCEPT !.demo = None] /\ UNCHANGED mem
    <3>1. disk' \in Storages /\ disk'.build = disk.build
      BY <2>7 DEF TypeOK, Storages, Maybe
    <3> QED BY <2>7, <3>1, ViewOut DEF Publish, TypeOK, Statuses, Maybe, Reasons
  <2> QED BY <2>1, <2>2, <2>3, <2>4, <2>5, <2>6, <2>7 DEF RestoresDemo
<1>3. ControllerTyped' /\ ContsTyped'
  BY <1>1, <1>2, ControllerSame, ContsFewer DEF TypeOK
<1> QED BY <1>1, <1>2, <1>3 DEF TypeOK

\* A step to a new scope, or of the same, that takes a continuation along.
LEMMA WaitTyped ==
    ASSUME TypeOK, disk'.build = disk.build, gen' \in Scopes,
           NEW kind, NEW arg, [kind |-> kind, scope |-> gen', arg |-> arg] \in Suspended,
           conts' \subseteq conts \cup {Wait(kind, arg)},
           ForBuild(kind, arg)
    PROVE  ContsTyped'
BY ContsMore DEF Wait, TypeOK

LEMMA MoveScope ==
    ASSUME TypeOK, gen < MaxGen
    PROVE  gen + 1 \in Scopes
BY TabAssumption DEF TypeOK, Scopes

LEMMA RestoreTyped ==
    ASSUME TypeOK, NEW c \in conts, RestoreAccount(c)
    PROVE  TypeOK'
<1> USE DEF RestoreAccount
<1>1. gen' \in Scopes /\ ViewTyped'
  BY MoveScope, ViewOut DEF Move, Statuses, Transient, Maybe
<1>2. ~ Local /\ Local' = Local
  BY DEF Configured, TypeOK, ControllerTyped, Local
<1>3. ctl' \in Controllers /\ ctl'.adapter = "account" /\ ctl'.config = ctl.config
  <2>1. FALSE \in BOOLEAN
    OBVIOUS
  <2> QED BY <2>1 DEF TypeOK, ControllerTyped, Controllers
<1>4. ControllerTyped'
  BY <1>2, <1>3 DEF ControllerTyped, TypeOK
<1>5. ContsTyped'
  BY <1>1, WaitTyped DEF Suspended, ForBuild
<1> QED BY <1>1, <1>4, <1>5 DEF TypeOK

LEMMA RestoredTyped ==
    ASSUME TypeOK, NEW c \in conts, Restored(c)
    PROVE  TypeOK'
<1>0. UNCHANGED <<manage, ctl, page, log>>
  BY DEF Restored
<1>1. ASSUME ctl.adapter = "local", conts' \subseteq conts, BecomeReady(LocalWorkspace, None), UNCHANGED mem
      PROVE  TypeOK'
  <2>1. LocalWorkspace \in Identities /\ Local
    BY <1>1 DEF Identities, TypeOK, ControllerTyped
  <2>2. gen' \in Scopes /\ ViewTyped' /\ disk' \in Storages /\ disk'.build = disk.build
    BY <1>1, <2>1, ReadyTyped DEF Maybe
  <2> QED BY <1>0, <1>1, <2>2, ControllerSame, ContsFewer DEF TypeOK
<1>2. ASSUME conts' \subseteq conts, disk' \in {disk, AccountCleared(disk)}, UNCHANGED mem,
             NEW status \in {"anonymous", "error"}, NEW op \in {None, "restore", "account"},
             Publish(status, None, op)
      PROVE  TypeOK'
  <2>1. disk' \in Storages /\ disk'.build = disk.build
    BY <1>2, ClearedAccount DEF TypeOK
  <2>2. gen' \in Scopes /\ ViewTyped'
    BY <1>2, ViewOut DEF Publish, TypeOK, Statuses, Maybe, Reasons
  <2> QED BY <1>0, <1>2, <2>1, <2>2, ControllerSame, ContsFewer DEF TypeOK
<1>3. ASSUME ctl.adapter # "local", mem' = disk.user, UNCHANGED <<gen, view, disk>>,
             conts' = (conts \ {c}) \cup {Wait("bootstrap", None)}
      PROVE  TypeOK'
  <2>1. mem' \in Maybe(Subjects) /\ gen' \in Scopes /\ disk' \in Storages /\ disk'.build = disk.build
    BY <1>3 DEF TypeOK, Storages
  <2>2. ViewTyped' /\ ControllerTyped'
    BY <1>0, <1>3, ViewSame, ControllerSame DEF TypeOK
  <2>3. ContsTyped'
    <3>1. ~ Local
      BY <1>3 DEF TypeOK, ControllerTyped
    <3> QED BY <1>3, <2>1, <3>1, WaitTyped DEF Suspended, ForBuild
  <2> QED BY <1>0, <2>1, <2>2, <2>3 DEF TypeOK
<1> QED BY <1>1, <1>2, <1>3 DEF Restored

LEMMA QuietTyped ==
    ASSUME TypeOK,
           \/ \E c \in conts : Retire(c) \/ DemoRefused(c)
           \/ Edit \/ Settle
    PROVE  TypeOK'
<1>1. CASE \E c \in conts : Retire(c) \/ DemoRefused(c)
  BY <1>1, OtherTyped DEF Retire, DemoRefused, TypeOK, ControllerTyped
<1>2. CASE Edit \/ Settle
  <2>1. PICK b \in BOOLEAN : ctl' = [ctl EXCEPT !.dirty = b]
    BY <1>2 DEF Edit, Settle
  <2>2. ctl' \in Controllers /\ ctl'.adapter = ctl.adapter /\ ctl'.config = ctl.config
    BY <2>1, UndirtyTyped DEF TypeOK, ControllerTyped
  <2> QED BY <1>2, <2>2, OtherTyped DEF Edit, Settle, TypeOK
<1> QED BY <1>1, <1>2

LEMMA EndTyped ==
    ASSUME TypeOK, (\E discard \in BOOLEAN : Leave(discard)) \/ Unauthorized \/ DemoExpires
    PROVE  TypeOK'
BY AwayTyped DEF Leave, Unauthorized, DemoExpires, Maybe, Reasons

\* The key of an activation is the one kept or a new one.
LEMMA KeyTyped ==
    ASSUME TypeOK, NEW c \in Controllers, c.key = ctl.key, c.key = None => log.names < MaxNames
    PROVE  /\ StartKey(c) \in Named
           /\ \A l \in Logs : l.names = log.names => KeyMade(l) \in Logs
<1>1. log.names \in 0..MaxNames /\ c.key \in Maybe(Named)
  BY DEF TypeOK, Logs, Controllers
<1>2. StartKey(c) \in Named
  BY <1>1, TabAssumption DEF StartKey, Fresh, Named, Maybe
<1>3. ASSUME NEW l \in Logs, l.names = log.names PROVE KeyMade(l) \in Logs
  <2>1. CASE ctl.key = None
    <3>1. log.names + 1 \in 0..MaxNames
      BY <2>1, <1>1, TabAssumption
    <3> QED BY <3>1, <2>1, <1>3 DEF KeyMade, Logs
  <2>2. CASE ctl.key # None
    BY <2>2, <1>3 DEF KeyMade
  <2> QED BY <2>1, <2>2
<1> QED BY <1>2, <1>3

LEMMA StartTyped ==
    ASSUME TypeOK, NEW c \in Controllers, c.key = ctl.key, NEW previous \in Maybe(Demos),
           NEW rest, rest \subseteq conts, Start(c, previous, rest),
           Local <=> c.adapter = "local", c.config = ctl.config, Local \/ c.adapter = "demo",
           Local => previous = None, gen' \in Scopes, disk'.build = disk.build
    PROVE  ControllerTyped' /\ ContsTyped'
<1>1. StartKey(c) \in Named
  BY KeyTyped DEF Start
<1>2. ControllerTyped'
  <2>1. FALSE \in BOOLEAN
    OBVIOUS
  <2>2. ctl' \in Controllers /\ ctl'.adapter = c.adapter /\ ctl'.config = c.config
    BY <1>1, <2>1 DEF Start, Controllers, Maybe
  <2> QED BY <2>2 DEF ControllerTyped, TypeOK, Local
<1>3. ContsTyped'
  <2> DEFINE arg == [key |-> IF c.adapter = "demo" THEN StartKey(c) ELSE None, previous |-> previous]
  <2>1. /\ arg \in [key : Maybe(Named), previous : Maybe(Demos)]
        /\ (Local <=> arg.key = None) /\ (Local => arg.previous = None)
    BY <1>1, AbsentApart DEF Maybe
  <2>2. conts' \subseteq conts \cup {Wait("activate", arg)}
    BY DEF Start
  <2>3. [kind |-> "activate", scope |-> gen', arg |-> arg] \in Suspended
    BY <2>1 DEF Suspended
  <2> HIDE DEF arg
  <2> QED BY <2>1, <2>2, <2>3, WaitTyped DEF ForBuild
<1> QED BY <1>2, <1>3

LEMMA ActivateTyped ==
    ASSUME TypeOK, NEW reset \in BOOLEAN, Activate(reset)
    PROVE  TypeOK'
<1> USE DEF Activate
<1>1. gen' \in Scopes /\ ViewTyped'
  BY MoveScope, ViewOut DEF Move, Statuses, Transient, Maybe
<1>2. disk' \in Storages /\ disk'.build = disk.build
  BY ClearedAdapter DEF TypeOK, ControllerTyped
<1>3. /\ (IF reset THEN view.who ELSE None) \in Maybe(Demos)
      /\ Local => (IF reset THEN view.who ELSE None) = None
  BY DEF TypeOK, ViewTyped, Maybe, Identities, Account, LocalWorkspace
<1>4. ControllerTyped' /\ ContsTyped'
  BY <1>1, <1>2, <1>3, StartTyped DEF TypeOK, ControllerTyped, Startable
<1>5. log' \in Logs
  <2> DEFINE l == [log EXCEPT !.given = @ \cup (IF reset THEN {} ELSE {disk.demo} \ {None})]
  <2>1. l \in Logs /\ l.names = log.names
    <3>1. log.given \cup (IF reset THEN {} ELSE {disk.demo} \ {None}) \in SUBSET Named
      BY DEF TypeOK, Logs, Storages, Maybe
    <3> QED BY <3>1 DEF TypeOK, Logs
  <2>2. log' = KeyMade(l)
    OBVIOUS
  <2>3. ctl.key = None => log.names < MaxNames
    BY DEF Start
  <2> HIDE DEF l
  <2> QED BY <2>1, <2>2, <2>3, KeyTyped DEF TypeOK, ControllerTyped
<1> QED BY <1>1, <1>2, <1>4, <1>5 DEF TypeOK

LEMMA ActivatedTyped ==
    ASSUME TypeOK, NEW c \in conts, Activated(c)
    PROVE  TypeOK'
<1> USE DEF Activated
<1>1. c \in Suspended /\ c.kind = "activate" /\ c.arg.key \in Maybe(Named) /\ (Local <=> c.arg.key = None)
  BY SuspendedArgs DEF Resume, TypeOK, ContsTyped, ForBuild
<1> DEFINE who == IF Local THEN LocalWorkspace ELSE Demo(c.arg.key)
<1>2. who \in Identities /\ (Local <=> who = LocalWorkspace)
  BY <1>1 DEF Identities, Demos, Demo, LocalWorkspace, Maybe
<1>3. gen' \in Scopes /\ ViewTyped' /\ disk' \in Storages /\ disk'.build = disk.build
  BY <1>2, ReadyTyped DEF Maybe
<1>4. ControllerTyped'
  BY <1>3, ResetTyped DEF TypeOK, ControllerTyped, Local
<1>5. ContsTyped'
  BY <1>3, ContsFewer DEF TypeOK
<1>6. log' \in Logs
  <2>1. CASE Local
    BY <2>1 DEF TypeOK
  <2>2. CASE ~ Local
    <3>1. log.demos \cup {c.arg.key} \in SUBSET Named /\ log.given \cup PreviousKey(c) \in SUBSET Named
      BY <1>1, <2>2, PreviousTyped DEF TypeOK, Logs, Maybe
    <3> QED BY <3>1, <2>2 DEF TypeOK, Logs
  <2> QED BY <2>1, <2>2
<1> QED BY <1>3, <1>4, <1>5, <1>6 DEF TypeOK

LEMMA FallBackTyped ==
    ASSUME TypeOK, NEW c \in conts, c.kind = "activate", NEW dropped \in SUBSET Named, FallBack(c, dropped)
    PROVE  /\ gen' \in Scopes /\ ViewTyped'
           /\ disk' \in Storages /\ disk'.build = disk.build /\ log' \in Logs
<1>1. c \in Suspended /\ c.arg.previous \in Maybe(Demos) /\ (Local => c.arg.previous = None)
  BY SuspendedArgs DEF TypeOK, ContsTyped, ForBuild
<1>2. ASSUME c.arg.previous # None, BecomeReady(c.arg.previous, "error"),
             log' = [log EXCEPT !.given = @ \cup dropped]
      PROVE  /\ gen' \in Scopes /\ ViewTyped'
             /\ disk' \in Storages /\ disk'.build = disk.build /\ log' \in Logs
  <2>1. c.arg.previous \in Identities /\ c.arg.previous # LocalWorkspace
    BY <1>1, <1>2 DEF Identities, Demos, Demo, LocalWorkspace, Maybe
  <2>2. log.given \cup dropped \in SUBSET Named
    BY DEF TypeOK, Logs
  <2>3. log' \in Logs
    BY <1>2, <2>2 DEF TypeOK, Logs
  <2>4. ~ Local /\ "error" \in Maybe(Reasons)
    BY <1>1, <1>2 DEF Maybe, Reasons
  <2> QED BY <1>2, <2>1, <2>3, <2>4, ReadyTyped
<1>3. ASSUME Publish("error", None, "activate"), UNCHANGED disk,
             log' = [log EXCEPT !.given = @ \cup dropped \cup PreviousKey(c)]
      PROVE  /\ gen' \in Scopes /\ ViewTyped'
             /\ disk' \in Storages /\ disk'.build = disk.build /\ log' \in Logs
  <2>1. log.given \cup dropped \cup PreviousKey(c) \in SUBSET Named
    BY <1>1, PreviousTyped DEF TypeOK, Logs
  <2>2. log' \in Logs
    BY <1>3, <2>1 DEF TypeOK, Logs
  <2> QED BY <1>3, <2>2, ViewOut DEF Publish, TypeOK, Maybe, Reasons, Statuses
<1> QED BY <1>2, <1>3 DEF FallBack

LEMMA FailedTyped ==
    ASSUME TypeOK, NEW c \in conts, ActivationRefused(c) \/ ActivationUnclear(c)
    PROVE  TypeOK'
<1>1. c \in Suspended /\ c.kind = "activate" /\ c.arg.key \in Maybe(Named)
  BY SuspendedArgs DEF ActivationRefused, ActivationUnclear, Resume, TypeOK, ContsTyped
<1>2. {c.arg.key} \ {None} \in SUBSET Named /\ {} \in SUBSET Named
  BY <1>1 DEF Maybe
<1>3. /\ gen' \in Scopes /\ ViewTyped'
      /\ disk' \in Storages /\ disk'.build = disk.build /\ log' \in Logs
  BY <1>1, <1>2, FallBackTyped DEF ActivationRefused, ActivationUnclear
<1>4. FALSE \in BOOLEAN
  OBVIOUS
<1>5. ControllerTyped'
  <2>1. ctl' \in Controllers /\ ctl'.adapter = ctl.adapter /\ ctl'.config = ctl.config
    BY <1>4, ResetTyped, UndirtyTyped DEF ActivationRefused, ActivationUnclear, TypeOK, ControllerTyped
  <2> QED BY <2>1, <1>3 DEF TypeOK, ControllerTyped, Local
<1>6. ContsTyped' /\ mem' = mem /\ page' = page
  BY <1>3, ContsFewer DEF ActivationRefused, ActivationUnclear, TypeOK
<1> QED BY <1>3, <1>5, <1>6 DEF TypeOK

LEMMA ProvisionsTyped ==
    ASSUME TypeOK, NEW c \in conts, ServerProvisions(c)
    PROVE  TypeOK'
<1> USE DEF ServerProvisions
<1>1. c.arg.key \in Named
  BY SuspendedArgs DEF TypeOK, ContsTyped, Maybe
<1>2. log' \in Logs
  <2>1. log.demos \cup {c.arg.key} \in SUBSET Named
    BY <1>1 DEF TypeOK, Logs
  <2> QED BY <2>1 DEF TypeOK, Logs
<1>3. ViewTyped' /\ ControllerTyped' /\ ContsTyped'
  BY ViewSame, ControllerSame, ContsFewer DEF TypeOK
<1> QED BY <1>2, <1>3 DEF TypeOK

LEMMA AbandonTyped == ASSUME TypeOK, AbandonReset PROVE TypeOK'
<1> USE DEF AbandonReset
<1>1. ctl.key \in Named
  BY DEF TypeOK, ControllerTyped, Controllers, Maybe
<1>2. log' \in Logs
  <2>1. log.given \cup {ctl.key} \in SUBSET Named
    BY <1>1 DEF TypeOK, Logs
  <2> QED BY <2>1 DEF TypeOK, Logs
<1>3. ViewTyped'
  BY DEF TypeOK, ViewTyped, Local, Maybe
<1>4. ControllerTyped'
  BY DEF TypeOK, ControllerTyped, Controllers, Local, Maybe
<1>5. ContsTyped'
  BY ContsFewer DEF TypeOK
<1> QED BY <1>2, <1>3, <1>4, <1>5 DEF TypeOK

LEMMA AskTyped == ASSUME TypeOK, NEW discard \in BOOLEAN, AskForDemo(discard) PROVE TypeOK'
<1> USE DEF AskForDemo
<1>1. [kind |-> "demo", scope |-> gen, arg |-> None] \in Suspended
  BY DEF Suspended, TypeOK
<1>2. ViewTyped' /\ ControllerTyped' /\ ContsTyped'
  BY <1>1, ViewSame, ControllerSame, ContsMore DEF TypeOK, ForBuild
<1> QED BY <1>2 DEF TypeOK

LEMMA EnterTyped == ASSUME TypeOK, NEW c \in conts, EnterDemo(c) PROVE TypeOK'
<1>1. CASE Pending /\ ctl.adapter = "demo"
  <2>1. disk' \in Storages /\ disk'.build = disk.build
    BY <1>1 DEF EnterDemo, TypeOK, Storages
  <2> QED BY <1>1, <2>1, OtherTyped DEF EnterDemo, TypeOK, ControllerTyped
<1>2. CASE ~ (Pending /\ ctl.adapter = "demo")
  <2> DEFINE leaving == ctl.adapter = "account"
             cleared == IF leaving THEN AccountCleared(disk) ELSE disk
             l == [log EXCEPT !.given = @ \cup ({disk.demo} \ {None})]
             k == [ctl EXCEPT !.adapter = "demo"]
  <2>1. /\ gen' = gen + (IF leaving THEN 2 ELSE 1) /\ gen' <= MaxGen
        /\ PublishAs(gen', "activating", None, None)
        /\ mem' = IF leaving THEN None ELSE mem
        /\ disk' = [cleared EXCEPT !.selected = "demo", !.demo = None]
        /\ Start(k, None, conts \ {c}) /\ log' = KeyMade(l) /\ UNCHANGED page
    BY <1>2 DEF EnterDemo
  <2>2. gen' \in Scopes /\ mem' \in Maybe(Subjects)
    BY <2>1, TabAssumption DEF TypeOK, Scopes, Maybe
  <2>3. ViewTyped'
    BY <2>1, <2>2, ViewOut DEF Statuses, Transient, Maybe
  <2>4. disk' \in Storages /\ disk'.build = disk.build
    <3>1. cleared \in Storages /\ cleared.build = disk.build
      BY ClearedAccount DEF TypeOK
    <3> HIDE DEF cleared
    <3> QED BY <2>1, <3>1 DEF Storages, Maybe
  <2>5. ~ Local
    BY DEF EnterDemo, DemoAllowed, TypeOK, ControllerTyped
  <2>6. k \in Controllers /\ k.key = ctl.key /\ k.config = ctl.config /\ k.adapter = "demo"
    BY DEF TypeOK, ControllerTyped, Controllers
  <2>7. l \in Logs /\ l.names = log.names
    <3>1. log.given \cup ({disk.demo} \ {None}) \in SUBSET Named
      BY DEF TypeOK, Logs, Storages, Maybe
    <3> QED BY <3>1 DEF TypeOK, Logs
  <2> HIDE DEF k, l
  <2>8. ControllerTyped' /\ ContsTyped'
    <3>1. None \in Maybe(Demos) /\ conts \ {c} \subseteq conts
      BY DEF Maybe
    <3> QED BY <2>1, <2>2, <2>4, <2>5, <2>6, <3>1, StartTyped
  <2>9. log' \in Logs
    BY <2>1, <2>6, <2>7, KeyTyped DEF Start
  <2> QED BY <2>1, <2>2, <2>3, <2>4, <2>8, <2>9 DEF TypeOK
<1> QED BY <1>1, <1>2

\* A step to a new scope that leaves its workspace and takes no kind of ready.
LEMMA LoginTyped ==
    ASSUME TypeOK, ~ Local, NEW intent \in Maybe(Intents), NEW entry \in {"signin", "signup"},
           StartAccountLogin(intent, entry)
    PROVE  TypeOK'
<1> USE DEF StartAccountLogin
<1>1. gen' \in Scopes /\ ViewTyped'
  BY MoveScope, ViewOut DEF Move, Statuses, Transient, Maybe
<1>2. mem' \in Maybe(Subjects) /\ page' \in Locations
  BY DEF TypeOK, Maybe
<1>3. disk' \in Storages /\ disk'.build = disk.build
  <2>1. AdapterCleared(disk) \in Storages /\ AdapterCleared(disk).build = disk.build
    BY ClearedAdapter DEF TypeOK, ControllerTyped
  <2> QED BY <2>1 DEF Storages
<1>4. ControllerTyped'
  <2>1. Reset(ctl) \in Controllers /\ Reset(ctl).adapter = ctl.adapter /\ Reset(ctl).config = ctl.config
    BY ResetTyped DEF TypeOK, ControllerTyped
  <2>2. FALSE \in BOOLEAN
    OBVIOUS
  <2>3. ctl' \in Controllers /\ ctl'.adapter = ctl.adapter /\ ctl'.config = ctl.config
    BY <2>1, <2>2 DEF Controllers
  <2> QED BY <2>3, <1>3 DEF TypeOK, ControllerTyped, Local
<1>5. ContsTyped'
  <2>1. [kind |-> "login", scope |-> gen', arg |-> [intent |-> intent, entry |-> entry, begun |-> FALSE]] \in Suspended
    BY <1>1 DEF Suspended
  <2> QED BY <1>1, <1>3, <2>1, WaitTyped DEF ForBuild
<1>6. log' \in Logs
  <2>1. GivenUp \in Logs /\ FALSE \in BOOLEAN
    BY GivenUpTyped
  <2>2. (IF intent = None THEN GivenUp.names ELSE intent.id) \in 0..MaxNames
    BY <2>1, TabAssumption DEF Logs, Maybe, Intents, Named
  <2> HIDE DEF GivenUp
  <2> QED BY <2>1, <2>2 DEF Logs
<1> QED BY <1>1, <1>2, <1>3, <1>4, <1>5, <1>6 DEF TypeOK

LEMMA SignInTyped ==
    ASSUME TypeOK,
           \/ \E entry \in {"signin", "signup"}, discard \in BOOLEAN : BeginSignIn(entry, discard)
           \/ \E want \in Wants : BeginSensitiveOperation(want)
    PROVE  TypeOK'
<1>1. ASSUME NEW entry \in {"signin", "signup"}, NEW discard \in BOOLEAN, BeginSignIn(entry, discard)
      PROVE  TypeOK'
  BY <1>1, LoginTyped DEF BeginSignIn, Maybe
<1>2. ASSUME NEW want \in Wants, BeginSensitiveOperation(want)
      PROVE  TypeOK'
  <2> USE <1>2 DEF BeginSensitiveOperation
  <2>1. mem \in Subjects /\ log.names + 1 \in Named
    BY TabAssumption DEF TypeOK, Maybe, Logs, Named
  <2>2. [id |-> Fresh, operation |-> want, subject |-> mem] \in Maybe(Intents)
    BY <2>1 DEF Fresh, Intents, Maybe
  <2>3. ~ Local
    BY DEF TypeOK, ControllerTyped
  <2> QED BY <2>2, <2>3, LoginTyped
<1> QED BY <1>1, <1>2

\* What waits for the adapter carries what waited for the configuration.
LEMMA BegunWait ==
    ASSUME TypeOK, NEW c \in conts, c.kind = "login", gen' = gen,
           NEW n, n = Wait("login", [intent |-> c.arg.intent, entry |-> c.arg.entry, begun |-> TRUE])
    PROVE  n \in Suspended /\ n.kind = "login" /\ n.scope = gen /\ n.arg.intent = c.arg.intent
<1>1. c.arg \in [intent : Maybe(Intents), entry : {"signin", "signup"}, begun : BOOLEAN]
  BY SuspendedArgs DEF TypeOK, ContsTyped
<1>2. c.arg.intent \in Maybe(Intents) /\ c.arg.entry \in {"signin", "signup"}
  BY <1>1
<1>3. \A s \in Scopes, i \in Maybe(Intents), e \in {"signin", "signup"} :
          [kind |-> "login", scope |-> s, arg |-> [intent |-> i, entry |-> e, begun |-> TRUE]] \in Suspended
  BY DEF Suspended
<1>4. gen \in Scopes
  BY DEF TypeOK
<1>5. n = [kind |-> "login", scope |-> gen, arg |-> [intent |-> c.arg.intent, entry |-> c.arg.entry, begun |-> TRUE]]
  BY DEF Wait
<1>6. n \in Suspended
  BY <1>2, <1>3, <1>4, <1>5
<1> DEFINE a == [intent |-> c.arg.intent, entry |-> c.arg.entry, begun |-> TRUE]
<1>7. a.intent = c.arg.intent
  OBVIOUS
<1>8. n.kind = "login" /\ n.scope = gen /\ n.arg = a
  <2> HIDE DEF a
  <2>1. n = [kind |-> "login", scope |-> gen, arg |-> a]
    BY <1>5 DEF a
  <2> QED BY <2>1
<1> HIDE DEF a
<1> QED BY <1>6, <1>7, <1>8

LEMMA BeginsTyped == ASSUME TypeOK, NEW c \in conts, LoginBegins(c) PROVE TypeOK'
<1> USE DEF LoginBegins
<1>1. mem' \in Maybe(Subjects) /\ disk' \in Storages /\ disk'.build = disk.build
  BY ClearedAccount DEF AccountForgotten, TypeOK, Maybe
<1>2. ControllerTyped'
  <2>1. ctl' \in Controllers /\ ctl'.adapter = "account" /\ ctl'.config = ctl.config /\ ~ Local
    BY DEF TypeOK, ControllerTyped, Controllers, EntryOffered, AccountEntryAvailable, Configured
  <2> QED BY <1>1, <2>1 DEF TypeOK, ControllerTyped, Local
<1>3. ContsTyped'
  <2> DEFINE n == Wait("login", [intent |-> c.arg.intent, entry |-> c.arg.entry, begun |-> TRUE])
  <2>1. n \in Suspended /\ n.kind = "login"
    BY BegunWait DEF Resume
  <2>2. conts' \subseteq conts \cup {n}
    OBVIOUS
  <2> HIDE DEF n
  <2> QED BY <1>1, <2>1, <2>2, ContsMore DEF ForBuild, TypeOK
<1>4. ViewTyped'
  BY <1>1, ViewSame DEF TypeOK
<1> QED BY <1>1, <1>2, <1>3, <1>4 DEF TypeOK

LEMMA RedirectsTyped == ASSUME TypeOK, NEW c \in conts, LoginRedirects(c) PROVE TypeOK'
<1> USE DEF LoginRedirects
<1>1. c.arg \in [intent : Maybe(Intents), entry : {"signin", "signup"}, begun : BOOLEAN]
  BY SuspendedArgs DEF TypeOK, ContsTyped, Resume
<1>2. log.names + 1 \in Named /\ log.names + 1 \in 0..MaxNames
  BY TabAssumption DEF TypeOK, Logs, Named
<1> DEFINE tx == [name |-> Fresh, intent |-> IF c.arg.intent = None THEN None ELSE c.arg.intent.id]
<1>3. tx \in [name : Named, intent : Maybe(Named)]
  BY <1>1, <1>2 DEF Fresh, Maybe, Intents
<1>4. /\ disk' = [disk EXCEPT !.tx = tx, !.intent = c.arg.intent]
      /\ page' = [path |-> "away", code |-> tx.name]
  OBVIOUS
<1>5. disk' \in Storages /\ disk'.build = disk.build
  <2> HIDE DEF tx
  <2> QED BY <1>1, <1>3, <1>4 DEF Storages, Maybe, TypeOK
<1>6. page' \in Locations /\ log' \in Logs /\ mem' \in Maybe(Subjects)
  BY <1>2, <1>4 DEF Locations, TypeOK, Logs, Fresh, Maybe
<1>7. ControllerTyped'
  BY <1>5, ControllerSame DEF TypeOK
<1>8. ViewTyped' /\ ContsTyped'
  BY <1>5, ViewSame, ContsFewer DEF TypeOK
<1> QED BY <1>5, <1>6, <1>7, <1>8 DEF TypeOK

\* The outcome of an attempt is published under its own scope.
LEMMA OutcomeTyped ==
    ASSUME TypeOK, NEW status \in Statuses, status \notin {"ready", "account-management"},
           NEW op \in Maybe(Reasons), Publish(status, None, op),
           mem' \in Maybe(Subjects), disk' \in Storages, disk'.build = disk.build,
           page' \in Locations, UNCHANGED log, conts' \subseteq conts,
           ctl' \in Controllers, ctl'.config = ctl.config, ctl'.adapter = "local" <=> ctl.adapter = "local"
    PROVE  TypeOK'
<1>1. gen' \in Scopes /\ ViewTyped'
  BY ViewOut DEF Publish, TypeOK
<1>2. ControllerTyped' /\ ContsTyped'
  BY ContsFewer DEF TypeOK, ControllerTyped, Local
<1> QED BY <1>1, <1>2 DEF TypeOK

LEMMA ForgottenAccount ==
    ASSUME TypeOK, AccountForgotten \/ UNCHANGED <<mem, disk>>
    PROVE  mem' \in Maybe(Subjects) /\ disk' \in Storages /\ disk'.build = disk.build
BY ClearedAccount DEF AccountForgotten, TypeOK, Maybe

LEMMA LoginFailsTyped == ASSUME TypeOK, NEW c \in conts, LoginFails(c) PROVE TypeOK'
<1> USE DEF LoginFails
<1>1. mem' \in Maybe(Subjects) /\ disk' \in Storages /\ disk'.build = disk.build
  BY ForgottenAccount
<1>2. ctl' \in Controllers /\ ctl'.config = ctl.config /\ (ctl'.adapter = "local" <=> ctl.adapter = "local")
  BY DEF TypeOK, ControllerTyped
<1> QED BY <1>1, <1>2, OutcomeTyped DEF Statuses, Maybe, Reasons, TypeOK

LEMMA ArrivalTyped ==
    ASSUME TypeOK, ProviderAnswers \/ Revisit \/ OpenTab \/ ProviderSignedOut
    PROVE  TypeOK'
<1>1. CASE ProviderAnswers
  <2>1. page.code \in Named
    BY <1>1 DEF ProviderAnswers, TypeOK, Locations
  <2>2. PICK s \in Maybe(Subjects) : Load("callback", [tx |-> page.code, subject |-> s])
    BY <1>1 DEF ProviderAnswers, Maybe
  <2>3. [tx |-> page.code, subject |-> s] \in OAuthAnswers
    BY <2>1 DEF OAuthAnswers
  <2>4. [path |-> "callback", code |-> [tx |-> page.code, subject |-> s]] \in Locations
    BY <2>3 DEF Locations, Maybe
  <2> QED BY <2>2, <2>3, <2>4, LoadTyped DEF Maybe
<1>2. CASE Revisit
  <2>1. log.answer \in Maybe(OAuthAnswers)
    BY DEF TypeOK, Logs
  <2> QED BY <1>2, <2>1, LoadTyped DEF Revisit, Locations
<1>3. CASE OpenTab \/ ProviderSignedOut
  BY <1>3, LoadTyped DEF OpenTab, ProviderSignedOut, Locations, Maybe
<1> QED BY <1>1, <1>2, <1>3

\* Away to a new scope, with what the controller keeps otherwise.
LEMMA ScopeTyped ==
    ASSUME TypeOK, NEW status \in Statuses, status \notin {"ready", "account-management"},
           NEW op \in Maybe(Reasons), Move(status, None, op)
    PROVE  gen' \in Scopes /\ ViewTyped'
BY MoveScope, ViewOut DEF Move

LEMMA CompleteTyped == ASSUME TypeOK, CompleteOAuthCallback PROVE TypeOK'
<1> USE DEF CompleteOAuthCallback
<1>1. gen' \in Scopes /\ ViewTyped'
  BY ScopeTyped DEF Statuses, Transient, Maybe
<1>2. page.code \in Maybe(OAuthAnswers) /\ page' \in Locations
  BY DEF TypeOK, Locations, Maybe
<1>3. ControllerTyped'
  <2>1. TRUE \in BOOLEAN /\ FALSE \in BOOLEAN
    OBVIOUS
  <2>2. ctl' \in Controllers /\ ctl'.adapter = ctl.adapter /\ ctl'.config = ctl.config
    BY <2>1 DEF TypeOK, ControllerTyped, Controllers
  <2> QED BY <2>2 DEF TypeOK, ControllerTyped, Local
<1>4. ContsTyped'
  <2>1. [kind |-> "callback", scope |-> gen', arg |-> page.code] \in Suspended
    BY <1>1, <1>2 DEF Suspended
  <2> QED BY <1>1, <2>1, WaitTyped DEF ForBuild
<1> QED BY <1>1, <1>2, <1>3, <1>4 DEF TypeOK

LEMMA CallbackTyped ==
    ASSUME TypeOK, NEW c \in conts, CallbackRefused(c) \/ CallbackProceeds(c)
    PROVE  TypeOK'
<1>1. CASE CallbackRefused(c)
  BY <1>1, OutcomeTyped DEF CallbackRefused, TypeOK, ControllerTyped, Statuses, Maybe, Reasons
<1>2. CASE CallbackProceeds(c)
  <2> USE <1>2 DEF CallbackProceeds
  <2>1. gen' \in Scopes /\ ViewTyped'
    BY ScopeTyped DEF Statuses, Transient, Maybe
  <2>2. disk' \in Storages /\ disk'.build = disk.build
    BY DEF TypeOK, Storages, Maybe
  <2>3. ControllerTyped'
    <3>1. FALSE \in BOOLEAN
      OBVIOUS
    <3>2. ctl' \in Controllers /\ ctl'.adapter = "account" /\ ctl'.config = ctl.config /\ ~ Local
      BY <3>1 DEF TypeOK, ControllerTyped, Controllers, AccountEntryAvailable, Configured
    <3> QED BY <3>2, <2>2 DEF TypeOK, ControllerTyped, Local
  <2>4. ContsTyped'
    <3>1. c.arg \in Maybe(OAuthAnswers)
      BY SuspendedArgs DEF TypeOK, ContsTyped, Resume
    <3>2. disk.intent \in Maybe(Intents)
      BY DEF TypeOK, Storages
    <3>3. [kind |-> "exchange", scope |-> gen', arg |-> [code |-> c.arg, intent |-> disk.intent]] \in Suspended
      BY <2>1, <3>1, <3>2 DEF Suspended
    <3>4. ~ Local
      BY DEF TypeOK, ControllerTyped, AccountEntryAvailable, Configured
    <3> QED BY <2>1, <2>2, <3>3, <3>4, WaitTyped DEF ForBuild
  <2>5. log' \in Logs
    BY GivenUpTyped
  <2> QED BY <2>1, <2>2, <2>3, <2>4, <2>5 DEF TypeOK
<1> QED BY <1>1, <1>2

LEMMA ExchangeFailedTyped ==
    ASSUME TypeOK, NEW c \in conts, NEW cleared \in {disk, AccountCleared(disk)}, ExchangeFailed(c, cleared)
    PROVE  TypeOK'
<1>1. mem' \in Maybe(Subjects) /\ disk' \in Storages /\ disk'.build = disk.build
  BY ForgottenAccount, ClearedAccount DEF ExchangeFailed, TypeOK
<1>2. PICK op \in Maybe(Reasons) : Publish("error", None, op)
  BY DEF ExchangeFailed, Maybe, Reasons
<1> QED BY <1>1, <1>2, OutcomeTyped DEF ExchangeFailed, TypeOK, ControllerTyped, Statuses

LEMMA ExchangeTyped ==
    ASSUME TypeOK, NEW c \in conts, ExchangeRefused(c) \/ ExchangeStarts(c) \/ TokensRefused(c)
    PROVE  TypeOK'
<1>1. CASE ExchangeRefused(c) \/ TokensRefused(c)
  BY <1>1, ExchangeFailedTyped DEF ExchangeRefused, TokensRefused
<1>2. CASE ExchangeStarts(c)
  <2> USE <1>2 DEF ExchangeStarts
  <2>1. /\ c \in Suspended /\ c.kind = "exchange" /\ c.scope = gen
        /\ c.arg \in [code : Maybe(OAuthAnswers), intent : Maybe(Intents)]
    BY SuspendedArgs DEF TypeOK, ContsTyped, Resume
  <2>2. disk.tx \in [name : Named, intent : Maybe(Named)] /\ c.arg.code \in OAuthAnswers
    BY <2>1 DEF TypeOK, Storages, Maybe
  <2> DEFINE arg == [subject |-> c.arg.code.subject, named |-> disk.tx.intent, intent |-> c.arg.intent]
  <2>3. arg \in [subject : Maybe(Subjects), named : Maybe(Named), intent : Maybe(Intents)]
    BY <2>1, <2>2 DEF OAuthAnswers
  <2>4. [c EXCEPT !.kind = "tokens", !.arg = arg] = Wait("tokens", arg)
    <3>1. c = [kind |-> c.kind, scope |-> gen, arg |-> c.arg] /\ gen' = gen
      BY <2>1, SuspendedArgs
    <3> DEFINE d == [c EXCEPT !.kind = "tokens"]
    <3>2. d = [kind |-> "tokens", scope |-> gen, arg |-> c.arg]
      BY <3>1
    <3> HIDE DEF arg
    <3>3. [c EXCEPT !.kind = "tokens", !.arg = arg] = [d EXCEPT !.arg = arg]
      BY <3>1, <3>2
    <3> HIDE DEF d
    <3>4. [d EXCEPT !.arg = arg] = [kind |-> "tokens", scope |-> gen, arg |-> arg]
      BY <3>2
    <3> QED BY <3>1, <3>3, <3>4 DEF Wait
  <2>5. conts' = (conts \ {c}) \cup {[c EXCEPT !.kind = "tokens", !.arg = arg]}
    OBVIOUS
  <2>6. gen' \in Scopes /\ disk' \in Storages /\ disk'.build = disk.build
    BY DEF TypeOK, Storages, Maybe
  <2> HIDE DEF arg
  <2>7. ContsTyped'
    <3>1. [kind |-> "tokens", scope |-> gen', arg |-> arg] \in Suspended
      BY <2>3, <2>6 DEF Suspended
    <3>2. ~ Local
      BY <2>1 DEF TypeOK, ContsTyped, ForBuild
    <3> QED BY <2>4, <2>5, <2>6, <3>1, <3>2, WaitTyped DEF ForBuild
  <2>8. ViewTyped' /\ ControllerTyped'
    BY <2>6, ViewSame, ControllerSame DEF TypeOK
  <2> QED BY <2>6, <2>7, <2>8 DEF TypeOK
<1> QED BY <1>1, <1>2

LEMMA TokensTyped == ASSUME TypeOK, NEW c \in conts, TokensArrive(c) PROVE TypeOK'
<1> USE DEF TokensArrive
<1>1. /\ c.arg \in [subject : Maybe(Subjects), named : Maybe(Named), intent : Maybe(Intents)]
      /\ c.arg.subject \in Subjects
  BY SuspendedArgs DEF TypeOK, ContsTyped, Resume, Expected, Maybe
<1>2. mem' \in Maybe(Subjects) /\ disk' \in Storages /\ disk'.build = disk.build
  BY <1>1 DEF TypeOK, Storages, Maybe
<1>3. ControllerTyped'
  BY <1>2, ControllerSame DEF TypeOK
<1>4. CASE c.arg.intent = None
  <2>1. gen' \in Scopes /\ ViewTyped'
    BY <1>2, <1>4, ViewSame DEF TypeOK
  <2>2. ContsTyped'
    <3>1. ~ Local
      BY DEF TypeOK, ContsTyped, ForBuild, Resume
    <3> QED BY <1>2, <1>4, <2>1, <3>1, WaitTyped DEF Suspended, ForBuild
  <2> QED BY <1>2, <1>3, <1>4, <2>1, <2>2 DEF TypeOK
<1>5. CASE c.arg.intent # None
  <2>1. c.arg.intent \in Intents
    BY <1>1, <1>5 DEF Maybe
  <2>2. manage' \in Managed
    <3>1. TRUE \in BOOLEAN /\ FALSE \in BOOLEAN
      OBVIOUS
    <3>2. manage' = [intent |-> c.arg.intent, busy |-> FALSE, consumed |-> FALSE,
                     failed |-> FALSE, completed |-> FALSE]
      BY <1>5
    <3> QED BY <2>1, <3>1, <3>2 DEF Managed
  <2>3. gen' \in Scopes /\ ViewTyped'
    BY <1>5, <2>2, ViewManaging DEF Publish, TypeOK
  <2>4. log' \in Logs
    <3>1. <<c.arg.intent.id, c.arg.subject>> \in Named \X Subjects
      BY <1>1, <2>1 DEF Intents
    <3>2. log.verified \cup {<<c.arg.intent.id, c.arg.subject>>} \in SUBSET (Named \X Subjects)
      BY <3>1 DEF TypeOK, Logs
    <3> QED BY <1>5, <3>2 DEF TypeOK, Logs
  <2>5. ContsTyped'
    BY <1>2, <1>5, ContsFewer DEF TypeOK
  <2> QED BY <1>2, <1>3, <2>3, <2>4, <2>5 DEF TypeOK
<1> QED BY <1>4, <1>5

LEMMA BootstrapTyped ==
    ASSUME TypeOK, NEW c \in conts, Bootstrapped(c) \/ IdentityMismatch(c) \/ BootstrapFails(c)
    PROVE  TypeOK'
<1>1. CASE Bootstrapped(c)
  <2> USE <1>1 DEF Bootstrapped
  <2>1. Account(mem) \in Identities /\ Account(mem) # LocalWorkspace
    BY DEF TypeOK, Maybe, Identities, Account, LocalWorkspace
  <2>2. ~ Local
    BY DEF TypeOK, ContsTyped, ForBuild, Resume
  <2>3. gen' \in Scopes /\ ViewTyped' /\ disk' \in Storages /\ disk'.build = disk.build
    BY <2>1, <2>2, ReadyTyped DEF Maybe
  <2>4. ControllerTyped'
    <3>1. FALSE \in BOOLEAN
      OBVIOUS
    <3> QED BY <3>1, <2>3, UndirtyTyped DEF TypeOK, ControllerTyped, Local
  <2>5. ContsTyped'
    BY <2>3, ContsFewer DEF TypeOK
  <2> QED BY <2>3, <2>4, <2>5 DEF TypeOK
<1>2. CASE IdentityMismatch(c)
  <2>1. mem' \in Maybe(Subjects) /\ disk' \in Storages /\ disk'.build = disk.build
    BY <1>2, ForgottenAccount DEF IdentityMismatch
  <2>2. PICK op \in Maybe(Reasons) : Publish("error", None, op)
    BY <1>2 DEF IdentityMismatch, Maybe, Reasons
  <2> QED BY <1>2, <2>1, <2>2, OutcomeTyped DEF IdentityMismatch, TypeOK, ControllerTyped, Statuses
<1>3. CASE BootstrapFails(c)
  BY <1>3, OutcomeTyped DEF BootstrapFails, TypeOK, ControllerTyped, Statuses, Maybe, Reasons
<1> QED BY <1>1, <1>2, <1>3

LEMMA RetryBootstrapTyped == ASSUME TypeOK, RetryAccountBootstrap PROVE TypeOK'
<1> USE DEF RetryAccountBootstrap
<1>1. gen' \in Scopes /\ ViewTyped'
  BY ScopeTyped DEF Statuses, Transient, Maybe
<1>2. ControllerTyped'
  <2>1. FALSE \in BOOLEAN
    OBVIOUS
  <2> QED BY <2>1, UndirtyTyped DEF TypeOK, ControllerTyped, Local
<1>3. ContsTyped'
  <2>1. ~ Local
    BY DEF TypeOK, ControllerTyped, AccountEntryAvailable, Configured
  <2> QED BY <1>1, <2>1, WaitTyped DEF Suspended, ForBuild
<1> QED BY <1>1, <1>2, <1>3 DEF TypeOK

\* A departure to a new scope that keeps the adapter.
LEMMA DepartureTyped ==
    ASSUME TypeOK, NEW status \in Statuses, status \notin {"ready", "account-management"},
           NEW op \in Maybe(Reasons), Move(status, None, op),
           mem' \in Maybe(Subjects), disk' \in Storages, disk'.build = disk.build,
           page' \in Locations, log' \in Logs, conts' \subseteq conts \cup {Wait("revoke", None)},
           ctl' \in Controllers, ctl'.config = ctl.config, ctl'.adapter = ctl.adapter
    PROVE  TypeOK'
<1>1. gen' \in Scopes /\ ViewTyped'
  BY ScopeTyped
<1>2. ControllerTyped'
  BY DEF TypeOK, ControllerTyped, Local
<1>3. ContsTyped'
  BY <1>1, WaitTyped DEF Suspended, ForBuild
<1> QED BY <1>1, <1>2, <1>3 DEF TypeOK

LEMMA NoneSelected ==
    ASSUME NEW d \in Storages
    PROVE  /\ [AccountCleared(d) EXCEPT !.selected = "none"] \in Storages
           /\ [AccountCleared(d) EXCEPT !.selected = "none"].build = d.build
           /\ [AccountCleared(d) EXCEPT !.selected = "none"].selected = "none"
           /\ [AccountCleared(d) EXCEPT !.selected = "none"].user = None
           /\ [AccountCleared(d) EXCEPT !.selected = "none"].tx = None
           /\ [AccountCleared(d) EXCEPT !.selected = "none"].intent = None
           /\ [AccountCleared(d) EXCEPT !.selected = "none"].demo = d.demo
           /\ [AccountCleared(d) EXCEPT !.selected = "none"].notice = d.notice
<1> DEFINE e == AccountCleared(d)
<1>1. /\ e \in Storages /\ e.build = d.build /\ e.user = None /\ e.tx = None /\ e.intent = None
      /\ e.demo = d.demo /\ e.notice = d.notice
  BY ClearedAccount
<1> HIDE DEF e
<1>2. /\ [e EXCEPT !.selected = "none"] \in Storages /\ [e EXCEPT !.selected = "none"].build = e.build
      /\ [e EXCEPT !.selected = "none"].selected = "none"
      /\ [e EXCEPT !.selected = "none"].user = e.user /\ [e EXCEPT !.selected = "none"].tx = e.tx
      /\ [e EXCEPT !.selected = "none"].intent = e.intent /\ [e EXCEPT !.selected = "none"].demo = e.demo
      /\ [e EXCEPT !.selected = "none"].notice = e.notice
  BY <1>1 DEF Storages
<1> USE DEF e
<1> QED BY <1>1, <1>2

LEMMA DepartTyped ==
    ASSUME TypeOK,
           \/ RenewalFails \/ AcceptSignedOut \/ AnotherTabSignsOut
           \/ \E discard \in BOOLEAN : SignOut(discard)
    PROVE  TypeOK'
<1>0. FALSE \in BOOLEAN /\ None \in Maybe(Subjects) /\ None \in Maybe(Reasons) /\ "account" \in Maybe(Reasons)
      /\ ctl \in Controllers /\ disk \in Storages /\ log \in Logs /\ page \in Locations
  BY DEF Maybe, Reasons, TypeOK, ControllerTyped
<1>1. CASE RenewalFails
  BY <1>0, <1>1, NoneSelected, UndirtyTyped, DepartureTyped DEF RenewalFails, Statuses
<1>2. CASE AcceptSignedOut
  BY <1>0, <1>2, NoneSelected, UndirtyTyped, DepartureTyped DEF AcceptSignedOut, Statuses
<1>3. ASSUME NEW discard \in BOOLEAN, SignOut(discard) PROVE TypeOK'
  <2>1. CASE ctl.adapter = "account"
    BY <1>0, <1>3, <2>1, NoneSelected, ResetTyped, GivenUpTyped, DepartureTyped DEF SignOut, Statuses, Transient
  <2>2. CASE ctl.adapter # "account"
    BY <1>3, <2>2, EndTyped DEF SignOut
  <2> QED BY <2>1, <2>2
<1>4. CASE AnotherTabSignsOut
  <2>1. CASE ctl.adapter = "account" /\ disk.selected = "cognito"
    BY <1>4, <2>1, AwayTyped DEF AnotherTabSignsOut, Maybe, Reasons
  <2>2. CASE ~ (ctl.adapter = "account" /\ disk.selected = "cognito")
    BY <1>0, <1>4, <2>2, ForgottenAccount, OtherTyped DEF AnotherTabSignsOut
  <2> QED BY <2>1, <2>2
<1> QED BY <1>1, <1>2, <1>3, <1>4

LEMMA RevokedTyped == ASSUME TypeOK, NEW c \in conts, Revoked(c) PROVE TypeOK'
<1> USE DEF Revoked
<1>1. page' \in Locations
  BY DEF TypeOK, Locations
<1>2. PICK status \in {"anonymous", "error"}, op \in Maybe(Reasons) : Publish(status, None, op)
  BY DEF Maybe, Reasons
<1> QED BY <1>1, <1>2, OutcomeTyped DEF TypeOK, ControllerTyped, Statuses

\* What is managed changes only in how far it has come.
LEMMA ManagedField ==
    ASSUME NEW m \in Managed, NEW x \in BOOLEAN
    PROVE  /\ [m EXCEPT !.busy = x] \in Managed /\ [m EXCEPT !.busy = x].intent = m.intent
           /\ [m EXCEPT !.consumed = x] \in Managed /\ [m EXCEPT !.consumed = x].intent = m.intent
           /\ [m EXCEPT !.failed = x] \in Managed /\ [m EXCEPT !.failed = x].intent = m.intent
           /\ [m EXCEPT !.completed = x] \in Managed /\ [m EXCEPT !.completed = x].intent = m.intent
BY DEF Managed

\* Several fields, one after the other.
LEMMA ManagedStates ==
    ASSUME NEW m \in Managed, NEW b \in BOOLEAN
    PROVE  /\ [m EXCEPT !.busy = TRUE, !.consumed = TRUE, !.failed = FALSE] \in Managed
           /\ [m EXCEPT !.busy = TRUE, !.consumed = TRUE, !.failed = FALSE].intent = m.intent
           /\ [m EXCEPT !.consumed = TRUE, !.completed = TRUE] \in Managed
           /\ [m EXCEPT !.consumed = TRUE, !.completed = TRUE].intent = m.intent
           /\ [m EXCEPT !.consumed = @ \/ b, !.failed = TRUE] \in Managed
           /\ [m EXCEPT !.consumed = @ \/ b, !.failed = TRUE].intent = m.intent
           /\ [m EXCEPT !.busy = TRUE] \in Managed
           /\ [m EXCEPT !.busy = TRUE].intent = m.intent
           /\ [m EXCEPT !.busy = FALSE, !.consumed = TRUE, !.completed = b] \in Managed
           /\ [m EXCEPT !.busy = FALSE, !.consumed = TRUE, !.completed = b].intent = m.intent
           /\ [m EXCEPT !.consumed = TRUE, !.busy = FALSE, !.failed = FALSE] \in Managed
           /\ [m EXCEPT !.consumed = TRUE, !.busy = FALSE, !.failed = FALSE].intent = m.intent
<1>1. TRUE \in BOOLEAN /\ FALSE \in BOOLEAN /\ (m.consumed \/ b) \in BOOLEAN
  OBVIOUS
<1> DEFINE busy == [m EXCEPT !.busy = TRUE]
           idle == [m EXCEPT !.busy = FALSE]
           used == [m EXCEPT !.consumed = TRUE]
           tried == [m EXCEPT !.consumed = m.consumed \/ b]
<1>2. /\ busy \in Managed /\ busy.intent = m.intent
      /\ idle \in Managed /\ idle.intent = m.intent
      /\ used \in Managed /\ used.intent = m.intent
      /\ tried \in Managed /\ tried.intent = m.intent
  <2>1. \A x \in BOOLEAN : [m EXCEPT !.busy = x] \in Managed /\ [m EXCEPT !.busy = x].intent = m.intent
    BY ManagedField
  <2>2. \A x \in BOOLEAN : [m EXCEPT !.consumed = x] \in Managed /\ [m EXCEPT !.consumed = x].intent = m.intent
    BY ManagedField
  <2> QED BY <1>1, <2>1, <2>2, Zenon
<1> DEFINE away == [busy EXCEPT !.consumed = TRUE]
           back == [idle EXCEPT !.consumed = TRUE]
           calm == [used EXCEPT !.busy = FALSE]
<1>3. /\ away = [m EXCEPT !.busy = TRUE, !.consumed = TRUE]
      /\ back = [m EXCEPT !.busy = FALSE, !.consumed = TRUE]
      /\ calm = [m EXCEPT !.consumed = TRUE, !.busy = FALSE]
      /\ [used EXCEPT !.completed = TRUE] = [m EXCEPT !.consumed = TRUE, !.completed = TRUE]
      /\ [tried EXCEPT !.failed = TRUE] = [m EXCEPT !.consumed = @ \/ b, !.failed = TRUE]
      /\ [away EXCEPT !.failed = FALSE] = [m EXCEPT !.busy = TRUE, !.consumed = TRUE, !.failed = FALSE]
      /\ [back EXCEPT !.completed = b] = [m EXCEPT !.busy = FALSE, !.consumed = TRUE, !.completed = b]
      /\ [calm EXCEPT !.failed = FALSE] = [m EXCEPT !.consumed = TRUE, !.busy = FALSE, !.failed = FALSE]
  BY Zenon
<1> HIDE DEF busy, idle, used, tried
<1>4. /\ away \in Managed /\ away.intent = m.intent
      /\ back \in Managed /\ back.intent = m.intent
      /\ calm \in Managed /\ calm.intent = m.intent
      /\ [used EXCEPT !.completed = TRUE] \in Managed /\ [used EXCEPT !.completed = TRUE].intent = m.intent
      /\ [tried EXCEPT !.failed = TRUE] \in Managed /\ [tried EXCEPT !.failed = TRUE].intent = m.intent
  <2>1. \A n \in Managed, x \in BOOLEAN :
            /\ [n EXCEPT !.busy = x] \in Managed /\ [n EXCEPT !.busy = x].intent = n.intent
            /\ [n EXCEPT !.consumed = x] \in Managed /\ [n EXCEPT !.consumed = x].intent = n.intent
            /\ [n EXCEPT !.failed = x] \in Managed /\ [n EXCEPT !.failed = x].intent = n.intent
            /\ [n EXCEPT !.completed = x] \in Managed /\ [n EXCEPT !.completed = x].intent = n.intent
    BY ManagedField, Zenon
  <2> QED BY <1>1, <1>2, <2>1, Zenon
<1> HIDE DEF away, back, calm
<1>5. /\ [away EXCEPT !.failed = FALSE] \in Managed /\ [away EXCEPT !.failed = FALSE].intent = m.intent
      /\ [back EXCEPT !.completed = b] \in Managed /\ [back EXCEPT !.completed = b].intent = m.intent
      /\ [calm EXCEPT !.failed = FALSE] \in Managed /\ [calm EXCEPT !.failed = FALSE].intent = m.intent
  BY <1>1, <1>4, ManagedField, Zenon
<1> USE DEF busy
<1> QED BY <1>2, <1>3, <1>4, <1>5, Zenon

LEMMA ManagingTyped ==
    ASSUME TypeOK, NEW m \in Managed, Managing(m), disk' \in Storages, disk'.build = disk.build,
           log' \in Logs, UNCHANGED <<ctl, mem, page>>, ContsTyped'
    PROVE  TypeOK'
<1>1. gen' \in Scopes /\ ViewTyped'
  BY ViewManaging DEF Managing, Publish, TypeOK
<1>2. ControllerTyped'
  BY ControllerSame DEF TypeOK
<1> QED BY <1>1, <1>2 DEF TypeOK

LEMMA ManagingKinds ==
    ASSUME TypeOK, NEW c \in conts, NEW k \in Wants \cup {"delete", "export", "review"}, Resume(c, k)
    PROVE  c.arg \in Managed /\ c.kind = k /\ c.scope = gen /\ k \in {"delete", "export", "review"}
BY SuspendedArgs, TabAssumption DEF Resume, TypeOK, ContsTyped

LEMMA PerformingTyped ==
    ASSUME TypeOK, NEW want \in {"export", "delete"}, Performing(want)
    PROVE  TypeOK'
<1> USE DEF Performing
<1>1. /\ manage \in Managed /\ manage.intent \in Intents /\ mem = manage.intent.subject
      /\ <<manage.intent.id, mem>> \in Named \X Subjects
  BY DEF Consumable, TypeOK, ViewTyped, Managed, Intents
<1>2. log' \in Logs
  <2>1. log.performed \cup {<<manage.intent.id, mem>>} \in SUBSET (Named \X Subjects)
    BY <1>1 DEF TypeOK, Logs
  <2>2. (log.dispatched \/ want = "delete") \in BOOLEAN /\ log.requests + 1 \in Nat
    BY DEF TypeOK, Logs
  <2>3. PICK b \in BOOLEAN :
            log' = [log EXCEPT !.requests = @ + 1, !.performed = @ \cup {<<manage.intent.id, mem>>},
                               !.dispatched = b]
    BY <2>2
  <2> QED BY <2>1, <2>2, <2>3 DEF TypeOK, Logs
<1>3. disk' \in Storages /\ disk'.build = disk.build
  BY DEF TypeOK, Storages, Maybe
<1>4. ContsTyped'
  <2>1. [kind |-> want, scope |-> gen', arg |-> manage] \in Suspended
    BY <1>1 DEF Managing, Publish, TypeOK, Suspended
  <2>2. gen' \in Scopes
    BY DEF Managing, Publish, TypeOK
  <2> QED BY <1>3, <2>1, <2>2, WaitTyped DEF ForBuild
<1>5. [manage EXCEPT !.busy = TRUE, !.consumed = TRUE, !.failed = FALSE] \in Managed
  BY <1>1, ManagedStates
<1> QED BY <1>2, <1>3, <1>4, <1>5, ManagingTyped

LEMMA SensitiveTyped ==
    ASSUME TypeOK, Sensitive
    PROVE  TypeOK'
<1>1. CASE (\E want \in Wants : BeginSensitiveOperation(want)) \/ PerformSensitiveExport \/ PerformAccountDeletion
  BY <1>1, SignInTyped, PerformingTyped DEF PerformSensitiveExport, PerformAccountDeletion
<1>2. CASE ReviewAccountDeletion
  <2> USE <1>2 DEF ReviewAccountDeletion
  <2>1. manage \in Managed
    BY DEF TypeOK, ViewTyped
  <2>2. ContsTyped'
    <3>1. gen' \in Scopes
      BY DEF Managing, Publish, TypeOK
    <3> QED BY <2>1, <3>1, WaitTyped DEF Suspended, ForBuild, TypeOK
  <2>3. [manage EXCEPT !.busy = TRUE] \in Managed
    BY <2>1, ManagedStates
  <2> QED BY <2>2, <2>3, ManagingTyped DEF TypeOK
<1>3. ASSUME NEW c \in conts, Exported(c) \/ SensitiveFails(c) \/ DeletionUnfinished(c)
      PROVE  TypeOK'
  <2>1. c.arg \in Managed
    BY <1>3, ManagingKinds DEF Exported, SensitiveFails, DeletionUnfinished
  <2>2. ContsTyped'
    BY <1>3, ContsFewer DEF Exported, SensitiveFails, DeletionUnfinished, TypeOK
  <2>3. CASE Exported(c) \/ DeletionUnfinished(c)
    BY <2>1, <2>2, <2>3, ManagedStates, ManagingTyped DEF Exported, DeletionUnfinished, TypeOK
  <2>4. CASE SensitiveFails(c)
    <3>1. (c.kind # "review") \in BOOLEAN
      OBVIOUS
    <3>2. [c.arg EXCEPT !.consumed = @ \/ c.kind # "review", !.failed = TRUE] \in Managed
      BY <2>1, <3>1, ManagedStates
    <3> QED BY <2>2, <2>4, <3>2, ManagingTyped DEF SensitiveFails, TypeOK
  <2> QED BY <1>3, <2>3, <2>4
<1>4. ASSUME NEW c \in conts, ServerErases(c)
      PROVE  TypeOK'
  <2> USE <1>4 DEF ServerErases
  <2>1. log' \in Logs
    <3>1. TRUE \in BOOLEAN
      OBVIOUS
    <3> QED BY <3>1 DEF TypeOK, Logs
  <2>2. ViewTyped' /\ ControllerTyped' /\ ContsTyped'
    BY ViewSame, ControllerSame, ContsFewer DEF TypeOK
  <2> QED BY <2>1, <2>2 DEF TypeOK
<1>5. ASSUME NEW c \in conts, NEW complete \in BOOLEAN, DeletionFinalized(c, complete)
      PROVE  TypeOK'
  <2> USE <1>5 DEF DeletionFinalized
  <2>1. c.arg \in Managed
    BY ManagingKinds
  <2>2. manage' \in Managed
    BY <2>1, ManagedStates
  <2>3. gen' \in Scopes /\ ViewTyped'
    BY <2>2, MoveScope, ViewManaging DEF Move
  <2>4. disk' \in Storages /\ disk'.build = disk.build
    <3>1. AccountCleared(disk) \in Storages /\ AccountCleared(disk).build = disk.build
      BY ClearedAccount DEF TypeOK
    <3> QED BY <3>1 DEF Storages
  <2>5. ControllerTyped'
    <3>1. FALSE \in BOOLEAN
      OBVIOUS
    <3> QED BY <3>1, <2>4, UndirtyTyped DEF TypeOK, ControllerTyped, Local
  <2>6. ContsTyped'
    BY <2>4, ContsFewer DEF TypeOK
  <2> QED BY <2>3, <2>4, <2>5, <2>6 DEF TypeOK, Maybe
<1> QED BY <1>1, <1>2, <1>3, <1>4, <1>5 DEF Sensitive

LEMMA StepTyped == TypeOK /\ [Next]_tabVars => TypeOK'
<1> SUFFICES ASSUME TypeOK, [Next]_tabVars PROVE TypeOK'
  OBVIOUS
<1>1. CASE Opening
  BY <1>1, ArrivalTyped, ConfigurationTyped, RetryTyped, InitializeTyped, RestoreTyped, RestoredTyped
     DEF Opening
<1>2. CASE Starting
  BY <1>2, ActivateTyped, ActivatedTyped, FailedTyped, EnterTyped, QuietTyped, ProvisionsTyped,
     AbandonTyped, AskTyped DEF Starting
<1>3. CASE SigningIn
  BY <1>3, SignInTyped, BeginsTyped, RedirectsTyped, LoginFailsTyped, ArrivalTyped, CompleteTyped, CallbackTyped,
     ExchangeTyped, TokensTyped DEF SigningIn
<1>4. CASE UsingAccount
  BY <1>4, BootstrapTyped, RetryBootstrapTyped DEF UsingAccount
<1>5. CASE Ending
  <2>1. CASE (\E discard \in BOOLEAN : Leave(discard)) \/ Unauthorized \/ DemoExpires
    BY <2>1, EndTyped
  <2>2. CASE (\E discard \in BOOLEAN : SignOut(discard)) \/ RenewalFails \/ AnotherTabSignsOut \/ AcceptSignedOut
    BY <2>2, DepartTyped
  <2>3. CASE (\E c \in conts : Retire(c)) \/ (\E c \in conts : Revoked(c)) \/ ProviderSignedOut
    BY <2>3, RevokedTyped, QuietTyped, ArrivalTyped
  <2> QED BY <1>5, <2>1, <2>2, <2>3 DEF Ending
<1>6. CASE Editing
  BY <1>6, QuietTyped DEF Editing
<1>7. CASE Sensitive
  BY <1>7, SensitiveTyped
<1>8. CASE UNCHANGED tabVars
  <2>1. ViewTyped' /\ ControllerTyped' /\ ContsTyped'
    BY <1>8, ViewSame, ControllerSame, ContsFewer DEF TypeOK, tabVars
  <2> QED BY <1>8, <2>1 DEF TypeOK, tabVars
<1> QED BY <1>1, <1>2, <1>3, <1>4, <1>5, <1>6, <1>7, <1>8 DEF Next, Plain

(***************************************************************************)
(* The session keeps its types, whatever happens to it: exactly an open    *)
(* workspace has an owner, account management is shown with an intent, and *)
(* what is awaited carries what its kind needs.                            *)
(***************************************************************************)
THEOREM SessionTyped == Spec => []TypeOK
<1> QED BY InitTyped, StepTyped, PTL DEF Spec

-----------------------------------------------------------------------------
(***************************************************************************)
(* A deletion's notice.                                                    *)
(***************************************************************************)
NoticeKept ==
    /\ disk'.notice = disk.notice /\ disk'.build = disk.build
    /\ log'.dispatched = log.dispatched /\ log'.erased = log.erased

LEMMA LetGo ==
    ASSUME TypeOK
    PROVE  /\ GivenUp.dispatched = log.dispatched /\ GivenUp.erased = log.erased
           /\ GivenUp.names = log.names /\ GivenUp.requests = log.requests
           /\ GivenUp.performed = log.performed /\ GivenUp.verified = log.verified
           /\ GivenUp.demos = log.demos
           /\ GivenUp.given = log.given \cup (Held \ {disk'.demo, ctl'.key})
BY DEF GivenUp, TypeOK, Logs

LEMMA NoticeLoaded == ASSUME TypeOK, NEW path, NEW code, Load(path, code) PROVE NoticeKept
BY DEF Load, NoticeKept, TypeOK, Logs

LEMMA NoticeAway == ASSUME TypeOK, NEW status, NEW op, Away(status, op) PROVE NoticeKept
BY LetGo, ForgottenAll DEF Away, NoticeKept, TypeOK, ControllerTyped

LEMMA NoticeOpening == ASSUME TypeOK, Opening PROVE NoticeKept
<1>1. CASE OpenTab
  BY <1>1, NoticeLoaded DEF OpenTab
<1>2. ASSUME NEW caps \in Offers, ConfigurationLoads(caps) PROVE NoticeKept
  BY <1>2, ClearedAccount DEF ConfigurationLoads, NoticeKept, TypeOK
<1>3. CASE ConfigurationFails
  BY <1>3 DEF ConfigurationFails, NoticeKept
<1>4. ASSUME NEW discard \in BOOLEAN, RetryConfiguration(discard) PROVE NoticeKept
  BY <1>4, LetGo, ForgottenAll DEF RetryConfiguration, NoticeKept, TypeOK, ControllerTyped
<1>5. ASSUME NEW c \in conts, Initialize(c) PROVE NoticeKept
  <2>1. disk'.notice = disk.notice /\ disk'.build = disk.build
    <3>1. ASSUME BecomeReady(Demo(disk.demo), None), disk.demo # None
          PROVE  disk'.notice = disk.notice /\ disk'.build = disk.build
      BY <3>1, PersistedDisk DEF BecomeReady, TypeOK, Storages, Maybe, Identities, Demos
    <3>2. /\ [AccountCleared(disk) EXCEPT !.selected = "none"].notice = disk.notice
          /\ [AccountCleared(disk) EXCEPT !.selected = "none"].build = disk.build
      BY ClearedAccount DEF TypeOK, Storages
    <3>3. /\ AdapterCleared(disk).notice = disk.notice /\ [disk EXCEPT !.demo = None].notice = disk.notice
          /\ AdapterCleared(disk).build = disk.build /\ [disk EXCEPT !.demo = None].build = disk.build
      BY ClearedAdapter DEF TypeOK, Storages, ControllerTyped
    <3> QED BY <1>5, <3>1, <3>2, <3>3 DEF Initialize
  <2> QED BY <1>5, <2>1, LetGo DEF Initialize, NoticeKept
<1>6. ASSUME NEW c \in conts, RestoreAccount(c) PROVE NoticeKept
  BY <1>6 DEF RestoreAccount, NoticeKept
<1>7. ASSUME NEW c \in conts, Restored(c) PROVE NoticeKept
  <2>1. ASSUME BecomeReady(LocalWorkspace, None) PROVE disk'.notice = disk.notice /\ disk'.build = disk.build
    BY <2>1, PersistedDisk DEF BecomeReady, TypeOK, Identities
  <2>2. AccountCleared(disk).notice = disk.notice /\ AccountCleared(disk).build = disk.build
    BY ClearedAccount DEF TypeOK
  <2> QED BY <1>7, <2>1, <2>2 DEF Restored, NoticeKept
<1> QED BY <1>1, <1>2, <1>3, <1>4, <1>5, <1>6, <1>7 DEF Opening

LEMMA NoticeStarting == ASSUME TypeOK, Starting PROVE NoticeKept
<1> DEFINE Same(l) == l.dispatched = log.dispatched /\ l.erased = log.erased
<1>1. ASSUME NEW S PROVE Same([log EXCEPT !.given = @ \cup S])
  BY DEF TypeOK, Logs
<1>2. ASSUME NEW S PROVE Same([log EXCEPT !.demos = @ \cup S])
  BY DEF TypeOK, Logs
<1>3. ASSUME NEW S PROVE Same(KeyMade([log EXCEPT !.given = @ \cup S]))
  <2> DEFINE l == [log EXCEPT !.given = @ \cup S]
  <2>1. Same(l) /\ DOMAIN l = DOMAIN log
    BY <1>1 DEF TypeOK, Logs
  <2>2. [l EXCEPT !.names = @ + 1].dispatched = l.dispatched /\ [l EXCEPT !.names = @ + 1].erased = l.erased
    BY DEF TypeOK, Logs
  <2> HIDE DEF l
  <2> QED BY <2>1, <2>2 DEF KeyMade
<1>4. ASSUME NEW who \in Identities, NEW op, BecomeReady(who, op)
      PROVE  disk'.notice = disk.notice /\ disk'.build = disk.build
  BY <1>4, PersistedDisk DEF BecomeReady, TypeOK
<1>5. ASSUME NEW reset \in BOOLEAN, Activate(reset) PROVE NoticeKept
  <2>1. disk'.notice = disk.notice /\ disk'.build = disk.build
    BY <1>5, ClearedAdapter DEF Activate, TypeOK, ControllerTyped
  <2> QED BY <1>3, <1>5, <2>1 DEF Activate, NoticeKept
<1>6. ASSUME NEW c \in conts, Activated(c) PROVE NoticeKept
  <2>1. (IF Local THEN LocalWorkspace ELSE Demo(c.arg.key)) \in Identities
    BY <1>6, SuspendedArgs DEF Activated, Resume, TypeOK, ContsTyped, ForBuild, Identities, Demos, Maybe
  <2>2. Same(log')
    <3>1. Same([log EXCEPT !.demos = @ \cup {c.arg.key}, !.given = @ \cup PreviousKey(c)])
      BY DEF TypeOK, Logs
    <3> QED BY <1>6, <3>1 DEF Activated
  <2> QED BY <1>4, <1>6, <2>1, <2>2 DEF Activated, NoticeKept
<1>7. ASSUME NEW c \in conts, ActivationRefused(c) \/ ActivationUnclear(c) PROVE NoticeKept
  <2>1. c.arg.previous # None => c.arg.previous \in Identities
    BY <1>7, SuspendedArgs DEF ActivationRefused, ActivationUnclear, Resume, TypeOK, ContsTyped, Identities, Maybe
  <2>2. PICK S : FallBack(c, S)
    BY <1>7 DEF ActivationRefused, ActivationUnclear
  <2>3. disk'.notice = disk.notice /\ disk'.build = disk.build
    BY <1>4, <2>1, <2>2 DEF FallBack
  <2>4. Same([log EXCEPT !.given = @ \cup S]) /\ Same([log EXCEPT !.given = @ \cup S \cup PreviousKey(c)])
    BY DEF TypeOK, Logs
  <2> QED BY <2>2, <2>3, <2>4 DEF FallBack, NoticeKept
<1>8. ASSUME NEW c \in conts, EnterDemo(c) PROVE NoticeKept
  <2>1. CASE Pending /\ ctl.adapter = "demo"
    BY <1>8, <2>1 DEF EnterDemo, NoticeKept, TypeOK, Storages
  <2>2. CASE ~ (Pending /\ ctl.adapter = "demo")
    <3> DEFINE cleared == IF ctl.adapter = "account" THEN AccountCleared(disk) ELSE disk
    <3>1. cleared \in Storages /\ cleared.notice = disk.notice /\ cleared.build = disk.build
      BY ClearedAccount DEF TypeOK
    <3>2. disk' = [cleared EXCEPT !.selected = "demo", !.demo = None]
      BY <1>8, <2>2 DEF EnterDemo
    <3>3. Same(log')
      BY <1>3, <1>8, <2>2 DEF EnterDemo
    <3> HIDE DEF cleared
    <3> QED BY <3>1, <3>2, <3>3 DEF NoticeKept, Storages
  <2> QED BY <2>1, <2>2
<1>9. ASSUME NEW c \in conts, ServerProvisions(c) \/ DemoRefused(c) PROVE NoticeKept
  BY <1>2, <1>9 DEF ServerProvisions, DemoRefused, NoticeKept
<1>10. CASE AbandonReset \/ \E discard \in BOOLEAN : AskForDemo(discard)
  BY <1>1, <1>10 DEF AbandonReset, AskForDemo, NoticeKept
<1> QED BY <1>5, <1>6, <1>7, <1>8, <1>9, <1>10 DEF Starting

\* A sign-in that is started forgets the deletion of the tab's last account.
LEMMA NoticeReset ==
    ASSUME TypeOK, NEW intent, NEW entry, StartAccountLogin(intent, entry)
    PROVE  disk'.notice = None /\ disk'.build = disk.build /\ ~ log'.dispatched
<1>1. AdapterCleared(disk) \in Storages /\ AdapterCleared(disk).build = disk.build
  BY ClearedAdapter DEF TypeOK, ControllerTyped
<1>2. disk' = [AdapterCleared(disk) EXCEPT !.selected = "cognito", !.notice = None]
  BY DEF StartAccountLogin
<1>3. disk'.notice = None /\ disk'.build = disk.build
  BY <1>1, <1>2 DEF Storages
<1> DEFINE named == IF intent = None THEN GivenUp.names ELSE intent.id
<1>4. log' = [GivenUp EXCEPT !.dispatched = FALSE, !.names = named]
  BY DEF StartAccountLogin
<1>5. ~ log'.dispatched
  <2>1. DOMAIN GivenUp = DOMAIN log
    BY DEF GivenUp
  <2>2. "dispatched" \in DOMAIN log
    BY DEF TypeOK, Logs
  <2> HIDE DEF named
  <2> QED BY <1>4, <2>1, <2>2
<1> QED BY <1>3, <1>5

LEMMA NoticeSigningIn ==
    ASSUME TypeOK, SigningIn
    PROVE  (DeletionNoticed => DeletionNoticed') /\ disk'.build = disk.build
<1>1. NoticeKept => (DeletionNoticed => DeletionNoticed') /\ disk'.build = disk.build
  BY DEF NoticeKept, DeletionNoticed
<1>2. ASSUME NEW entry \in {"signin", "signup"}, NEW discard \in BOOLEAN, BeginSignIn(entry, discard)
      PROVE  (DeletionNoticed => DeletionNoticed') /\ disk'.build = disk.build
  BY <1>2, NoticeReset, AbsentApart DEF BeginSignIn, DeletionNoticed
<1>3. ASSUME NEW c \in conts, LoginRedirects(c) PROVE NoticeKept
  <2> DEFINE tx == [name |-> Fresh, intent |-> IF c.arg.intent = None THEN None ELSE c.arg.intent.id]
  <2>1. disk' = [disk EXCEPT !.tx = tx, !.intent = c.arg.intent]
    BY <1>3 DEF LoginRedirects
  <2> HIDE DEF tx
  <2>2. disk'.notice = disk.notice /\ disk'.build = disk.build
    BY <2>1 DEF Storages, TypeOK
  <2>3. log' = [log EXCEPT !.names = Fresh]
    BY <1>3 DEF LoginRedirects
  <2> QED BY <2>2, <2>3 DEF NoticeKept, TypeOK, Logs
<1>4. ASSUME NEW c \in conts, LoginBegins(c) \/ LoginFails(c) PROVE NoticeKept
  BY <1>4, ClearedAccount DEF LoginBegins, LoginFails, AccountForgotten, NoticeKept, TypeOK
<1>5. CASE ProviderAnswers \/ Revisit
  BY <1>1, <1>5, NoticeLoaded DEF ProviderAnswers, Revisit
<1>6. CASE CompleteOAuthCallback \/ \E c \in conts : CallbackRefused(c)
  BY <1>1, <1>6 DEF CompleteOAuthCallback, CallbackRefused, NoticeKept
<1>7. ASSUME NEW c \in conts, CallbackProceeds(c) PROVE NoticeKept
  BY <1>7, LetGo DEF CallbackProceeds, NoticeKept, TypeOK, Storages
<1>8. ASSUME NEW c \in conts, ExchangeRefused(c) \/ TokensRefused(c) PROVE NoticeKept
  <2>1. PICK cleared \in {disk, AccountCleared(disk)} : ExchangeFailed(c, cleared)
    BY <1>8 DEF ExchangeRefused, TokensRefused
  <2> QED BY <2>1, ClearedAccount DEF ExchangeFailed, AccountForgotten, NoticeKept, TypeOK
<1>9. ASSUME NEW c \in conts, ExchangeStarts(c) PROVE NoticeKept
  BY <1>9 DEF ExchangeStarts, NoticeKept, TypeOK, Storages
<1>10. ASSUME NEW c \in conts, TokensArrive(c) PROVE NoticeKept
  <2>1. disk'.notice = disk.notice /\ disk'.build = disk.build
    BY <1>10 DEF TokensArrive, TypeOK, Storages
  <2>2. log'.dispatched = log.dispatched /\ log'.erased = log.erased
    BY <1>10 DEF TokensArrive, TypeOK, Logs
  <2> QED BY <2>1, <2>2 DEF NoticeKept
<1> QED BY <1>1, <1>2, <1>3, <1>4, <1>5, <1>6, <1>7, <1>8, <1>9, <1>10 DEF SigningIn

LEMMA NoticeUsing == ASSUME TypeOK, UsingAccount PROVE NoticeKept
<1>1. ASSUME NEW c \in conts, Bootstrapped(c) PROVE NoticeKept
  BY <1>1, PersistedDisk DEF Bootstrapped, BecomeReady, NoticeKept, TypeOK, Maybe, Identities
<1>2. ASSUME NEW c \in conts, IdentityMismatch(c) \/ BootstrapFails(c) PROVE NoticeKept
  BY <1>2, ClearedAccount DEF IdentityMismatch, BootstrapFails, AccountForgotten, NoticeKept, TypeOK
<1>3. CASE RetryAccountBootstrap
  BY <1>3 DEF RetryAccountBootstrap, NoticeKept
<1> QED BY <1>1, <1>2, <1>3 DEF UsingAccount

LEMMA NoticeEnding == ASSUME TypeOK, Ending PROVE NoticeKept
<1>1. /\ [AccountCleared(disk) EXCEPT !.selected = "none"].notice = disk.notice
      /\ [AccountCleared(disk) EXCEPT !.selected = "none"].build = disk.build
      /\ AccountCleared(disk).notice = disk.notice /\ AccountCleared(disk).build = disk.build
  BY ClearedAccount DEF TypeOK, Storages
<1>2. CASE \E discard \in BOOLEAN : Leave(discard)
  BY <1>2, NoticeAway DEF Leave
<1>3. ASSUME NEW discard \in BOOLEAN, SignOut(discard) PROVE NoticeKept
  BY <1>1, <1>3, LetGo, NoticeAway DEF SignOut, Leave, NoticeKept
<1>4. CASE Unauthorized \/ DemoExpires
  BY <1>4, NoticeAway DEF Unauthorized, DemoExpires
<1>5. CASE RenewalFails \/ AcceptSignedOut
  BY <1>1, <1>5 DEF RenewalFails, AcceptSignedOut, NoticeKept
<1>6. CASE AnotherTabSignsOut
  BY <1>1, <1>6, NoticeAway DEF AnotherTabSignsOut, AccountForgotten, NoticeKept
<1>7. CASE ProviderSignedOut
  BY <1>7, NoticeLoaded DEF ProviderSignedOut
<1>8. CASE \E c \in conts : Revoked(c) \/ Retire(c)
  BY <1>8 DEF Revoked, Retire, NoticeKept
<1> QED BY <1>2, <1>3, <1>4, <1>5, <1>6, <1>7, <1>8 DEF Ending

LEMMA NoticeSensitive ==
    ASSUME TypeOK, Sensitive
    PROVE  (DeletionNoticed => DeletionNoticed') /\ disk'.build = disk.build
<1>1. NoticeKept => (DeletionNoticed => DeletionNoticed') /\ disk'.build = disk.build
  BY DEF NoticeKept, DeletionNoticed
<1>2. ASSUME NEW want \in Wants, BeginSensitiveOperation(want)
      PROVE  (DeletionNoticed => DeletionNoticed') /\ disk'.build = disk.build
  BY <1>2, NoticeReset, AbsentApart DEF BeginSensitiveOperation, DeletionNoticed
<1>3. ASSUME NEW want \in {"export", "delete"}, Performing(want)
      PROVE  (DeletionNoticed => DeletionNoticed') /\ disk'.build = disk.build
  <2>1. disk'.build = disk.build /\ disk'.notice = IF want = "delete" THEN "unknown" ELSE disk.notice
    BY <1>3 DEF Performing, TypeOK, Storages
  <2> DEFINE now == log.dispatched \/ want = "delete"
  <2>2. now \in BOOLEAN
    OBVIOUS
  <2>3. log' = [log EXCEPT !.requests = @ + 1, !.performed = @ \cup {<<manage.intent.id, mem>>},
                           !.dispatched = now]
    BY <1>3 DEF Performing
  <2>4. log'.dispatched = now /\ log'.erased = log.erased
    <3> HIDE DEF now
    <3> QED BY <2>2, <2>3 DEF TypeOK, Logs
  <2> QED BY <2>1, <2>4, AbsentApart DEF DeletionNoticed
<1>4. CASE ReviewAccountDeletion \/ \E c \in conts : Exported(c) \/ SensitiveFails(c) \/ DeletionUnfinished(c)
  BY <1>1, <1>4 DEF ReviewAccountDeletion, Exported, SensitiveFails, DeletionUnfinished, NoticeKept
<1>5. ASSUME NEW c \in conts, ServerErases(c)
      PROVE  (DeletionNoticed => DeletionNoticed') /\ disk'.build = disk.build
  BY <1>5 DEF ServerErases, DeletionNoticed, TypeOK, Logs
<1>6. ASSUME NEW c \in conts, NEW complete \in BOOLEAN, DeletionFinalized(c, complete)
      PROVE  (DeletionNoticed => DeletionNoticed') /\ disk'.build = disk.build
  <2>1. AccountCleared(disk) \in Storages /\ AccountCleared(disk).build = disk.build
    BY ClearedAccount DEF TypeOK
  <2>2. disk'.build = disk.build /\ disk'.notice = IF complete THEN "complete" ELSE "review"
    BY <1>6, <2>1 DEF DeletionFinalized, Storages
  <2> QED BY <1>6, <2>2, AbsentApart DEF DeletionFinalized, DeletionNoticed
<1> QED BY <1>2, <1>3, <1>4, <1>5, <1>6 DEF Sensitive, PerformSensitiveExport, PerformAccountDeletion

\* A tab is served one build for good.
LEMMA LocalKept == TypeOK /\ [Next]_tabVars => disk'.build = disk.build /\ Local' = Local
<1> SUFFICES ASSUME TypeOK, [Next]_tabVars PROVE disk'.build = disk.build
  BY DEF Local
<1>1. CASE Editing \/ UNCHANGED tabVars
  BY <1>1 DEF Editing, Edit, Settle, tabVars
<1> QED BY <1>1, NoticeOpening, NoticeStarting, NoticeSigningIn, NoticeUsing, NoticeEnding, NoticeSensitive
        DEF Next, Plain, NoticeKept

(***************************************************************************)
(* A deletion that was sent is remembered until the next sign-in, whatever *)
(* is left, lost or loaded meanwhile.                                      *)
(***************************************************************************)
THEOREM NoticeIsKept == Spec => []DeletionNoticed
<1>1. Init => DeletionNoticed
  BY AbsentApart DEF Init, TabInit, EmptyDisk, DeletionNoticed
<1>2. TypeOK /\ DeletionNoticed /\ [Next]_tabVars => DeletionNoticed'
  <2> SUFFICES ASSUME TypeOK, DeletionNoticed, [Next]_tabVars PROVE DeletionNoticed'
    OBVIOUS
  <2>1. NoticeKept => DeletionNoticed'
    BY DEF NoticeKept, DeletionNoticed
  <2>2. CASE Editing \/ UNCHANGED tabVars
    BY <2>1, <2>2 DEF Editing, Edit, Settle, tabVars, NoticeKept
  <2> QED BY <2>1, <2>2, NoticeOpening, NoticeStarting, NoticeSigningIn, NoticeUsing, NoticeEnding, NoticeSensitive
          DEF Next, Plain
<1> QED BY <1>1, <1>2, SessionTyped, PTL DEF Spec

-----------------------------------------------------------------------------
(***************************************************************************)
(* What a continuation waits under, and that it waits alone.               *)
(***************************************************************************)
Now(c) == c.scope = gen

\* The statuses shown while a continuation of the present scope waits.
Shown == [initialize |-> {"initializing"}, restore |-> {"restoring", "bootstrapping"},
          activate |-> {"switching", "activating", "bootstrapping"}, login |-> {"authenticating"},
          callback |-> {"callback"}, exchange |-> {"callback"}, tokens |-> {"callback"},
          bootstrap |-> {"restoring", "bootstrapping", "callback"}, revoke |-> {"signing-out"},
          export |-> {"account-management"}, delete |-> {"account-management"},
          review |-> {"account-management"}]

\* What may wait beside another.
Aside == {"demo", "export", "delete", "review"}

InScope ==
    \A c \in conts :
        /\ c.scope <= gen
        /\ c.scope = 1 => c.kind \in Aside \cup {"initialize"} \/ (Local /\ c.kind = "restore")
        /\ c.kind = "initialize" => c.scope = 1 /\ ~ Local

Visible == \A c \in conts : Now(c) /\ c.kind # "demo" => view.status \in Shown[c.kind]

Alone == \A c, d \in conts : Now(c) /\ Now(d) /\ c.kind \notin Aside /\ d.kind \notin Aside => c = d

Core == InScope /\ Visible /\ Alone

LEMMA ShownKinds ==
    ASSUME NEW c \in Suspended, c.kind # "demo"
    PROVE  /\ c.kind \in Aside => Shown[c.kind] = {"account-management"}
           /\ c.kind \notin Aside => Shown[c.kind] \subseteq Transient
BY SuspendedArgs DEF Shown, Aside, Transient

\* An answer leaves nothing of its scope behind but requests for a demo.
LEMMA Last ==
    ASSUME TypeOK, Core, NEW c \in conts, Now(c), c.kind \notin Aside
    PROVE  /\ view.status \in Transient
           /\ \A d \in conts \ {c} : Now(d) => d.kind = "demo"
<1>1. view.status \in Transient
  BY ShownKinds DEF Core, Visible, TypeOK, ContsTyped, Aside
<1>2. ASSUME NEW d \in conts \ {c}, Now(d), d.kind # "demo" PROVE FALSE
  <2>1. d.kind \in Aside
    BY <1>2 DEF Core, Alone
  <2>2. view.status = "account-management"
    BY <1>2, <2>1, ShownKinds DEF Core, Visible, TypeOK, ContsTyped
  <2> QED BY <1>1, <2>2 DEF Transient
<1> QED BY <1>1, <1>2

\* The scope stays, and what is shown with it.
LEMMA CoreStays ==
    ASSUME TypeOK, Core, Local' = Local, gen' = gen, view'.status = view.status, conts' \subseteq conts
    PROVE  Core'
BY DEF Core, InScope, Visible, Alone, Now

\* The continuation of a scope is answered, or goes on to wait for the next answer.
LEMMA CoreAnswered ==
    ASSUME TypeOK, Core, Local' = Local, gen' = gen, NEW c \in conts, Now(c), c.kind \notin Aside,
           conts' \subseteq conts \ {c}
    PROVE  Core'
<1>1. \A d \in conts' : Now(d) => d.kind = "demo"
  BY Last
<1> QED BY <1>1 DEF Core, InScope, Visible, Alone, Now, Aside

LEMMA CoreGoesOn ==
    ASSUME TypeOK, Core, Local' = Local, gen' = gen, NEW c \in conts, Now(c), c.kind \notin Aside, gen # 1,
           NEW n \in Suspended, n.scope = gen, n.kind \notin Aside \cup {"initialize"}, view'.status \in Shown[n.kind],
           conts' \subseteq (conts \ {c}) \cup {n}
    PROVE  Core'
<1>1. \A d \in conts \ {c} : Now(d) => d.kind = "demo"
  BY Last
<1>2. \A d \in conts' : Now(d) => d.kind = "demo" \/ d = n
  BY <1>1
<1>3. InScope'
  BY TabAssumption DEF Core, InScope, TypeOK, Scopes
<1> QED BY <1>2, <1>3 DEF Core, Visible, Alone, Now, Aside

\* A request of its own beside what waits.
LEMMA CoreBeside ==
    ASSUME TypeOK, Core, Local' = Local, gen' = gen, view'.status = view.status,
           NEW n \in Suspended, n.scope = gen, n.kind \in Aside,
           n.kind # "demo" => view.status = "account-management",
           conts' \subseteq conts \cup {n}
    PROVE  Core'
<1>1. n.kind # "demo" => Shown[n.kind] = {"account-management"}
  BY ShownKinds
<1>2. InScope'
  BY TabAssumption DEF Core, InScope, TypeOK, Scopes, Aside
<1> QED BY <1>1, <1>2 DEF Core, Visible, Alone, Now

\* The controller moves to a new scope, under which nothing waits yet.
LEMMA CoreMoves ==
    ASSUME TypeOK, Core, Local' = Local, gen' \in Scopes, gen < gen', conts' \subseteq conts
    PROVE  Core'
<1>1. \A d \in conts' : d.scope # gen' /\ d.scope <= gen'
  BY SuspendedArgs DEF Core, InScope, TypeOK, ContsTyped, Scopes
<1> QED BY <1>1 DEF Core, InScope, Visible, Alone, Now

LEMMA CoreStarts ==
    ASSUME TypeOK, Core, Local' = Local, gen' \in Scopes, gen < gen',
           NEW n \in Suspended, n.scope = gen', n.kind \notin Aside \cup {"initialize"}, view'.status \in Shown[n.kind],
           conts' \subseteq conts \cup {n}
    PROVE  Core'
<1>1. \A d \in conts : d.scope # gen' /\ d.scope <= gen'
  BY SuspendedArgs DEF Core, InScope, TypeOK, ContsTyped, Scopes
<1>2. gen' # 1
  BY DEF TypeOK, Scopes
<1>3. \A d \in conts' : d.scope = gen' => d = n
  BY <1>1
<1>4. InScope'
  BY <1>1, <1>2 DEF Core, InScope, Scopes
<1> QED BY <1>3, <1>4 DEF Visible, Alone, Core, Now, Aside

LEMMA CoreLoads == ASSUME TypeOK, NEW path, NEW code, Load(path, code) PROVE Core'
BY DEF Load, FirstView, FirstWait, FirstStatus, Core, InScope, Visible, Alone, Now, Shown, Local, Aside

\* Every step of a controller keeps its continuations in order.
LEMMA CoreDeparts ==
    ASSUME TypeOK, TypeOK', Core, Local' = Local, NEW status, NEW op, Away(status, op)
    PROVE  Core'
BY CoreMoves DEF Away, Move, TypeOK, Scopes

LEMMA CoreReady ==
    ASSUME TypeOK, TypeOK', Core, Local' = Local, NEW who, NEW op, BecomeReady(who, op), conts' \subseteq conts
    PROVE  Core'
BY CoreMoves DEF BecomeReady, Move, TypeOK, Scopes

LEMMA CoreOpening == ASSUME TypeOK, TypeOK', Core, Local' = Local, Opening PROVE Core'
<1>1. CASE OpenTab
  BY <1>1, CoreLoads DEF OpenTab
<1>2. CASE ConfigurationFails \/ \E caps \in Offers : ConfigurationLoads(caps)
  BY <1>2, CoreStays DEF ConfigurationFails, ConfigurationLoads
<1>3. CASE \E discard \in BOOLEAN : RetryConfiguration(discard)
  BY <1>3, CoreMoves DEF RetryConfiguration, Move, TypeOK, Scopes
<1>4. ASSUME NEW c \in conts, Initialize(c) PROVE Core'
  <2>1. Now(c) /\ c.kind \notin Aside
    BY <1>4 DEF Initialize, Resume, Now, Aside
  <2>2. conts' = conts \ {c}
    BY <1>4 DEF Initialize
  <2>3. gen' = gen \/ \E who : BecomeReady(who, None)
    BY <1>4 DEF Initialize, Publish
  <2> QED BY <2>1, <2>2, <2>3, CoreAnswered, CoreReady
<1>5. ASSUME NEW c \in conts, RestoreAccount(c) PROVE Core'
  <2> DEFINE n == Wait("restore", None)
  <2>1. n \in Suspended /\ n.scope = gen' /\ n.kind = "restore" /\ conts' = (conts \ {c}) \cup {n}
    BY <1>5 DEF RestoreAccount, TypeOK, ContsTyped, Wait
  <2>2. view'.status \in Shown["restore"] /\ gen < gen'
    BY <1>5 DEF RestoreAccount, Move, PublishAs, Shown, TypeOK, Scopes
  <2> QED BY <2>1, <2>2, CoreStarts DEF Aside, TypeOK
<1>6. ASSUME NEW c \in conts, Restored(c) PROVE Core'
  <2>1. Now(c) /\ c.kind = "restore" /\ c.kind \notin Aside
    BY <1>6 DEF Restored, Resume, Now, Aside
  <2>2. CASE conts' = conts \ {c}
    <3>1. gen' = gen \/ \E who : BecomeReady(who, None)
      BY <1>6, <2>2 DEF Restored, Publish
    <3> QED BY <2>1, <2>2, <3>1, CoreAnswered, CoreReady
  <2>3. CASE conts' # conts \ {c}
    <3>1. gen' = gen /\ UNCHANGED view /\ conts' = (conts \ {c}) \cup {Wait("bootstrap", None)} /\ ctl.adapter # "local"
      BY <1>6, <2>3 DEF Restored
    <3>2. gen # 1
      BY <2>1, <3>1 DEF Core, InScope, TypeOK, ControllerTyped, Now, Aside
    <3>3. view'.status \in Shown["bootstrap"]
      BY <2>1, <3>1 DEF Core, Visible, Shown
    <3>4. Wait("bootstrap", None) \in Suspended /\ Wait("bootstrap", None).scope = gen
          /\ Wait("bootstrap", None).kind = "bootstrap"
      BY <3>1 DEF TypeOK, ContsTyped, Wait
    <3> QED BY <2>1, <3>1, <3>2, <3>3, <3>4, CoreGoesOn DEF Aside
  <2> QED BY <2>2, <2>3
<1> QED BY <1>1, <1>2, <1>3, <1>4, <1>5, <1>6 DEF Opening

LEMMA CoreStarting == ASSUME TypeOK, TypeOK', Core, Local' = Local, Starting PROVE Core'
<1>1. ASSUME NEW reset \in BOOLEAN, Activate(reset) PROVE Core'
  <2>1. PICK arg : conts' = conts \cup {Wait("activate", arg)}
    BY <1>1 DEF Activate, Start
  <2>2. view'.status \in Shown["activate"]
    BY <1>1 DEF Activate, Move, PublishAs, Shown
  <2>3. Wait("activate", arg) \in Suspended /\ Wait("activate", arg).scope = gen'
        /\ Wait("activate", arg).kind = "activate"
    BY <2>1 DEF TypeOK, ContsTyped, Wait
  <2>4. gen < gen'
    BY <1>1 DEF Activate, Move, TypeOK, Scopes
  <2> QED BY <2>1, <2>2, <2>3, <2>4, CoreStarts DEF Aside, TypeOK
<1>2. ASSUME NEW c \in conts, Activated(c) PROVE Core'
  BY <1>2, CoreReady DEF Activated
<1>3. ASSUME NEW c \in conts, ActivationRefused(c) \/ ActivationUnclear(c) PROVE Core'
  <2>1. Now(c) /\ c.kind \notin Aside /\ conts' = conts \ {c}
    BY <1>3 DEF ActivationRefused, ActivationUnclear, Resume, Now, Aside
  <2>2. PICK S : FallBack(c, S)
    BY <1>3 DEF ActivationRefused, ActivationUnclear
  <2>3. gen' = gen \/ BecomeReady(c.arg.previous, "error")
    BY <2>2 DEF FallBack, Publish
  <2> QED BY <2>1, <2>3, CoreAnswered, CoreReady
<1>4. ASSUME NEW c \in conts, EnterDemo(c) PROVE Core'
  <2>1. CASE Pending /\ ctl.adapter = "demo"
    BY <1>4, <2>1, CoreStays DEF EnterDemo
  <2>2. CASE ~ (Pending /\ ctl.adapter = "demo")
    <3>1. PICK arg : conts' = (conts \ {c}) \cup {Wait("activate", arg)}
      BY <1>4, <2>2 DEF EnterDemo, Start
    <3>2. view'.status \in Shown["activate"] /\ gen < gen'
      BY <1>4, <2>2 DEF EnterDemo, PublishAs, Shown, TypeOK, Scopes
    <3>3. Wait("activate", arg) \in Suspended /\ Wait("activate", arg).scope = gen'
          /\ Wait("activate", arg).kind = "activate"
      BY <3>1 DEF TypeOK, ContsTyped, Wait
    <3> QED BY <3>1, <3>2, <3>3, CoreStarts DEF Aside, TypeOK
  <2> QED BY <2>1, <2>2
<1>5. ASSUME NEW c \in conts, ServerProvisions(c) \/ DemoRefused(c) PROVE Core'
  BY <1>5, CoreStays DEF ServerProvisions, DemoRefused
<1>6. CASE AbandonReset
  <2>1. view'.status = view.status
    BY <1>6 DEF AbandonReset, TypeOK, ViewTyped
  <2> QED BY <1>6, <2>1, CoreStays DEF AbandonReset
<1>7. ASSUME NEW discard \in BOOLEAN, AskForDemo(discard) PROVE Core'
  <2> DEFINE n == [kind |-> "demo", scope |-> gen, arg |-> None]
  <2>1. n \in Suspended /\ n.scope = gen /\ n.kind = "demo"
    BY <1>7 DEF AskForDemo, TypeOK, ContsTyped
  <2> QED BY <1>7, <2>1, CoreBeside DEF AskForDemo, Aside
<1> QED BY <1>1, <1>2, <1>3, <1>4, <1>5, <1>6, <1>7 DEF Starting

LEMMA CoreLogin ==
    ASSUME TypeOK, TypeOK', Core, Local' = Local, NEW intent, NEW entry, StartAccountLogin(intent, entry)
    PROVE  Core'
<1> DEFINE n == Wait("login", [intent |-> intent, entry |-> entry, begun |-> FALSE])
<1>1. n \in Suspended /\ n.scope = gen' /\ n.kind = "login" /\ conts' = conts \cup {n}
  BY DEF StartAccountLogin, TypeOK, ContsTyped, Wait
<1>2. view'.status \in Shown["login"] /\ gen < gen'
  BY DEF StartAccountLogin, Move, PublishAs, Shown, TypeOK, Scopes
<1> QED BY <1>1, <1>2, CoreStarts DEF Aside, TypeOK

LEMMA CoreSigningIn == ASSUME TypeOK, TypeOK', Core, Local' = Local, SigningIn PROVE Core'
<1>1. CASE \E entry \in {"signin", "signup"}, discard \in BOOLEAN : BeginSignIn(entry, discard)
  BY <1>1, CoreLogin DEF BeginSignIn
<1>2. CASE ProviderAnswers \/ Revisit
  BY <1>2, CoreLoads DEF ProviderAnswers, Revisit
<1>3. ASSUME NEW c \in conts, LoginRedirects(c) \/ LoginFails(c) \/ CallbackRefused(c)
      PROVE  Core'
  <2>1. Now(c) /\ c.kind \notin Aside /\ conts' = conts \ {c} /\ gen' = gen
    BY <1>3 DEF LoginRedirects, LoginFails, CallbackRefused, Publish, Resume, Now, Aside
  <2> QED BY <2>1, CoreAnswered
<1>4. ASSUME NEW c \in conts, ExchangeRefused(c) \/ TokensRefused(c) PROVE Core'
  <2>1. Now(c) /\ c.kind \notin Aside
    BY <1>4 DEF ExchangeRefused, TokensRefused, Resume, Now, Aside
  <2>2. conts' = conts \ {c} /\ gen' = gen
    BY <1>4 DEF ExchangeRefused, TokensRefused, ExchangeFailed, Publish
  <2> QED BY <2>1, <2>2, CoreAnswered
<1>5. CASE CompleteOAuthCallback
  <2> DEFINE n == Wait("callback", page.code)
  <2>1. n \in Suspended /\ n.scope = gen' /\ n.kind = "callback" /\ conts' = conts \cup {n}
    BY <1>5 DEF CompleteOAuthCallback, TypeOK, ContsTyped, Wait
  <2>2. view'.status \in Shown["callback"] /\ gen < gen'
    BY <1>5 DEF CompleteOAuthCallback, Move, PublishAs, Shown, TypeOK, Scopes
  <2> QED BY <2>1, <2>2, CoreStarts DEF Aside, TypeOK
<1>6. ASSUME NEW c \in conts, CallbackProceeds(c) PROVE Core'
  <2> DEFINE n == Wait("exchange", [code |-> c.arg, intent |-> disk.intent])
  <2>1. n \in Suspended /\ n.scope = gen' /\ n.kind = "exchange" /\ conts' = (conts \ {c}) \cup {n}
    BY <1>6 DEF CallbackProceeds, TypeOK, ContsTyped, Wait
  <2>2. view'.status \in Shown["exchange"] /\ gen < gen'
    BY <1>6 DEF CallbackProceeds, Move, PublishAs, Shown, TypeOK, Scopes
  <2> QED BY <2>1, <2>2, CoreStarts DEF Aside, TypeOK
<1>7. ASSUME NEW c \in conts, ExchangeStarts(c) PROVE Core'
  <2>1. Now(c) /\ c.kind = "exchange" /\ c.kind \notin Aside
    BY <1>7 DEF ExchangeStarts, Resume, Now, Aside
  <2> DEFINE to == [subject |-> c.arg.code.subject, named |-> disk.tx.intent, intent |-> c.arg.intent]
             n == [c EXCEPT !.kind = "tokens", !.arg = to]
  <2>2. conts' = (conts \ {c}) \cup {n} /\ gen' = gen /\ UNCHANGED view
    BY <1>7 DEF ExchangeStarts
  <2>3. n \in Suspended
    BY <2>2 DEF TypeOK, ContsTyped
  <2>4. n.scope = gen /\ n.kind = "tokens"
    <3>1. c = [kind |-> c.kind, scope |-> c.scope, arg |-> c.arg]
      BY SuspendedArgs DEF TypeOK, ContsTyped
    <3> HIDE DEF to
    <3> QED BY <2>1, <3>1 DEF Now
  <2>5. gen # 1
    BY <2>1 DEF Core, InScope, Now, Aside
  <2>6. view'.status \in Shown["tokens"]
    BY <2>1, <2>2 DEF Core, Visible, Shown
  <2> HIDE DEF n
  <2> QED BY <2>1, <2>2, <2>3, <2>4, <2>5, <2>6, CoreGoesOn DEF Aside
<1>8. ASSUME NEW c \in conts, TokensArrive(c) PROVE Core'
  <2>1. Now(c) /\ c.kind = "tokens" /\ c.kind \notin Aside
    BY <1>8 DEF TokensArrive, Resume, Now, Aside
  <2>2. CASE c.arg.intent # None
    BY <1>8, <2>1, <2>2, CoreAnswered DEF TokensArrive, Publish
  <2>3. CASE c.arg.intent = None
    <3>1. gen' = gen /\ UNCHANGED view /\ conts' = (conts \ {c}) \cup {Wait("bootstrap", None)}
      BY <1>8, <2>3 DEF TokensArrive
    <3>2. gen # 1
      BY <2>1 DEF Core, InScope, Now, Aside
    <3>3. view'.status \in Shown["bootstrap"]
      BY <2>1, <3>1 DEF Core, Visible, Shown
    <3>4. Wait("bootstrap", None) \in Suspended /\ Wait("bootstrap", None).scope = gen
          /\ Wait("bootstrap", None).kind = "bootstrap"
      BY <3>1 DEF TypeOK, ContsTyped, Wait
    <3> QED BY <2>1, <3>1, <3>2, <3>3, <3>4, CoreGoesOn DEF Aside
  <2> QED BY <2>2, <2>3
<1>9. ASSUME NEW c \in conts, LoginBegins(c) PROVE Core'
  <2>1. Now(c) /\ c.kind = "login" /\ c.kind \notin Aside
    BY <1>9 DEF LoginBegins, Resume, Now, Aside
  <2> DEFINE n == Wait("login", [intent |-> c.arg.intent, entry |-> c.arg.entry, begun |-> TRUE])
  <2>2. conts' = (conts \ {c}) \cup {n} /\ gen' = gen /\ UNCHANGED view
    BY <1>9 DEF LoginBegins
  <2>3. n \in Suspended /\ n.kind = "login" /\ n.scope = gen
    BY <2>1, <2>2, BegunWait
  <2>4. gen # 1
    BY <2>1 DEF Core, InScope, Now, Aside
  <2>5. view'.status \in Shown["login"]
    BY <2>1, <2>2 DEF Core, Visible, Shown
  <2> HIDE DEF n
  <2> QED BY <2>1, <2>2, <2>3, <2>4, <2>5, CoreGoesOn DEF Aside
<1> QED BY <1>1, <1>2, <1>3, <1>4, <1>5, <1>6, <1>7, <1>8, <1>9 DEF SigningIn

LEMMA CoreUsing == ASSUME TypeOK, TypeOK', Core, Local' = Local, UsingAccount PROVE Core'
<1>1. ASSUME NEW c \in conts, Bootstrapped(c) PROVE Core'
  BY <1>1, CoreReady DEF Bootstrapped
<1>2. ASSUME NEW c \in conts, IdentityMismatch(c) \/ BootstrapFails(c) PROVE Core'
  <2>1. Now(c) /\ c.kind \notin Aside /\ conts' = conts \ {c} /\ gen' = gen
    BY <1>2 DEF IdentityMismatch, BootstrapFails, Publish, Resume, Now, Aside
  <2> QED BY <2>1, CoreAnswered
<1>3. CASE RetryAccountBootstrap
  <2> DEFINE n == Wait("bootstrap", None)
  <2>1. n \in Suspended /\ n.scope = gen' /\ n.kind = "bootstrap" /\ conts' = conts \cup {n}
    BY <1>3 DEF RetryAccountBootstrap, TypeOK, ContsTyped, Wait
  <2>2. view'.status \in Shown["bootstrap"] /\ gen < gen'
    BY <1>3 DEF RetryAccountBootstrap, Move, PublishAs, Shown, TypeOK, Scopes
  <2> QED BY <2>1, <2>2, CoreStarts DEF Aside, TypeOK
<1> QED BY <1>1, <1>2, <1>3 DEF UsingAccount

LEMMA CoreSensitive == ASSUME TypeOK, TypeOK', Core, Local' = Local, Sensitive PROVE Core'
<1>1. CASE \E want \in Wants : BeginSensitiveOperation(want)
  BY <1>1, CoreLogin DEF BeginSensitiveOperation
<1>2. ASSUME NEW want \in {"export", "delete"}, Performing(want) PROVE Core'
  <2> DEFINE n == Wait(want, manage)
  <2>1. n \in Suspended /\ n.scope = gen /\ n.kind \in Aside /\ conts' = conts \cup {n} /\ gen' = gen
    BY <1>2 DEF Performing, Managing, Publish, TypeOK, ContsTyped, Wait, Aside
  <2>2. view.status = "account-management" /\ view'.status = view.status
    BY <1>2 DEF Performing, Consumable, Managing, Publish, PublishAs
  <2> QED BY <2>1, <2>2, CoreBeside
<1>3. CASE ReviewAccountDeletion
  <2> DEFINE n == Wait("review", manage)
  <2>1. n \in Suspended /\ n.scope = gen /\ n.kind \in Aside /\ conts' = conts \cup {n} /\ gen' = gen
    BY <1>3 DEF ReviewAccountDeletion, Managing, Publish, TypeOK, ContsTyped, Wait, Aside
  <2>2. view.status = "account-management" /\ view'.status = view.status
    BY <1>3 DEF ReviewAccountDeletion, Managing, Publish, PublishAs
  <2> QED BY <2>1, <2>2, CoreBeside
<1>4. ASSUME NEW c \in conts, Exported(c) \/ SensitiveFails(c) \/ DeletionUnfinished(c) PROVE Core'
  <2>1. Now(c) /\ c.kind \in Aside \ {"demo"}
    BY <1>4, ManagingKinds DEF Exported, SensitiveFails, DeletionUnfinished, Resume, Now, Aside
  <2>2. view.status = "account-management"
    BY <2>1, ShownKinds DEF Core, Visible, TypeOK, ContsTyped
  <2>3. view'.status = view.status /\ gen' = gen /\ conts' \subseteq conts
    BY <1>4, <2>2 DEF Exported, SensitiveFails, DeletionUnfinished, Managing, Publish, PublishAs
  <2> QED BY <2>3, CoreStays
<1>5. ASSUME NEW c \in conts, ServerErases(c) PROVE Core'
  BY <1>5, CoreStays DEF ServerErases
<1>6. ASSUME NEW c \in conts, NEW complete \in BOOLEAN, DeletionFinalized(c, complete) PROVE Core'
  BY <1>6, CoreMoves DEF DeletionFinalized, Move, TypeOK, Scopes
<1> QED BY <1>1, <1>2, <1>3, <1>4, <1>5, <1>6 DEF Sensitive, PerformSensitiveExport, PerformAccountDeletion

LEMMA CoreEnding == ASSUME TypeOK, TypeOK', Core, Local' = Local, Ending PROVE Core'
<1>1. CASE (\E discard \in BOOLEAN : Leave(discard)) \/ Unauthorized \/ DemoExpires
  BY <1>1, CoreDeparts DEF Leave, Unauthorized, DemoExpires
<1>2. ASSUME NEW discard \in BOOLEAN, SignOut(discard) PROVE Core'
  <2>1. CASE ctl.adapter # "account"
    BY <1>2, <2>1, CoreDeparts DEF SignOut, Leave
  <2>2. CASE ctl.adapter = "account"
    <3> DEFINE n == Wait("revoke", None)
    <3>1. n \in Suspended /\ n.scope = gen' /\ n.kind = "revoke" /\ conts' = conts \cup {n}
      BY <1>2, <2>2 DEF SignOut, TypeOK, ContsTyped, Wait
    <3>2. view'.status \in Shown["revoke"] /\ gen < gen'
      BY <1>2, <2>2 DEF SignOut, Move, PublishAs, Shown, TypeOK, Scopes
    <3> QED BY <3>1, <3>2, CoreStarts DEF Aside, TypeOK
  <2> QED BY <2>1, <2>2
<1>3. CASE RenewalFails \/ AcceptSignedOut
  BY <1>3, CoreMoves DEF RenewalFails, AcceptSignedOut, Move, TypeOK, Scopes
<1>4. CASE AnotherTabSignsOut
  BY <1>4, CoreDeparts, CoreStays DEF AnotherTabSignsOut
<1>5. CASE ProviderSignedOut
  BY <1>5, CoreLoads DEF ProviderSignedOut
<1>6. ASSUME NEW c \in conts, Revoked(c) PROVE Core'
  <2>1. Now(c) /\ c.kind \notin Aside /\ conts' = conts \ {c} /\ gen' = gen
    BY <1>6 DEF Revoked, Publish, Resume, Now, Aside
  <2> QED BY <2>1, CoreAnswered
<1>7. ASSUME NEW c \in conts, Retire(c) PROVE Core'
  BY <1>7, CoreStays DEF Retire
<1> QED BY <1>1, <1>2, <1>3, <1>4, <1>5, <1>6, <1>7 DEF Ending

LEMMA CoreStep == TypeOK /\ TypeOK' /\ Core /\ [Next]_tabVars => Core'
<1> SUFFICES ASSUME TypeOK, TypeOK', Core, [Next]_tabVars PROVE Core'
  OBVIOUS
<1>1. Local' = Local
  BY LocalKept
<1>2. CASE Editing \/ UNCHANGED tabVars
  BY <1>1, <1>2, CoreStays DEF Editing, Edit, Settle, tabVars
<1> QED BY <1>1, <1>2, CoreOpening, CoreStarting, CoreSigningIn, CoreUsing, CoreSensitive, CoreEnding
        DEF Next, Plain

LEMMA CoreInit == Init => Core
BY DEF Init, TabInit, FirstView, FirstWait, FirstStatus, Core, InScope, Visible, Alone, Now, Shown, Aside

-----------------------------------------------------------------------------
(***************************************************************************)
(* The promise to the application: a workspace is entered only by a        *)
(* continuation that was shown to be entering one.                         *)
(***************************************************************************)
Enters ==
    /\ view'.status = "ready" =>
          view.status \in Transient \/ (view.status = "ready" /\ view'.who = view.who)
    /\ view'.status = "account-management" => view.status \in Transient \cup {"account-management"}

LEMMA EntersLoaded == ASSUME NEW path, NEW code, Load(path, code) PROVE Enters
BY DEF Load, FirstView, FirstStatus, Enters

LEMMA EntersLater ==
    ASSUME TypeOK, Core, NEW c \in conts, Now(c), c.kind \notin Aside
    PROVE  Enters
BY Last DEF Enters

LEMMA EntersOpening == ASSUME TypeOK, Core, Opening PROVE Enters
<1>1. CASE OpenTab \/ ConfigurationFails \/ \E caps \in Offers : ConfigurationLoads(caps)
  BY <1>1, EntersLoaded DEF OpenTab, ConfigurationFails, ConfigurationLoads, Enters, TypeOK, ViewTyped, Statuses
<1>2. CASE \E discard \in BOOLEAN : RetryConfiguration(discard)
  BY <1>2 DEF RetryConfiguration, Move, PublishAs, Enters
<1>3. CASE \E c \in conts : Initialize(c) \/ RestoreAccount(c) \/ Restored(c)
  BY <1>3, EntersLater DEF Initialize, RestoreAccount, Restored, Resume, Now, Aside
<1> QED BY <1>1, <1>2, <1>3 DEF Opening

LEMMA EntersStarting == ASSUME TypeOK, Core, Starting PROVE Enters
<1>1. CASE \E reset \in BOOLEAN : Activate(reset)
  BY <1>1 DEF Activate, Move, PublishAs, Enters
<1>2. CASE \E c \in conts : Activated(c) \/ ActivationRefused(c) \/ ActivationUnclear(c)
  BY <1>2, EntersLater DEF Activated, ActivationRefused, ActivationUnclear, Resume, Now, Aside
<1>3. ASSUME NEW c \in conts, EnterDemo(c) PROVE Enters
  BY <1>3 DEF EnterDemo, PublishAs, Enters, TypeOK, ViewTyped
<1>4. CASE \/ \E c \in conts : DemoRefused(c) \/ ServerProvisions(c)
           \/ \E discard \in BOOLEAN : AskForDemo(discard)
  BY <1>4 DEF DemoRefused, ServerProvisions, AskForDemo, Enters, TypeOK, ViewTyped
<1>5. CASE AbandonReset
  BY <1>5 DEF AbandonReset, Enters, TypeOK, ViewTyped
<1> QED BY <1>1, <1>2, <1>3, <1>4, <1>5 DEF Starting

LEMMA EntersSigningIn == ASSUME TypeOK, Core, SigningIn PROVE Enters
<1>1. CASE \/ \E entry \in {"signin", "signup"}, discard \in BOOLEAN : BeginSignIn(entry, discard)
           \/ CompleteOAuthCallback
  BY <1>1 DEF BeginSignIn, StartAccountLogin, CompleteOAuthCallback, Move, PublishAs, Enters
<1>2. CASE ProviderAnswers \/ Revisit
  BY <1>2, EntersLoaded DEF ProviderAnswers, Revisit
<1>3. CASE \E c \in conts : \/ LoginBegins(c) \/ LoginRedirects(c) \/ LoginFails(c)
                            \/ CallbackRefused(c) \/ CallbackProceeds(c)
                            \/ ExchangeRefused(c) \/ ExchangeStarts(c) \/ TokensRefused(c) \/ TokensArrive(c)
  BY <1>3, EntersLater DEF LoginBegins, LoginRedirects, LoginFails, CallbackRefused, CallbackProceeds, ExchangeRefused,
     ExchangeStarts, TokensRefused, TokensArrive, Resume, Now, Aside
<1> QED BY <1>1, <1>2, <1>3 DEF SigningIn

LEMMA EntersUsing == ASSUME TypeOK, Core, UsingAccount PROVE Enters
<1>1. CASE \E c \in conts : Bootstrapped(c) \/ IdentityMismatch(c) \/ BootstrapFails(c)
  BY <1>1, EntersLater DEF Bootstrapped, IdentityMismatch, BootstrapFails, Resume, Now, Aside
<1>2. CASE RetryAccountBootstrap
  BY <1>2 DEF RetryAccountBootstrap, Move, PublishAs, Enters
<1> QED BY <1>1, <1>2 DEF UsingAccount

LEMMA EntersSensitive == ASSUME TypeOK, Core, Sensitive PROVE Enters
<1>1. CASE \E want \in Wants : BeginSensitiveOperation(want)
  BY <1>1 DEF BeginSensitiveOperation, StartAccountLogin, Move, PublishAs, Enters
<1>2. CASE PerformSensitiveExport \/ PerformAccountDeletion \/ ReviewAccountDeletion
  BY <1>2 DEF PerformSensitiveExport, PerformAccountDeletion, Performing, Consumable, ReviewAccountDeletion,
     Managing, Publish, PublishAs, Enters
<1>3. CASE \E c \in conts : ServerErases(c)
  BY <1>3 DEF ServerErases, Enters
<1>4. ASSUME NEW c \in conts, NEW complete \in BOOLEAN,
             Exported(c) \/ SensitiveFails(c) \/ DeletionUnfinished(c) \/ DeletionFinalized(c, complete)
      PROVE  Enters
  <2>1. Now(c) /\ c.kind \in Aside \ {"demo"}
    BY <1>4, ManagingKinds DEF Exported, SensitiveFails, DeletionUnfinished, DeletionFinalized, Resume, Now, Aside
  <2>2. view.status = "account-management"
    BY <2>1, ShownKinds DEF Core, Visible, TypeOK, ContsTyped
  <2>3. view'.status = "account-management"
    BY <1>4 DEF Exported, SensitiveFails, DeletionUnfinished, DeletionFinalized, Managing, Publish, Move, PublishAs
  <2> QED BY <2>2, <2>3 DEF Enters
<1> QED BY <1>1, <1>2, <1>3, <1>4 DEF Sensitive

LEMMA EntersEnding == ASSUME TypeOK, Core, Ending PROVE Enters
<1>1. CASE \/ \E discard \in BOOLEAN : Leave(discard) \/ SignOut(discard)
           \/ Unauthorized \/ DemoExpires \/ RenewalFails \/ AcceptSignedOut
  BY <1>1 DEF Leave, SignOut, Unauthorized, DemoExpires, RenewalFails, AcceptSignedOut, Away, Move, PublishAs, Enters
<1>2. CASE AnotherTabSignsOut
  BY <1>2 DEF AnotherTabSignsOut, Away, Move, PublishAs, Enters
<1>3. CASE ProviderSignedOut
  BY <1>3, EntersLoaded DEF ProviderSignedOut
<1>4. CASE \E c \in conts : Revoked(c)
  BY <1>4, EntersLater DEF Revoked, Resume, Now, Aside
<1>5. CASE \E c \in conts : Retire(c)
  BY <1>5 DEF Retire, Enters
<1> QED BY <1>1, <1>2, <1>3, <1>4, <1>5 DEF Ending

LEMMA EntersStep == ASSUME TypeOK, Core, [Next]_tabVars PROVE Enters
<1>1. CASE Editing \/ UNCHANGED tabVars
  BY <1>1 DEF Editing, Edit, Settle, tabVars, Enters
<1> QED BY <1>1, EntersOpening, EntersStarting, EntersSigningIn, EntersUsing, EntersSensitive, EntersEnding
        DEF Next, Plain

(***************************************************************************)
(* Nobody finds a workspace open that no attempt of theirs to enter it was *)
(* shown, nor another in the place of the one they are in.                 *)
(***************************************************************************)
THEOREM SessionImplementsAccess == Spec => AccessPromise
<1>1. Init => Access!Init
  BY DEF Init, TabInit, FirstView, FirstStatus, Access!Init, Phase, Transient
<1>2. TypeOK /\ TypeOK' /\ Core /\ [Next]_tabVars
        => [Access!Next]_<<Phase, IF view.status = "ready" THEN view.who ELSE None>>
  <2> SUFFICES ASSUME TypeOK, TypeOK', Core, [Next]_tabVars
               PROVE  [Access!Next]_<<Phase, IF view.status = "ready" THEN view.who ELSE None>>
    OBVIOUS
  <2> USE DEF Phase
  <2>1. Enters
    BY EntersStep
  <2>2. CASE view'.status \in Transient
    BY <2>2 DEF Access!Next, Access!Ask, Transient
  <2>3. CASE view'.status \in {"anonymous", "expired", "error"}
    BY <2>3 DEF Access!Next, Access!End, Transient
  <2>4. CASE view'.status = "ready"
    <3>1. view'.who \in Identities
      BY <2>4 DEF TypeOK, ViewTyped
    <3> QED BY <2>1, <2>4, <3>1 DEF Enters, Access!Next, Access!Enter, Transient
  <2>5. CASE view'.status = "account-management"
    BY <2>1, <2>5 DEF Enters, Access!Next, Access!Verify, Transient
  <2>6. view'.status \in Statuses
    BY DEF TypeOK, ViewTyped
  <2> QED BY <2>2, <2>3, <2>4, <2>5, <2>6 DEF Statuses
<1> QED BY <1>1, <1>2, CoreInit, CoreStep, SessionTyped, PTL DEF Spec, AccessPromise, Access!Spec

-----------------------------------------------------------------------------
(***************************************************************************)
(* What is held.                                                           *)
(***************************************************************************)
\* Continuations of an account that has been opened.
Returning(c) == c.kind \in {"exchange", "tokens", "bootstrap"} \/ (c.kind = "restore" /\ ~ Local)

Claim(c) ==
    Now(c) => /\ Returning(c) \/ c.kind \in {"login", "callback"} => disk.selected = "cognito"
              /\ Returning(c) => ctl.adapter = "account"
              /\ c.kind = "activate" => ctl.adapter # "account"

Claims == \A c \in conts : Claim(c)

Credentials ==
    /\ ctl.adapter # "account" => mem = None
    /\ mem # None => disk.selected = "cognito"
    /\ gen = 1 => mem = None

Holding == Credentials /\ Claims /\ HeldIsShown

LEMMA ClaimsStay ==
    ASSUME Claims, Local' = Local, gen' = gen, disk'.selected = disk.selected, ctl'.adapter = ctl.adapter,
           conts' \subseteq conts
    PROVE  Claims'
BY DEF Claims, Claim, Now, Returning

LEMMA ClaimsBeside ==
    ASSUME Claims, Local' = Local, gen' = gen, disk'.selected = disk.selected, ctl'.adapter = ctl.adapter,
           NEW n, n.kind \in Aside, conts' \subseteq conts \cup {n}
    PROVE  Claims'
BY DEF Claims, Claim, Now, Returning, Aside

LEMMA ClaimsAnswered ==
    ASSUME TypeOK, Core, gen' = gen, NEW c \in conts, Now(c), c.kind \notin Aside, conts' \subseteq conts \ {c}
    PROVE  Claims'
BY Last DEF Claims, Claim, Now, Returning

LEMMA ClaimsGoOn ==
    ASSUME TypeOK, Core, gen' = gen, NEW c \in conts, Now(c), c.kind \notin Aside,
           NEW n, n.kind # "activate", disk'.selected = "cognito", ctl'.adapter = "account",
           conts' \subseteq (conts \ {c}) \cup {n}
    PROVE  Claims'
<1>1. \A d \in conts \ {c} : d.scope = gen => d.kind = "demo"
  BY Last DEF Now
<1> QED BY <1>1 DEF Claims, Claim, Now, Returning

LEMMA ClaimsMove ==
    ASSUME TypeOK, TypeOK', Core, gen < gen', conts' \subseteq conts
    PROVE  Claims'
<1>1. \A d \in conts : d.scope # gen'
  BY SuspendedArgs DEF Core, InScope, TypeOK, ContsTyped, Scopes
<1> QED BY <1>1 DEF Claims, Claim, Now

LEMMA ClaimsOpen ==
    ASSUME TypeOK, TypeOK', Core, gen < gen', NEW n, n.kind # "activate", conts' \subseteq conts \cup {n},
           disk'.selected = "cognito", ctl'.adapter = "account" \/ n.kind \in {"login", "callback"}
    PROVE  Claims'
<1>1. \A d \in conts : d.scope # gen'
  BY SuspendedArgs DEF Core, InScope, TypeOK, ContsTyped, Scopes
<1> QED BY <1>1 DEF Claims, Claim, Now, Returning

LEMMA ClaimsActivate ==
    ASSUME TypeOK, TypeOK', Core, gen < gen', NEW n, n.kind \in {"activate", "revoke"},
           n.kind = "activate" => ctl'.adapter # "account", conts' \subseteq conts \cup {n}
    PROVE  Claims'
<1>1. \A d \in conts : d.scope # gen'
  BY SuspendedArgs DEF Core, InScope, TypeOK, ContsTyped, Scopes
<1> QED BY <1>1 DEF Claims, Claim, Now, Returning

\* What is held and shown after a step that opens no workspace.
LEMMA HoldsSame ==
    ASSUME HeldIsShown, Credentials, Local' = Local, gen' = gen \/ gen' # 1,
           UNCHANGED mem, ctl'.adapter = ctl.adapter,
           disk'.selected = disk.selected, disk'.demo = disk.demo,
           disk'.user \in {disk.user, None}, disk'.tx \in {disk.tx, None}, disk'.intent \in {disk.intent, None},
           view'.status = "ready" => view.status = "ready" /\ view'.who = view.who
    PROVE  Credentials' /\ HeldIsShown'
BY DEF HeldIsShown, Credentials, SignedOutHoldsNothing, ReadyIsOwned

LEMMA HoldsNothing ==
    ASSUME mem' = None, view'.status # "ready",
           disk'.selected = "none" => disk'.user = None /\ disk'.tx = None /\ disk'.intent = None
    PROVE  Credentials' /\ HeldIsShown'
BY DEF HeldIsShown, Credentials, SignedOutHoldsNothing, ReadyIsOwned

LEMMA HoldsLoaded == ASSUME TypeOK, Holding, NEW path, NEW code, Load(path, code) PROVE Holding'
<1>1. Credentials' /\ HeldIsShown'
  BY HoldsNothing DEF Load, FirstView, FirstStatus, Holding, HeldIsShown, SignedOutHoldsNothing
<1>2. Claims'
  BY DEF Load, FirstWait, FirstStatus, Claims, Claim, Now, Returning, Local
<1> QED BY <1>1, <1>2 DEF Holding

LEMMA HoldsAway ==
    ASSUME TypeOK, TypeOK', Core, Holding, NEW status \in Statuses \ {"ready"}, NEW op, Away(status, op)
    PROVE  Holding'
<1>1. disk'.user = None /\ disk'.tx = None /\ disk'.intent = None
  BY ForgottenAll DEF Away, TypeOK, ControllerTyped
<1>2. Credentials' /\ HeldIsShown'
  BY <1>1, HoldsNothing DEF Away, Move, PublishAs, MemForgotten
<1>3. gen < gen'
  BY DEF Away, Move, TypeOK, Scopes
<1> QED BY <1>2, <1>3, ClaimsMove DEF Away, Holding

\* A scope whose page has just loaded belongs to no account.
LEMMA FirstScope ==
    ASSUME TypeOK, Core, Holding, NEW c \in conts, Resume(c, "initialize")
    PROVE  gen = 1 /\ mem = None /\ ~ Local
BY DEF Core, InScope, Holding, Credentials, Resume, Now

LEMMA HoldsReady ==
    ASSUME TypeOK, TypeOK', Core, Holding, NEW who \in Identities, NEW op, BecomeReady(who, op),
           UNCHANGED mem, ctl'.adapter = ctl.adapter, Local' = Local,
           ~ Local => IF who[1] = "demo" THEN mem = None ELSE who = Account(mem) /\ ctl.adapter = "account",
           conts' \subseteq conts
    PROVE  Holding'
<1>1. /\ disk'.selected = disk.selected /\ disk'.user = disk.user /\ disk'.tx = disk.tx
      /\ disk'.intent = disk.intent
      /\ disk'.demo = IF who[1] = "demo" THEN who[2] ELSE disk.demo
  BY PersistedDisk DEF BecomeReady, TypeOK
<1>2. gen < gen' /\ gen' # 1
  BY DEF BecomeReady, Move, TypeOK, Scopes
<1>3. view'.status = "ready" /\ view'.who = who
  BY DEF BecomeReady, Move, PublishAs
<1>4. Credentials' /\ HeldIsShown'
  BY <1>1, <1>2, <1>3 DEF Holding, HeldIsShown, Credentials, SignedOutHoldsNothing, ReadyIsOwned
<1> QED BY <1>2, <1>4, ClaimsMove DEF Holding

LEMMA HoldsOpening == ASSUME TypeOK, TypeOK', Core, Holding, Local' = Local, Opening PROVE Holding'
<1>1. CASE OpenTab
  BY <1>1, HoldsLoaded DEF OpenTab
<1>2. CASE ConfigurationFails \/ \E caps \in Offers : ConfigurationLoads(caps)
  <2>1. /\ gen' = gen /\ UNCHANGED <<mem, conts, view>> /\ ctl'.adapter = ctl.adapter
        /\ disk' \in {disk, AccountCleared(disk)}
    BY <1>2 DEF ConfigurationFails, ConfigurationLoads, TypeOK, ControllerTyped, Controllers
  <2>2. /\ disk'.selected = disk.selected /\ disk'.demo = disk.demo /\ disk'.user \in {disk.user, None}
        /\ disk'.tx \in {disk.tx, None} /\ disk'.intent \in {disk.intent, None}
    BY <2>1, ClearedAccount DEF TypeOK
  <2> QED BY <2>1, <2>2, HoldsSame, ClaimsStay DEF Holding
<1>3. ASSUME NEW discard \in BOOLEAN, RetryConfiguration(discard) PROVE Holding'
  <2>1. disk'.user = None /\ disk'.tx = None /\ disk'.intent = None
    BY <1>3, ForgottenAll DEF RetryConfiguration, TypeOK, ControllerTyped
  <2>2. Credentials' /\ HeldIsShown'
    BY <1>3, <2>1, HoldsNothing DEF RetryConfiguration, Move, PublishAs, MemForgotten
  <2>3. gen < gen'
    BY <1>3 DEF RetryConfiguration, Move, TypeOK, Scopes
  <2> QED BY <1>3, <2>2, <2>3, ClaimsMove DEF RetryConfiguration, Holding
<1>4. ASSUME NEW c \in conts, Initialize(c) PROVE Holding'
  <2>1. gen = 1 /\ mem = None /\ ~ Local /\ Now(c) /\ c.kind \notin Aside
    BY <1>4, FirstScope DEF Initialize, Resume, Now, Aside
  <2>2. conts' = conts \ {c} /\ UNCHANGED ctl /\ mem' = None
    BY <1>4, <2>1 DEF Initialize, MemForgotten
  <2>3. CASE BecomeReady(Demo(disk.demo), None) /\ disk.demo # None
    BY <2>1, <2>2, <2>3, HoldsReady DEF Demo, Identities, Demos, TypeOK, Storages, Maybe
  <2>4. CASE ~ (BecomeReady(Demo(disk.demo), None) /\ disk.demo # None)
    <3>1. gen' = gen /\ view'.status # "ready"
      BY <1>4, <2>4 DEF Initialize, Publish, PublishAs
    <3>2. disk'.selected = "none" => disk'.user = None /\ disk'.tx = None /\ disk'.intent = None
      <4>1. CASE disk' \in {disk, [disk EXCEPT !.demo = None]}
        BY <4>1 DEF Holding, HeldIsShown, SignedOutHoldsNothing, TypeOK, Storages
      <4>2. CASE disk' = [AccountCleared(disk) EXCEPT !.selected = "none"]
        BY <4>2, ClearedAccount DEF TypeOK, Storages
      <4>3. CASE disk' = AdapterCleared(disk) /\ RestoresDemo
        BY <4>3, ClearedAdapter, AbsentApart DEF RestoresDemo, Remembers, TypeOK, ControllerTyped
      <4> QED BY <1>4, <2>4, <4>1, <4>2, <4>3 DEF Initialize
    <3> QED BY <2>1, <2>2, <3>1, <3>2, HoldsNothing, ClaimsAnswered DEF Holding
  <2> QED BY <2>3, <2>4
<1>5. ASSUME NEW c \in conts, RestoreAccount(c) PROVE Holding'
  <2>1. gen = 1 /\ mem = None /\ ~ Local
    BY <1>5, FirstScope DEF RestoreAccount, Resume
  <2>2. ctl'.adapter = "account" /\ disk'.selected = "cognito" /\ UNCHANGED <<mem, disk>>
    BY <1>5 DEF RestoreAccount, TypeOK, ControllerTyped, Controllers
  <2>3. Credentials' /\ HeldIsShown'
    BY <1>5, <2>1, <2>2, HoldsNothing DEF RestoreAccount, Move, PublishAs
  <2> DEFINE n == Wait("restore", None)
  <2>4. gen < gen' /\ n.kind = "restore" /\ conts' \subseteq conts \cup {n}
    BY <1>5 DEF RestoreAccount, Move, TypeOK, Scopes, Wait
  <2> HIDE DEF n
  <2>5. Claims'
    BY <2>2, <2>4, ClaimsOpen
  <2> QED BY <2>3, <2>5 DEF Holding
<1>6. ASSUME NEW c \in conts, Restored(c) PROVE Holding'
  <2>1. Now(c) /\ c.kind = "restore" /\ c.kind \notin Aside /\ view.status \in Transient
    BY <1>6, Last DEF Restored, Resume, Now, Aside
  <2>2. CASE ctl.adapter = "local"
    <3>1. Local /\ mem = None /\ UNCHANGED <<mem, ctl>> /\ conts' = conts \ {c}
      BY <1>6, <2>2 DEF Restored, TypeOK, ControllerTyped, Holding, Credentials
    <3>2. CASE BecomeReady(LocalWorkspace, None)
      BY <3>1, <3>2, HoldsReady DEF Identities
    <3>3. CASE Publish("error", None, "restore") /\ UNCHANGED disk
      BY <2>1, <3>1, <3>3, HoldsNothing, ClaimsAnswered
         DEF Publish, PublishAs, Holding, HeldIsShown, SignedOutHoldsNothing
    <3> QED BY <1>6, <2>2, <3>2, <3>3 DEF Restored
  <2>3. CASE ctl.adapter # "local"
    <3>1. ctl.adapter = "account" /\ disk.selected = "cognito" /\ ~ Local
      BY <2>1, <2>3 DEF TypeOK, ControllerTyped, Holding, Claims, Claim, Returning
    <3>2. UNCHANGED ctl /\ disk'.selected = "cognito" /\ gen' = gen /\ view'.status # "ready"
          /\ (mem' # None => gen # 1)
      BY <1>6, <2>1, <2>3, <3>1, ClearedAccount
         DEF Restored, Publish, PublishAs, TypeOK, Transient, Core, InScope, Now, Aside, Holding, Credentials
    <3>3. Credentials' /\ HeldIsShown'
      BY <3>1, <3>2 DEF Credentials, HeldIsShown, SignedOutHoldsNothing, ReadyIsOwned
    <3>4. conts' \subseteq (conts \ {c}) \cup {Wait("bootstrap", None)} /\ Wait("bootstrap", None).kind = "bootstrap"
      BY <1>6, <2>3 DEF Restored, Wait
    <3>5. Claims'
      <4> DEFINE n == Wait("bootstrap", None)
      <4>1. n.kind # "activate" /\ conts' \subseteq (conts \ {c}) \cup {n}
        BY <3>4
      <4> HIDE DEF n
      <4> QED BY <2>1, <3>1, <3>2, <4>1, ClaimsGoOn
    <3> QED BY <3>3, <3>5 DEF Holding
  <2> QED BY <2>2, <2>3
<1> QED BY <1>1, <1>2, <1>3, <1>4, <1>5, <1>6 DEF Opening

LEMMA HoldsStarting == ASSUME TypeOK, TypeOK', Core, Holding, Local' = Local, Starting PROVE Holding'
<1>1. ASSUME NEW reset \in BOOLEAN, Activate(reset) PROVE Holding'
  <2>1. ctl.adapter # "account" /\ ctl'.adapter = ctl.adapter
    BY <1>1 DEF Activate, Startable, Start, TypeOK, ControllerTyped, Controllers
  <2>2. mem = None /\ mem' = None
    BY <1>1, <2>1 DEF Activate, Holding, Credentials
  <2>3. disk'.selected = "none" => disk'.user = None /\ disk'.tx = None /\ disk'.intent = None
    BY <1>1, <2>1, ClearedAdapter
       DEF Activate, Holding, HeldIsShown, SignedOutHoldsNothing, TypeOK, ControllerTyped
  <2>4. gen < gen' /\ view'.status # "ready"
    BY <1>1 DEF Activate, Move, PublishAs, TypeOK, Scopes
  <2>5. PICK n : n.kind = "activate" /\ conts' \subseteq conts \cup {n}
    <3>1. PICK arg : conts' = conts \cup {Wait("activate", arg)}
      BY <1>1 DEF Activate, Start
    <3> QED BY <3>1 DEF Wait
  <2> QED BY <2>1, <2>2, <2>3, <2>4, <2>5, HoldsNothing, ClaimsActivate DEF Holding
<1>2. ASSUME NEW c \in conts, Activated(c) PROVE Holding'
  <2> DEFINE who == IF Local THEN LocalWorkspace ELSE Demo(c.arg.key)
  <2>1. who \in Identities
    BY <1>2, SuspendedArgs DEF Activated, Resume, TypeOK, ContsTyped, ForBuild, Identities, Demos, Maybe
  <2>2. ~ Local => who[1] = "demo"
    BY DEF Demo
  <2>3. mem = None /\ UNCHANGED mem /\ BecomeReady(who, None) /\ conts' \subseteq conts
    BY <1>2 DEF Activated, Holding, Credentials
  <2>4. ctl'.adapter = ctl.adapter
    BY <1>2, ResetTyped DEF Activated, TypeOK, ControllerTyped
  <2> HIDE DEF who
  <2> QED BY <2>1, <2>2, <2>3, <2>4, HoldsReady
<1>3. ASSUME NEW c \in conts, ActivationRefused(c) \/ ActivationUnclear(c) PROVE Holding'
  <2>1. Now(c) /\ c.kind = "activate" /\ c.kind \notin Aside /\ conts' = conts \ {c} /\ UNCHANGED mem
    BY <1>3 DEF ActivationRefused, ActivationUnclear, Resume, Now, Aside
  <2>2. ctl.adapter # "account" /\ mem = None
    BY <2>1 DEF Holding, Claims, Claim, Credentials
  <2>3. ctl'.adapter = ctl.adapter
    BY <1>3, ResetTyped DEF ActivationRefused, ActivationUnclear, TypeOK, ControllerTyped, Controllers
  <2>4. PICK S : FallBack(c, S)
    BY <1>3 DEF ActivationRefused, ActivationUnclear
  <2>5. CASE c.arg.previous # None /\ BecomeReady(c.arg.previous, "error")
    <3>1. c.arg.previous \in Demos
      BY <2>1, <2>5, SuspendedArgs DEF TypeOK, ContsTyped, Maybe
    <3>2. c.arg.previous \in Identities /\ c.arg.previous[1] = "demo"
      BY <3>1 DEF Identities, Demos, Demo
    <3> QED BY <2>1, <2>2, <2>3, <2>5, <3>2, HoldsReady
  <2>6. CASE Publish("error", None, "activate") /\ UNCHANGED disk
    BY <2>1, <2>2, <2>6, HoldsNothing, ClaimsAnswered
       DEF Publish, PublishAs, Holding, HeldIsShown, SignedOutHoldsNothing
  <2> QED BY <2>4, <2>5, <2>6 DEF FallBack
<1>4. ASSUME NEW c \in conts, EnterDemo(c) PROVE Holding'
  <2>1. CASE Pending /\ ctl.adapter = "demo"
    <3>1. PICK p \in conts : p.kind = "activate" /\ Now(p) /\ p.kind \notin Aside
      BY <2>1 DEF Pending, Now, Aside
    <3>2. mem = None /\ disk'.selected = "demo" /\ gen' = gen /\ UNCHANGED <<mem, ctl, view>> /\ conts' \subseteq conts
      BY <1>4, <2>1 DEF EnterDemo, TypeOK, Storages, Holding, Credentials
    <3>3. view.status # "ready"
      BY <3>1, Last DEF Transient
    <3>4. Claims'
      <4>1. \A d \in conts : Now(d) => d.kind \in {"demo", "activate"}
        BY <3>1, Last
      <4> QED BY <2>1, <3>2, <4>1 DEF Claims, Claim, Now, Returning
    <3> QED BY <3>2, <3>3, <3>4, HoldsNothing DEF Holding
  <2>2. CASE ~ (Pending /\ ctl.adapter = "demo")
    <3>1. disk'.selected = "demo"
      <4> DEFINE cleared == IF ctl.adapter = "account" THEN AccountCleared(disk) ELSE disk
      <4>1. cleared \in Storages
        BY ClearedAccount DEF TypeOK
      <4>2. disk' = [cleared EXCEPT !.selected = "demo", !.demo = None]
        BY <1>4, <2>2 DEF EnterDemo
      <4> HIDE DEF cleared
      <4> QED BY <4>1, <4>2 DEF Storages
    <3>2. mem' = None /\ view'.status # "ready" /\ gen < gen'
      BY <1>4, <2>2 DEF EnterDemo, PublishAs, Holding, Credentials, TypeOK, Scopes
    <3>3. ctl'.adapter = "demo"
      BY <1>4, <2>2 DEF EnterDemo, Start, TypeOK, ControllerTyped, Controllers
    <3>4. PICK n : n.kind = "activate" /\ conts' \subseteq conts \cup {n}
      BY <1>4, <2>2 DEF EnterDemo, Start, Wait
    <3> QED BY <3>1, <3>2, <3>3, <3>4, HoldsNothing, ClaimsActivate DEF Holding
  <2> QED BY <2>1, <2>2
<1>5. ASSUME NEW c \in conts, ServerProvisions(c) \/ DemoRefused(c) PROVE Holding'
  BY <1>5, HoldsSame, ClaimsStay DEF ServerProvisions, DemoRefused, Holding
<1>6. CASE AbandonReset
  <2>1. ctl'.adapter = ctl.adapter /\ view'.status = view.status /\ view'.who = view.who
    BY <1>6 DEF AbandonReset, TypeOK, ControllerTyped, Controllers, ViewTyped
  <2> QED BY <1>6, <2>1, HoldsSame, ClaimsStay DEF AbandonReset, Holding
<1>7. ASSUME NEW discard \in BOOLEAN, AskForDemo(discard) PROVE Holding'
  <2> DEFINE n == [kind |-> "demo", scope |-> gen, arg |-> None]
  <2>1. n.kind \in Aside /\ conts' \subseteq conts \cup {n}
    BY <1>7 DEF AskForDemo, Aside
  <2> HIDE DEF n
  <2> QED BY <1>7, <2>1, HoldsSame, ClaimsBeside DEF AskForDemo, Holding
<1> QED BY <1>1, <1>2, <1>3, <1>4, <1>5, <1>6, <1>7 DEF Starting

LEMMA HoldsLogin ==
    ASSUME TypeOK, TypeOK', Core, Holding, NEW intent, NEW entry, StartAccountLogin(intent, entry)
    PROVE  Holding'
<1>1. disk'.selected = "cognito"
  BY ClearedAdapter DEF StartAccountLogin, Storages, TypeOK, ControllerTyped
<1>2. mem' = None /\ view'.status # "ready" /\ gen < gen'
  BY DEF StartAccountLogin, Move, PublishAs, Holding, Credentials, TypeOK, Scopes
<1>3. PICK n : n.kind = "login" /\ conts' \subseteq conts \cup {n}
  BY DEF StartAccountLogin, Wait
<1> QED BY <1>1, <1>2, <1>3, HoldsNothing, ClaimsOpen DEF Holding

\* The same person, or nobody, and no workspace shown.
LEMMA HoldsShut ==
    ASSUME Holding, gen' = gen \/ gen' # 1, UNCHANGED mem \/ mem' = None,
           ctl'.adapter \in {ctl.adapter, "account"}, disk'.selected = disk.selected,
           disk'.user \in {disk.user, None}, disk'.tx \in {disk.tx, None}, disk'.intent \in {disk.intent, None},
           view'.status # "ready"
    PROVE  Credentials' /\ HeldIsShown'
BY DEF Holding, HeldIsShown, Credentials, SignedOutHoldsNothing, ReadyIsOwned

LEMMA HoldsSigningIn == ASSUME TypeOK, TypeOK', Core, Holding, Local' = Local, SigningIn PROVE Holding'
<1>0. /\ AccountCleared(disk).selected = disk.selected /\ AccountCleared(disk).user = None
      /\ AccountCleared(disk).tx = None /\ AccountCleared(disk).intent = None
      /\ AccountCleared(disk) \in Storages
  BY ClearedAccount DEF TypeOK
<1>1. CASE \E entry \in {"signin", "signup"}, discard \in BOOLEAN : BeginSignIn(entry, discard)
  BY <1>1, HoldsLogin DEF BeginSignIn
<1>2. CASE ProviderAnswers \/ Revisit
  BY <1>2, HoldsLoaded DEF ProviderAnswers, Revisit
<1>3. ASSUME NEW c \in conts, LoginRedirects(c) PROVE Holding'
  <2>1. Now(c) /\ c.kind = "login" /\ c.kind \notin Aside
    BY <1>3 DEF LoginRedirects, Resume, Now, Aside
  <2> DEFINE tx == [name |-> Fresh, intent |-> IF c.arg.intent = None THEN None ELSE c.arg.intent.id]
  <2>2. disk' = [disk EXCEPT !.tx = tx, !.intent = c.arg.intent] /\ UNCHANGED <<gen, view, ctl, mem>>
        /\ conts' \subseteq conts \ {c}
    BY <1>3 DEF LoginRedirects
  <2> HIDE DEF tx
  <2>3. disk.selected = "cognito" /\ disk'.selected = "cognito"
    BY <2>1, <2>2 DEF Holding, Claims, Claim, Storages, TypeOK
  <2>4. view.status # "ready"
    BY <2>1, Last DEF Transient
  <2>5. Credentials' /\ HeldIsShown'
    BY <2>2, <2>3, <2>4 DEF Holding, HeldIsShown, Credentials, SignedOutHoldsNothing, ReadyIsOwned
  <2> QED BY <2>1, <2>2, <2>5, ClaimsAnswered DEF Holding
<1>4. ASSUME NEW c \in conts, LoginFails(c) \/ CallbackRefused(c) PROVE Holding'
  <2>1. Now(c) /\ c.kind \notin Aside /\ conts' \subseteq conts \ {c} /\ gen' = gen /\ view'.status # "ready"
    BY <1>4 DEF LoginFails, CallbackRefused, Publish, PublishAs, Resume, Now, Aside
  <2>2. ctl'.adapter \in {ctl.adapter, "account"}
    BY <1>4 DEF LoginFails, CallbackRefused, TypeOK, ControllerTyped, Controllers
  <2>3. (UNCHANGED mem \/ mem' = None) /\ disk' \in {disk, AccountCleared(disk)}
    BY <1>4 DEF LoginFails, CallbackRefused, AccountForgotten
  <2>4. Credentials' /\ HeldIsShown'
    BY <1>0, <2>1, <2>2, <2>3, HoldsShut
  <2> QED BY <2>1, <2>4, ClaimsAnswered DEF Holding
<1>5. ASSUME NEW c \in conts, ExchangeRefused(c) \/ TokensRefused(c) PROVE Holding'
  <2>1. Now(c) /\ c.kind \notin Aside
    BY <1>5 DEF ExchangeRefused, TokensRefused, Resume, Now, Aside
  <2>2. PICK cleared \in {disk, AccountCleared(disk)} : ExchangeFailed(c, cleared)
    BY <1>5 DEF ExchangeRefused, TokensRefused
  <2>3. conts' \subseteq conts \ {c} /\ gen' = gen /\ view'.status # "ready" /\ UNCHANGED ctl
        /\ (UNCHANGED mem \/ mem' = None) /\ disk' \in {disk, AccountCleared(disk)}
    BY <2>2 DEF ExchangeFailed, AccountForgotten, Publish, PublishAs
  <2>4. Credentials' /\ HeldIsShown'
    BY <1>0, <2>3, HoldsShut
  <2> QED BY <2>1, <2>3, <2>4, ClaimsAnswered DEF Holding
<1>6. CASE CompleteOAuthCallback
  <2>1. ctl'.adapter = ctl.adapter /\ disk'.selected = "cognito" /\ UNCHANGED <<mem, disk>>
    BY <1>6 DEF CompleteOAuthCallback, TypeOK, ControllerTyped, Controllers
  <2>2. gen < gen' /\ gen' # 1 /\ view'.status # "ready"
    BY <1>6 DEF CompleteOAuthCallback, Move, PublishAs, TypeOK, Scopes
  <2>3. Credentials' /\ HeldIsShown'
    BY <2>1, <2>2, HoldsShut
  <2>4. PICK n : n.kind = "callback" /\ conts' \subseteq conts \cup {n}
    BY <1>6 DEF CompleteOAuthCallback, Wait
  <2> QED BY <2>1, <2>2, <2>3, <2>4, ClaimsOpen DEF Holding
<1>7. ASSUME NEW c \in conts, CallbackProceeds(c) PROVE Holding'
  <2>1. disk'.selected = "cognito" /\ ctl'.adapter = "account" /\ UNCHANGED mem
    BY <1>7 DEF CallbackProceeds, TypeOK, Storages, ControllerTyped, Controllers
  <2>2. gen < gen' /\ gen' # 1 /\ view'.status # "ready"
    BY <1>7 DEF CallbackProceeds, Move, PublishAs, TypeOK, Scopes
  <2>3. Credentials' /\ HeldIsShown'
    BY <2>1, <2>2 DEF Credentials, HeldIsShown, SignedOutHoldsNothing, ReadyIsOwned
  <2>4. PICK n : n.kind = "exchange" /\ conts' \subseteq conts \cup {n}
    BY <1>7 DEF CallbackProceeds, Wait
  <2> QED BY <2>1, <2>2, <2>3, <2>4, ClaimsOpen DEF Holding
<1>8. ASSUME NEW c \in conts, ExchangeStarts(c) \/ TokensArrive(c) PROVE Holding'
  <2>1. Now(c) /\ Returning(c) /\ c.kind \notin Aside /\ c.kind \in {"exchange", "tokens"}
    BY <1>8 DEF ExchangeStarts, TokensArrive, Resume, Returning, Now, Aside
  <2>2. disk.selected = "cognito" /\ ctl.adapter = "account" /\ gen # 1 /\ view.status # "ready"
    BY <2>1, Last DEF Holding, Claims, Claim, Core, InScope, Now, Aside, Transient
  <2>3. disk'.selected = "cognito" /\ ctl' = ctl /\ gen' = gen /\ view'.status # "ready"
    BY <1>8, <2>2 DEF ExchangeStarts, TokensArrive, Publish, PublishAs, TypeOK, Storages
  <2>4. Credentials' /\ HeldIsShown'
    BY <2>2, <2>3 DEF Credentials, HeldIsShown, SignedOutHoldsNothing, ReadyIsOwned
  <2>5. PICK n : n.kind # "activate" /\ conts' \subseteq (conts \ {c}) \cup {n}
    <3>1. CASE ExchangeStarts(c)
      <4> DEFINE to == [subject |-> c.arg.code.subject, named |-> disk.tx.intent, intent |-> c.arg.intent]
                 n == [c EXCEPT !.kind = "tokens", !.arg = to]
      <4>1. c = [kind |-> c.kind, scope |-> c.scope, arg |-> c.arg]
        BY SuspendedArgs DEF TypeOK, ContsTyped
      <4>2. conts' \subseteq (conts \ {c}) \cup {n}
        BY <3>1 DEF ExchangeStarts
      <4> HIDE DEF to
      <4>3. n.kind = "tokens"
        BY <4>1
      <4> HIDE DEF n
      <4> QED BY <4>2, <4>3
    <3>2. CASE TokensArrive(c)
      <4> DEFINE n == Wait("bootstrap", None)
      <4>1. n.kind = "bootstrap" /\ conts' \subseteq (conts \ {c}) \cup {n}
        BY <3>2 DEF TokensArrive, Wait
      <4> HIDE DEF n
      <4> QED BY <4>1
    <3> QED BY <1>8, <3>1, <3>2
  <2> QED BY <2>1, <2>2, <2>3, <2>4, <2>5, ClaimsGoOn DEF Holding
<1>9. ASSUME NEW c \in conts, LoginBegins(c) PROVE Holding'
  <2>1. Now(c) /\ c.kind = "login" /\ c.kind \notin Aside
    BY <1>9 DEF LoginBegins, Resume, Now, Aside
  <2> DEFINE n == Wait("login", [intent |-> c.arg.intent, entry |-> c.arg.entry, begun |-> TRUE])
  <2>2. disk' = AccountCleared(disk) /\ mem' = None /\ UNCHANGED <<gen, view>> /\ conts' = (conts \ {c}) \cup {n}
    BY <1>9 DEF LoginBegins, AccountForgotten
  <2>3. ctl'.adapter = "account"
    BY <1>9 DEF LoginBegins, TypeOK, ControllerTyped, Controllers
  <2>4. disk'.selected = "cognito" /\ view'.status # "ready"
    BY <1>0, <2>1, <2>2, Last DEF Holding, Claims, Claim, Transient
  <2>5. n.kind = "login"
    BY <2>1, <2>2, BegunWait
  <2> HIDE DEF n
  <2> QED BY <2>1, <2>2, <2>3, <2>4, <2>5, HoldsNothing, ClaimsGoOn DEF Holding
<1> QED BY <1>1, <1>2, <1>3, <1>4, <1>5, <1>6, <1>7, <1>8, <1>9 DEF SigningIn

LEMMA HoldsUsing == ASSUME TypeOK, TypeOK', Core, Holding, Local' = Local, UsingAccount PROVE Holding'
<1>1. ASSUME NEW c \in conts, Bootstrapped(c) PROVE Holding'
  <2>1. Now(c) /\ Returning(c)
    BY <1>1 DEF Bootstrapped, Resume, Returning, Now
  <2>2. ctl.adapter = "account" /\ ctl'.adapter = ctl.adapter
    BY <1>1, <2>1 DEF Bootstrapped, Holding, Claims, Claim, TypeOK, ControllerTyped, Controllers
  <2>3. Account(mem) \in Identities /\ Account(mem)[1] = "account"
    BY <1>1 DEF Bootstrapped, TypeOK, Maybe, Identities, Account
  <2> QED BY <1>1, <2>2, <2>3, HoldsReady DEF Bootstrapped
<1>2. ASSUME NEW c \in conts, IdentityMismatch(c) \/ BootstrapFails(c) PROVE Holding'
  <2>1. Now(c) /\ c.kind \notin Aside /\ conts' \subseteq conts \ {c} /\ gen' = gen /\ view'.status # "ready"
        /\ UNCHANGED ctl /\ (UNCHANGED mem \/ mem' = None) /\ disk' \in {disk, AccountCleared(disk)}
    BY <1>2 DEF IdentityMismatch, BootstrapFails, AccountForgotten, Publish, PublishAs, Resume, Now, Aside
  <2>2. Credentials' /\ HeldIsShown'
    BY <2>1, HoldsShut, ClearedAccount DEF TypeOK
  <2> QED BY <2>1, <2>2, ClaimsAnswered DEF Holding
<1>3. CASE RetryAccountBootstrap
  <2>1. ctl.adapter = "account" /\ ctl'.adapter = ctl.adapter /\ disk'.selected = "cognito" /\ UNCHANGED <<mem, disk>>
    BY <1>3 DEF RetryAccountBootstrap, TypeOK, ControllerTyped, Controllers, Holding, Credentials
  <2>2. gen < gen' /\ gen' # 1 /\ view'.status # "ready"
    BY <1>3 DEF RetryAccountBootstrap, Move, PublishAs, TypeOK, Scopes
  <2>3. Credentials' /\ HeldIsShown'
    BY <2>1, <2>2, HoldsShut
  <2>4. PICK n : n.kind = "bootstrap" /\ conts' \subseteq conts \cup {n}
    BY <1>3 DEF RetryAccountBootstrap, Wait
  <2> QED BY <2>1, <2>2, <2>3, <2>4, ClaimsOpen DEF Holding
<1> QED BY <1>1, <1>2, <1>3 DEF UsingAccount

LEMMA HoldsSensitive == ASSUME TypeOK, TypeOK', Core, Holding, Local' = Local, Sensitive PROVE Holding'
<1>1. CASE \E want \in Wants : BeginSensitiveOperation(want)
  BY <1>1, HoldsLogin DEF BeginSensitiveOperation
<1>2. ASSUME NEW want \in {"export", "delete"}, Performing(want) PROVE Holding'
  <2>1. gen' = gen /\ UNCHANGED <<mem, ctl>> /\ view'.status # "ready"
    BY <1>2 DEF Performing, Managing, Publish, PublishAs
  <2>2. /\ disk'.selected = disk.selected /\ disk'.user = disk.user /\ disk'.tx = disk.tx
        /\ disk'.intent = None
    BY <1>2 DEF Performing, TypeOK, Storages
  <2>3. Credentials' /\ HeldIsShown'
    BY <2>1, <2>2, HoldsShut
  <2>4. PICK n : n.kind \in Aside /\ conts' \subseteq conts \cup {n}
    <3>1. conts' = conts \cup {Wait(want, manage)} /\ Wait(want, manage).kind \in Aside
      BY <1>2 DEF Performing, Wait, Aside
    <3> QED BY <3>1
  <2> QED BY <2>1, <2>2, <2>3, <2>4, ClaimsBeside DEF Holding
<1>3. CASE ReviewAccountDeletion
  <2>1. gen' = gen /\ UNCHANGED <<mem, ctl, disk>> /\ view'.status # "ready"
    BY <1>3 DEF ReviewAccountDeletion, Managing, Publish, PublishAs
  <2>2. PICK n : n.kind \in Aside /\ conts' \subseteq conts \cup {n}
    <3>1. conts' = conts \cup {Wait("review", manage)} /\ Wait("review", manage).kind \in Aside
      BY <1>3 DEF ReviewAccountDeletion, Wait, Aside
    <3> QED BY <3>1
  <2> QED BY <2>1, <2>2, HoldsShut, ClaimsBeside DEF Holding
<1>4. ASSUME NEW c \in conts, Exported(c) \/ SensitiveFails(c) \/ DeletionUnfinished(c) PROVE Holding'
  <2>1. gen' = gen /\ UNCHANGED <<mem, ctl, disk>> /\ view'.status # "ready" /\ conts' \subseteq conts
    BY <1>4 DEF Exported, SensitiveFails, DeletionUnfinished, Managing, Publish, PublishAs
  <2> QED BY <2>1, HoldsShut, ClaimsStay DEF Holding
<1>5. ASSUME NEW c \in conts, ServerErases(c) PROVE Holding'
  BY <1>5, HoldsSame, ClaimsStay DEF ServerErases, Holding
<1>6. ASSUME NEW c \in conts, NEW complete \in BOOLEAN, DeletionFinalized(c, complete) PROVE Holding'
  <2>1. disk'.user = None /\ disk'.tx = None /\ disk'.intent = None
    BY <1>6, ClearedAccount DEF DeletionFinalized, TypeOK, Storages
  <2>2. Credentials' /\ HeldIsShown'
    BY <1>6, <2>1, HoldsNothing DEF DeletionFinalized, Move, PublishAs
  <2>3. gen < gen' /\ conts' \subseteq conts
    BY <1>6 DEF DeletionFinalized, Move, TypeOK, Scopes
  <2> QED BY <2>2, <2>3, ClaimsMove DEF Holding
<1> QED BY <1>1, <1>2, <1>3, <1>4, <1>5, <1>6 DEF Sensitive, PerformSensitiveExport, PerformAccountDeletion

LEMMA HoldsEnding == ASSUME TypeOK, TypeOK', Core, Holding, Local' = Local, Ending PROVE Holding'
<1>0. /\ AccountCleared(disk).selected = disk.selected /\ AccountCleared(disk).user = None
      /\ AccountCleared(disk).tx = None /\ AccountCleared(disk).intent = None
      /\ AccountCleared(disk).demo = disk.demo /\ AccountCleared(disk) \in Storages
  BY ClearedAccount DEF TypeOK
<1>1. CASE (\E discard \in BOOLEAN : Leave(discard)) \/ Unauthorized \/ DemoExpires
  BY <1>1, HoldsAway DEF Leave, Unauthorized, DemoExpires, Statuses
<1>2. ASSUME mem' = None, view'.status # "ready", gen < gen',
             disk' = [AccountCleared(disk) EXCEPT !.selected = "none"]
      PROVE  Credentials' /\ HeldIsShown'
  BY <1>0, <1>2, HoldsNothing DEF Storages
<1>3. ASSUME NEW discard \in BOOLEAN, SignOut(discard) PROVE Holding'
  <2>1. CASE ctl.adapter # "account"
    BY <1>3, <2>1, HoldsAway DEF SignOut, Leave, Statuses
  <2>2. CASE ctl.adapter = "account"
    <3>1. mem' = None /\ view'.status # "ready" /\ gen < gen'
          /\ disk' = [AccountCleared(disk) EXCEPT !.selected = "none"]
      BY <1>3, <2>2 DEF SignOut, Move, PublishAs, TypeOK, Scopes
    <3>2. PICK n : n.kind = "revoke" /\ conts' \subseteq conts \cup {n}
      BY <1>3, <2>2 DEF SignOut, Wait
    <3> QED BY <1>2, <3>1, <3>2, ClaimsActivate DEF Holding
  <2> QED BY <2>1, <2>2
<1>4. CASE RenewalFails \/ AcceptSignedOut
  <2>1. mem' = None /\ view'.status # "ready" /\ gen < gen' /\ conts' \subseteq conts
        /\ disk' = [AccountCleared(disk) EXCEPT !.selected = "none"]
    BY <1>4 DEF RenewalFails, AcceptSignedOut, Move, PublishAs, TypeOK, Scopes
  <2> QED BY <1>2, <2>1, ClaimsMove DEF Holding
<1>5. CASE AnotherTabSignsOut
  <2>1. CASE ctl.adapter = "account" /\ disk.selected = "cognito"
    BY <1>5, <2>1, HoldsAway DEF AnotherTabSignsOut, Statuses
  <2>2. CASE ~ (ctl.adapter = "account" /\ disk.selected = "cognito")
    <3>1. mem = None
      BY <2>2 DEF Holding, Credentials
    <3>2. UNCHANGED <<gen, mem, view, ctl, conts>> /\ disk' = AccountCleared(disk)
      BY <1>5, <2>2, <3>1 DEF AnotherTabSignsOut, AccountForgotten
    <3> QED BY <1>0, <3>2, HoldsSame, ClaimsStay DEF Holding
  <2> QED BY <2>1, <2>2
<1>6. CASE ProviderSignedOut
  BY <1>6, HoldsLoaded DEF ProviderSignedOut
<1>7. ASSUME NEW c \in conts, Revoked(c) PROVE Holding'
  <2>1. Now(c) /\ c.kind \notin Aside /\ conts' \subseteq conts \ {c} /\ gen' = gen /\ view'.status # "ready"
        /\ UNCHANGED <<ctl, mem, disk>>
    BY <1>7 DEF Revoked, Publish, PublishAs, Resume, Now, Aside
  <2> QED BY <2>1, HoldsShut, ClaimsAnswered DEF Holding
<1>8. ASSUME NEW c \in conts, Retire(c) PROVE Holding'
  BY <1>8, HoldsSame, ClaimsStay DEF Retire, Holding
<1> QED BY <1>1, <1>3, <1>4, <1>5, <1>6, <1>7, <1>8 DEF Ending

LEMMA HoldsStep == TypeOK /\ TypeOK' /\ Core /\ Holding /\ [Next]_tabVars => Holding'
<1> SUFFICES ASSUME TypeOK, TypeOK', Core, Holding, [Next]_tabVars PROVE Holding'
  OBVIOUS
<1>1. Local' = Local
  BY LocalKept
<1>2. CASE Editing \/ UNCHANGED tabVars
  <2>1. UNCHANGED <<gen, mem, view, disk, conts>> /\ ctl'.adapter = ctl.adapter
    BY <1>2 DEF Editing, Edit, Settle, tabVars, TypeOK, ControllerTyped, Controllers
  <2> QED BY <1>1, <2>1, HoldsSame, ClaimsStay DEF Holding
<1> QED BY <1>1, <1>2, HoldsOpening, HoldsStarting, HoldsSigningIn, HoldsUsing, HoldsSensitive, HoldsEnding
        DEF Next, Plain

LEMMA HoldsInit == Init => Holding
BY AbsentApart DEF Init, TabInit, EmptyDisk, FirstView, FirstWait, FirstStatus, Local, Holding, Credentials, Claims,
   Claim, Now, Returning, HeldIsShown, SignedOutHoldsNothing, ReadyIsOwned

(***************************************************************************)
(* An open workspace is the one whose credentials the tab holds, and a tab *)
(* that signed out holds none.                                             *)
(***************************************************************************)
THEOREM WhatIsHeldIsShown == Spec => []HeldIsShown
<1>1. Holding => HeldIsShown
  BY DEF Holding
<1> QED BY <1>1, CoreInit, CoreStep, HoldsInit, HoldsStep, SessionTyped, PTL DEF Spec

-----------------------------------------------------------------------------
(***************************************************************************)
(* The demos a request asks for, and who answers for them.                 *)
(***************************************************************************)
\* A demo the server made, or may still make.
Obliged == log.demos \cup ({c.arg.key : c \in {d \in conts : d.kind = "activate"}} \ {None})

\* A demo is open, or was asked for and may be asked for again.
Opens == (view.status = "ready" /\ view.who[1] = "demo") \/ (view.status = "error" /\ view.op = "activate")

Asking ==
    /\ ~ Local /\ (Opens \/ Pending) => disk.selected # "cognito"
    /\ view.op = "restore" => Local

\* What is started takes the place of the demo held, under the key kept for it.
InPlace ==
    \A c \in conts : Now(c) /\ c.kind = "activate" /\ ~ Local =>
        disk.demo = None /\ ctl.key \in {None, c.arg.key}

AnsweredFor == Obliged \subseteq log.given \cup Held

Orphans == Asking /\ InPlace /\ AnsweredFor /\ (Local => log.demos = {})

\* Nothing is made for the local workspace.
LEMMA LocalOwesNothing ==
    ASSUME TypeOK, Local, log.demos = {}
    PROVE  AnsweredFor
BY DEF TypeOK, ContsTyped, ForBuild, AnsweredFor, Obliged

LEMMA NoneStarted ==
    ASSUME TypeOK, Core,
           \/ view.status \notin {"switching", "activating", "bootstrapping"}
           \/ gen = 1
           \/ \E c \in conts : Now(c) /\ c.kind \notin Aside \cup {"activate"}
           \/ Claims /\ ctl.adapter = "account"
    PROVE  ~ Pending
<1>1. CASE gen = 1
  BY <1>1 DEF Core, InScope, Pending, Aside
<1>2. CASE view.status \notin {"switching", "activating", "bootstrapping"}
  BY <1>2 DEF Core, Visible, Pending, Now, Shown
<1>3. ASSUME NEW c \in conts, Now(c), c.kind \notin Aside \cup {"activate"} PROVE ~ Pending
  BY <1>3, Last DEF Pending, Now
<1>4. CASE Claims /\ ctl.adapter = "account"
  BY <1>4 DEF Claims, Claim, Pending, Now
<1> QED BY <1>1, <1>2, <1>3, <1>4

LEMMA HeldStays ==
    ASSUME ctl'.key = ctl.key, disk'.demo = disk.demo,
           ~ Pending \/ (gen' = gen /\ \A d \in conts : d.kind = "activate" => d \in conts')
    PROVE  Held \subseteq Held'
<1>1. Replacing \subseteq Replacing'
  <2>1. CASE ~ Pending
    BY <2>1 DEF Pending, Replacing
  <2>2. CASE gen' = gen /\ \A d \in conts : d.kind = "activate" => d \in conts'
    BY <2>2 DEF Replacing
  <2> QED BY <2>1, <2>2
<1> HIDE DEF Replacing
<1> QED BY <1>1 DEF Held

LEMMA HeldGivenUp ==
    ASSUME TypeOK, log'.given = GivenUp.given
    PROVE  Held \subseteq log'.given \cup Held' /\ log.given \subseteq log'.given
BY LetGo DEF Held

\* The scope stays, with what is started in it.
LEMMA OrphansStay ==
    ASSUME TypeOK, TypeOK', Orphans, Local' = Local, gen' = gen, ctl'.key = ctl.key, disk'.demo = disk.demo,
           disk'.selected = disk.selected, log'.demos = log.demos, log'.given = log.given,
           \A d \in conts \cup conts' : d.kind = "activate" => d \in conts /\ d \in conts',
           view' = view \/ (~ Opens' /\ view'.op # "restore")
    PROVE  Orphans'
<1>1. Held \subseteq Held'
  BY HeldStays
<1>2. Obliged' \subseteq Obliged
  BY DEF Obliged
<1>3. AnsweredFor'
  BY <1>1, <1>2 DEF Orphans, AnsweredFor
<1>4. Asking'
  BY DEF Orphans, Asking, Opens, Pending
<1>5. InPlace'
  BY DEF Orphans, InPlace, Now
<1> QED BY <1>3, <1>4, <1>5 DEF Orphans

\* Nothing waits to be started in the scope of the next state.
LEMMA OrphansSettle ==
    ASSUME TypeOK, TypeOK', Orphans, Local' = Local,
           log'.demos = log.demos, log.given \subseteq log'.given, Held \subseteq log'.given \cup Held',
           \A d \in conts' : d.kind = "activate" => d \in conts /\ d.scope # gen',
           Local \/ disk'.selected # "cognito" \/ ~ Opens', Local \/ view'.op # "restore"
    PROVE  Orphans'
<1>1. Obliged' \subseteq Obliged
  BY DEF Obliged
<1>2. AnsweredFor'
  BY <1>1 DEF Orphans, AnsweredFor
<1>3. Asking'
  BY DEF Asking, Pending
<1>4. InPlace'
  BY DEF InPlace, Now
<1> QED BY <1>2, <1>3, <1>4 DEF Orphans

LEMMA EarlierScopes ==
    ASSUME TypeOK, TypeOK', Core, gen < gen'
    PROVE  \A d \in conts : d.scope # gen'
BY SuspendedArgs DEF Core, InScope, TypeOK, ContsTyped, Scopes

LEMMA OrphansLoaded == ASSUME TypeOK, TypeOK', Orphans, NEW path, NEW code, Load(path, code) PROVE Orphans'
<1>1. log'.given = log.given \cup (Held \ {disk.demo}) /\ log'.demos = log.demos /\ disk' = disk
  BY DEF Load, TypeOK, Logs
<1>2. Held \subseteq log'.given \cup Held'
  BY <1>1 DEF Held
<1>3. \A d \in conts' : d.kind # "activate"
  BY DEF Load, FirstWait
<1>4. ~ Opens' /\ view'.op # "restore"
  BY AbsentApart DEF Load, FirstView, FirstStatus, Opens
<1> QED BY <1>1, <1>2, <1>3, <1>4, OrphansSettle DEF Local

LEMMA OrphansAway ==
    ASSUME TypeOK, TypeOK', Core, Orphans, Local' = Local, NEW status \in Statuses \ {"ready", "error"},
           NEW op \in {"expired", "invalidated", None}, Away(status, op)
    PROVE  Orphans'
<1>1. log' = GivenUp /\ log'.demos = log.demos
  BY LetGo DEF Away
<1>2. gen < gen' /\ ~ Opens' /\ view'.op # "restore" /\ conts' = conts
  BY AbsentApart DEF Away, Move, PublishAs, Opens, TypeOK, Scopes
<1> QED BY <1>1, <1>2, HeldGivenUp, EarlierScopes, OrphansSettle

LEMMA OrphansOpening ==
    ASSUME TypeOK, TypeOK', Core, Holding, Orphans, Local' = Local, Opening
    PROVE  Orphans'
<1>0. AccountCleared(disk).selected = disk.selected /\ AccountCleared(disk).demo = disk.demo
  BY ClearedAccount DEF TypeOK
<1>1. CASE OpenTab
  BY <1>1, OrphansLoaded DEF OpenTab
<1>2. CASE ConfigurationFails \/ \E caps \in Offers : ConfigurationLoads(caps)
  <2>1. /\ gen' = gen /\ UNCHANGED <<conts, view, log>> /\ ctl'.key = ctl.key
        /\ disk' \in {disk, AccountCleared(disk)}
    BY <1>2 DEF ConfigurationFails, ConfigurationLoads, TypeOK, ControllerTyped, Controllers
  <2> QED BY <1>0, <2>1, OrphansStay
<1>3. ASSUME NEW discard \in BOOLEAN, RetryConfiguration(discard) PROVE Orphans'
  <2>1. log' = GivenUp /\ log'.demos = log.demos
    BY <1>3, LetGo DEF RetryConfiguration
  <2>2. gen < gen' /\ ~ Opens' /\ view'.op # "restore" /\ conts' = conts
    BY <1>3, AbsentApart DEF RetryConfiguration, Move, PublishAs, Opens, TypeOK, Scopes
  <2> QED BY <2>1, <2>2, HeldGivenUp, EarlierScopes, OrphansSettle
<1>4. ASSUME NEW c \in conts, Initialize(c) PROVE Orphans'
  <2>1. gen = 1 /\ ~ Local /\ Now(c) /\ c.kind \notin Aside \cup {"activate"}
    BY <1>4, FirstScope DEF Initialize, Resume, Now, Aside
  <2>2. log' = GivenUp /\ log'.demos = log.demos /\ conts' = conts \ {c}
    BY <1>4, LetGo DEF Initialize
  <2>3. \A d \in conts' : d.kind = "activate" => d \in conts /\ d.scope # gen'
    <3>1. gen' = gen \/ gen < gen'
      BY <1>4 DEF Initialize, Publish, BecomeReady, Move, TypeOK, Scopes
    <3> QED BY <2>1, <2>2, <3>1, NoneStarted, EarlierScopes DEF Pending
  <2>4. view'.op # "restore" /\ (disk'.selected # "cognito" \/ ~ Opens')
    <3>1. CASE BecomeReady(Demo(disk.demo), None) /\ disk.demo # None /\ RestoresDemo
      BY <3>1, PersistedDisk, AbsentApart
         DEF BecomeReady, Move, PublishAs, RestoresDemo, Remembers, TypeOK, Storages, Maybe, Identities, Demos
    <3>2. CASE \E status \in {"anonymous", "expired", "error"}, op \in {None, "configuration", "expired"} :
                   Publish(status, None, op)
      BY <3>2, AbsentApart DEF Publish, PublishAs, Opens
    <3> QED BY <1>4, <3>1, <3>2 DEF Initialize
  <2> QED BY <2>2, <2>3, <2>4, HeldGivenUp, OrphansSettle
<1>5. ASSUME NEW c \in conts, RestoreAccount(c) PROVE Orphans'
  <2>1. gen = 1
    BY <1>5, FirstScope DEF RestoreAccount, Resume
  <2>2. ctl'.key = ctl.key /\ UNCHANGED <<disk, log>> /\ gen < gen' /\ ~ Opens' /\ view'.op # "restore"
    BY <1>5, AbsentApart
       DEF RestoreAccount, Move, PublishAs, Opens, TypeOK, ControllerTyped, Controllers, Scopes
  <2>3. \A d \in conts' : d.kind = "activate" => d \in conts
    BY <1>5 DEF RestoreAccount, Wait
  <2> QED BY <2>1, <2>2, <2>3, NoneStarted, HeldStays, EarlierScopes, OrphansSettle
<1>6. ASSUME NEW c \in conts, Restored(c) PROVE Orphans'
  <2>1. Now(c) /\ c.kind = "restore" /\ c.kind \notin Aside \cup {"activate"}
    BY <1>6 DEF Restored, Resume, Now, Aside
  <2>2. ~ Pending
    BY <2>1, NoneStarted
  <2>3. CASE ctl.adapter = "local"
    <3>1. Local /\ UNCHANGED <<ctl, log>> /\ conts' = conts \ {c}
      BY <1>6, <2>3 DEF Restored, TypeOK, ControllerTyped
    <3>2. disk'.demo = disk.demo
      BY <1>6, <2>3, PersistedDisk
         DEF Restored, BecomeReady, Identities, LocalWorkspace, TypeOK
    <3>3. gen' = gen \/ gen < gen'
      BY <1>6, <2>3 DEF Restored, BecomeReady, Move, Publish, TypeOK, Scopes
    <3>4. \A d \in conts' : d.kind = "activate" => d \in conts /\ d.scope # gen'
      BY <2>2, <3>1, <3>3, EarlierScopes DEF Pending
    <3> QED BY <2>2, <3>1, <3>2, <3>4, HeldStays, OrphansSettle
  <2>4. CASE ctl.adapter # "local"
    <3>1. /\ gen' = gen /\ UNCHANGED <<ctl, log>> /\ disk'.demo = disk.demo /\ disk'.selected = disk.selected
          /\ view' = view \/ (~ Opens' /\ view'.op # "restore")
      BY <1>0, <1>6, <2>4, AbsentApart DEF Restored, Publish, PublishAs, Opens
    <3>2. \A d \in conts \cup conts' : d.kind = "activate" => d \in conts /\ d \in conts'
      BY <1>6, <2>1, <2>4 DEF Restored, Wait
    <3> QED BY <3>1, <3>2, OrphansStay
  <2> QED BY <2>3, <2>4
<1> QED BY <1>1, <1>2, <1>3, <1>4, <1>5, <1>6 DEF Opening

\* A demo is asked for, in the place of the one that was held.
LEMMA OrphansStart ==
    ASSUME TypeOK, TypeOK', Core, Orphans, ~ Local', gen < gen', ~ Pending,
           NEW n, n.kind = "activate", n.scope = gen', n.arg.key = ctl'.key,
           n \in conts', conts' \subseteq conts \cup {n},
           ctl.key \in {None, ctl'.key}, disk'.demo = None, disk'.selected # "cognito",
           log'.demos = log.demos, log.given \subseteq log'.given,
           \/ disk.demo \in log'.given \cup {None}
           \/ n.arg.previous # None /\ n.arg.previous[2] = disk.demo,
           ~ Opens', view'.op # "restore"
    PROVE  Orphans'
<1>1. \A d \in conts : d.scope # gen'
  BY EarlierScopes
<1>2. Obliged' \subseteq Obliged \cup ({ctl'.key} \ {None})
  BY DEF Obliged
<1>3. Held \subseteq log'.given \cup Held'
  <2>1. Replacing = {}
    BY DEF Replacing, Pending
  <2>2. CASE disk.demo \in log'.given \cup {None}
    <3> HIDE DEF Replacing
    <3> QED BY <2>1, <2>2 DEF Held
  <2>3. CASE n.arg.previous # None /\ n.arg.previous[2] = disk.demo
    <3>1. disk.demo \in Replacing'
      BY <2>3 DEF Replacing
    <3> HIDE DEF Replacing
    <3> QED BY <2>1, <3>1 DEF Held
  <2> QED BY <2>2, <2>3
<1>4. AnsweredFor'
  <2>1. {ctl'.key} \ {None} \subseteq Held'
    BY DEF Held
  <2> QED BY <1>2, <1>3, <2>1 DEF Orphans, AnsweredFor
<1>5. Asking' /\ InPlace'
  BY <1>1 DEF Asking, InPlace, Now
<1> QED BY <1>4, <1>5 DEF Orphans

LEMMA KeyMadeTyped ==
    ASSUME TypeOK, NEW S
    PROVE  LET l == KeyMade([log EXCEPT !.given = @ \cup S])
           IN  /\ l.demos = log.demos /\ l.given = log.given \cup S
               /\ l.requests = log.requests /\ l.performed = log.performed /\ l.verified = log.verified
               /\ l.names \in Nat /\ log.names <= l.names
<1> DEFINE l == [log EXCEPT !.given = @ \cup S]
<1>1. /\ l.demos = log.demos /\ l.given = log.given \cup S
      /\ l.requests = log.requests /\ l.performed = log.performed /\ l.verified = log.verified
      /\ l.names = log.names /\ DOMAIN l = DOMAIN log
  BY DEF TypeOK, Logs
<1>2. log.names \in Nat /\ "names" \in DOMAIN log
  BY TabAssumption DEF TypeOK, Logs
<1> HIDE DEF l
<1>3. /\ KeyMade(l).demos = l.demos /\ KeyMade(l).given = l.given
      /\ KeyMade(l).requests = l.requests /\ KeyMade(l).performed = l.performed
      /\ KeyMade(l).verified = l.verified
      /\ KeyMade(l).names \in Nat /\ log.names <= KeyMade(l).names
  BY <1>1, <1>2 DEF KeyMade
<1> QED BY <1>1, <1>3 DEF l

\* The local workspace asks no server for anything.
LEMMA OrphansLocal ==
    ASSUME TypeOK', Local', Orphans, Local, log'.demos = log.demos
    PROVE  Orphans'
<1>1. log'.demos = {}
  BY DEF Orphans
<1>2. AnsweredFor'
  BY <1>1 DEF TypeOK, ContsTyped, ForBuild, AnsweredFor, Obliged
<1> QED BY <1>1, <1>2 DEF Orphans, Asking, InPlace

LEMMA OrphansStarting ==
    ASSUME TypeOK, TypeOK', Core, Holding, Orphans, Local' = Local, Starting
    PROVE  Orphans'
<1>1. ASSUME NEW reset \in BOOLEAN, Activate(reset) PROVE Orphans'
  <2>1. PICK S : log' = KeyMade([log EXCEPT !.given = @ \cup S]) /\ (~ reset => S = {disk.demo} \ {None})
    BY <1>1 DEF Activate
  <2>2. log'.demos = log.demos /\ log'.given = log.given \cup S
    BY <2>1, KeyMadeTyped
  <2>3. CASE Local
    BY <2>2, <2>3, OrphansLocal
  <2>4. CASE ~ Local
    <3> DEFINE key == StartKey(ctl)
               arg == [key |-> IF ctl.adapter = "demo" THEN key ELSE None,
                       previous |-> IF reset THEN view.who ELSE None]
               n == Wait("activate", arg)
    <3>1. ctl.adapter = "demo" /\ ~ Pending /\ conts' = conts \cup {n}
      BY <1>1, <2>4 DEF Activate, Start, Startable
    <3>2. n.kind = "activate" /\ n.scope = gen' /\ n.arg = arg
      BY DEF Wait
    <3>3. arg.key = key /\ arg.previous = IF reset THEN view.who ELSE None
      BY <3>1
    <3>4. ctl'.key = key
      <4>1. ctl' = [ctl EXCEPT !.key = key, !.dirty = FALSE]
        BY <1>1 DEF Activate, Start
      <4> HIDE DEF key
      <4> QED BY <4>1 DEF TypeOK, ControllerTyped, Controllers
    <3>5. ctl.key \in {None, key}
      BY DEF StartKey
    <3>6. disk'.demo = None /\ disk'.selected = disk.selected
      BY <1>1, <3>1, ClearedAdapter DEF Activate, TypeOK, ControllerTyped
    <3>7. disk.selected # "cognito"
      BY <1>1, <2>4 DEF Activate, Orphans, Asking, Opens
    <3>8. \/ disk.demo \in log'.given \cup {None}
          \/ arg.previous # None /\ arg.previous[2] = disk.demo
      <4>1. CASE reset
        <5>1. view.status = "ready" /\ view.who[1] = "demo" /\ view.who # None
          BY <1>1, <4>1, AbsentApart DEF Activate, TypeOK, ViewTyped
        <5>2. disk.demo = view.who[2]
          BY <2>4, <5>1 DEF Holding, HeldIsShown, ReadyIsOwned
        <5> QED BY <3>3, <4>1, <5>1, <5>2
      <4>2. CASE ~ reset
        BY <2>1, <2>2, <4>2
      <4> QED BY <4>1, <4>2
    <3>9. gen < gen' /\ ~ Opens' /\ view'.op # "restore"
      BY <1>1, AbsentApart DEF Activate, Move, PublishAs, Opens, TypeOK, Scopes
    <3> HIDE DEF key, arg, n
    <3> QED BY <2>2, <2>4, <3>1, <3>2, <3>3, <3>4, <3>5, <3>6, <3>7, <3>8, <3>9, OrphansStart
  <2> QED BY <2>3, <2>4
<1>2. ASSUME NEW c \in conts, Resume(c, "activate"), c.kind \notin Aside, ~ Local
      PROVE  /\ c.arg \in [key : Maybe(Named), previous : Maybe(Demos)]
             /\ c.arg.key \in Named /\ c.arg.key # None /\ c.arg.key \in Obliged
             /\ Held \subseteq {c.arg.key} \cup PreviousKey(c)
             /\ \A d \in conts \ {c} : d.kind = "activate" => d.scope # gen
  <2>1. c.arg \in [key : Maybe(Named), previous : Maybe(Demos)] /\ c.arg.key # None
    BY <1>2, SuspendedArgs DEF Resume, TypeOK, ContsTyped, ForBuild
  <2>2. \A d \in conts \ {c} : d.kind = "activate" => d.scope # gen
    BY <1>2, Last DEF Resume, Now
  <2>3. Replacing \subseteq PreviousKey(c)
    BY <2>2 DEF Replacing, PreviousKey
  <2>4. disk.demo = None /\ ctl.key \in {None, c.arg.key}
    BY <1>2 DEF Orphans, InPlace, Resume, Now
  <2>5. Held \subseteq {c.arg.key} \cup PreviousKey(c)
    <3> HIDE DEF Replacing, PreviousKey
    <3> QED BY <2>3, <2>4 DEF Held
  <2>6. c.arg.key \in Obliged
    BY <1>2, <2>1 DEF Obliged, Resume
  <2> QED BY <2>1, <2>2, <2>5, <2>6 DEF Maybe
<1>3. ASSUME NEW c \in conts, Activated(c) PROVE Orphans'
  <2>1. CASE Local
    BY <1>3, <2>1, OrphansLocal DEF Activated
  <2>2. CASE ~ Local
    <3>1. Resume(c, "activate") /\ c.kind \notin Aside /\ conts' = conts \ {c}
      BY <1>3 DEF Activated, Resume, Aside
    <3>2. c.arg.key \in Named /\ c.arg.key # None /\ Held \subseteq {c.arg.key} \cup PreviousKey(c)
          /\ c.arg.key \in Obliged
      BY <1>2, <2>2, <3>1
    <3>3. log'.demos = log.demos \cup {c.arg.key} /\ log'.given = log.given \cup PreviousKey(c)
      <4> HIDE DEF PreviousKey
      <4> QED BY <1>3, <2>2 DEF Activated, TypeOK, Logs
    <3>4. /\ disk'.demo = c.arg.key /\ disk'.selected = disk.selected
          /\ gen < gen' /\ view'.op = None /\ view'.status = "ready"
      <4>1. BecomeReady(Demo(c.arg.key), None)
        BY <1>3, <2>2 DEF Activated
      <4>2. Demo(c.arg.key) \in Identities /\ Demo(c.arg.key)[1] = "demo" /\ Demo(c.arg.key)[2] = c.arg.key
        BY <3>2 DEF Identities, Demos, Demo
      <4> QED BY <4>1, <4>2, PersistedDisk DEF BecomeReady, Move, PublishAs, TypeOK, Scopes
    <3>5. \A d \in conts' : d.scope # gen'
      BY <3>1, <3>4, EarlierScopes
    <3>6. disk.selected # "cognito"
      BY <2>2, <3>1 DEF Orphans, Asking, Pending, Resume
    <3>7. Obliged' \subseteq Obliged
      BY <3>1, <3>2, <3>3 DEF Obliged
    <3>8. c.arg.key \in Held'
      BY <3>2, <3>4 DEF Held
    <3>9. AnsweredFor'
      <4> HIDE DEF PreviousKey
      <4> QED BY <3>2, <3>3, <3>7, <3>8 DEF Orphans, AnsweredFor
    <3>10. Asking' /\ InPlace'
      BY <3>4, <3>5, <3>6, AbsentApart DEF Asking, InPlace, Now
    <3> QED BY <2>2, <3>9, <3>10 DEF Orphans
  <2> QED BY <2>1, <2>2
<1>4. ASSUME NEW c \in conts, ActivationRefused(c) \/ ActivationUnclear(c) PROVE Orphans'
  <2>1. Resume(c, "activate") /\ c.kind \notin Aside /\ conts' = conts \ {c}
    BY <1>4 DEF ActivationRefused, ActivationUnclear, Resume, Aside
  <2>2. PICK S : FallBack(c, S) /\ (S = {c.arg.key} \ {None} \/ (S = {} /\ ctl'.key = ctl.key))
    BY <1>4 DEF ActivationRefused, ActivationUnclear, TypeOK, ControllerTyped, Controllers
  <2>3. log'.demos = log.demos /\ log.given \cup S \subseteq log'.given
        /\ (log'.given = log.given \cup S \/ log'.given = log.given \cup S \cup PreviousKey(c))
    <3> HIDE DEF PreviousKey
    <3> QED BY <2>2 DEF FallBack, TypeOK, Logs
  <2>4. CASE Local
    BY <2>3, <2>4, OrphansLocal
  <2>5. CASE ~ Local
    <3>1. /\ c.arg \in [key : Maybe(Named), previous : Maybe(Demos)]
          /\ Held \subseteq {c.arg.key} \cup PreviousKey(c)
          /\ \A d \in conts' : d.kind = "activate" => d.scope # gen
      BY <1>2, <2>1, <2>5
    <3>2. disk.selected # "cognito" /\ disk.demo = None /\ ctl.key \in {None, c.arg.key}
      BY <2>1, <2>5 DEF Orphans, Asking, InPlace, Pending, Resume, Now
    <3>3. CASE c.arg.previous # None /\ BecomeReady(c.arg.previous, "error")
      <4>1. c.arg.previous \in Identities /\ c.arg.previous[1] = "demo" /\ c.arg.previous[2] # None
        BY <3>1, <3>3, AbsentApart DEF Maybe, Identities, Demos, Demo
      <4>2. /\ disk'.demo = c.arg.previous[2] /\ disk'.selected = disk.selected
            /\ gen < gen' /\ view'.op = "error"
        BY <3>3, <4>1, PersistedDisk DEF BecomeReady, Move, PublishAs, TypeOK, Scopes
      <4>3. PreviousKey(c) \subseteq Held'
        BY <4>1, <4>2 DEF PreviousKey, Held
      <4>4. Held \subseteq log'.given \cup Held'
        <5>1. CASE S = {c.arg.key} \ {None}
          <6>1. None \notin Held
            BY DEF Held
          <6> HIDE DEF PreviousKey, Held
          <6> QED BY <2>3, <3>1, <4>3, <5>1, <6>1
        <5>2. CASE ctl'.key = ctl.key
          <6>1. {ctl.key, disk.demo} \ {None} \subseteq Held'
            BY <3>2, <5>2 DEF Held
          <6>2. Replacing \subseteq PreviousKey(c)
            BY <2>1, <3>1 DEF Replacing, PreviousKey, Resume
          <6>3. Held \subseteq ({ctl.key, disk.demo} \ {None}) \cup PreviousKey(c)
            <7> HIDE DEF PreviousKey, Replacing
            <7> QED BY <6>2 DEF Held
          <6> HIDE DEF PreviousKey, Held
          <6> QED BY <4>3, <6>1, <6>3
        <5> QED BY <2>2, <5>1, <5>2
      <4>5. \A d \in conts' : d.kind = "activate" => d \in conts /\ d.scope # gen'
        BY <2>1, <4>2, EarlierScopes
      <4> QED BY <2>3, <3>2, <4>2, <4>4, <4>5, OrphansSettle
    <3>4. CASE Publish("error", None, "activate") /\ UNCHANGED disk /\ log'.given = log.given \cup S \cup PreviousKey(c)
      <4>1. view'.op = "activate" /\ gen' = gen
        BY <3>4 DEF Publish, PublishAs
      <4>2. Held \subseteq log'.given \cup Held'
        <5>1. CASE S = {c.arg.key} \ {None}
          <6>1. None \notin Held
            BY DEF Held
          <6> HIDE DEF PreviousKey, Held
          <6> QED BY <3>1, <3>4, <5>1, <6>1
        <5>2. CASE ctl'.key = ctl.key
          <6>1. {ctl.key, disk.demo} \ {None} \subseteq Held'
            BY <3>4, <5>2 DEF Held
          <6>2. Replacing \subseteq PreviousKey(c)
            BY <2>1, <3>1 DEF Replacing, PreviousKey, Resume
          <6>3. Held \subseteq ({ctl.key, disk.demo} \ {None}) \cup PreviousKey(c)
            <7> HIDE DEF PreviousKey, Replacing
            <7> QED BY <6>2 DEF Held
          <6> HIDE DEF PreviousKey, Held
          <6> QED BY <3>4, <6>1, <6>3
        <5> QED BY <2>2, <5>1, <5>2
      <4>3. \A d \in conts' : d.kind = "activate" => d \in conts /\ d.scope # gen'
        BY <2>1, <3>1, <4>1
      <4> QED BY <2>3, <3>2, <3>4, <4>1, <4>2, <4>3, OrphansSettle
    <3>5. (c.arg.previous # None /\ BecomeReady(c.arg.previous, "error"))
          \/ (Publish("error", None, "activate") /\ UNCHANGED disk /\ log'.given = log.given \cup S \cup PreviousKey(c))
      <4> HIDE DEF PreviousKey
      <4> QED BY <2>2 DEF FallBack, TypeOK, Logs
    <3> QED BY <3>3, <3>4, <3>5
  <2> QED BY <2>4, <2>5
<1>5. ASSUME NEW c \in conts, ServerProvisions(c) PROVE Orphans'
  <2>1. c.kind = "activate" /\ c.arg.key # None /\ UNCHANGED <<gen, view, manage, ctl, mem, disk, page, conts>>
    BY <1>5 DEF ServerProvisions
  <2>2. ~ Local /\ c.arg.key \in Obliged
    BY <2>1 DEF TypeOK, ContsTyped, ForBuild, Obliged
  <2>3. log'.demos = log.demos \cup {c.arg.key} /\ log'.given = log.given
    BY <1>5 DEF ServerProvisions, TypeOK, Logs
  <2>4. Obliged' \subseteq Obliged
    BY <2>1, <2>2, <2>3 DEF Obliged
  <2>5. Held' = Held /\ Asking' /\ InPlace'
    BY <2>1 DEF Held, Replacing, Orphans, Asking, Opens, Pending, InPlace, Now, Local
  <2> QED BY <2>2, <2>3, <2>4, <2>5 DEF Orphans, AnsweredFor
<1>6. CASE AbandonReset
  <2>1. /\ UNCHANGED <<gen, disk, conts>> /\ ctl'.key = None
        /\ view' = view \/ view' = [view EXCEPT !.op = None]
        /\ log'.demos = log.demos /\ log'.given = log.given \cup {ctl.key}
    BY <1>6 DEF AbandonReset, TypeOK, ControllerTyped, Controllers, Logs
  <2>2. Held \subseteq log'.given \cup Held'
    <3>1. Replacing' = Replacing
      BY <2>1 DEF Replacing
    <3> HIDE DEF Replacing
    <3> QED BY <2>1, <3>1 DEF Held
  <2>3. Obliged' = Obliged
    BY <2>1 DEF Obliged
  <2>4. Asking'
    <3>1. Opens' => Opens
      BY <2>1, AbsentApart DEF Opens, TypeOK, ViewTyped
    <3>2. Pending' => Pending
      BY <2>1 DEF Pending
    <3>3. view'.op # "restore" \/ view'.op = view.op
      BY <2>1, AbsentApart DEF TypeOK, ViewTyped
    <3> QED BY <2>1, <3>1, <3>2, <3>3 DEF Orphans, Asking
  <2>5. InPlace'
    BY <2>1 DEF Orphans, InPlace, Now
  <2> QED BY <2>1, <2>2, <2>3, <2>4, <2>5 DEF Orphans, AnsweredFor
<1>7. CASE \/ \E c \in conts : DemoRefused(c)
           \/ \E discard \in BOOLEAN : AskForDemo(discard)
  <2>1. UNCHANGED <<gen, view, ctl, disk, log>>
    BY <1>7 DEF DemoRefused, AskForDemo
  <2>2. \A d \in conts \cup conts' : d.kind = "activate" => d \in conts /\ d \in conts'
    BY <1>7 DEF DemoRefused, AskForDemo, Resume
  <2> QED BY <2>1, <2>2, OrphansStay
<1>8. ASSUME NEW c \in conts, EnterDemo(c) PROVE Orphans'
  <2>0. ~ Local
    BY <1>8 DEF EnterDemo, DemoAllowed, TypeOK, ControllerTyped
  <2>1. CASE Pending /\ ctl.adapter = "demo"
    <3>1. UNCHANGED <<gen, view, ctl, log>> /\ disk'.demo = disk.demo /\ disk'.selected = "demo"
      BY <1>8, <2>1 DEF EnterDemo, TypeOK, Storages
    <3>2. \A d \in conts \cup conts' : d.kind = "activate" => d \in conts /\ d \in conts'
      BY <1>8, <2>1 DEF EnterDemo, Resume
    <3>3. Held \subseteq Held' /\ Obliged' \subseteq Obliged
      BY <3>1, <3>2, HeldStays DEF Obliged
    <3>4. Asking' /\ InPlace'
      BY <2>0, <3>1, <3>2 DEF Orphans, Asking, InPlace, Now
    <3> QED BY <2>0, <3>1, <3>3, <3>4 DEF Orphans, AnsweredFor
  <2>2. CASE ~ (Pending /\ ctl.adapter = "demo")
    <3>0. ~ Pending
      BY <2>0, <2>2, NoneStarted DEF TypeOK, ControllerTyped, Controllers, Holding
    <3> DEFINE cleared == IF ctl.adapter = "account" THEN AccountCleared(disk) ELSE disk
               k == [ctl EXCEPT !.adapter = "demo"]
               key == StartKey(k)
               arg == [key |-> IF k.adapter = "demo" THEN key ELSE None, previous |-> None]
               n == Wait("activate", arg)
    <3>1. disk'.demo = None /\ disk'.selected = "demo"
      <4>1. cleared \in Storages
        BY ClearedAccount DEF TypeOK
      <4>2. disk' = [cleared EXCEPT !.selected = "demo", !.demo = None]
        BY <1>8, <2>2 DEF EnterDemo
      <4> HIDE DEF cleared
      <4> QED BY <4>1, <4>2 DEF Storages
    <3>2. conts' = (conts \ {c}) \cup {n} /\ ctl' = [k EXCEPT !.key = key, !.dirty = FALSE]
          /\ log' = KeyMade([log EXCEPT !.given = @ \cup ({disk.demo} \ {None})])
      BY <1>8, <2>2 DEF EnterDemo, Start
    <3>3. k \in Controllers /\ k.adapter = "demo" /\ k.key = ctl.key
      BY DEF TypeOK, ControllerTyped, Controllers
    <3>4. ctl.key \in {None, key}
      BY <3>3 DEF StartKey
    <3>5. n.kind = "activate" /\ n.scope = gen' /\ n.arg.key = key
      BY <3>3 DEF Wait
    <3>6. ctl'.key = key
      <4> HIDE DEF key, k
      <4> QED BY <3>2, <3>3 DEF Controllers
    <3>7. log'.demos = log.demos /\ log'.given = log.given \cup ({disk.demo} \ {None})
      BY <3>2, KeyMadeTyped
    <3>8. gen < gen' /\ ~ Opens' /\ view'.op # "restore"
      BY <1>8, <2>2, AbsentApart DEF EnterDemo, PublishAs, Opens, TypeOK, Scopes
    <3> HIDE DEF key, k, n
    <3> QED BY <2>0, <3>0, <3>1, <3>2, <3>4, <3>5, <3>6, <3>7, <3>8, OrphansStart
  <2> QED BY <2>1, <2>2
<1> QED BY <1>1, <1>3, <1>4, <1>5, <1>6, <1>7, <1>8 DEF Starting

LEMMA OrphansLogin ==
    ASSUME TypeOK, TypeOK', Core, Orphans, Local' = Local, NEW intent, NEW entry, StartAccountLogin(intent, entry)
    PROVE  Orphans'
<1> DEFINE named == IF intent = None THEN GivenUp.names ELSE intent.id
<1>1. log' = [GivenUp EXCEPT !.dispatched = FALSE, !.names = named]
  BY DEF StartAccountLogin
<1>2. GivenUp \in Logs
  BY GivenUpTyped
<1>3. log'.given = GivenUp.given /\ log'.demos = log.demos
  <2> HIDE DEF named, GivenUp
  <2> QED BY <1>1, <1>2, LetGo DEF Logs
<1>4. gen < gen' /\ ~ Opens' /\ view'.op # "restore"
  BY AbsentApart DEF StartAccountLogin, Move, PublishAs, Opens, TypeOK, Scopes
<1>5. \A d \in conts' : d.kind = "activate" => d \in conts
  BY DEF StartAccountLogin, Wait
<1> QED BY <1>3, <1>4, <1>5, HeldGivenUp, EarlierScopes, OrphansSettle

LEMMA OrphansSigningIn ==
    ASSUME TypeOK, TypeOK', Core, Holding, Orphans, Local' = Local, SigningIn
    PROVE  Orphans'
<1>0. AccountCleared(disk).selected = disk.selected /\ AccountCleared(disk).demo = disk.demo
      /\ AccountCleared(disk) \in Storages
  BY ClearedAccount DEF TypeOK
<1>1. CASE \E entry \in {"signin", "signup"}, discard \in BOOLEAN : BeginSignIn(entry, discard)
  BY <1>1, OrphansLogin DEF BeginSignIn
<1>2. CASE ProviderAnswers \/ Revisit
  BY <1>2, OrphansLoaded DEF ProviderAnswers, Revisit
<1>3. ASSUME NEW c \in conts, LoginRedirects(c) PROVE Orphans'
  <2> DEFINE tx == [name |-> Fresh, intent |-> IF c.arg.intent = None THEN None ELSE c.arg.intent.id]
  <2>1. disk' = [disk EXCEPT !.tx = tx, !.intent = c.arg.intent]
    BY <1>3 DEF LoginRedirects
  <2> HIDE DEF tx
  <2>2. disk'.selected = disk.selected /\ disk'.demo = disk.demo
    BY <2>1 DEF Storages, TypeOK
  <2>3. UNCHANGED <<gen, view, ctl>> /\ log'.demos = log.demos /\ log'.given = log.given
    BY <1>3 DEF LoginRedirects, TypeOK, Logs
  <2>4. \A d \in conts \cup conts' : d.kind = "activate" => d \in conts /\ d \in conts'
    BY <1>3 DEF LoginRedirects, Resume
  <2> QED BY <2>2, <2>3, <2>4, OrphansStay
<1>4. ASSUME NEW c \in conts, LoginFails(c) \/ CallbackRefused(c) PROVE Orphans'
  <2>1. /\ gen' = gen /\ ctl'.key = ctl.key /\ disk' \in {disk, AccountCleared(disk)} /\ UNCHANGED log
        /\ ~ Opens' /\ view'.op # "restore"
    BY <1>4, AbsentApart DEF LoginFails, CallbackRefused, AccountForgotten, Publish, PublishAs, Opens,
       TypeOK, ControllerTyped, Controllers
  <2>2. \A d \in conts \cup conts' : d.kind = "activate" => d \in conts /\ d \in conts'
    BY <1>4 DEF LoginFails, CallbackRefused, Resume
  <2> QED BY <1>0, <2>1, <2>2, OrphansStay
<1>5. ASSUME NEW c \in conts, ExchangeRefused(c) \/ TokensRefused(c) PROVE Orphans'
  <2>1. PICK cleared \in {disk, AccountCleared(disk)} : ExchangeFailed(c, cleared)
    BY <1>5 DEF ExchangeRefused, TokensRefused
  <2>2. c.kind \in {"exchange", "tokens"}
    BY <1>5 DEF ExchangeRefused, TokensRefused, Resume
  <2>3. /\ gen' = gen /\ disk' \in {disk, AccountCleared(disk)} /\ UNCHANGED <<ctl, log>>
        /\ ~ Opens' /\ view'.op # "restore"
    BY <2>1, AbsentApart DEF ExchangeFailed, AccountForgotten, Publish, PublishAs, Opens
  <2>4. \A d \in conts \cup conts' : d.kind = "activate" => d \in conts /\ d \in conts'
    BY <2>1, <2>2 DEF ExchangeFailed
  <2> QED BY <1>0, <2>3, <2>4, OrphansStay
<1>6. CASE CompleteOAuthCallback
  <2>1. UNCHANGED <<disk, log>> /\ ctl'.key = ctl.key /\ gen < gen' /\ ~ Opens' /\ view'.op # "restore"
    BY <1>6, AbsentApart DEF CompleteOAuthCallback, Move, PublishAs, Opens, TypeOK, ControllerTyped, Controllers, Scopes
  <2>2. CASE Local
    BY <2>1, <2>2, OrphansLocal
  <2>3. CASE ~ Local
    <3>1. ~ Pending
      BY <1>6, <2>3 DEF CompleteOAuthCallback, Orphans, Asking
    <3>2. \A d \in conts' : d.kind = "activate" => d \in conts
      BY <1>6 DEF CompleteOAuthCallback, Wait
    <3> QED BY <2>1, <3>1, <3>2, HeldStays, EarlierScopes, OrphansSettle
  <2> QED BY <2>2, <2>3
<1>7. ASSUME NEW c \in conts, CallbackProceeds(c) PROVE Orphans'
  <2>1. log' = GivenUp /\ log'.demos = log.demos
    BY <1>7, LetGo DEF CallbackProceeds
  <2>2. gen < gen' /\ ~ Opens' /\ view'.op # "restore"
    BY <1>7, AbsentApart DEF CallbackProceeds, Move, PublishAs, Opens, TypeOK, Scopes
  <2>3. \A d \in conts' : d.kind = "activate" => d \in conts
    BY <1>7 DEF CallbackProceeds, Wait
  <2> QED BY <2>1, <2>2, <2>3, HeldGivenUp, EarlierScopes, OrphansSettle
<1>8. ASSUME NEW c \in conts, ExchangeStarts(c) PROVE Orphans'
  <2>1. UNCHANGED <<gen, view, ctl, log>> /\ disk'.demo = disk.demo /\ disk'.selected = disk.selected
    BY <1>8 DEF ExchangeStarts, TypeOK, Storages
  <2> DEFINE to == [subject |-> c.arg.code.subject, named |-> disk.tx.intent, intent |-> c.arg.intent]
             n == [c EXCEPT !.kind = "tokens", !.arg = to]
  <2>2. conts' = (conts \ {c}) \cup {n} /\ c.kind = "exchange"
    BY <1>8 DEF ExchangeStarts, Resume
  <2>3. n.kind = "tokens"
    <3>1. c = [kind |-> c.kind, scope |-> c.scope, arg |-> c.arg]
      BY SuspendedArgs DEF TypeOK, ContsTyped
    <3> HIDE DEF to
    <3> QED BY <3>1
  <2> HIDE DEF n
  <2>4. \A d \in conts \cup conts' : d.kind = "activate" => d \in conts /\ d \in conts'
    BY <2>2, <2>3
  <2> QED BY <2>1, <2>4, OrphansStay
<1>9. ASSUME NEW c \in conts, TokensArrive(c) PROVE Orphans'
  <2>1. /\ gen' = gen /\ UNCHANGED ctl /\ disk'.demo = disk.demo /\ disk'.selected = disk.selected
        /\ log'.demos = log.demos /\ log'.given = log.given
        /\ view' = view \/ (~ Opens' /\ view'.op # "restore")
    BY <1>9, AbsentApart DEF TokensArrive, Publish, PublishAs, Opens, TypeOK, Storages, Logs
  <2>2. \A d \in conts \cup conts' : d.kind = "activate" => d \in conts /\ d \in conts'
    BY <1>9 DEF TokensArrive, Resume, Wait
  <2> QED BY <2>1, <2>2, OrphansStay
<1>10. ASSUME NEW c \in conts, LoginBegins(c) PROVE Orphans'
  <2> DEFINE n == Wait("login", [intent |-> c.arg.intent, entry |-> c.arg.entry, begun |-> TRUE])
  <2>1. /\ UNCHANGED <<gen, view, log>> /\ ctl'.key = ctl.key
        /\ disk'.selected = disk.selected /\ disk'.demo = disk.demo
    BY <1>0, <1>10 DEF LoginBegins, AccountForgotten, TypeOK, ControllerTyped, Controllers
  <2>2. conts' = (conts \ {c}) \cup {n} /\ c.kind = "login" /\ n.kind = "login"
    BY <1>10, BegunWait DEF LoginBegins, Resume
  <2> HIDE DEF n
  <2>3. \A d \in conts \cup conts' : d.kind = "activate" => d \in conts /\ d \in conts'
    BY <2>2
  <2> QED BY <2>1, <2>3, OrphansStay
<1> QED BY <1>1, <1>2, <1>3, <1>4, <1>5, <1>6, <1>7, <1>8, <1>9, <1>10 DEF SigningIn

LEMMA OrphansUsing ==
    ASSUME TypeOK, TypeOK', Core, Holding, Orphans, Local' = Local, UsingAccount
    PROVE  Orphans'
<1>1. ASSUME NEW c \in conts, Bootstrapped(c) PROVE Orphans'
  <2>1. Now(c) /\ c.kind = "bootstrap" /\ c.kind \notin Aside \cup {"activate"}
    BY <1>1 DEF Bootstrapped, Resume, Now, Aside
  <2>2. Account(mem) \in Identities /\ Account(mem)[1] = "account"
    BY <1>1 DEF Bootstrapped, TypeOK, Maybe, Identities, Account
  <2>3. disk'.demo = disk.demo
    BY <1>1, <2>2, PersistedDisk DEF Bootstrapped, BecomeReady, TypeOK
  <2>4. /\ ctl'.key = ctl.key /\ UNCHANGED log /\ conts' \subseteq conts
        /\ gen < gen' /\ ~ Opens' /\ view'.op # "restore"
    BY <1>1, <2>2, AbsentApart DEF Bootstrapped, BecomeReady, Move, PublishAs, Opens,
       TypeOK, ControllerTyped, Controllers, Scopes
  <2> QED BY <2>1, <2>3, <2>4, NoneStarted, HeldStays, EarlierScopes, OrphansSettle
<1>2. ASSUME NEW c \in conts, IdentityMismatch(c) \/ BootstrapFails(c) PROVE Orphans'
  <2>1. /\ gen' = gen /\ UNCHANGED <<ctl, log>> /\ disk' \in {disk, AccountCleared(disk)}
        /\ ~ Opens' /\ view'.op # "restore"
    BY <1>2, AbsentApart DEF IdentityMismatch, BootstrapFails, AccountForgotten, Publish, PublishAs, Opens
  <2>2. \A d \in conts \cup conts' : d.kind = "activate" => d \in conts /\ d \in conts'
    BY <1>2 DEF IdentityMismatch, BootstrapFails, Resume
  <2>3. disk'.selected = disk.selected /\ disk'.demo = disk.demo
    BY <2>1, ClearedAccount DEF TypeOK
  <2> QED BY <2>1, <2>2, <2>3, OrphansStay
<1>3. CASE RetryAccountBootstrap
  <2>1. view.status \notin {"switching", "activating", "bootstrapping"}
    BY <1>3 DEF RetryAccountBootstrap
  <2>2. /\ ctl'.key = ctl.key /\ UNCHANGED <<disk, log>>
        /\ gen < gen' /\ ~ Opens' /\ view'.op # "restore"
    BY <1>3, AbsentApart DEF RetryAccountBootstrap, Move, PublishAs, Opens,
       TypeOK, ControllerTyped, Controllers, Scopes
  <2>3. \A d \in conts' : d.kind = "activate" => d \in conts
    BY <1>3 DEF RetryAccountBootstrap, Wait
  <2> QED BY <2>1, <2>2, <2>3, NoneStarted, HeldStays, EarlierScopes, OrphansSettle
<1> QED BY <1>1, <1>2, <1>3 DEF UsingAccount

LEMMA OrphansSensitive ==
    ASSUME TypeOK, TypeOK', Core, Holding, Orphans, Local' = Local, Sensitive
    PROVE  Orphans'
<1>1. CASE \E want \in Wants : BeginSensitiveOperation(want)
  BY <1>1, OrphansLogin DEF BeginSensitiveOperation
<1>2. ASSUME NEW want \in {"export", "delete"}, Performing(want) PROVE Orphans'
  <2>1. gen' = gen /\ UNCHANGED ctl /\ ~ Opens' /\ view'.op # "restore"
    BY <1>2, AbsentApart DEF Performing, Managing, Publish, PublishAs, Opens
  <2>2. disk'.selected = disk.selected /\ disk'.demo = disk.demo
    BY <1>2 DEF Performing, TypeOK, Storages
  <2> DEFINE now == log.dispatched \/ want = "delete"
  <2>3. log' = [log EXCEPT !.requests = @ + 1, !.performed = @ \cup {<<manage.intent.id, mem>>},
                           !.dispatched = now]
    BY <1>2 DEF Performing
  <2> HIDE DEF now
  <2>4. log'.demos = log.demos /\ log'.given = log.given
    BY <2>3 DEF TypeOK, Logs
  <2>5. \A d \in conts \cup conts' : d.kind = "activate" => d \in conts /\ d \in conts'
    BY <1>2 DEF Performing, Wait
  <2> QED BY <2>1, <2>2, <2>4, <2>5, OrphansStay
<1>3. CASE ReviewAccountDeletion
  <2>1. gen' = gen /\ UNCHANGED <<ctl, disk, log>> /\ ~ Opens' /\ view'.op # "restore"
    BY <1>3, AbsentApart DEF ReviewAccountDeletion, Managing, Publish, PublishAs, Opens
  <2>2. \A d \in conts \cup conts' : d.kind = "activate" => d \in conts /\ d \in conts'
    BY <1>3 DEF ReviewAccountDeletion, Wait
  <2> QED BY <2>1, <2>2, OrphansStay
<1>4. ASSUME NEW c \in conts, Exported(c) \/ SensitiveFails(c) \/ DeletionUnfinished(c) PROVE Orphans'
  <2>1. gen' = gen /\ UNCHANGED <<ctl, disk, log>> /\ ~ Opens' /\ view'.op # "restore"
    BY <1>4, AbsentApart DEF Exported, SensitiveFails, DeletionUnfinished, Managing, Publish, PublishAs, Opens
  <2>2. c.kind # "activate" /\ conts' = conts \ {c}
    BY <1>4, ManagingKinds DEF Exported, SensitiveFails, DeletionUnfinished
  <2>3. \A d \in conts \cup conts' : d.kind = "activate" => d \in conts /\ d \in conts'
    BY <2>2
  <2> QED BY <2>1, <2>3, OrphansStay
<1>5. ASSUME NEW c \in conts, ServerErases(c) PROVE Orphans'
  <2>1. UNCHANGED <<gen, view, ctl, disk, conts>> /\ log'.demos = log.demos /\ log'.given = log.given
    BY <1>5 DEF ServerErases, TypeOK, Logs
  <2> QED BY <2>1, OrphansStay
<1>6. ASSUME NEW c \in conts, NEW complete \in BOOLEAN, DeletionFinalized(c, complete) PROVE Orphans'
  <2>1. Now(c) /\ c.kind \in Aside \ {"demo"}
    BY <1>6, ManagingKinds DEF DeletionFinalized, Resume, Now, Aside
  <2>2. view.status = "account-management"
    BY <2>1, ShownKinds DEF Core, Visible, TypeOK, ContsTyped
  <2>3. disk'.demo = disk.demo
    BY <1>6, ClearedAccount DEF DeletionFinalized, TypeOK, Storages
  <2>4. /\ ctl'.key = ctl.key /\ UNCHANGED log /\ conts' \subseteq conts
        /\ gen < gen' /\ ~ Opens' /\ view'.op # "restore"
    BY <1>6, AbsentApart DEF DeletionFinalized, Move, PublishAs, Opens,
       TypeOK, ControllerTyped, Controllers, Scopes
  <2> QED BY <2>2, <2>3, <2>4, NoneStarted, HeldStays, EarlierScopes, OrphansSettle
<1> QED BY <1>1, <1>2, <1>3, <1>4, <1>5, <1>6 DEF Sensitive, PerformSensitiveExport, PerformAccountDeletion

LEMMA OrphansEnding ==
    ASSUME TypeOK, TypeOK', Core, Holding, Orphans, Local' = Local, Ending
    PROVE  Orphans'
<1>0. AccountCleared(disk).selected = disk.selected /\ AccountCleared(disk).demo = disk.demo
      /\ [AccountCleared(disk) EXCEPT !.selected = "none"].demo = disk.demo
  BY ClearedAccount DEF TypeOK, Storages
<1>1. CASE (\E discard \in BOOLEAN : Leave(discard)) \/ Unauthorized \/ DemoExpires
  BY <1>1, OrphansAway DEF Leave, Unauthorized, DemoExpires, Statuses, Transient
<1>2. ASSUME NEW discard \in BOOLEAN, SignOut(discard) PROVE Orphans'
  <2>1. CASE ctl.adapter # "account"
    BY <1>2, <2>1, OrphansAway DEF SignOut, Leave, Statuses, Transient
  <2>2. CASE ctl.adapter = "account"
    <3>1. log' = GivenUp /\ log'.demos = log.demos
      BY <1>2, <2>2, LetGo DEF SignOut
    <3>2. gen < gen' /\ ~ Opens' /\ view'.op # "restore"
      BY <1>2, <2>2, AbsentApart DEF SignOut, Move, PublishAs, Opens, TypeOK, Scopes
    <3>3. \A d \in conts' : d.kind = "activate" => d \in conts
      BY <1>2, <2>2 DEF SignOut, Wait
    <3> QED BY <3>1, <3>2, <3>3, HeldGivenUp, EarlierScopes, OrphansSettle
  <2> QED BY <2>1, <2>2
<1>3. CASE RenewalFails \/ AcceptSignedOut
  <2>1. ~ Pending
    BY <1>3, NoneStarted DEF RenewalFails, AcceptSignedOut, Holding
  <2>2. ctl'.key = ctl.key /\ UNCHANGED <<conts, log>> /\ disk'.demo = disk.demo
    BY <1>0, <1>3 DEF RenewalFails, AcceptSignedOut, TypeOK, ControllerTyped, Controllers
  <2>3. gen < gen' /\ ~ Opens' /\ view'.op # "restore"
    <3>1. \E status \in {"anonymous", "error"}, op \in {None, "account"} : Move(status, None, op)
      BY <1>3 DEF RenewalFails, AcceptSignedOut
    <3> QED BY <3>1, AbsentApart DEF Move, PublishAs, Opens, TypeOK, Scopes
  <2> QED BY <2>1, <2>2, <2>3, HeldStays, EarlierScopes, OrphansSettle
<1>4. CASE AnotherTabSignsOut
  <2>1. CASE ctl.adapter = "account" /\ disk.selected = "cognito"
    BY <1>4, <2>1, OrphansAway DEF AnotherTabSignsOut, Statuses, Transient
  <2>2. CASE ~ (ctl.adapter = "account" /\ disk.selected = "cognito")
    <3>1. UNCHANGED <<gen, view, ctl, conts, log>> /\ disk' = AccountCleared(disk)
      BY <1>4, <2>2 DEF AnotherTabSignsOut, AccountForgotten
    <3> QED BY <1>0, <3>1, OrphansStay
  <2> QED BY <2>1, <2>2
<1>5. CASE ProviderSignedOut
  BY <1>5, OrphansLoaded DEF ProviderSignedOut
<1>6. ASSUME NEW c \in conts, Revoked(c) PROVE Orphans'
  <2>1. gen' = gen /\ UNCHANGED <<ctl, disk, log>> /\ ~ Opens' /\ view'.op # "restore"
    BY <1>6, AbsentApart DEF Revoked, Publish, PublishAs, Opens
  <2>2. \A d \in conts \cup conts' : d.kind = "activate" => d \in conts /\ d \in conts'
    BY <1>6 DEF Revoked, Resume
  <2> QED BY <2>1, <2>2, OrphansStay
<1>7. ASSUME NEW c \in conts, Retire(c) PROVE Orphans'
  <2>1. c.scope # gen /\ conts' = conts \ {c} /\ UNCHANGED <<gen, view, ctl, disk, log>>
    BY <1>7 DEF Retire
  <2>2. Obliged' \subseteq Obliged
    BY <2>1 DEF Obliged
  <2>3. Replacing' = Replacing
    BY <2>1 DEF Replacing
  <2>4. Held' = Held
    <3> HIDE DEF Replacing
    <3> QED BY <2>1, <2>3 DEF Held
  <2>5. Asking' /\ InPlace'
    BY <2>1 DEF Orphans, Asking, Opens, Pending, InPlace, Now
  <2> QED BY <2>1, <2>2, <2>4, <2>5 DEF Orphans, AnsweredFor
<1> QED BY <1>1, <1>2, <1>3, <1>4, <1>5, <1>6, <1>7 DEF Ending

LEMMA OrphansStep == TypeOK /\ TypeOK' /\ Core /\ Holding /\ Orphans /\ [Next]_tabVars => Orphans'
<1> SUFFICES ASSUME TypeOK, TypeOK', Core, Holding, Orphans, [Next]_tabVars PROVE Orphans'
  OBVIOUS
<1>1. Local' = Local
  BY LocalKept
<1>2. CASE Editing \/ UNCHANGED tabVars
  <2>1. UNCHANGED <<gen, mem, view, disk, conts, log>> /\ ctl'.key = ctl.key
    BY <1>2 DEF Editing, Edit, Settle, tabVars, TypeOK, ControllerTyped, Controllers
  <2> QED BY <1>1, <2>1, OrphansStay
<1> QED BY <1>1, <1>2, OrphansOpening, OrphansStarting, OrphansSigningIn, OrphansUsing, OrphansSensitive,
        OrphansEnding DEF Next, Plain

LEMMA OrphansInit == Init => Orphans
<1> SUFFICES ASSUME Init PROVE Orphans
  OBVIOUS
<1>1. log.demos = {} /\ disk.selected = None /\ \A d \in conts : d.kind # "activate"
  BY DEF Init, TabInit, EmptyDisk, FirstWait
<1>2. view.op # "restore"
  BY AbsentApart DEF Init, TabInit, FirstView
<1>3. AnsweredFor
  BY <1>1 DEF AnsweredFor, Obliged
<1> QED BY <1>1, <1>2, <1>3, AbsentApart DEF Orphans, Asking, InPlace

(***************************************************************************)
(* A demo the server made is the tab's, may be asked for again under the   *)
(* key it was made under, or was let go.                                   *)
(***************************************************************************)
THEOREM NoDemoIsOrphaned == Spec => []NoOrphanDemo
<1>1. Orphans => NoOrphanDemo
  BY DEF Orphans, AnsweredFor, Obliged, NoOrphanDemo
<1> QED BY <1>1, CoreInit, CoreStep, HoldsInit, HoldsStep, OrphansInit, OrphansStep, SessionTyped, PTL DEF Spec

-----------------------------------------------------------------------------
(***************************************************************************)
(* Sensitive operations: an intent passes from the sign-in that verifies   *)
(* it to the storage and on to the one request it allows.                  *)
(***************************************************************************)
Verified(i) == <<i.id, i.subject>> \in log.verified

\* A sign-in that carries an intent, and a request one allowed.
Given(c) == c.kind = "login" /\ c.arg.intent # None
Requested(c) == c.kind \in {"export", "delete", "review"}

Proven ==
    /\ view.status = "account-management" => Verified(manage.intent)
    /\ \A c \in conts : Requested(c) => Verified(c.arg.intent)

\* An intent is in one place, and in none once it was used.
Unused ==
    /\ disk.intent # None => disk.intent.id <= log.names
    /\ \A c \in conts : Given(c) =>
          /\ c.arg.intent.id <= log.names
          /\ disk.intent # None => disk.intent.id # c.arg.intent.id
          /\ \A d \in conts : Given(d) /\ c.arg.intent.id = d.arg.intent.id => c = d
    /\ \A p \in log.performed :
          /\ p[1] <= log.names
          /\ disk.intent # None => disk.intent.id # p[1]
          /\ \A c \in conts : Given(c) => c.arg.intent.id # p[1]

Counted == IsFiniteSet(log.performed) /\ SensitiveOnce

Sens == Proven /\ Unused /\ Counted

\* A step that neither gives, verifies nor uses an intent.
SameLog ==
    /\ log'.performed = log.performed /\ log'.requests = log.requests /\ log'.verified = log.verified
    /\ log.names <= log'.names

Harmless ==
    /\ SameLog
    /\ disk'.intent \in {disk.intent, None}
    /\ \A c \in conts' : Given(c) \/ Requested(c) => c \in conts
    /\ view'.status = "account-management" => view.status = "account-management" /\ manage' = manage

LEMMA NamesTyped == ASSUME TypeOK PROVE log.names \in Nat
BY TabAssumption DEF TypeOK, Logs

LEMMA IntentIds ==
    ASSUME TypeOK
    PROVE  /\ disk.intent # None => disk.intent.id \in Nat
           /\ \A c \in conts : Given(c) => c.arg.intent \in Intents /\ c.arg.intent.id \in Nat
           /\ \A p \in log.performed : p[1] \in Nat
<1>1. \A i \in Intents : i.id \in Nat
  BY DEF Intents, Named
<1>2. disk.intent # None => disk.intent \in Intents
  BY DEF TypeOK, Storages, Maybe
<1>3. \A c \in conts : Given(c) => c.arg.intent \in Intents
  BY SuspendedArgs DEF Given, TypeOK, ContsTyped, Maybe
<1>4. \A p \in log.performed : p[1] \in Nat
  BY DEF TypeOK, Logs, Named
<1> QED BY <1>1, <1>2, <1>3, <1>4

LEMMA SensKept == ASSUME TypeOK, TypeOK', Sens, Harmless PROVE Sens'
<1> USE DEF Harmless, SameLog
<1>1. Proven'
  BY DEF Sens, Proven, Verified, Requested
<1>2. Unused'
  <2>1. \A x \in Nat : x <= log.names => x <= log'.names
    <3>1. log'.names \in Nat
      BY TabAssumption DEF TypeOK, Logs
    <3> QED BY <3>1, NamesTyped
  <2> QED BY <2>1, IntentIds DEF Sens, Unused, Given
<1>3. Counted'
  BY DEF Sens, Counted, SensitiveOnce
<1> QED BY <1>1, <1>2, <1>3 DEF Sens

LEMMA LogLetGo == ASSUME TypeOK, log' = GivenUp \/ log' = log PROVE SameLog
BY LetGo, NamesTyped DEF SameLog

LEMMA HarmlessLoaded == ASSUME TypeOK, NEW path, NEW code, Load(path, code) PROVE Harmless
<1>1. SameLog
  BY NamesTyped DEF Load, SameLog, TypeOK, Logs
<1> QED BY <1>1 DEF Load, FirstView, FirstStatus, FirstWait, Harmless, Given, Requested

LEMMA HarmlessAway ==
    ASSUME TypeOK, NEW status \in {"anonymous", "expired"}, NEW op, Away(status, op)
    PROVE  Harmless
<1>1. SameLog
  BY LogLetGo DEF Away
<1>2. disk'.intent = None
  BY ForgottenAll DEF Away, TypeOK, ControllerTyped
<1> QED BY <1>1, <1>2 DEF Away, Move, PublishAs, Harmless

LEMMA HarmlessReady ==
    ASSUME TypeOK, NEW who \in Identities, NEW op, BecomeReady(who, op), SameLog, conts' \subseteq conts
    PROVE  Harmless
<1>1. disk'.intent = disk.intent
  BY PersistedDisk DEF BecomeReady, TypeOK
<1> QED BY <1>1 DEF BecomeReady, Move, PublishAs, Harmless

LEMMA HarmlessOpening == ASSUME TypeOK, TypeOK', Core, Holding, Opening PROVE Harmless
<1>0. AccountCleared(disk).intent = None
      /\ [AccountCleared(disk) EXCEPT !.selected = "none"].intent = None
  BY ClearedAccount DEF TypeOK, Storages
<1>1. CASE OpenTab
  BY <1>1, HarmlessLoaded DEF OpenTab
<1>2. CASE ConfigurationFails \/ \E caps \in Offers : ConfigurationLoads(caps)
  <2>1. UNCHANGED <<view, manage, conts, log>> /\ disk' \in {disk, AccountCleared(disk)}
    BY <1>2 DEF ConfigurationFails, ConfigurationLoads
  <2> QED BY <1>0, <2>1, LogLetGo DEF Harmless
<1>3. ASSUME NEW discard \in BOOLEAN, RetryConfiguration(discard) PROVE Harmless
  <2>1. SameLog
    BY <1>3, LogLetGo DEF RetryConfiguration
  <2>2. disk'.intent = None
    BY <1>3, ForgottenAll DEF RetryConfiguration, TypeOK, ControllerTyped
  <2> QED BY <1>3, <2>1, <2>2 DEF RetryConfiguration, Move, PublishAs, Harmless
<1>4. ASSUME NEW c \in conts, Initialize(c) PROVE Harmless
  <2>1. SameLog /\ conts' \subseteq conts
    BY <1>4, LogLetGo DEF Initialize
  <2>2. CASE BecomeReady(Demo(disk.demo), None) /\ disk.demo # None
    BY <2>1, <2>2, HarmlessReady DEF Identities, Demos, TypeOK, Storages, Maybe
  <2>3. CASE view'.status # "account-management" /\ disk'.intent \in {disk.intent, None}
    BY <2>1, <2>3 DEF Harmless
  <2>4. \/ BecomeReady(Demo(disk.demo), None) /\ disk.demo # None
        \/ view'.status # "account-management" /\ disk'.intent \in {disk.intent, None}
    <3>1. /\ AdapterCleared(disk).intent \in {disk.intent, None}
          /\ [disk EXCEPT !.demo = None].intent = disk.intent
      BY ClearedAdapter DEF TypeOK, ControllerTyped, Storages
    <3>2. \A op : \A status \in {"anonymous", "expired", "error"} : Publish(status, None, op) =>
              view'.status # "account-management"
      BY DEF Publish, PublishAs
    <3> QED BY <1>0, <1>4, <3>1, <3>2 DEF Initialize
  <2> QED BY <2>2, <2>3, <2>4
<1>5. ASSUME NEW c \in conts, RestoreAccount(c) PROVE Harmless
  <2>1. \A d \in conts' : Given(d) \/ Requested(d) => d \in conts
    BY <1>5 DEF RestoreAccount, Wait, Given, Requested
  <2> QED BY <1>5, <2>1, LogLetGo DEF RestoreAccount, Move, PublishAs, Harmless
<1>6. ASSUME NEW c \in conts, Restored(c) PROVE Harmless
  <2>1. SameLog
    BY <1>6, LogLetGo DEF Restored
  <2>2. CASE BecomeReady(LocalWorkspace, None) /\ conts' = conts \ {c}
    BY <2>1, <2>2, HarmlessReady DEF Identities
  <2>3. CASE ~ (BecomeReady(LocalWorkspace, None) /\ conts' = conts \ {c})
    <3>1. \A d \in conts' : Given(d) \/ Requested(d) => d \in conts
      BY <1>6 DEF Restored, Wait, Given, Requested
    <3>2. disk'.intent \in {disk.intent, None}
      BY <1>0, <1>6, <2>3 DEF Restored
    <3>3. view'.status = "account-management" => view' = view
      BY <1>6, <2>3 DEF Restored, Publish, PublishAs
    <3> QED BY <1>6, <2>1, <3>1, <3>2, <3>3 DEF Restored, Harmless
  <2> QED BY <2>2, <2>3
<1> QED BY <1>1, <1>2, <1>3, <1>4, <1>5, <1>6 DEF Opening

LEMMA HarmlessStarting == ASSUME TypeOK, TypeOK', Starting PROVE Harmless
<1>1. ASSUME NEW reset \in BOOLEAN, Activate(reset) PROVE Harmless
  <2>1. PICK S : log' = KeyMade([log EXCEPT !.given = @ \cup S])
    BY <1>1 DEF Activate
  <2>2. SameLog
    BY <2>1, KeyMadeTyped DEF SameLog
  <2>3. PICK arg : conts' = conts \cup {Wait("activate", arg)}
    BY <1>1 DEF Activate, Start
  <2>4. \A d \in conts' : Given(d) \/ Requested(d) => d \in conts
    BY <2>3 DEF Wait, Given, Requested
  <2>5. disk'.intent \in {disk.intent, None}
    BY <1>1, ClearedAdapter DEF Activate, TypeOK, ControllerTyped
  <2>6. view'.status # "account-management"
    BY <1>1 DEF Activate, Move, PublishAs
  <2> QED BY <2>2, <2>4, <2>5, <2>6 DEF Harmless
<1>2. ASSUME NEW S, NEW T PROVE /\ log' = [log EXCEPT !.given = @ \cup S] => SameLog
                                /\ log' = [log EXCEPT !.demos = @ \cup T] => SameLog
                                /\ log' = [log EXCEPT !.demos = @ \cup T, !.given = @ \cup S] => SameLog
  <2>1. log' = [log EXCEPT !.given = @ \cup S] => SameLog
    BY NamesTyped DEF SameLog, TypeOK, Logs
  <2>2. log' = [log EXCEPT !.demos = @ \cup T] => SameLog
    BY NamesTyped DEF SameLog, TypeOK, Logs
  <2>3. log' = [log EXCEPT !.demos = @ \cup T, !.given = @ \cup S] => SameLog
    BY NamesTyped DEF SameLog, TypeOK, Logs
  <2> QED BY <2>1, <2>2, <2>3
<1>3. ASSUME NEW c \in conts, Activated(c) PROVE Harmless
  <2>1. (IF Local THEN LocalWorkspace ELSE Demo(c.arg.key)) \in Identities
    BY <1>3, SuspendedArgs DEF Activated, Resume, TypeOK, ContsTyped, ForBuild, Identities, Demos, Maybe
  <2>2. SameLog
    <3> HIDE DEF PreviousKey
    <3> QED BY <1>2, <1>3, LogLetGo DEF Activated
  <2> QED BY <1>3, <2>1, <2>2, HarmlessReady DEF Activated
<1>4. ASSUME NEW c \in conts, ActivationRefused(c) \/ ActivationUnclear(c) PROVE Harmless
  <2>1. PICK S : FallBack(c, S)
    BY <1>4 DEF ActivationRefused, ActivationUnclear
  <2>2. SameLog
    <3> HIDE DEF PreviousKey
    <3>1. \E U : log' = [log EXCEPT !.given = @ \cup U]
      <4>1. [log EXCEPT !.given = @ \cup S \cup PreviousKey(c)] = [log EXCEPT !.given = @ \cup (S \cup PreviousKey(c))]
        BY DEF TypeOK, Logs
      <4> QED BY <2>1, <4>1 DEF FallBack
    <3> QED BY <1>2, <3>1
  <2>3. c.arg.previous # None => c.arg.previous \in Identities
    BY <1>4, SuspendedArgs DEF ActivationRefused, ActivationUnclear, Resume, TypeOK, ContsTyped, Identities, Maybe
  <2>4. conts' \subseteq conts
    BY <1>4 DEF ActivationRefused, ActivationUnclear
  <2>5. CASE c.arg.previous # None /\ BecomeReady(c.arg.previous, "error")
    BY <2>2, <2>3, <2>4, <2>5, HarmlessReady
  <2>6. CASE Publish("error", None, "activate") /\ UNCHANGED disk
    BY <2>2, <2>4, <2>6 DEF Publish, PublishAs, Harmless
  <2> QED BY <2>1, <2>5, <2>6 DEF FallBack
<1>5. ASSUME NEW c \in conts, ServerProvisions(c) \/ DemoRefused(c) PROVE Harmless
  BY <1>2, <1>5, LogLetGo DEF ServerProvisions, DemoRefused, Harmless
<1>6. CASE AbandonReset
  <2>1. view'.status = view.status
    BY <1>6 DEF AbandonReset, TypeOK, ViewTyped
  <2> QED BY <1>2, <1>6, <2>1 DEF AbandonReset, Harmless
<1>7. ASSUME NEW discard \in BOOLEAN, AskForDemo(discard) PROVE Harmless
  <2>1. \A d \in conts' : Given(d) \/ Requested(d) => d \in conts
    BY <1>7 DEF AskForDemo, Given, Requested
  <2> QED BY <1>7, <2>1, LogLetGo DEF AskForDemo, Harmless
<1>8. ASSUME NEW c \in conts, EnterDemo(c) PROVE Harmless
  <2>1. CASE Pending /\ ctl.adapter = "demo"
    <3>1. disk'.intent = disk.intent
      BY <1>8, <2>1 DEF EnterDemo, TypeOK, Storages
    <3> QED BY <1>8, <2>1, <3>1, LogLetGo DEF EnterDemo, Harmless
  <2>2. CASE ~ (Pending /\ ctl.adapter = "demo")
    <3>1. disk'.intent \in {disk.intent, None}
      <4> DEFINE cleared == IF ctl.adapter = "account" THEN AccountCleared(disk) ELSE disk
      <4>1. cleared \in Storages /\ cleared.intent \in {disk.intent, None}
        BY ClearedAccount DEF TypeOK
      <4>2. disk' = [cleared EXCEPT !.selected = "demo", !.demo = None]
        BY <1>8, <2>2 DEF EnterDemo
      <4> HIDE DEF cleared
      <4> QED BY <4>1, <4>2 DEF Storages
    <3>2. PICK arg : conts' = (conts \ {c}) \cup {Wait("activate", arg)}
      BY <1>8, <2>2 DEF EnterDemo, Start
    <3>3. \A d \in conts' : Given(d) \/ Requested(d) => d \in conts
      BY <3>2 DEF Wait, Given, Requested
    <3>4. SameLog
      <4>1. PICK S : log' = KeyMade([log EXCEPT !.given = @ \cup S])
        BY <1>8, <2>2 DEF EnterDemo
      <4> QED BY <4>1, KeyMadeTyped DEF SameLog
    <3>5. view'.status # "account-management"
      BY <1>8, <2>2 DEF EnterDemo, PublishAs
    <3> QED BY <3>1, <3>3, <3>4, <3>5 DEF Harmless
  <2> QED BY <2>1, <2>2
<1> QED BY <1>1, <1>3, <1>4, <1>5, <1>6, <1>7, <1>8 DEF Starting

\* A sign-in carries no intent, or one of a name nobody used.
LEMMA SensLogin ==
    ASSUME TypeOK, TypeOK', Sens, NEW intent \in Maybe(Intents), NEW entry, StartAccountLogin(intent, entry),
           intent # None => intent.id = log.names + 1
    PROVE  Sens'
<1> DEFINE arg == [intent |-> intent, entry |-> entry, begun |-> FALSE]
           n == Wait("login", arg)
           named == IF intent = None THEN GivenUp.names ELSE intent.id
<1>1. conts' = conts \cup {n} /\ n.kind = "login" /\ n.arg.intent = intent
  BY DEF StartAccountLogin, Wait
<1>2. view'.status # "account-management"
  BY DEF StartAccountLogin, Move, PublishAs
<1>3. disk'.intent \in {disk.intent, None}
  <2>1. AdapterCleared(disk) \in Storages /\ AdapterCleared(disk).intent \in {disk.intent, None}
    BY ClearedAdapter DEF TypeOK, ControllerTyped
  <2> QED BY <2>1 DEF StartAccountLogin, Storages
<1>4. /\ log'.performed = log.performed /\ log'.requests = log.requests /\ log'.verified = log.verified
      /\ log'.names = IF intent = None THEN log.names ELSE intent.id
  <2>1. log' = [GivenUp EXCEPT !.dispatched = FALSE, !.names = named]
    BY DEF StartAccountLogin
  <2>2. GivenUp \in Logs
    BY GivenUpTyped
  <2>3. named = IF intent = None THEN log.names ELSE intent.id
    BY LetGo
  <2> HIDE DEF GivenUp, named
  <2> QED BY <2>1, <2>2, <2>3, LetGo DEF Logs
<1> HIDE DEF n
<1>5. log.names \in Nat /\ log.names <= log'.names
  BY <1>4, NamesTyped
<1>6. Proven' /\ Counted'
  BY <1>1, <1>2, <1>4 DEF Sens, Proven, Verified, Requested, Counted, SensitiveOnce
<1>7. CASE intent = None
  <2>1. \A c \in conts' : Given(c) => c \in conts
    BY <1>1, <1>7 DEF Given
  <2> QED BY <1>3, <1>4, <1>6, <1>7, <2>1 DEF Sens, Unused
<1>8. CASE intent # None
  <2>1. /\ \A p \in log.performed : p[1] \in Nat /\ p[1] <= log.names
        /\ disk'.intent # None => disk'.intent.id \in Nat /\ disk'.intent.id <= log.names /\ disk'.intent = disk.intent
        /\ \A c \in conts : Given(c) => c.arg.intent.id \in Nat /\ c.arg.intent.id <= log.names
    BY <1>3, IntentIds DEF Sens, Unused
  <2>2. /\ log'.names = log.names + 1 /\ n.arg.intent.id = log.names + 1
        /\ \A x \in Nat : x <= log.names => x # log.names + 1 /\ x <= log.names + 1
    BY <1>1, <1>4, <1>5, <1>8
  <2>3. \A c \in conts' : Given(c) => (c \in conts \/ c = n)
    BY <1>1
  <2>4. Unused'
    <3>1. disk'.intent # None => disk'.intent.id <= log'.names
      BY <2>1, <2>2
    <3>2. ASSUME NEW c \in conts', Given(c)
          PROVE  /\ c.arg.intent.id <= log'.names
                 /\ disk'.intent # None => disk'.intent.id # c.arg.intent.id
                 /\ \A d \in conts' : Given(d) /\ c.arg.intent.id = d.arg.intent.id => c = d
                 /\ \A p \in log'.performed : c.arg.intent.id # p[1]
      <4>1. CASE c = n
        <5>1. c.arg.intent.id = log.names + 1 /\ c.arg.intent.id <= log'.names
          BY <1>5, <2>2, <4>1
        <5>2. \A d \in conts' : Given(d) /\ c.arg.intent.id = d.arg.intent.id => c = d
          BY <2>1, <2>2, <2>3, <4>1, <5>1
        <5>3. disk'.intent # None => disk'.intent.id # c.arg.intent.id
          BY <2>1, <2>2, <5>1
        <5>4. \A p \in log'.performed : c.arg.intent.id # p[1]
          BY <1>4, <2>1, <2>2, <5>1
        <5> QED BY <5>1, <5>2, <5>3, <5>4
      <4>2. CASE c \in conts
        BY <1>4, <2>1, <2>2, <2>3, <3>2, <4>2 DEF Sens, Unused
      <4> QED BY <2>3, <3>2, <4>1, <4>2
    <3>3. \A p \in log'.performed : p[1] <= log'.names /\ (disk'.intent # None => disk'.intent.id # p[1])
      BY <1>4, <2>1, <2>2 DEF Sens, Unused
    <3> QED BY <3>1, <3>2, <3>3 DEF Unused, Given
  <2> QED BY <1>6, <2>4 DEF Sens
<1> QED BY <1>7, <1>8

\* The intent of a sign-in is stored when the browser leaves for the provider.
LEMMA SensRedirects == ASSUME TypeOK, TypeOK', Sens, NEW c \in conts, LoginRedirects(c) PROVE Sens'
<1> DEFINE tx == [name |-> Fresh, intent |-> IF c.arg.intent = None THEN None ELSE c.arg.intent.id]
<1>1. disk' = [disk EXCEPT !.tx = tx, !.intent = c.arg.intent]
  BY DEF LoginRedirects
<1> HIDE DEF tx
<1>2. disk'.intent = c.arg.intent
  BY <1>1 DEF TypeOK, Storages
<1>3. /\ log'.performed = log.performed /\ log'.requests = log.requests /\ log'.verified = log.verified
      /\ log'.names = log.names + 1
  BY DEF LoginRedirects, Fresh, TypeOK, Logs
<1>4. conts' = conts \ {c} /\ UNCHANGED <<view, manage>> /\ c.kind = "login"
  BY DEF LoginRedirects, Resume
<1>5. \A x \in Nat : x <= log.names => x <= log'.names
  BY <1>3, NamesTyped
<1>6. Proven' /\ Counted'
  BY <1>3, <1>4 DEF Sens, Proven, Verified, Requested, Counted, SensitiveOnce
<1>7. disk'.intent # None => Given(c)
  BY <1>2, <1>4 DEF Given
<1>8. Unused'
  <2>1. disk'.intent # None => disk'.intent.id <= log'.names
    BY <1>2, <1>5, <1>7, IntentIds DEF Sens, Unused
  <2>2. ASSUME NEW d \in conts', Given(d)
        PROVE  /\ d.arg.intent.id <= log'.names
               /\ disk'.intent # None => disk'.intent.id # d.arg.intent.id
               /\ \A e \in conts' : Given(e) /\ d.arg.intent.id = e.arg.intent.id => d = e
               /\ \A p \in log'.performed : d.arg.intent.id # p[1]
    <3>1. d \in conts /\ d # c
      BY <1>4
    <3> QED BY <1>2, <1>3, <1>4, <1>5, <1>7, <2>2, <3>1, IntentIds DEF Sens, Unused
  <2>3. \A p \in log'.performed : p[1] <= log'.names /\ (disk'.intent # None => disk'.intent.id # p[1])
    BY <1>2, <1>3, <1>5, <1>7, IntentIds DEF Sens, Unused
  <2> QED BY <2>1, <2>2, <2>3 DEF Unused, Given
<1> QED BY <1>6, <1>8 DEF Sens

\* A sign-in keeps its intent while the account adapter takes over.
LEMMA SensBegins == ASSUME TypeOK, TypeOK', Sens, NEW c \in conts, LoginBegins(c) PROVE Sens'
<1> DEFINE n == Wait("login", [intent |-> c.arg.intent, entry |-> c.arg.entry, begun |-> TRUE])
<1>1. conts' = (conts \ {c}) \cup {n} /\ UNCHANGED <<view, manage, log>>
  BY DEF LoginBegins
<1>2. c.kind = "login" /\ n.kind = "login" /\ n.arg.intent = c.arg.intent
  BY BegunWait DEF LoginBegins, Resume
<1>3. disk'.intent = None
  BY ClearedAccount DEF LoginBegins, AccountForgotten, TypeOK
<1> HIDE DEF n
<1>4. Proven' /\ Counted'
  BY <1>1, <1>2 DEF Sens, Proven, Verified, Requested, Counted, SensitiveOnce
<1>5. Unused'
  <2>1. \A d \in conts' : Given(d) => d \in conts \ {c} \/ (d = n /\ Given(c))
    BY <1>1, <1>2 DEF Given
  <2> QED BY <1>1, <1>2, <1>3, <2>1 DEF Sens, Unused
<1> QED BY <1>4, <1>5 DEF Sens

\* An intent is published once the person it names has verified it.
LEMMA SensTokens == ASSUME TypeOK, TypeOK', Sens, NEW c \in conts, TokensArrive(c) PROVE Sens'
<1>0. disk'.intent = disk.intent
  BY DEF TokensArrive, TypeOK, Storages
<1>1. CASE c.arg.intent = None
  <2>1. \A d \in conts' : Given(d) \/ Requested(d) => d \in conts
    BY <1>1 DEF TokensArrive, Wait, Given, Requested
  <2>2. Harmless
    BY <1>0, <1>1, <2>1, LogLetGo DEF TokensArrive, Harmless
  <2> QED BY <2>2, SensKept
<1>2. CASE c.arg.intent # None
  <2>1. /\ manage' = [intent |-> c.arg.intent, busy |-> FALSE, consumed |-> FALSE,
                      failed |-> FALSE, completed |-> FALSE]
        /\ log' = [log EXCEPT !.verified = @ \cup {<<c.arg.intent.id, c.arg.subject>>}]
        /\ conts' = conts \ {c} /\ c.arg.subject = c.arg.intent.subject
    BY <1>2 DEF TokensArrive, Expected
  <2>2. /\ log'.performed = log.performed /\ log'.requests = log.requests /\ log'.names = log.names
        /\ log'.verified = log.verified \cup {<<c.arg.intent.id, c.arg.subject>>}
    BY <2>1 DEF TypeOK, Logs
  <2>3. manage'.intent = c.arg.intent
    BY <2>1
  <2>4. Proven'
    BY <2>1, <2>2, <2>3 DEF Sens, Proven, Verified, Requested
  <2>5. Unused'
    BY <1>0, <2>1, <2>2 DEF Sens, Unused, Given
  <2>6. Counted'
    BY <2>2 DEF Sens, Counted, SensitiveOnce
  <2> QED BY <2>4, <2>5, <2>6 DEF Sens
<1> QED BY <1>1, <1>2

LEMMA SensSigningIn == ASSUME TypeOK, TypeOK', Sens, SigningIn PROVE Sens'
<1>0. AccountCleared(disk).intent = None
  BY ClearedAccount DEF TypeOK
<1>1. CASE \E entry \in {"signin", "signup"}, discard \in BOOLEAN : BeginSignIn(entry, discard)
  BY <1>1, SensLogin DEF BeginSignIn, Maybe
<1>2. CASE ProviderAnswers \/ Revisit
  BY <1>2, HarmlessLoaded, SensKept DEF ProviderAnswers, Revisit
<1>3. ASSUME NEW c \in conts, LoginFails(c) \/ CallbackRefused(c) PROVE Sens'
  <2>1. /\ view'.status # "account-management" /\ disk' \in {disk, AccountCleared(disk)} /\ UNCHANGED log
        /\ conts' \subseteq conts
    BY <1>3 DEF LoginFails, CallbackRefused, AccountForgotten, Publish, PublishAs
  <2>2. Harmless
    BY <1>0, <2>1, LogLetGo DEF Harmless
  <2> QED BY <2>2, SensKept
<1>4. ASSUME NEW c \in conts, ExchangeRefused(c) \/ TokensRefused(c) PROVE Sens'
  <2>1. PICK cleared \in {disk, AccountCleared(disk)} : ExchangeFailed(c, cleared)
    BY <1>4 DEF ExchangeRefused, TokensRefused
  <2>2. /\ view'.status # "account-management" /\ disk' \in {disk, AccountCleared(disk)} /\ UNCHANGED log
        /\ conts' \subseteq conts
    BY <2>1 DEF ExchangeFailed, AccountForgotten, Publish, PublishAs
  <2>3. Harmless
    BY <1>0, <2>2, LogLetGo DEF Harmless
  <2> QED BY <2>3, SensKept
<1>5. CASE CompleteOAuthCallback
  <2>1. \A d \in conts' : Given(d) \/ Requested(d) => d \in conts
    BY <1>5 DEF CompleteOAuthCallback, Wait, Given, Requested
  <2>2. Harmless
    BY <1>5, <2>1, LogLetGo DEF CompleteOAuthCallback, Move, PublishAs, Harmless
  <2> QED BY <2>2, SensKept
<1>6. ASSUME NEW c \in conts, CallbackProceeds(c) PROVE Sens'
  <2>1. \A d \in conts' : Given(d) \/ Requested(d) => d \in conts
    BY <1>6 DEF CallbackProceeds, Wait, Given, Requested
  <2>2. disk'.intent = disk.intent /\ SameLog /\ view'.status # "account-management"
    BY <1>6, LogLetGo DEF CallbackProceeds, Move, PublishAs, TypeOK, Storages
  <2>3. Harmless
    BY <2>1, <2>2 DEF Harmless
  <2> QED BY <2>3, SensKept
<1>7. ASSUME NEW c \in conts, ExchangeStarts(c) PROVE Sens'
  <2> DEFINE to == [subject |-> c.arg.code.subject, named |-> disk.tx.intent, intent |-> c.arg.intent]
             n == [c EXCEPT !.kind = "tokens", !.arg = to]
  <2>1. conts' = (conts \ {c}) \cup {n} /\ UNCHANGED <<view, manage, log>>
    BY <1>7 DEF ExchangeStarts
  <2>2. n.kind = "tokens"
    <3>1. c = [kind |-> c.kind, scope |-> c.scope, arg |-> c.arg]
      BY SuspendedArgs DEF TypeOK, ContsTyped
    <3> HIDE DEF to
    <3> QED BY <3>1
  <2>3. disk'.intent = disk.intent
    BY <1>7 DEF ExchangeStarts, TypeOK, Storages
  <2> HIDE DEF n
  <2>4. \A d \in conts' : Given(d) \/ Requested(d) => d \in conts
    BY <2>1, <2>2 DEF Given, Requested
  <2>5. Harmless
    BY <2>1, <2>3, <2>4, LogLetGo DEF Harmless
  <2> QED BY <2>5, SensKept
<1> QED BY <1>1, <1>2, <1>3, <1>4, <1>5, <1>6, <1>7, SensRedirects, SensBegins, SensTokens DEF SigningIn

LEMMA HarmlessUsing == ASSUME TypeOK, UsingAccount PROVE Harmless
<1>1. ASSUME NEW c \in conts, Bootstrapped(c) PROVE Harmless
  <2>1. Account(mem) \in Identities
    BY <1>1 DEF Bootstrapped, TypeOK, Maybe, Identities
  <2> QED BY <1>1, <2>1, LogLetGo, HarmlessReady DEF Bootstrapped
<1>2. ASSUME NEW c \in conts, IdentityMismatch(c) \/ BootstrapFails(c) PROVE Harmless
  <2>1. /\ view'.status # "account-management" /\ disk' \in {disk, AccountCleared(disk)} /\ UNCHANGED log
        /\ conts' \subseteq conts
    BY <1>2 DEF IdentityMismatch, BootstrapFails, AccountForgotten, Publish, PublishAs
  <2> QED BY <2>1, ClearedAccount, LogLetGo DEF Harmless, TypeOK
<1>3. CASE RetryAccountBootstrap
  <2>1. \A d \in conts' : Given(d) \/ Requested(d) => d \in conts
    BY <1>3 DEF RetryAccountBootstrap, Wait, Given, Requested
  <2> QED BY <1>3, <2>1, LogLetGo DEF RetryAccountBootstrap, Move, PublishAs, Harmless
<1> QED BY <1>1, <1>2, <1>3 DEF UsingAccount

LEMMA HarmlessEnding == ASSUME TypeOK, Ending PROVE Harmless
<1>0. AccountCleared(disk).intent = None
      /\ [AccountCleared(disk) EXCEPT !.selected = "none"].intent = None
  BY ClearedAccount DEF TypeOK, Storages
<1>1. CASE (\E discard \in BOOLEAN : Leave(discard)) \/ Unauthorized \/ DemoExpires
  BY <1>1, HarmlessAway DEF Leave, Unauthorized, DemoExpires
<1>2. ASSUME NEW discard \in BOOLEAN, SignOut(discard) PROVE Harmless
  <2>1. CASE ctl.adapter # "account"
    BY <1>2, <2>1, HarmlessAway DEF SignOut, Leave
  <2>2. CASE ctl.adapter = "account"
    <3>1. \A d \in conts' : Given(d) \/ Requested(d) => d \in conts
      BY <1>2, <2>2 DEF SignOut, Wait, Given, Requested
    <3>2. /\ log' = GivenUp /\ disk' = [AccountCleared(disk) EXCEPT !.selected = "none"]
          /\ Move("signing-out", None, None)
      BY <1>2, <2>2 DEF SignOut
    <3>3. view'.status # "account-management"
      BY <3>2 DEF Move, PublishAs
    <3>4. SameLog
      BY <3>2, LogLetGo
    <3> QED BY <1>0, <3>1, <3>2, <3>3, <3>4 DEF Harmless
  <2> QED BY <2>1, <2>2
<1>3. CASE RenewalFails \/ AcceptSignedOut
  <2>1. /\ disk' = [AccountCleared(disk) EXCEPT !.selected = "none"] /\ UNCHANGED <<conts, log>>
        /\ Move("error", None, "account") \/ Move("anonymous", None, None)
    BY <1>3 DEF RenewalFails, AcceptSignedOut
  <2>2. view'.status # "account-management"
    BY <2>1 DEF Move, PublishAs
  <2>3. SameLog
    BY <2>1, LogLetGo
  <2> QED BY <1>0, <2>1, <2>2, <2>3 DEF Harmless
<1>4. CASE AnotherTabSignsOut
  <2>1. CASE ctl.adapter = "account" /\ disk.selected = "cognito"
    BY <1>4, <2>1, HarmlessAway DEF AnotherTabSignsOut
  <2>2. CASE ~ (ctl.adapter = "account" /\ disk.selected = "cognito")
    BY <1>0, <1>4, <2>2, LogLetGo DEF AnotherTabSignsOut, AccountForgotten, Harmless
  <2> QED BY <2>1, <2>2
<1>5. CASE ProviderSignedOut
  BY <1>5, HarmlessLoaded DEF ProviderSignedOut
<1>6. ASSUME NEW c \in conts, Revoked(c) \/ Retire(c) PROVE Harmless
  <2>1. UNCHANGED <<manage, disk, log>> /\ conts' \subseteq conts
        /\ (view'.status # "account-management" \/ view' = view)
    BY <1>6 DEF Revoked, Retire, Publish, PublishAs
  <2> QED BY <2>1, LogLetGo DEF Harmless
<1> QED BY <1>1, <1>2, <1>3, <1>4, <1>5, <1>6 DEF Ending

\* The request takes the intent out of the storage and is counted.
LEMMA SensPerforming ==
    ASSUME TypeOK, TypeOK', Sens, NEW want \in {"export", "delete"}, Performing(want)
    PROVE  Sens'
<1>1. /\ manage \in Managed /\ manage.intent \in Intents /\ manage.intent # None
      /\ mem = manage.intent.subject /\ disk.intent = manage.intent
  BY AbsentApart DEF Performing, Consumable, TypeOK, ViewTyped, Managed
<1> DEFINE pair == <<manage.intent.id, mem>>
           now == log.dispatched \/ want = "delete"
           n == Wait(want, manage)
<1>2. log' = [log EXCEPT !.requests = @ + 1, !.performed = @ \cup {pair}, !.dispatched = now]
  BY DEF Performing
<1>3. /\ log'.requests = log.requests + 1 /\ log'.performed = log.performed \cup {pair}
      /\ log'.verified = log.verified /\ log'.names = log.names
  <2> HIDE DEF now, pair
  <2> QED BY <1>2 DEF TypeOK, Logs
<1>4. conts' = conts \cup {n} /\ n.kind = want /\ n.arg = manage
  BY DEF Performing, Wait
<1>5. manage' = [manage EXCEPT !.busy = TRUE, !.consumed = TRUE, !.failed = FALSE] /\ disk'.intent = None
  BY DEF Performing, Managing, TypeOK, Storages
<1>6. manage'.intent = manage.intent
  BY <1>1, <1>5, ManagedStates
<1>7. Verified(manage.intent)
  BY DEF Performing, Consumable, Sens, Proven
<1> HIDE DEF n
<1>8. Proven'
  BY <1>3, <1>4, <1>6, <1>7 DEF Sens, Proven, Verified, Requested
<1>9. Unused'
  <2>1. \A c \in conts' : Given(c) => c \in conts
    BY <1>4 DEF Given
  <2>2. pair[1] = manage.intent.id
    OBVIOUS
  <2> HIDE DEF pair
  <2>3. \A p \in log'.performed : p[1] <= log.names /\ \A c \in conts' : Given(c) => c.arg.intent.id # p[1]
    BY <1>1, <1>3, <2>1, <2>2 DEF Sens, Unused
  <2> QED BY <1>3, <1>5, <2>1, <2>3 DEF Sens, Unused, Given
<1>10. Counted'
  <2>1. pair \notin log.performed
    BY <1>1 DEF Sens, Unused
  <2>2. pair \in log.verified
    BY <1>1, <1>7 DEF Verified
  <2> HIDE DEF pair
  <2>3. IsFiniteSet(log.performed \cup {pair})
        /\ Cardinality(log.performed \cup {pair}) = Cardinality(log.performed) + 1
    BY <2>1, FS_AddElement DEF Sens, Counted
  <2> QED BY <1>3, <2>2, <2>3 DEF Sens, Counted, SensitiveOnce
<1> QED BY <1>8, <1>9, <1>10 DEF Sens

LEMMA SensSensitive == ASSUME TypeOK, TypeOK', Sens, Sensitive PROVE Sens'
<1>1. ASSUME NEW want \in Wants, BeginSensitiveOperation(want) PROVE Sens'
  <2> DEFINE intent == [id |-> Fresh, operation |-> want, subject |-> mem]
  <2>1. StartAccountLogin(intent, "signin") /\ intent.id = log.names + 1
    BY <1>1 DEF BeginSensitiveOperation, Fresh
  <2>2. intent \in Maybe(Intents)
    BY <1>1, NamesTyped, TabAssumption
       DEF BeginSensitiveOperation, Fresh, TypeOK, Maybe, Intents, Named, Logs
  <2> HIDE DEF intent
  <2> QED BY <2>1, <2>2, SensLogin
<1>2. CASE ReviewAccountDeletion
  <2> DEFINE n == Wait("review", manage)
  <2>1. conts' = conts \cup {n} /\ n.kind = "review" /\ n.arg = manage
    BY <1>2 DEF ReviewAccountDeletion, Wait
  <2>2. manage' = [manage EXCEPT !.busy = TRUE] /\ manage \in Managed /\ view.status = "account-management"
        /\ UNCHANGED <<disk, log>>
    BY <1>2 DEF ReviewAccountDeletion, Managing, TypeOK, ViewTyped
  <2>3. manage'.intent = manage.intent
    BY <2>2, ManagedStates
  <2> HIDE DEF n
  <2>4. Proven'
    BY <2>1, <2>2, <2>3 DEF Sens, Proven, Verified, Requested
  <2>5. Unused'
    <3>1. \A c \in conts' : Given(c) => c \in conts
      BY <2>1 DEF Given
    <3> QED BY <2>2, <3>1 DEF Sens, Unused, Given
  <2> QED BY <2>2, <2>4, <2>5 DEF Sens, Counted, SensitiveOnce
<1>3. ASSUME NEW c \in conts, NEW complete \in BOOLEAN,
             Exported(c) \/ SensitiveFails(c) \/ DeletionUnfinished(c) \/ DeletionFinalized(c, complete)
      PROVE  Sens'
  <2>1. c.arg \in Managed /\ Requested(c) /\ conts' = conts \ {c} /\ UNCHANGED log
    BY <1>3, ManagingKinds DEF Exported, SensitiveFails, DeletionUnfinished, DeletionFinalized, Requested
  <2>2. manage'.intent = c.arg.intent
    <3>1. CASE Exported(c)
      BY <2>1, <3>1, ManagedStates DEF Exported, Managing
    <3>2. CASE SensitiveFails(c)
      <4>1. (c.kind # "review") \in BOOLEAN
        OBVIOUS
      <4>2. [c.arg EXCEPT !.consumed = @ \/ c.kind # "review", !.failed = TRUE].intent = c.arg.intent
        BY <2>1, <4>1, ManagedStates
      <4> QED BY <3>2, <4>2 DEF SensitiveFails, Managing
    <3>3. CASE DeletionUnfinished(c)
      BY <2>1, <3>3, ManagedStates DEF DeletionUnfinished, Managing
    <3>4. CASE DeletionFinalized(c, complete)
      BY <2>1, <3>4, ManagedStates DEF DeletionFinalized
    <3> QED BY <1>3, <3>1, <3>2, <3>3, <3>4
  <2>3. disk'.intent \in {disk.intent, None}
    <3>1. CASE Exported(c) \/ SensitiveFails(c) \/ DeletionUnfinished(c)
      BY <3>1 DEF Exported, SensitiveFails, DeletionUnfinished
    <3>2. CASE DeletionFinalized(c, complete)
      <4>1. AccountCleared(disk) \in Storages /\ AccountCleared(disk).intent = None
        BY ClearedAccount DEF TypeOK
      <4>2. PICK notice : disk' = [AccountCleared(disk) EXCEPT !.selected = "none", !.notice = notice]
        BY <3>2 DEF DeletionFinalized
      <4> QED BY <4>1, <4>2 DEF Storages
    <3> QED BY <1>3, <3>1, <3>2
  <2>4. Proven'
    BY <2>1, <2>2 DEF Sens, Proven, Verified
  <2>5. Unused'
    BY <2>1, <2>3 DEF Sens, Unused
  <2> QED BY <2>1, <2>4, <2>5 DEF Sens, Counted, SensitiveOnce
<1>4. ASSUME NEW c \in conts, ServerErases(c) PROVE Sens'
  <2>1. SameLog
    BY <1>4, NamesTyped DEF ServerErases, SameLog, TypeOK, Logs
  <2>2. Harmless
    BY <1>4, <2>1 DEF ServerErases, Harmless
  <2> QED BY <2>2, SensKept
<1> QED BY <1>1, <1>2, <1>3, <1>4, SensPerforming DEF Sensitive, PerformSensitiveExport, PerformAccountDeletion

LEMMA SensStep == TypeOK /\ TypeOK' /\ Core /\ Holding /\ Sens /\ [Next]_tabVars => Sens'
<1> SUFFICES ASSUME TypeOK, TypeOK', Core, Holding, Sens, [Next]_tabVars PROVE Sens'
  OBVIOUS
<1>1. CASE Editing \/ UNCHANGED tabVars
  <2>1. Harmless
    BY <1>1, LogLetGo DEF Editing, Edit, Settle, tabVars, Harmless
  <2> QED BY <2>1, SensKept
<1>2. CASE Opening \/ Starting \/ UsingAccount \/ Ending
  BY <1>2, HarmlessOpening, HarmlessStarting, HarmlessUsing, HarmlessEnding, SensKept
<1> QED BY <1>1, <1>2, SensSigningIn, SensSensitive DEF Next, Plain

LEMMA SensInit == Init => Sens
<1> SUFFICES ASSUME Init PROVE Sens
  OBVIOUS
<1>1. /\ log.performed = {} /\ log.requests = 0 /\ disk.intent = None
      /\ view.status # "account-management" /\ \A c \in conts : ~ Given(c) /\ ~ Requested(c)
  BY DEF Init, TabInit, EmptyDisk, FirstWait, FirstView, FirstStatus, Given, Requested
<1>2. IsFiniteSet(log.performed) /\ Cardinality(log.performed) = 0
  BY <1>1, FS_EmptySet
<1> QED BY <1>1, <1>2 DEF Sens, Proven, Unused, Counted, SensitiveOnce

(***************************************************************************)
(* A sensitive operation is asked of the server once, and for the person   *)
(* who verified it.                                                        *)
(***************************************************************************)
THEOREM SensitiveIsOnce == Spec => []SensitiveOnce
<1>1. Sens => SensitiveOnce
  BY DEF Sens, Counted
<1> QED BY <1>1, CoreInit, CoreStep, HoldsInit, HoldsStep, SensInit, SensStep, SessionTyped, PTL DEF Spec
===============================================================================
