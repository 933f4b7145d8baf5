# HireFlux: a verification project

TLA+ modules, TLC configurations and TLAPS proofs about HireFlux, a job-search
tracker: a Python API (FastAPI on Lambda) over one DynamoDB table, and a React
application.  The modules are translated from the code under
`src/backend/src/hireflux_backend` (written `B/` below) and `src/frontend/src`
(written `F/`); `PROJECT.json` maps every definition to its lines.

Contents

1. The system: components, state, interaction, hazards
2. Modules and how they correspond to the code
3. Properties
4. Runs, bounds and fairness
5. Proofs
6. Abstractions
7. Disagreements between code and documentation, and observations
8. Not modelled


## 1. The system

### The service

All durable state is in one DynamoDB table.  An owner has a partition
`USER#<owner>` (WORKSPACE, PROFILE, SETTINGS, WORKSPACE_QUOTA, counters, and one
APPLICATION_REF per application) and one partition per application (METADATA,
ACTIVITY, RESOURCE_QUOTA, notes, interviews, the next-interview projection).
Requests run in any number of Lambda instances.  They share nothing but the
table, and coordinate by conditional writes and transactions only.  There is no
background worker: whatever is left half done is continued by a later request.

| Component | State it keeps | Operations | What is hard | What makes it correct |
|---|---|---|---|---|
| Workspace bootstrap (`B/application/workspace_bootstrap.py`, `B/infrastructure/dynamodb/workspace_bootstrap_repository.py`) | a snapshot per round | `POST /me/bootstrap`; readiness check of every route | optimistic commit from a stale snapshot, retries, legacy data | ready all or nothing; preferences never replaced; completeness only claimed of an empty owner |
| Workspace erasure (`workspace_safety.py`, `workspace_safety_repository.py`) | WORKSPACE.state; the references that remain | `DELETE /me`, `POST /me/deletion/retry`, status | concurrent calls, crash anywhere, partial batches, bounded work | nothing orphaned, tombstone only when nothing is left, answers are true, it completes |
| Write guard (`workspace_guard.py`) | none | the ACTIVE condition of each durable transaction | check at admission, commit much later | no write to a workspace that is not active |
| Export (`workspace_export.py`, `export_records`) | lists and cursors | `GET /me/export` | reads many partitions one by one | delivered exports are whole |
| Manifest backfill (`manifest_backfill.py`) | counts and candidates | operator command | lagging index, concurrent creation | the completeness marker is true |
| Account finalization (`account_lifecycle.py`, `workspace_finalization_repository.py`, `cognito_identity.py`) | tombstone's `provider_finalization` | the end of `DELETE /me` for persistent accounts | lost responses, crash around a remote deletion | identity deleted last, once, and never claimed wrongly |
| Account reconciliation (`account_reconciliation.py`) | none | operator command | races with a late call | concludes only on evidence |
| Demo admission, provisioning, cleanup (`demo_*.py`) | policy, counters, the key's record, the workspace's marker | `POST /demo-sessions` | lost answers, one key asked twice, a policy that changes, cleanup against a straggling write | budgets hold, one demo per key, every answer is true |
| Applications, notes, interviews, settings (`services.py`, `resource_services.py`, `repositories.py`, ...) | versioned records, quotas, counters, interview labels, the next-interview projection | create, edit, transition, rename, schedule, lists | versions between reader and writer; deltas, labels and the projection computed before the transaction | no silent overwrite; counters equal what they count; labels follow the application |
| Projection reconciliation (`reconciliation.py`) | what its scan saw | operator command on a local table | writes back what it saw, half-way stops, requests beside it | run to its end alone, it makes everything exact |
| Token verification, cursors, insights, API wiring | caches, or none | | | see section 8 |

The interactions that matter: every request of an owner races every other
request of that owner on the same records.  Provisioning or bootstrap creates
what the routes require; product requests create what erasure, export and
backfill must find; erasure freezes the workspace against all of them;
finalization starts where erasure ended and leaves the table for the identity
provider, where there are no conditions to rely on.

### The browser

A tab runs one session controller, adapters for demo, account and local
identities, and pages that read and change records through a query cache.
JavaScript runs one continuation at a time, from one `await` to the next; what
happened meanwhile is what is hard.  Tabs share a browser's local storage, Web
Locks and a broadcast channel, and duplicate each other's session storage.

| Component | State it keeps | What is hard | What makes it correct |
|---|---|---|---|
| Session controller (`F/auth/workspaceSessionController.ts` and adapters) | the scope (generation), the published view, pending operations, what the tab stores | promises that resolve after the scope was replaced; reloads and redirects between any two steps | nothing of an old scope is shown; a demo is not lost; no screen works for ever |
| Account session and tabs (`F/auth/cognito*.ts`) | tokens, transactions, intents, the logout epoch | another tab's logout, copied storage, rotated refresh tokens | one tab holds a family; a logout reaches all |
| Scoped requests (`F/auth/sessionGeneration.ts`, `cognitoSessionAdapter.ts`, `workspaceQueries.ts`) | leases, the shared renewal | late answers, late refusals, simultaneous renewals | results stay in their session; each credential is presented once |
| Interview desk (`F/pages/InterviewsPage.tsx`) | pages listed, selection, drawers | the interview in the address may be on any page or none | it is found or reported missing |
| Opportunity list (`F/pages/ApplicationListPage.tsx`) | search field, timer, staged filters; the rest is the address | field, timer and address follow one another | they agree in the end |
| Opportunity capture (`F/features/applications/ApplicationCreateForm.tsx`) | the form, advice, the leaving guard | late advice, lost answers | advice is about what is entered; entries are not lost |
| Record editors (details, status, pipeline, schedule, notes) | a draft and the version it came from | refetches under a draft, several writers | a save changes only what was edited |
| Settings (`F/pages/SettingsPage.tsx`, `F/features/resources/queries.ts`) | the form's draft, the theme switch, the automatic time zone | an automatic save beside one made by hand | a chosen zone is kept |
| Preparation drawer (`F/features/resources/InterviewWorkspaceDrawer.tsx`) | an interview as it was opened, and a draft | every save makes a new version, a role's focus one of every interview | saves name items that exist |
| Workspace frame (`F/components/AppLayout.tsx`, `ui/Dialog.tsx`) | overlays and page scrolling | overlays that end in another order than they began | the page scrolls exactly when nothing covers it |

`PROJECT.json` lists the hazards one by one, with the line where each bites and
the properties that cover it.


## 2. Modules

### The service

| Module | Models | State | Steps |
|---|---|---|---|
| `WorkspaceStore` | the owner's records, the readiness check, the ACTIVE condition, the states an owner is found in | `state manifest profile settings quota refs items` | none: one step of the others is one request to the table |
| `WorkspaceBootstrap` | `POST /me/bootstrap` | per request: `bpc btry battrs bsnap` | start, read and decide, commit, conflict (retry or give up), abandon |
| `WorkspaceWrites` | product requests behind the readiness dependency | per request: `wpc` | admit, then one guarded transaction: create application, create or delete child, replace settings, denied |
| `WorkspaceErasure` | `DELETE /me`, retry | per call: `epc ewhere ebatch ebudget etry etold`, and `failures` | status, freeze, freeze lost, scan, page, empty page, batch (whole, partly, over budget), drop reference, tombstone, stop |
| `WorkspaceInventory` | JSON export and manifest backfill | per export `xpc xlist xcursor xtodo xgot xall`; per backfill `fpc fcount ffound` | one per request to the table |
| `DurableWorkspace` | the composition of the five; properties | | `Next` interleaves their steps |
| `WorkspaceLifecycle` | abstract: what an owner is promised | `phase stored` | Open, Work, Close, Purge, Bury |
| `AccountFinalization` | the end of an account: tombstone, provider, operator | `erased final identity rpc uncertain flying told opc oseen resends` | one per request to table or provider |
| `DemoProvisioning` | `POST /demo-sessions` from lookup to cleanup, the operator's policy, time | `clock policy daily minutely record state parts`, per call `pc key at work answer`, and `late` | one per request to the table: find, read policy and counters, explain a refusal, reserve, seed, confirm, fail, inventory, delete; `Arrives` applies a request its caller gave up; `Expire`, `Forget`, `Tick`, `SetPolicy`, `Crash` |
| `ApplicationCounters` | applications as the dashboard counts them: statuses, milestones, versions | `applications statusCount funnel edits` | create; read; change status, change details (each one transaction), or leave |
| `InterviewRounds` | the interviews of one application, their labels, WORKSPACE_CONTEXT | `application rounds replica context changes renames` | schedule or ask, plan, query, read the projection, commit; ask, list, commit a rename; every other change of the application |
| `ProjectionRepair` | the operator's reconciliation, over the two above and beside their requests | `repair` | one per item scanned or written; start, stop |
| `MCDurableWorkspace`, `MCFinalization`, `MCServices`, `MCMaintenance` | instances for TLC | `route` | |
| `DurableWorkspaceProofs`, `AccountFinalizationProofs`, `DemoProvisioningProofs`, `ProjectionRepairProofs` (of the counters and the interviews too) | proofs | | |

`DurableWorkspace` EXTENDS its components, because they act on the same store;
each component says in its actions what it leaves of the store and of its own
variables, and the composition adds that the other components stand still.

How state corresponds to code: `state` and `manifest` are the WORKSPACE record's
`state` and `application_manifest_version`; `profile` its owner's name and
e-mail; `settings` tells a missing record, the defaults and customised
preferences apart, which is all that any property needs; `quota` is
`application_count`, 0 standing for no record; `refs` the APPLICATION_REF
records; `items[a]` the records of an application's partition.  A `pc`-like
variable of a request names the next request to the table it will make, and its
other variables are the locals that survive from one such request to the next.
In `DemoProvisioning`, `record[k]` is the idempotency record of a key,
`state[w]` the marker of a workspace (and, once gone, that it went), `daily` and
`minutely` the admission counters; a call and the workspace it reserves have one
name, because a call reserves at most one.
In `ApplicationCounters` an application is what the counters depend on: its
version, its status and the one it was archived from, whether it has an applied
date, and the set of milestones whose timestamp is set; `edits` holds the copy
each request read.  In `InterviewRounds` a record of `changes` is a request
between its reads and its commit: `version` is the one its client named, `label`
what it read of the application, `plan` the interview it will write, `next` the
projection it computed and `seen` the version of the projection it read after
that.  `replica` is what a query without ConsistentRead meets.

### The browser

| Module | Models | State | Steps |
|---|---|---|---|
| `SessionTab` | the controller's fields, the adapters' storage, and what it is to await and to resume | `gen view manage ctl mem disk page conts log` | none of its own |
| `SessionEntry` | configuration, restore, demo activation, joins and reset, the local workspace | | one per stretch between two awaits |
| `SessionAccount` | sign-in, redirect, callback, token exchange, bootstrap of the account, renewal, sign-out here and elsewhere | | |
| `SessionSensitive` | export and deletion after a fresh verification | | |
| `WorkspaceSession` | their composition with the provider, the servers and page loads; properties and fairness | | |
| `WorkspaceAccess` | abstract: what the application is promised about who is in | `phase who` | Ask, Enter, Verify, End |
| `AccountTabs` | several tabs: copied storage, ownership locks, broadcast, logout epoch, rotation | `locks at memory op ghost storage epoch notices lock names used rotation` | one per stretch, per tab |
| `ScopedRequests` | requests that lease a credential, share its renewal and answer into their own session | `gen owner user serial refreshing tokens reqs cache ran presented refused` | lease, wait, send, serve, resume, settle; renewal; the end of a session |
| `ServerRecord` | one versioned record as a page sees it: the server's, the cached one, reads and changes under way | `server cached reading sent left` | commit, refuse, lost answers, page loads, other writers |
| `SettingsForm` | over `ServerRecord`: the form, the theme switch, the automatic time zone | `draft dirty attempted listening marked` | |
| `RecordEditors` | over `ServerRecord`: schedule, status, move in the pipeline, note, and details with the planner beside them | `form editor plan claimed replaced` | open, edit, save, heard, refused, close |
| `PreparationDrawer` | modes, checklist, items, role focus, reflection, hand-off | `round known drawer call late` | |
| `InterviewDesk` | paging, selection, panels, workflow states, drawer and forms it opens | `agenda listed fetching requested intent workspace schedule saving canceling outcome` | |
| `OpportunityList` | the address asked for and the one drawn, their normalisation, the search timer, staged filters | `asked shown typed waiting preferred due staged undone` | |
| `OpportunityCapture` | the form, advice, submission, leaving | `place returns entered details allow blocked timer wanted advice adding tracked added` | |
| `WorkspaceShell` | overlays, scrolling, reset, leaving, end of session | `status error unsaved open overflow found together` | |
| `MCAccounts`, `MCSettling`, `MCPages` | instances for TLC | `side` or `route` | |
| `ScopedRequestsProofs`, `AccountTabsProofs`, `SessionProofs`, `PagesProofs` | proofs | | |

The controller's `conts` holds one record per suspended continuation: its kind,
the generation it captured, and its locals.  A continuation that resumes under
another generation takes the code's early return, which is what `Retire` does.
`log` is the servers' side: what the provider answered and what was erased, and
what was seen of the tab.  `ScopedRequests`' `presented refused ran`, the
editors' `claimed replaced` and the frame's `together` are observations, which no
condition of the code reads.

An MC module that instantiates several systems which share nothing has a
variable, `route` or `side`, that says which of them a behaviour is about; the
others stand still.  That is a way to ask related questions in one run, not a
composition.

Definitions whose names end in `_Something` (`Freeze_Unconditional`,
`Admissible_AnyCount`, `VersionSent_Newest`, ...) are not part of any
specification.  Each is a plausible mistake in the definition it precedes or
follows, and shows that the property named beside it in `PROJECT.json` would
notice it.


## 3. Properties

Each is stated in words at its definition; here is what it is for.

Of `DurableWorkspace`:

* `InventoryCoversData`: with a complete manifest, an application partition that
  holds any record has a reference.  This is what makes erasure resumable.
* `ManifestExact`: in an active workspace with the marker, references,
  applications and quota agree.
* `ErasureAnswersTruly`: who was told DELETED was told the truth for good.
* `ReadyTogether` (for an owner who starts with nothing): an active workspace
  has its profile and its preferences.
* `PreferencesKept`: customised preferences are only ever removed by erasure.
* `ExportComplete`: a delivered export has every application that existed when
  it compared its list with the quota, each with its canonical records.
* `LifecyclePromise`: the composition implements `WorkspaceLifecycle`.  Data
  changes only while active, opening only adds, erasing only removes, a tombstone
  stays one.
* `ErasureCompletes`: a started erasure ends.
* `ManifestKept`: a marker once set stays until erasure.  The code violates it
  (section 7).

`TypeOK` (in particular, the erasure budget never goes below zero, although a
retried batch is charged again) and `TombstoneOnly` (an erased workspace holds
nothing but its tombstone) are proved and not part of a run.

Of `AccountFinalization`: `CompleteMeansAbsent` and `ErasedFirst` (the identity
goes last, and COMPLETE is said of an identity that is gone), `FinalizedForEver`
(and is never taken back), `PendingMeansSettled` and `NeverRepeated` (PENDING
means that no dispatch is outstanding, and none is repeated).  The last two are
true until an update is sent twice, and not after that (section 7): what is
checked and proved is `SettledUnlessResent`, and `NeverRepeated` has the proviso
in its statement.

Of `DemoProvisioning`: `OneDemoPerKey`, `DemoAnswersTrue` and `WithinBudget`,
with writes that fail, are lost after they were applied, or are applied after
their caller gave up.  `DemoAnswersTrue` has three parts that pull in different
directions: a session answered stays whole until it expires (so that no cleanup
may touch it), what was called failed never becomes ready (so that no straggler
may finish it), and a refusal, after which the browser drops its key, has
reserved nothing.

Of what is derived from applications and interviews:

* `CountersExact`: each status counter is the number of applications in that
  status, and each step of the funnel the number that ever reached it, at every
  moment.  The deltas come from copies read earlier; archiving, restoring and
  correcting to a draft must not count anything twice.
* `LabelsKept`: an interview that carries its application's labels carries them
  from then on.  A rename and a scheduling that overlap, and a change that read
  the labels before a rename, must not leave an old one behind.  It is an action
  property because legacy interviews, and those of the observation in section 7,
  may start with other labels.
* `RepairsAll`: a repair that ran to its end alone leaves counters and projection
  exact, whatever it found and however often it was stopped.
* `ContextExact`: the projection names the next interview.  The code violates it
  (section 7).

Of the browser's session, in one tab:

* `HeldIsShown`: an open workspace is the one the tab holds credentials of, and
  what was signed out holds none.
* `NoOrphanDemo`: a demo the server may have made is held, can be asked for again
  under its key, or was let go.  An answer lets it go too: activation drops the
  key on every error code but those listed as uncertain.
* `SensitiveOnce`, `DeletionNoticed`: an intent is used once, by whom it was
  verified for; a deletion that was sent is told of until the next sign-in.
* `AccessPromise`: the tab implements `WorkspaceAccess`, under the mapping of the
  published status to a phase.
* `Settles`: preparing, verifying and signing out end.

In several tabs (`AccountTabs`): `OneTabPerFamily`, `ReloadFindsNewest`, and
`LogoutReachesAll`: what a tab that has had the notice of a logout holds, or one loaded
since, was got by a sign-in or a renewal begun after it.  A renewal begun in a tab that
the notice has yet to reach counts as such, because it carries its session over into
the new epoch (section 7).

Of requests (`ScopedRequests`): `ScopeFenced` (credentials, cached data and
callbacks stay with their scope), `LateRefusalHarmless` (a refusal ends a session
only if it is of the credential still held), `PresentedOnce`,
`EveryRequestSettles`.

Of the pages:

* `DeskResolves`, `ListSettles` (liveness).  The second says that the list comes to
  rest with field, address and view in agreement, unless its person asked for what is
  on the screen while another navigation was waiting to be drawn (`undone`, section 7).
* `OnlyOwnEdits` (an accepted save of the settings, a schedule, a status or a move
  changes only what was edited there), and `StaleWritesConflict`, the same of the
  details form and of notes, which the code violates (section 7).
* `SavesKnownItems`: no save of the preparation drawer is refused for an item the
  server does not know.  Two other refusals are reached, and modelled (section 7).
* `AdviceIsForEntered`, `EnteredKept`, `ChosenZoneKept`, `ScrollFollows`.

Every system has a type invariant; all are proved, and part of no run.


## 4. Runs, bounds and fairness

| Run | Instance | States | Shows |
|---|---|---|---|
| `erasure` | persistent owner, one application with a note, 1 bootstrap, 1 writer, 2 deletion calls, 1 setback, with fairness | 222,355 | `InventoryCoversData ErasureAnswersTruly LifecyclePromise ErasureCompletes` |
| `bootstrap` | fresh owner, 2 bootstraps with 2 attribute values and 2 rounds, 1 writer, 1 deletion call, 1 export, one application with a note | 2,218,067 | `ReadyTogether PreferencesKept ExportComplete` |
| `maintenance` | legacy LOCAL owner with two applications, 2 backfills, 1 bootstrap, 1 writer, 1 deletion call; or a repair over 2 applications and 2 interviews | 548,867 | `ManifestExact`, `RepairsAll` |
| `marker` | LOCAL owner, 1 bootstrap, 1 backfill, 1 writer, 1 deletion call | counterexample | `ManifestKept` is violated |
| `services` | one of: demos with 2 calls, 2 keys, one record of seed data, two policies, two minutes, 1 straggling request; an account with 2 calls, 1 operator, 2 re-sent updates; 2 applications and 2 requests, 4 versions; 2 interviews, 2 requests, 2 labels, 3 versions of the application; the same with a lagging query and no renames | 1,504,399 | `OneDemoPerKey DemoAnswersTrue WithinBudget`, `CompleteMeansAbsent ErasedFirst FinalizedForEver SettledUnlessResent NeverRepeated`, `CountersExact`, `LabelsKept` |
| `finalization_resent` | 2 calls, 1 operator, 1 re-sent update | counterexample | `PendingMeansSettled` is violated |
| `session` | a hosted tab that offers demos and an account, or a local one; 1 person, 5 generations of a page load, 2 names | 590,133 | `NoOrphanDemo AccessPromise Settles` |
| `accounts` | one tab with 2 people, export and deletion; or 2 tabs with 3 instance names, 2 logout epochs, 1 rotation, with and without Web Locks | 1,161,328 | `HeldIsShown SensitiveOnce DeletionNoticed`, `OneTabPerFamily LogoutReachesAll ReloadFindsNewest` |
| `settling` | 2 requests, 1 person, 5 generations, 2 access tokens; or a desk of 3 interviews; or the list | 274,902 | `ScopeFenced LateRefusalHarmless PresentedOnce EveryRequestSettles`, `DeskResolves`, `ListSettles` |
| `pages` | one of: settings, record editors, drawer, capture, frame with or without reset | 804,255 | `OnlyOwnEdits ChosenZoneKept SavesKnownItems AdviceIsForEntered EnteredKept ScrollFollows` |
| `stale_context` | 2 interviews, 2 requests, a query that is never late | counterexample | `ContextExact` is violated |
| `stale_draft` | details with the planner, or a note; one other writer | counterexample | `StaleWritesConflict` is violated |

Deadlock is checked in `erasure`, `bootstrap`, `maintenance`, `marker`,
`finalization_resent`, `session` and `accounts`.  A durable workspace never stops (an
erased one can always be asked for its status); a finalized account may, and
`Finished` is the only step that stutters; a tab can always be loaded again.
`CHECK_DEADLOCK FALSE` where the system really may stop, or a bound stops it:
`services` (all calls answered, and time, policy and versions at their bounds), `settling`
(all requests settled), `pages`, `stale_draft` and `stale_context` (versions and
additions at their bounds).

### Bounds, and why they are enough

The service:

* Two requests of the kind a run is about, and one of each kind that disturbs
  it.  Requests keep nothing between them but the store, so that a third request
  of a kind adds repetitions.  In `AccountFinalization` a call dispatches at most
  once, and the cases of interest are one call's dispatch and a second call that
  arms, or answers, meanwhile.  The proofs of section 5 are for any number.
* One or two applications; two wherever order or the comparison of sets matters
  (`maintenance`).  `MaxApplications` is the lifetime quota.
* `MaxItems = PageSize = 2` (250 and 25 in the code): an application with its two
  canonical records and a note needs two pages, the budget is spent within a call
  so that several calls are needed, and `ErasePage` may return any part of a page.
* `MaxAttempts = 2` (4 in the code): one retry of a batch, and giving up.
* `MaxTries = 2` (5): one conflict that is retried and one that is not.
* `MaxFailures` bounds crashes, errors, deadlines and partial batches in a run;
  `MaxResends` updates the table's client sends again; `MaxLate` requests that
  linger after their caller gave up.  They are bounds of the model only; the
  proofs do not depend on their values.
* In `services`, `Ttl = 1`, `MaxTime = 1`, `DayLength = 2`: a call may fall into
  the minute of another or into the next one of the same day, and a workspace may
  expire while its call is still at work.  `Parts = 1` makes a workspace whole or
  not.  The budgets allow both calls, or one per day, or one per minute, and an
  operator changes them once (`MaxVersion = 2`), including to disabled.
* `LastVersion = 4`, `LastRound = 2`, `LastLabel = 3`: an application can be
  submitted, archived and restored, or take three steps of the funnel, while two
  requests hold copies of any of its versions; an interview is changed once by
  each of two writers; a rename meets an earlier rename.  `Hours = {1}` puts all
  interviews at one time, so that the order is that of their numbers; what TLC
  cannot tell apart this way (a change of time) the proof of `LabelsKept` covers.
  In the repair of `maintenance`, requests may create, read and leave records while it
  runs, which is what ends its being alone; changes of what exists add nothing to that.

The browser:

* `MaxGen` bounds the generations of one page load, `MaxNames`
  the operation keys, transactions and intents ever made, `Room(n)` keeps n
  generations free for the moves a step makes.  Five generations let an operation
  be started, replaced, started again, replaced by another tab, and resumed late;
  page loads start the count again.  The proofs of section 5 are for any number of
  either.
* `MaxEpoch = 2` is one logout; `MaxRotation = 1` one renewal of each family;
  three instance names (`MaxInstances`) let both tabs sign in and one of them
  again.
* `MaxUnderWay`, `MaxCalls` bound what the network holds: two calls can overtake
  each other.  The details and notes in `pages` have one at a time; `stale_draft`
  has two.
* `MaxVersion = LastVersion = 3`: a save from version 1 meets versions 2 and 3 of
  others.  `MaxAdds = 2`: the lost answer to an addition, and the second addition
  it invites.
* `Dates <- {1,2,3}`: one interview on each page, one that appears late, and an
  address that may name none of them.  The desk saves one interview at a time, and
  not while an outcome is being recorded, although a schedule form opened during a save
  could save too.
* The list's filter drawer is opened, and a filter changed in it, while no navigation
  waits to be drawn (`asked = shown`); it may be closed and applied at any time, and
  everything else on the page used at any time.

One stretch of code between two `await`s is one step, because JavaScript runs it
without interruption.  React's effects that are due run before the person acts
(`EffectDue`, and in the list `due = {}`): they run before the browser handles the
next event.  An address, on the other hand, is drawn in a transition of the router, and
events may come before it is: the list has the address asked for and the one drawn as
two variables.  Where an effect merges a new copy into a draft and draws it a second
time (`SettingsForm`), copy and draft move in one step.

### Fairness

Safety is checked and proved without fairness.

* `ErasureCompletes` assumes `FairSpec`: weak fairness of each deletion call's own
  next step, and of asking again while the workspace is in DELETING.  The code is
  synchronous between two requests to the table, which justifies the first; the
  second is the documented protocol (202, then `POST /me/deletion/retry`, since
  there is no background worker) and says that the owner, or the page that polls
  on their behalf, does not give up for ever.  Nobody is assumed to start a
  deletion, and no fairness is put on bootstrap, product requests, export or
  backfill.  Setbacks are finite.
* `Settles` assumes that the configuration request is answered and that each kind
  of suspended continuation is resumed some day: requests end by their answer or
  by the ten seconds the code allows them.  Nothing is assumed of what the person
  does, except that the page is not loaded again for ever.  Sensitive operations
  are left out of this specification; they are part of `accounts`.
* `EveryRequestSettles` assumes that the browser runs what is ready (`Going`), that
  the network answers or loses each request (`Serving`), and that a renewal under
  way fails in the end, by its deadline if by nothing else; not that it succeeds.
* `DeskResolves`: a fetch arrives or fails; effects run.  `ListSettles`: React
  draws, effects run, the search timer fires; not that any request is answered.


## 5. Proofs

TLAPS checks all of this from nothing in several minutes.  The only assumptions
are those on constants: `StoreAssumption` (in particular finitely many
applications and child kinds), `BootstrapAssumption`, `WritesAssumption`,
`ErasureAssumption`, `FinalizationAssumption`, `RequestsAssumption`,
`DemoAssumption` (finitely many calls), `CountersAssumption` (finitely many
applications), `RoundsAssumption` (finitely many interviews, numbered), `TabsAssumption`,
`TabAssumption` (a page load has at least one generation), `SessionAssumption`
(what stands for an absent value is not a value), `RecordAssumption`,
`SettingsAssumption`, `EditorsAssumption` (which fields and senders there are at least),
`DrawerAssumption` and `CaptureAssumption`.  No assumption is
made on the number of concurrent requests otherwise.  Names for absent values and
lower bounds apart, these say what the code has: finite sets, its own senders and
fields.

`DurableWorkspaceProofs` proves `TypeCorrect`, `InventoryAlwaysCovers`,
`ManifestAlwaysExact`, `TombstoneStaysBare`, `ErasureAnswersAreTrue`,
`PreferencesAreKept`, and, for an owner who starts with nothing,
`ReadinessIsWhole`.  None of the invariants is inductive alone:

* The tombstone is only written by a call that saw an empty owner partition
  *earlier*.  That nothing came back since needs that the workspace is frozen
  (`EraseEvidence`, `Frozen`), that every write carries the ACTIVE condition, and
  that a bootstrap cannot revive a frozen workspace (`BootFromLive`).
* That the last reference stood for the last application needs
  `InventoryCoversData`, which depends on where the marker came from: a bootstrap
  concludes from an absent quota record that there is no application, a backfill
  from an equal quota that it found them all.  Both need `Consistent` (while the
  workspace is live, the quota counts the applications and no reference or record
  is outside them) and `FillEvidence` (what a backfill found is still there and
  still as many as it counted).

`IInv` is the conjunction of these; each action's preservation of it is a case of
one lemma per component (`BootstrapPreserves`, `WritePreserves`,
`ErasePreserves`, `FillPreserves`, `ReadersPreserve`).  `IInv` was checked with
TLC before it was proved.

The section on the export proves `ExportIsComplete`.  Its invariant,
`ExportEvidence`, says what an export knows at each of its steps: while the
workspace is live, applications and references only grow together, so that a list
as long as the quota was the whole list, and what was read of an application
since is still there at the recheck.

The last section proves `LifecycleImplemented`, the refinement of
`WorkspaceLifecycle`: `ABSENT` and `PROVISIONING` are the abstract phase `NONE`,
and `stored` is the set of all records.  Each component's steps are shown to be
abstract steps (bootstrap: `Open` or `Work`; writes and backfill: `Work`; freeze:
`Close`; batches and references: `Purge`; tombstone: `Bury`).

`AccountFinalizationProofs` proves `TypeCorrect`, `FinalizationIsTrue`,
`FinalizationIsForEver` and `IdentityOutlivesWorkspace` for any number of re-sent
updates, by the invariant `Conclusive` (whoever is about to record COMPLETE has
evidence of absence); and `PendingIsSettled` and `DispatchNotRepeated`, of every
behaviour up to the first update that is sent twice, by `Settled` (at most one call
stands between arming and a recorded outcome), which no bound on re-sending is
needed for.

`DemoProvisioningProofs` proves `DemoTypeCorrect`, `OneDemoAtATime`,
`AnswersAreTrue` and `BudgetsAreKept`, for any number of calls, keys, records,
policies and straggling requests.  The invariant, `ProvisionInv`, has one part for
each thing that a call believes while the table changes under it:

* `Unreserved`, `Unanswered`: while a call may still be refused, it has reserved
  nothing and no request of its own lingers that could; and it has not answered.
* `Keyed`, `Recorded`: a key's record is of a call with that key, and a workspace
  that lives is the one recorded under its key.
* `Seeded`, `Begun`: what has been written of a workspace so far, that READY and a
  lingering mark READY stand for all of it, and that cleanup only starts from
  FAILED.
* `Budgeted`, `Counted`: whoever asks to reserve, late or not, does so under a
  policy that had room; and the counters are exactly the reservations, so that
  the conditions of the reservation's transaction suffice for `WithinBudget`
  although policy and counters were read earlier.

The definition `Effect` (with the lemma `EffectHolds`) states what any step does
to the table, so that each part is preserved by a handful of effects and not by
each of some thirty actions again.

`ScopedRequestsProofs` proves `ScopesAreFenced`, `RefusalsAreOfThePresent` and
`TokensArePresentedOnce`.  The invariant says that every generation has one owner
and a lease has its generation's (`Owned`), that the credential revision tells
the present credential from every earlier one (`Fenced`), and that a refresh
token still held has not been presented (`Unspent`).

`ProjectionRepairProofs` has three sections.  The first proves `CountersTyped` and
`CountersAlwaysExact`.  Exact
counters are not inductive alone, because the deltas come from a copy.
`CopiesTrue` says that a copy whose version is still the record's is the record,
since a version is written once; `Attained` says that an application has reached
what its status, or the status it was archived from, says, so that restoring it
reaches nothing new and need not be counted.

The second proves `RoundsTyped` and `LabelsAlwaysKept`, for any
interviews and requests and whatever the query for the projection sees.  The lemma
`ListedAreHeld` carries a rename: as many interviews were listed as there are,
the listed ones are still there, so they are all of them.  `ChangesTrue` carries a
change: while its interview is at the version its client named, no rename has
committed, and the label it read is the application's.  `RoundsTyped` says no more
than the types; for the projection's it takes `EarliestScheduled`, that the choice of
the earliest of some scheduled interviews is one of them, by well-foundedness of the
naturals.

The third proves `RepairIsComplete`: a repair that ran to its end alone leaves
everything exact, for any applications and interviews, and although nothing of what
it found can be relied on.  `DoneSoFar` says, for each of its stages, how much of the
tables it has seen and what it has already rewritten; it holds while the repair is
alone, and a request beside it gives that up (`Interferes`) rather than break it.
`RepairTyped` holds beside any requests: what is put back over a newer record was a
record once, so types survive where versions, and what `ChangesTrue` says of them, do
not; this is why the types of the interviews are an invariant of their own (`StepStays`).

`AccountTabsProofs` proves `TabsTyped`, `OneFamilyOneTab`, `LogoutReachesEveryTab` and
`ReloadIsNewest`, for any number of tabs, sign-ins, logouts and renewals, with and
without Web Locks.  Its invariant is about each tab alone, but for one part:

* `Locked`: a tab that believes to hold a lock does, be it for its session, for a
  request under way, or for a scope that ended while the lock was being asked for
  (`ghost`).  Copied storage is harmless because two tabs cannot both believe it.
* `Holds`: credentials are of the sign-in whose name the page has.  `Reached` and
  `Newest`: a logout made since is on its way, and storage has the last rotation.
* `Unlockable`, `OneClaim`: without locks nothing is stored, and then the provider's
  code, good for one exchange, is what keeps a family in one tab.

`TabKept` and `OthersKept` state once what a step of one tab does to the others
(`Aside`), so that each step is looked at for its own tab only.

`SessionProofs` is about one tab's session: any people, any length of a page load,
either build.  `SessionTyped` says more than types: each suspended continuation carries
the locals of its kind, an open workspace has an owner, and a deletion or export is
shown only with the intent it is for.  The other theorems rest on one another:

* `Core` is what makes a late continuation harmless.  It waits under a scope not
  later than the present one (`InScope`); if it is the present one, the screen shows
  what it is doing (`Visible`), and it is the only one (`Alone`, but for the requests
  that run beside an open screen).  `SessionImplementsAccess` follows: whatever step
  publishes an open workspace was shown to be entering one (`Enters`), so the mapping
  of `WorkspaceSession` refines `WorkspaceAccess`.
* `WhatIsHeldIsShown` adds `Holding`: credentials are only with the account's adapter
  and with storage that selects an account (`Credentials`), and a continuation that
  will publish an account still finds both as it left them (`Claims`).
* `NoDemoIsOrphaned` adds `Orphans`: it is shown of the demos the server *may yet*
  make too (`Obliged`), since a request survives the scope that sent it.  A demo that
  was asked for is in the place of the one held, under the key kept for it
  (`InPlace`), and nothing is asked for while storage selects an account (`Asking`).
* `SensitiveIsOnce` adds `Sens`: an intent is in one place, the sign-in that carries
  it or the storage, and in none once it was used (`Unused`); what is shown or under
  way was verified (`Proven`); and the requests are as many as the intents used
  (`Counted`).
* `NoticeIsKept` needs only the types: `NoticeKept` is what nearly every step does to
  the notice, and the others are a sign-in, a deletion and its answer.

Lemmas such as `SensKept`, `HarmlessAway` or `ClaimsStay` say what a kind of step
preserves, so that some fifty actions need few proofs of their own.

`PagesProofs` has one section for each page.

* The settings, for any fields, values and savers: `SettingsTyped`, `FormSendsEdits`
  (what of `OnlyOwnEdits` is about them) and `ChosenZoneIsKept`.  A copy with the
  server's version *is* the server's record (`Agrees`, `Copied`), and a change under way
  names a version the server had (`Flying`).  While the form's save is under way it
  says something new of the version it was made from (`FormIsNews`), so that once it is
  confirmed the version has moved, and an automatic zone made from an earlier one is
  refused (`TooLate`).
* The forms that edit a record, over the same copies: `EditorsTyped`, and `EditsAreOwn`,
  which is `OnlyOwnEdits` of every behaviour of `MCPages`, for any forms, fields, values,
  senders and bounds.  An open form differs from the record it was opened with only where
  its person edited it (`FromBase`), and a save that will be taken was made from the
  server's own version (`OwnEdits`): of a schedule or a card that *is* the record it was
  opened with, and a status sends the one field that was chosen.  A note and the details
  send the version of a newer copy, which is where the argument fails (section 7); the
  planner beside the details is the only other sender (`Senders`, `Planning`).
* The preparation drawer, for any interviews: `DrawerTyped` and `SavesAreKnown`.  What is
  ticked is among the items of the copy (`Working`); a save that will be taken for
  current was made from the server's copy (`UpToDate`, `Sendable`); an item's answer
  may change the copy under the draft only by that item (`Expected`).
* Capture: `CaptureTyped`, `AdviceFollowsEntry` and `EntryIsKept`, by `Asked` (what is
  asked or advised is about what is entered), `Confined` and `Excused` (leaving goes
  unasked only for the form's own request).
* The frame: `ShellTyped` and `PageScrolls`, by `Layered` (the lowest overlay found the
  page scrolling, the one above it found it stopped).

The invariants were checked with TLC before they were proved.

Only model-checked: everything live (`ErasureCompletes`, `Settles`,
`EveryRequestSettles`, `DeskResolves`, `ListSettles`), which is out of the
prover's reach.  The violations of section 7 are counterexamples, and so TLC's too.


## 6. Abstractions

The service:

* A request to the table is one step.  A query that may need several pages is one
  step when its readers only compare or collect (bootstrap's owner partition, an
  application's partition in the export, the backfill's inventory); erasure and
  the export's reference list, whose correctness depends on going page by page,
  take one step per page.
* Transactions are atomic, and re-sending one changes nothing: the SDK gives it
  an idempotency token.  A re-sent conditional put of `freeze` or of the
  tombstone fails and is answered by the record it wrote itself, which is what
  `FreezeLost` and `EraseFinish` do.  A re-sent `update_item` of the finalization
  has neither, so `AccountFinalization` models it.
* Record contents, versions, timestamps, TTL and provenance checks are left out
  of the durable workspace.  The checks only refuse, and no modelled request
  writes a record that they refuse.  `updated_at` in bootstrap's comparison is
  implied by the attributes that are modelled.
* Counters of the owner partition are written with WORKSPACE_QUOTA and erased by
  the same page loop; WORKSPACE_QUOTA stands for them.  RESOURCE_QUOTA likewise
  follows ACTIVITY.
* The lifetime quota of a legacy owner counts its applications (`LegacyInit`):
  both have been written in one transaction since the quota exists.  The backfill
  relies on it ("lifetime quota evidence").
* `create_settings`, the lazy creation of preferences, needs an active workspace
  without settings and is behind the readiness check that refuses those.
* The status index answers with any subset of the applications: it may lag by any
  amount.  The status partitions of an application that moves while they are read
  are covered by that.
* `AccountFinalization` has erasure as one step, whose meaning (a tombstone that
  stays) is what the other modules prove.  The five-minute authentication window
  appears as a step at which the call may end.
* Applications and interviews: activity entries, limits on their numbers, and every
  field that no counter, label or projection depends on are left out; an edit of
  such fields is a change to the next version.  Company, title and role are one
  label.  Whether the next interview is prepared for is stored with its time and
  under the same condition, and is left out of the projection.  The lifetime count
  of interviews in RESOURCE_QUOTA is their number, because none is ever deleted
  and both are written in one transaction.  A request that changes an interview
  and one that renames are seen by one application's records only; requests of
  `ApplicationCounters` and `InterviewRounds` meet on the application's version,
  which `ChangeApplication` moves.
* In `ProjectionRepair` the table is one owner's, with one application's
  interviews, and its owner is active or not yet bootstrapped, which is when
  `_reconcile_write` lets it write.  A scan sees each item once.
* In `DemoProvisioning` a unit of time is a minute, and what the table's TTL
  removes goes at any time after its deadline.  The random names of workspaces do
  not collide.  Cleanup deletes item by item and stops anywhere, which stands for
  its bounds on items, pages and time.
* External, modelled from how the code uses it: the provider acting on a deletion
  after its caller stopped waiting, and the operator's manual deletion.

The browser:

* A person is a model value and an action: at any time they may do anything the
  screen offers.  What a server answers is any answer the code distinguishes.
* Tokens are numbers, ages are a flag that becomes true (`Age`).  The protocol
  library (`oidc-client-ts`) is modelled by what the adapters ask of it.
* In `SessionAccount` the other tabs are reduced to their logout; in `AccountTabs`
  a tab is reduced to its credentials.
* A record has two fields, the one edited here and another one, or the two that
  the settings' automatic and manual saves contend for, with two values each.  A
  server's version changes when a value does, and a save with another version is
  refused, as the repositories' version conditions do.
* Beginning a sign-in waits for the configuration and then for the protocol library:
  `LoginBegins` is the stretch between the two, in which the account's adapter takes
  over and forgets what it held, and `LoginRedirects` the one after both.
* In the list, one flag stands for the filters that share their rules, another for what
  leaves the view alone (source, work mode and sorting); texts are a content and
  whether there is space around it.  What the list shows of the address is left out:
  sorting is offered with results, which may be there at any time.
* The text fields of the preparation drawer are one field, and one step of its
  checklist stands for the two that need something written (`Founded`).


## 7. Disagreements between code and documentation, and observations

Four claims of the repository's documents that the code does not keep, each with
a run that shows how:

* **Marker** (run `marker`).  `_existing_condition`
  (`B/infrastructure/dynamodb/workspace_bootstrap_repository.py:185-201`) compares
  only attributes that were present in the snapshot, and `commit` replaces the
  whole WORKSPACE record.  A bootstrap that repairs the profile of an active LOCAL
  workspace from a snapshot older than the backfill's marker erases the marker.
  The comment at line 186 says that all modelled attributes are compared.  No data
  is lost (`InventoryAlwaysCovers` and `LifecycleImplemented` are proved of that
  system too): export and erasure are refused until the backfill runs again.
* **Re-sent rejection** (run `finalization_resent`).  The update that returns the
  tombstone to PENDING after an explicit rejection can be re-sent by the SDK after
  another call armed and dispatched.  PENDING then stands over an ambiguous
  dispatch, which `docs/account-finalization-operations.md:17-18` excludes.  What
  matters most, `CompleteMeansAbsent` and `ErasedFirst`, holds regardless.
* **Stale projection** (run `stale_context`).  `WORKSPACE_CONTEXT` is to hold the
  earliest scheduled interview, and `docs/application-opportunity-workspace.md:40`
  says that its version prevents two interview mutations from silently overwriting
  one another.  `_opportunity_context_write`
  (`B/infrastructure/dynamodb/resource_repositories.py:586-683`) reads that version
  after it queried the interviews.  A change that commits between the two is not in
  the projection and is not noticed by the condition.  The query being eventually
  consistent makes it likelier, but is not needed.  `CountersExact` and
  `LabelsKept`, which rest on versions read before or with what they guard, hold.
* **Stale drafts** (run `stale_draft`).  The details of an application are saved
  with every field of the form, taken when it was opened, and with the version of
  whatever copy is cached at that moment (`F/pages/ApplicationEditPage.tsx:84-95`);
  a note likewise (`F/features/resources/NotesPanel.tsx:195-214`).  A refetch in
  between makes the save acceptable and the old values come back, where
  `docs/adr/0003-archive-and-optimistic-concurrency.md:17` promises a conflict.
  The next step planned beside the form is enough: it saves a date, refreshes the
  cache, and "Save changes" restores the date from before.  Schedules and pipeline
  cards keep the version they were opened with, and statuses have one field: run
  `pages` shows `OnlyOwnEdits` of them, and `EditsAreOwn` proves it.

Met while modelling; behaviour nothing in the repository forbids:

* Scheduling an interview requires its application to exist, not to be at the
  version whose labels it took (`_create_child`).  One that overlaps a rename from
  before its listing makes the rename a conflict; one that commits after the rename
  with labels read before it keeps the old ones until it is next edited.  That is
  why `LabelsKept` speaks of interviews that carry the label.
* The repair writes back whatever its scan saw, so that an edit committed in between
  is undone although its caller was told that it was made.  The command is for local
  tables that nobody else is using.
* Choosing a role's focus makes a new version of every interview of the
  application.  A drawer that still holds an older one has each later save refused
  as a conflict, although nobody else is there.
* A renewal takes its guard, with the logout epoch in local storage, when it begins
  (`F/auth/cognitoClient.ts:174-192`, `cognitoSessionStore.ts:106-108`), and what it
  stores is stamped with it (`:211`).  Begun after another tab's logout and before this
  tab has its notice, it brings the session of before into the new epoch: a reload
  before the notice restores it (`:196`), and no notice is left.  The documents say that
  other account tabs invalidate immediately and that a session compares its *saved*
  epoch (`docs/phase5a-cognito-implementation-contract.md:360-361`, `:375-376`;
  `docs/phase5c-frontend-cognito-handoff.md:116`).  `LogoutReachesAll` therefore speaks
  of sign-ins and of renewals begun since.
* The list's search timer navigates without drawing at once.  A click before the address
  is drawn derives its own from the parameters on screen
  (`F/pages/ApplicationListPage.tsx:243-261`).  If that is the address on screen again,
  nothing is drawn, the effect that sets the timer (`:182-192`) does not run again, and
  field and address differ until something is typed or another address is drawn.
  `ListSettles` excepts this.
* The drawer lets a step be ticked that the server refuses to complete: `prepare_examples`
  without notes and `prepare_questions` with fewer than two questions
  (`B/application/resource_services.py:574-581`).  The save is refused, and the drawer
  keeps its draft.
* A schedule form that is closed while it saves goes on saving; the answer moves the
  address to the saved interview and closes whichever form is open by then
  (`F/pages/InterviewsPage.tsx:368-388`, `:512`).
* A plain save of the preparation drawer closes it when it is answered; what was
  typed after it was sent goes with it.
* When two overlays are torn down by one event (a session that ends under a
  dialog over a drawer), they restore scrolling in the order of the tree and may
  leave the page unable to scroll.  `ScrollFollows` excepts exactly this.
* The capture form judges its applied date even where the stage hides it: a future
  date entered before the stage changed refuses the form without being shown.
* A demo whose reservation was made and whose call was lost stays PROVISIONING
  until it expires, and its key answers "in progress" until then, as
  `src/backend/tests/integration/test_demo_admission.py:311` expects; and a FAILED marker that the TTL
  removed early makes its key answer "unavailable" instead of a conflict until the
  deadline.
* An addition whose answer was lost is kept in the form, as it should be, and
  submitting it again adds it twice; the advice on duplicates is what is left.


## 8. Not modelled, and why

Parts that keep no state, or whose state nothing else depends on:

* Landing story, onboarding, charts, toasts and the display of the dashboard and
  of an application: derived from what is modelled, or animation.
* `insights.py`, `search_health.py` and their neighbours: pure functions of lists,
  which unit tests reach.
* Records, mapping, request parsing, client schemas, analytics, infrastructure,
  packaging, scripts and the CSV rendering of an export.
* The account preview, the profile preview and the downloads of the settings page:
  they keep nothing on the server.

Parts that would be worth a model and have none:

* Activity entries and the limits on notes, interviews and activity
  (`resource_quota.py`, apart from the count a rename compares): each is a
  conditional addition in the transaction of what it counts.
* Token verification (`B/auth/`): key cache, negative cache and admission cache of
  one process.  They depend on time and cryptography more than on order.
* What a cursor by update time promises of applications that move while they are
  listed.

Details of modelled parts that are left out:

* A local installation's demo without a key; the search for a namespace already in
  use; byte and time budgets of the export.
* Composing and deleting a note, archiving, completing a follow-up, the applied
  date entered with a status move: each is one request without a draft that
  outlives it.
* The reset of the schedule form's draft when the saved time zone changes.
* The grouped mode's panels of the list (`OpportunityWorkspace`), which fetch and
  show.
