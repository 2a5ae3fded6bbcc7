# RestoreTime: formal models

RestoreTime is a Clockify add-on that keeps a copy of deleted time entries and
recreates them on request. This directory holds TLA+ models of its code, TLC
configurations that check them on small instances, and proofs, checked by TLAPS,
of the properties that matter most. Source paths below are relative to `src/src/`.

## The system

One Node process, one SQLite database, no background work. Clockify delivers
webhooks and lifecycle events; a browser component calls the `/api` routes; the
routes call Clockify's REST API. The store is written for other processes on the
same database too (`api/routes.ts:816`, `:826`), and so are `Recreation` and
`Reconcile`. Everything
hard comes from the fact that a request handler awaits Clockify several times,
while a database transaction covers only what happens between two awaits.


| Component | State it keeps | Operations | Hard behaviour | Correct when |
|---|---|---|---|---|
| Recoverable entries (`store/entries.ts`) | lifecycle state, claim token and lease, link to the new entry | ingest, claim, fenced transitions, recovery, adopt, mark not created, dismiss | leases that lapse under a live handler, crashes between steps | never retryable while a result is unknown; RECREATED matches its attempt |
| Plans (`store/plans.ts`) | one ACTIVE plan per entry, stale and consumed ones | create (prunes and retires), mark stale, consume with the claim | a slow preflight against a confirmation | a plan is spent once; none is confirmable behind a claim |
| Attempts (`store/attempts.ts`) | outcome, baseline, check evidence, the check in flight | start, finish, begin, complete and cancel a check, purge | late answers, checks that are taken over | an outcome settles once; evidence only while unknown |
| Create and reconcile (`clockify/recreate.ts`) | local variables of a handler | baseline, create, commit, verify; list, match, adopt | the create's answer is lost, late or contradicts the check | no silent duplicate; nothing older is adopted |
| API (`api/routes.ts`) | none | one handler per route, bulk variants | state read before an await and used after it | each transition re-checks under the write lock |
| Installations (`platform/installations.ts`, `store/cascade.ts`, `server.ts`) | installation rows by generation, retired generations, broken flag | INSTALLED, STATUS_CHANGED, DELETED, broken | delayed, repeated and concurrent lifecycle events | a generation never loses data to another one's old event |
| Ingestion (`ingest/`) | none | verify, guard, normalise, fenced insert | an uninstall during verification | no row without its installation; no duplicate |
| Preflight (`domain/`, `clockify/preflight-data.ts`) | none | rules over the entry, choices and workspace | boundaries, rule order | deterministic; stale exactly when the outcome differs |
| User interface (`ui/`) | session, current view, navigation version | navigate, render, call the API | answers that arrive after navigation | an old answer never replaces a newer view |
| Server, configuration, metrics, client, viewer verification, migrations | process lifetime | boot, drain at SIGTERM | force timer against the drain | the database closes once, after the listener |

The hazards, each at its line and with the properties aimed at it, are listed in
`PROJECT.json`.

## Modules

| Module | Models | |
|---|---|---|
| `Recreation` | entries, plans, attempts, `attemptRecreation`, `runReconcile` and the handlers that drive them | the core |
| `EntryLifecycle` | the documented lifecycle of an entry, without any of the machinery | what the core promises |
| `RecreationRefinement` | the refinement mapping from the one to the other | |
| `Reconcile` | the checks of one unknown result under a clock | beside the core |
| `Preflight` | `runPreflight` and its rules, as operators | what a plan says |
| `Resolution` | the choice widgets, the stored plan and its revalidation, over `Preflight` | how a plan is settled |
| `Server` | bulk recreation in one process, and that process's end | around the core |
| `Installations` | installation generations, lifecycle events, the fenced ingestion, the reinstall notice | around the core |
| `UiSession` | the component in the browser: one entry from the list to the result of its recreation | the user's side |
| `UiList` | the component's list, selection and bulk flow | the user's side |
| `RecreationInvariant`, `ServerInvariant`, `InstallationsInvariant`, `UiSessionInvariant`, `UiListInvariant`, `ResolutionInvariant` | the inductive invariants | |
| `MC...` | instances for TLC | |
| `RecreationProofs`, `ProtocolProofs`, `ReconcileProofs`, `ServerProofs`, `InstallationsProofs`, `UiSessionProofs`, `UiListProofs`, `ResolutionProofs` | theorems and proofs | |

`Recreation` and `Installations` meet in `recoverable_entries`: `Installations` says when a row may be
there at all, `Recreation` what becomes of a row while it is there. A purge under
a running confirmation is in neither: every write of `Recreation` is an UPDATE
that then finds no row. `UiSession` and `UiList` see the server only through its
answers; they meet where the list opens an entry and where an entry returns to the
list or to the review. `Reconcile` is a closer look at one state of `Recreation`
(AMBIGUOUS), `Resolution` at one of its values (a plan, which `Recreation` only
identifies), and `Server` at one of its actors (a handler that confirms several
plans in a row, and dies with its process).

### `Recreation`

A **store call** is one immediate SQLite transaction and so one atomic action. A
**request handler** is a process: `pc[r]` says at which await it is, `job[r]`
holds what the code keeps in local variables there. Between two awaits the code
runs alone in its process, but other handlers, here or in another process, run
between any two of its steps.

| Stage (`pc`) | The handler awaits | Next actions |
|---|---|---|
| `revalidating` | `loadClient` and the preflight reads of `confirmPlan` | `RevalidatedStale`, `Claim`, `ClaimRefused` |
| `readBaseline` | the list request of `fetchBaseline` | `ReadBaseline`, `BaselineFails` |
| `startAttempt` | its answer | `StartAttempt`, `PreWriteChanged` |
| `creating` | the create | `CommitCreated`, `CommitRejected`, `CommitAmbiguous`, `CommitThrows` |
| `beginCheck` | `loadClient` of a check | `CheckBegins` |
| `listing` | the list (or the one chosen entry) | `CheckReads`, `CheckTruncated`, `CheckCancelled` |
| `deciding` | the verification read | `Adopt`, `NotAdopted`, `CheckCancelled` |

`Abandon` ends a handler at any await without touching the store: a refusal, a
throttled check, an error of Clockify, or a crash of the process. A crash is
nothing else, since all durable state is in the database.

The variables are the columns of the three tables, written as functions of the
row: `life`, `claimToken`, `leaseExpired`, `newEntryId` for `recoverable_entries`;
`planStatus`, `planEntry` for `recreation_plans`; `outcome`, `attemptEntry`,
`attemptPlan`, `attemptNewId`, `baseline`, `latest`, `evidence`, `run` for
`recreation_attempts` (`evidence` and `run` are the two halves of
`reconcile_json`, `latest` is the order of rowids). `look`, `origin` and `wire`
are Clockify: which entries exist, whose create made them, and what became of
each create. `issued`, `marked` and `snapshot` are history.

Abstractions, and why they are sound for the properties:

- **Time.** A lease may lapse at any moment (`LeaseExpires`); a check may be
  throttled (`Abandon`) or may take over an older one whenever the code compares
  timestamps; the ten-minute window of `markNotCreatedAllowed` may have passed.
  Every real schedule is among the modelled ones. Only the number of completed
  checks is kept, up to `MinChecks`, beyond which the code does not distinguish.
  When exactly a check may start and evidence suffices is `Reconcile`'s subject.
- **Clockify lists** are read in one step, when the request is made or any time
  before its answer is used. Pages and retries are left out.
- **What entries look like.** `fingerprintMatches` is equality of an abstract
  fingerprint. All the runs give all entries the same one, the hardest case.
- **Run ids** are identified with the handler that drew them: a handler draws
  one per check, and a handler that ends and starts again while its old run is
  still recorded behaves as a handler that owned it. Only a crash leaves such a
  run, so the model admits more than the code.
- **Left out:** who may see what, plan contents, diffs and `updateSuccessDiffs`,
  the broken flag, metrics and messages. A SUCCESS row without a new id, which no
  release writes, is left out too.

The bulk routes call `confirmPlan` for one entry after the other, so what they do
to the store is a behaviour of this module; what they answer is in `Server`.

Initial states: the rows are as the webhook inserts them, except that at most one may be as an
older release can have left it: RECREATING under a lapsed claim with an outcome
already recorded (`HalfCommitted`), and any plan in `LegacyPlans` has no
presentation.

### `EntryLifecycle` and `RecreationRefinement`

`EntryLifecycle` is docs/06 and docs/08 from the user's point of view: a state, at
most one time entry that replaces the deleted one, and a **doubt**, that is, a create
request that may have been obeyed although nobody knows. Plans, claims, leases,
attempts, checks, handlers and crashes do not occur. In doubt an entry is never
claimed, and a doubt ends only with a rejection, a link no other entry has, or the
user's word.

`RecreationRefinement` maps `Recreation` to it. State and link are columns; the doubt
is computed from the attempts: one that is not marked and is open, AMBIGUOUS, or a
SUCCESS its entry does not show yet (what an older release can leave). The invisible
steps, everything that plans, leases, checks and crashes do, are stutters.

### `Reconcile`

One attempt with an unknown result, from the moment its create left (time 0). `now`
is the server's clock; `summary` and `run` are the two halves of `reconcile_json`: what
the last completed check left, and the check in flight. A handler begins a check
(`Begin`, with the id the user picked if it is a manual resolution), reads
(`Reads`), and decides (`Adopts`, `Completes`, `ResolveEnds`); or the list is
truncated, the read fails, or the process crashes and leaves its run in the row. Copies
of the deleted entry appear and disappear at Clockify at any time.

- Only what depends on time is here: who adopts what is in `Recreation`.
- A check takes up to `MaxRead`, ten pages with their retries. Its list is read at one
  instant; pages that are read at different instants are left out.
- One clock: the code compares timestamps of the server only.
- A copy that was seen once stays in `candidates` even when it is deleted at Clockify,
  so such an entry can never be marked "not created"
  (`tests/unit/store-safety.test.ts:224` wants it so).
- docs/07 section 8 speaks of a check every 30 seconds at most; a check that was
  cancelled leaves no trace, so it can be repeated at once. Only counted checks are a
  throttle apart, which is what `EvidenceAddsUp` says.
- The ten-minute window runs from the first counted check to the last one, not to
  now; `MarkAllowedByAge` is the other reading, and it breaks `MarkedOnlyIfLate`.

### `Preflight` and `Resolution`

`Preflight` has one operator per rule or group of rules, in the order of
`runPreflight`. A question is the deleted entry, the role of the viewer, the workspace
as the reads found it, the choices, and whether 24 hours have passed (the locked
period rule). Times are hours after the entry's start. A custom field value is its JSON
type and the set of texts it holds. Names, messages and the rendering of the presentation
are left out; what the presentation says of each reference is `Verdicts`.

`Resolution` lets viewers settle a plan. `choices` and `known` are the component's
`MutableChoices` and `knownActionRequired`, `plan` the ACTIVE plan (the workspace it
was read from stands for its outcome, which is a function of it), `screen` where the
viewer is. `Controls` is what the mounted widgets can do to the choices, one operator
per widget; each use runs the preflight (`Choose`). `Open` re-sends the choices of the
stored plan; `Confirm` revalidates and either answers "stale" with a fresh plan or
sends. The workspace changes between any two steps, and viewers with different roles
take turns.

- A choice and its preflight are one step. Late, failed and overtaking answers are in
  `UiSession`, where the choices are values without meaning.
- `sent` ends a behaviour; what follows is `Recreation`. `Accepts`, `StoredValue` and
  `StoredBillable` are Clockify's side, as docs/01 and docs/07 record it.
- `MergeItems` keeps the first variant of an item that is known, as
  `presentationWithEditable` (`api/routes.ts:172`) and `accept` (`detail.ts:204`) do. So a
  control for a project that is gone keeps "No project" after the workspace began to
  require one; the server refuses the choice with a new item. The other way round, "No task"
  is missing from a control that came up while tasks were required, until the entry is opened
  again; `Answerable` counts an option only if item and control agree on it.
- A source without a task is never asked for one, whatever `forceTasks` says.
- A custom field is one field per slice; several are independent in the code.
- A private project is one that the viewer is no member of. Membership by groups is left
  out.

### `Server`

A **batch** is a request with several plans, or one. Its handler looks at all plans
first (`Arrive`, which keeps what it read in `seen`), then takes its rows one after the
other, in any order: `NextRow`, the revalidation, `Claims`, the baseline, the create, the
verification or the first check, each an await. `rows` is the answer it builds.
`Report` fills in a row; `BatchThrows` is an error outside the part that
`bulkResultItem` handles, which turns the whole answer into a 500.

The process is `main`: `Signal` stops the listener and arms the force timer;
`CloseDatabase` is the listener's callback, when the last connection is gone;
`ForceTimer` fires after three seconds; `LoopEnds` is the end of the event loop when no
handler runs. A handler whose client has gone does not notice (`Disconnect`), so the
callback can close the database under it; every store call of such a handler throws
(`Serving`). `Killed` and `Restart` bring the next process, which finds the rows.

- One row keeps of its create and its check only what the answer says; fingerprints,
  baselines and evidence are in the other modules.
- A row claims its entry at most once, so the batch stands for the claim token.
- A whole-batch refusal (404, 409) changes nothing and is left out.
- The exit code and the log are left out. `CloseDatabase` does not distinguish whether
  closing throws, except that the database then stays open ("undead").

### `Installations`

One workspace. A **generation** is an `addonId`; its row in `installations` is
the four columns `authToken` (None: no row), `installedAt`, `status` and `broken`.
`retired` is `retired_installations`; `storedUnder` is the `addon_id` column of
`recoverable_entries`. `current`, `removed`, `announced` and `deletedUnder` are
Clockify: which generation it has installed, and the events it has sent. An event
in them can be delivered any number of times, at any later moment, in any order,
or never.

A **handler** is a delivery or an API request. Here one process serves all of
them, because `save` reads and writes in two statements; an action is
what a handler does between two awaits:

| Stage (`pc`) | The handler awaits | Next actions |
|---|---|---|
| `stamping` | the decryption in `installations.load` | `InstalledStamps` |
| `saving` | the encryption in `installations.save` | `InstalledSaves` |
| `cleaning` | the return of `save` | `InstalledReplayed`, `InstalledSupersedes`, `InstalledCrashes` |
| `verifying` | the verification of a webhook | `WebhookIngests` |
| `calling` | Clockify, with the token it loaded | `ApiRejected` |

`Deleted` and `StatusChanged` do their one store call without awaiting. `Abandon`
is a refused delivery, a request that leaves the installation alone, or a crash.
`InstalledCrashes` is the crash between the two transactions at the end of an
INSTALLED. `purged` and `interrupted` are history.

Abstractions: `broken_at` holds as its value the token whose rejection set it,
where the code stores a time, so that properties can speak of it; the code and the
model only ask whether it is null. Two calls of `Date.now()` are taken to differ: two
deliveries stamped in the same millisecond, of which the later save wins,
are left out. Webhook tokens, the API address and the lineage link
are left out. That Clockify has one installation of an add-on in a workspace at a
time is the assumption `store/cascade.ts` states too.

### `UiSession`

A browser runs one callback at a time, so a click, or the arrival of an answer
with everything its callback does, is one action. Several requests are in flight
and their answers arrive in any order.

- **The fence.** `isCurrentView` compares two counters that only grow, the
  navigation version and the request generation. What can be told from them is
  which requests in flight still carry the newest pair: `current`. `beginRequest`
  makes it the new request alone, a navigation makes it empty, an answer that is
  used up leaves it.
- **The screen.** `view` is the screen, its entry, and what a placeholder or a load
  error would load again; `choice`, `plan` and `checking` are the plan region;
  `queue` and `running` are `preflightQueue`; `busy` are the buttons that
  `bindBusyAction` has taken; `alert` is the action the error offers.
- **The network.** `net[r].stage` follows `call`: sent, refreshing the token after
  a 401, sent again, working (the server holds the claim), answered. An answer can
  be lost at any of them, after the server has acted as well (`handled`).
- **The server** may give any answer the route has, since other sessions change the
  entry at any time. Which answer fits the state is `Recreation`'s concern; here the
  component must hold up against every one. Only the recreation keeps its two steps,
  claim and finish, because an answer lost between them leaves the user in doubt.

`asked` and `doubt` are history. Left out: what the choice widgets offer (see
`Resolution`) and their background reads, the target of Back (list or review, see `UiList`), the confirm view's
read-only variants, the renewal of the token every few minutes, focus.

### `UiList`

The same fence over the list, the bulk review and its results, for an admin; the
screens of one entry are one screen here. `filters`, `selected` and `rows` are
`UiSessionState`; `listed` is the page sequence on screen; `label` is the count on
the button of the review and `bound` the count `bindBusyAction` remembers for it.
The server answers with any rows of the page that is asked for and any status of
each entry that is reviewed, and which answer it was is chosen when it arrives. All filters but "Show dismissed" are one value. Left
out: the limit of 50 selected entries (a guard on the button), token refresh
(in `UiSession`), the suggestions of the filter fields. `sent` and `reviewed`
are history.

## Runs

TLC explores every state of each instance; numbers are distinct states.

| Run | Instance | States | Shows |
|---|---|---|---|
| `recreation` | 1 entry, 2 handlers, 3 plans (1 of an older release), 2 attempts, 2 Clockify entries, 2 checks needed | 0.5 M | the safety properties of one deleted entry, with one retry |
| `recreation_two` | 2 look-alike entries, 2 handlers, 2 plans, 2 attempts, 1 Clockify entry | 0.5 M | what entries owe each other, and the inductive invariant `ProtocolInv` |
| `recreation_live` | 1 entry, 2 handlers, under `FairSpec` | 0.3 M | `ClaimsEnd` |
| `installations` | 2 generations, 2 handlers, 1 token, 1 deleted entry, 3 stamps | 1.3 M | what one generation's events may do to another's data |
| `connections` | 1 generation, 2 handlers, 2 tokens, 4 stamps | 0.3 M | redeliveries, reconnections and slow requests of one generation |
| `session` | 2 entries, 2 choices, 2 requests in flight, 1 check waiting | 0.2 M | the screens of the entries and the fence |
| `session_live` | 1 entry, 2 choices, 2 requests in flight, 1 check waiting, under `FairSpec` | 0.2 M | `WaitsEnd` |
| `bulk` | 2 entries on 2 pages, 2 requests in flight, 2 filter values | 0.5 M | selection, paging, review and results |
| `reconcile` | 2 handlers, 2 copies, window 3, throttle 1, 2 checks, reads up to 1, clock to 4 | 1.0 M | when "not created" may be declared |
| `resolution` | 1 entry in 19 slices of the rules, 2 changes of the workspace | 0.1 M | the widgets, the revalidation, the label FULL |
| `server` | 2 entries, a batch of both and a confirmation of one, 3 plans | 0.5 M | bulk answers, shutdown, restart |
| `entry_opens` | the slices of `resolution` | | a statement the code does not keep, below |

Both runs of `Recreation` for safety start from every outcome an older release can
have left half committed.

**Bounds.** The constants bound everything: `PlanIds` and `Tokens` are the plans
and attempts that will ever be made, `ClockifyIds` the time entries that will
ever exist, `MinChecks` the checks that count. Two attempts are one try and one
retry, the smallest number with a duplicate; two handlers are the smallest with
an interleaving; two Clockify entries are the smallest with two matches, one of
which may be made by hand. Larger instances (3 plans and 3 attempts; 2 entries
with 2 Clockify entries; 3 handlers), 1.7 to 3.6 million states, were explored
once without a new result. Plan ids, tokens, handlers and Clockify ids are only
compared for equality, so they are symmetric. When all ids are used nothing need
be enabled, and RECREATED is terminal: deadlock is not checked.

In `Reconcile` the clock bounds everything. With two counted checks and a window of three
throttles, the last check can come before, at and after the window, beside a check that
hangs, with one more tick to declare in; the code's own numbers (3 checks, 10 minutes, 30
seconds) only repeat these cases, and the theorems hold for all. With reads up to 2 (2.9
million states) and with a copy that is linked elsewhere (10.8 million) it was explored
once without a new result. Handlers and free copies are symmetric. When the clock has
stopped nothing need be enabled, so deadlock is not checked.

In `Resolution` the rules are split into **slices**: timer, project and task; tags and
description; the roles; one custom field of each type. Rules of different slices share no
input, except that the fidelity and the blockers collect all. A slice holds the workspaces
it can move between, chosen so that each condition of each rule is true in one and false in
another; two changes are a plan that becomes stale and one that becomes so again. The running entry
that has a project moves between three workspaces; with all six (0.3 million states) it was
explored once without a new result. A
confirmed plan ends a behaviour, so deadlock is not checked.

In `Server` two requests and two entries are the smallest with a row that waits behind
another and a rival for the first; three plans let a stale one be replaced. Each request is
made once, restarts are not bounded. A state without a step does not occur.

In `Installations` every saved INSTALLED takes a stamp, so `MaxStamp` counts the
deliveries that matter: three are an installation, its successor and a
replay of either; four are two of each token. Events that are sent stay
deliverable, so nothing else needs a bound. Two generations with two tokens do not
fit a run; the token matters within a generation only, which is why there are two
runs. When the stamps are used up and everything is removed nothing need be
enabled, so deadlock is not checked.

In `UiSession` and `UiList` the constants bound the requests in flight: two are
the smallest number with a late answer. A slot is free again when its answer was
used or dropped, so the sessions themselves are as long as one likes. `MaxQueue`
bounds the checks that wait behind one in flight; one is enough for an answer that
is not the newest. Two pages are one Load more; `load_more.cfg` has three,
where the button fails. A session can always go on, but a screen that waits for a
request that has no slot cannot, so deadlock is not checked.

**Fairness.** In `UiSession`, `FairSpec` assumes that every request is answered or
lost and that its callback runs. The five-second timer of `refresh` and the
browser's own network errors justify it; a server that never answers an open
connection would break it. The user is not assumed to do anything.

In `Server`, `Spec` assumes that a handler whose await is over goes on, and that every await
ends, which the client's 30 seconds (`clockify/client.ts:25`) justify; that the three-second
timer fires; and that the process ends when nothing is left to run. No client is assumed to
close its connection, and so the listener's callback is not assumed to come.

In `Recreation`, `FairSpec` assumes that time passes (`LeaseExpires`) and that
somebody keeps opening the detail view of an entry that looks busy
(`RecoverExpiredClaim`). The second is an assumption about users: nothing in the
code recovers a claim by itself. No handler is assumed to finish and Clockify is
not assumed to answer.

## What is checked

- `NoBlindRetry`: while the result of an attempt is unknown its entry cannot be
  confirmed again, except after the user's "not created" (ADR-007).
- `DuplicateOnlyAfterMark`: two creates for one deleted entry take effect only if
  the user declared one of them not created. The README's stronger sentence, "at
  most one recreated entry", is about the database; this is about Clockify.
- `RecreatedMatchesAttempt`, `OutcomeSettlesOnce`: the entry and its attempts tell the
  same story, and it does not change.
- `ImplementsLifecycle`: all of it is the documented lifecycle, and nothing else.
- `ClaimFencing`: a handler that lost its claim does not move the entry.
- `BaselineKept`, `NothingOlderAdopted`, `AdoptionIsExclusive`: what a check may rely on and what it may link.
- `OnlyActionableHasPlan`, `PlanUsedOnce`: plans.
- `ClaimsEnd`: liveness.
- `MarkedOnlyIfLate`: an entry that was marked "not created" has no copy older than the
  window less one check, whatever the checks crashed at, took over or saw truncated.
- `MarkedAfterCleanRead`: nor one older than the read of the last counted check.
- `EvidenceAddsUp`: counted checks are complete reads a throttle apart, and what one of
  them saw is never forgotten.
- `WayOutWithProject`: every item a plan asks for, if the workspace has an answer for it
  (`Answerable`), has a widget on screen that closes it, by a choice the server accepts (but
  see `way_out` below).
- `ChoicesStayEditable`: no choice is stranded without the widget that made it, after a
  stale plan and after reopening too.
- `SentIsAccepted`: a plan that passes its revalidation is one the workspace takes.
- `FullMeansSame`: a plan labelled FULL creates the deleted entry's values (but see
  `full_label` below).
- `RowsAreTruthful`: what a batch reports of an entry is what happened, while other
  batches run, after the client left, after the database closed, and in later processes.
- `OneCopyEach`: batches and confirmations never get two copies of one entry.
- `ExitsAfterSignal`: liveness; no client can hold the process.
- `Inv` of `Installations` contains that no deleted entry outlives its installation, though
  the delivery was verified before the uninstall and written after it.
- `OneLiveGeneration`, `PurgeJustified`: two generations end up as one, and the
  one that goes is not chosen by a replay or a late uninstall.
- `NewerConnectionKept`, `NoticeFollowsToken`, `RedeliveryKeepsStatus`: what a
  slow, repeated or stale handler must not undo.
- `ScreenFollowsNavigation`, `LoadingIsAwaited`, `WorkIsAwaited`, `WaitIsAwaited`:
  no late answer takes the user elsewhere, and no screen waits for an answer that
  will be dropped. The two pull in opposite directions: a fence that drops too
  little breaks the first, one that drops too much breaks the others.
- `PlanMatchesChoices`, `ChecksInOrder`: the plan on screen is that of the choices
  on screen, however their checks overtake each other.
- `ActedOnOnce`, `NoBlindRecreate`: what the server may have acted on is not sent
  again by the client, and not by the user without a plan made since. The second speaks
  of a recreation whose answer was lost, or that the user left for the entry or its
  choices. It does not speak of the error region of the confirm view: it survives a second
  press of "Recreate entry", and its link mounts the view again with the same plan while
  the request is out. There only the server is a guard (`PlanUsedOnce`).
- `WaitsEnd`: liveness.
- `ResultsCoverSent`: the bulk flow reports on everything it sent.

Every property has a mutant in `PROJECT.json`: a definition marked "Wrong:" in
the module that, put in the place of the right one, makes the run fail. The type
invariants and the inductive invariants of `UiSession`, `UiList`, `Resolution` and `Server` are
part of no run of their own, as their theorems say more; TLC agreed with each (`SessionInv`,
`ListInv`, `ResolutionInv` and `IInv`, added to `session.cfg`, `bulk.cfg`, `resolution.cfg` and
`server.cfg`) before it was proved. The
other `TypeOK` are conjuncts of an invariant that a run checks.

### Where the code and its documents differ

The run `entry_opens` shows a statement the code does not keep. The detail view re-sends
the choices of the stored plan, whoever made them. An admin opens an entry whose project is
gone, picks a private project and leaves. The owner opens the entry: the preflight is
refused with "Choose a project you can see" (`api/routes.ts:279`), but the screen has no plan
and so no widgets, only "Check choices again", which sends the same request. Nothing the owner
can do leads further; docs/10 section 8 asks for a safe next action.

Others have a configuration of the same name and can be run by hand, for instance
`tlc -config label.cfg MCUiList`; they are not among the runs:

| Configuration | Property | What differs |
|---|---|---|
| `create_linked` (`MCRecreation`) | `CreateLinkedToItsEntry` | Two look-alike entries: the check of one can adopt what the create of the other has just made; the 201 of the other then cannot commit, though `clockify/recreate.ts:166` calls it definitive. |
| `current_kept` (`MCInstallations`) | `CurrentGenerationKept` | The replay guard knows the generations that were purged here or whose DELETED arrived. An INSTALLED of a removed generation that still has its row, or is seen for the first time, purges the one Clockify has installed; the comments at `store/cascade.ts:31` and in migration 0005 promise otherwise. |
| `dismiss_shown` (`MCUiSession`) | `DismissErrorShown` | A choice changed while Dismiss runs begins a new request generation, so the error of Dismiss is dropped; its button and Back stay disabled. docs/10 section 8 says the error stays in the screen with a next action. |
| `load_more` (`MCUiList`) | `MoreRowsReachable` | `bindBusyAction` does not restore its button after a success, so "Load more" loads one page; rows behind it are reached only by filters, which docs/10 section 1 rules out. |
| `way_out` (`MCResolution`) | `WayOut` | An entry with a task whose project is gone, and "No project" chosen: the plan still asks for the task, but `renderTaskWidget` renders nothing without a project (`resolution-widgets.ts:184`), although docs/10 section 4 promises "No task". The user has to pick a project after all. |
| `full_label` (`MCResolution`) | `FullKeepsValues` | A value the user enters that equals the field's default but not the deleted entry's value changes the entry and is still labelled FULL; docs/07 section 10 lists an entered custom field value under ADJUSTED. |
| `release_prior` (`MCRecreation`) | `ReleaseRestoresPriorState` | The state `releaseClaim` writes back was read before the revalidation, so it need not be the state the claim found, as the comment at `store/entries.ts:557` says. |
| `exit_attempt` (`MCRecreation`) | `ExitHasAttempt` | docs/08 invariant 4 has a second exception, the recovery of an expired claim without an attempt (which docs/06 describes). |
| `manual_copy` (`MCRecreation`) | `ManualCopyLeftToUser` | docs/11 says a copy made by hand leaves two matches; if the create never took effect it is the only one and is adopted. |
| `notice_cleared` (`MCInstallations`) | `NoticeClearedByInstall` | Whether the token changed is decided on the row loaded at the start. After a crash between save and clear, or when another delivery saves in between, the notice stays beside a new token, which migration 0002 rules out. |
| `retry_offered` (`MCUiSession`) | `UnknownOffersNoRetry` | A 502 with `unknownResult` brings "Recreate entry" back beside "Open entry"; the comment at `ui/views/confirm.ts:116` says it never does. The server refuses the second click. |
| `bulk_reviewed` (`MCUiList`) | `RecreatesReviewed` | docs/10 says that coming back from an entry checks again before recreation is enabled. When that check fails, the old rows are enabled. |
| `label` (`MCUiList`) | `LabelAgrees` | After a failed bulk recreation the button says the count it had when the review was rendered; the comment at `ui/views/bulk.ts:84` says label and action have to agree. |

## What is proved

`RecreationProofs` proves, for all finite and infinite values of the constants
that satisfy the five named assumptions of `Recreation` (values are told apart from
`None`, and what an older release left is something it can have left):

- `Invariance`: `Spec => []Inv`
- `TypeCorrect`: `Spec => []TypeOK`
- `NeverRetriedBlindly`: `Spec => []NoBlindRetry`
- `NoSilentDuplicate`: `Spec => []DuplicateOnlyAfterMark`

The last two are not inductive. A retry cannot duplicate because (1) a claim is
only given to an entry none of whose unmarked attempts is open or unknown
(`OneUnrejected`: of two such attempts Clockify rejected one); (2) only the
handler that passed the pre-write fence under a token sends the create of that
token, and no two handlers hold the same one (`HandlersAgree`,
`TokensDistinct`); (3) the token on the entry, the latest attempt and the
entry's state always agree (`ClaimsAgree`, `LatestAgrees`, `SuccessShows`); and
(4) a rejected request creates nothing, an applied one creates once
(`WireAgrees`). `Inv` is the conjunction of these with the types, which
`RecreationInvariant` spells out. The proof has
one lemma for each part (`TypeStep`, `CoreStep`, `HandlersStep`, `WireStep`), one
step for each action, and lemmas for the operators several actions share.

`ProtocolProofs` builds on it, from the same assumptions. First the refinement:

- `FullInvariance`: `Spec => []FullInv`, which adds to `Inv` that a "not created" is about
  an attempt nothing rests on any more, and that link and successful attempt agree
- `RecreatedAgrees`: `Spec => []RecreatedMatchesAttempt`
- `Refinement`: `Spec => Lifecycle!Spec`
- `AdoptedOnce`: `Spec => []AdoptionIsExclusive`

`Refinement` is by simulation. `LoudOrQuiet` separates the steps that change anything the
mapping reads from those that are stutters; each loud step then names the action of
`EntryLifecycle` it is. The delicate cases are the ones in which the doubt, which
is computed from all attempts of the entry, changes: a create leaves (`Send`), a claim is
recovered (`LoseTrack`, or `Succeed` for what an older release left), and the mark.

Then what the protocol owes to plans, baselines and claims:

- `ProtocolInvariance`: `Spec => []ProtocolInv`
- `PlanSpentOnce`, `NoPlanBehindClaim`: `PlanUsedOnce`, `OnlyActionableHasPlan`
- `BaselineSurvives`, `OnlyNewerAdopted`: `BaselineKept`, `NothingOlderAdopted`
- `SettledStays`: `Spec => OutcomeSettlesOnce`
- `ClaimsAreFenced`: `Spec => ClaimFencing`

`ProtocolInv` adds two groups to `FullInv`. Both say what a local variable that was read
before an await is still worth after it. `PlanInv`: the plan a handler confirms is one of
its entry, whatever became of it since (`HandlersPlansAgree`), so that a claim that
succeeds spends the very plan that was looked at; pruning can take no plan that an attempt
names (`AttemptsHavePlan`). `BaselineInv`: the evidence of an attempt is purged only when
its result is known or the user has declared it (`UnknownKeepsBaseline`), and a baseline holds
nothing that the create it precedes has made (`BaselineIsOlder`); with what a check
holds in its local variables, nothing it can adopt is older. The two action properties
follow from `Inv` alone: the fence of a commit looks at the token, and tokens are distinct.

`ReconcileProofs` proves, for every throttle, window, read time and number of copies:

- `EvidenceIsSound`: `Spec => []Inv`
- `MarkIsSafe`, `MarkFollowsCleanRead`, `ChecksAreIndependent`: its properties

`MarkedOnlyIfLate` speaks of evidence written long ago. It is enough to know of the last
counted read how it relates to the clock: it ended at most `MaxRead` after it began
(`JobsTimed`), the run in the row is the one of its handler (`RunTimed`), and a copy it did not
see did not exist then (`SummaryTimed`).

`ServerProofs` proves, for every set of entries, requests and plans:

- `ServerInvariance`: `Spec => []IInv`
- `BulkIsTruthful`: `Spec => []RowsAreTruthful`
- `NoSecondCopy`: `Spec => []OneCopyEach`

`IInv` says that claim, attempt, handler and row agree: an attempt that may have created
something keeps its entry from every other one (`UnsettledAgree`), a handler's stage fits
its attempt (`HandlerAgrees`), and a row that is answered fits it too (`RowAgrees`). None of
this mentions the process: that is why a kill, a close or a restart cannot break it.

`InstallationsProofs` proves, from the two named assumptions of `Installations`:

- `Invariance`, `TypeCorrect`: `Spec => []Inv`, `Spec => []TypeOK`
- `NoOrphans`: `Spec => []EntriesHaveInstallation`
- `AtMostOneLive`: `Spec => []OneLiveGeneration`
- `PurgeOnlyWithCause`: `Spec => PurgeJustified`
- `NewerWins`: `Spec => NewerConnectionKept`
- `NoticesFollow`: `Spec => NoticeFollowsToken`
- `StatusIsKept`: `Spec => RedeliveryKeepsStatus`

`NoticesFollow` rests on `StampsAgree`: a row that has the stamp of a delivery which is not
finished has its token too. The code compares stamps (`server.ts`, the save that returns
whether it won) where the property speaks of tokens.

Its `Inv` adds to the first two properties the types of local variables by stage
(`JobsTyped`: what a handler uses as an index was loaded before) and
`PurgesRecorded`: whatever lost its row is in `retired`, which never shrinks, so
an INSTALLED that arrives after the purge of its generation finds itself retired
when it gets to the cleanup, however many handlers have run since. That is what
`PurgeOnlyWithCause` rests on. One lemma for each part, one step for each action.

`UiSessionProofs` proves, for every set of entries, choices, plans and request slots and
every queue bound:

- `Invariance`, `TypeCorrect`: `Spec => []SessionInv`, `Spec => []TypeOK`
- `NavigationWins`, `LoadingWaits`, `WorkWaits`: `ScreenFollowsNavigation`,
  `LoadingIsAwaited`, `WorkIsAwaited`
- `PlanIsForChoices`, `ChecksAreOrdered`: `PlanMatchesChoices`, `ChecksInOrder`
- `SentOnce`, `DoubtNeedsNewPlan`: `ActedOnOnce`, `NoBlindRecreate`

None of the properties is inductive, because what may happen next depends on what is on the
network. `SessionInv` says what a screen, a busy button and an error can be on at all
(`ControlsOnScreen`, `ScreenHasItsData`, `NavigationFits`), what a request in flight is about
(`RequestsFit`), and that a request that is still current was sent by the screen that is
mounted (`CurrentServesScreen`). The last is the fence seen from the other side: it is why
an answer that `isCurrentView` accepts finds the elements it writes to. The queue needs one
fact of its own: the newest check, in flight or waiting, is the one of the choices on screen
(`NewestCheckIsForChoice`). `NoBlindRecreate` needs that a screen which can send a
recreation of a doubted entry holds no plan from before (`PlanSettlesDoubt`).

`UiListProofs` proves, for every finite set of entries and every set of filters, pages and
request slots:

- `Invariance`, `TypeCorrect`: `Spec => []ListInv`, `Spec => []TypeOK`
- `WaitsEndInAnswer`: `Spec => []WaitIsAwaited`
- `ResultsAreComplete`: `Spec => []ResultsCoverSent`

`ListInv` is the same idea, smaller: every wait belongs to a screen that can show it
(`WaitsOnScreen`), and current requests serve the screen (`CurrentServesScreen`).

`ResolutionProofs` proves, for every set of deleted entries, of workspaces each can move
between and of texts a viewer can type:

- `Invariance`, `TypeCorrect`: `Spec => []ResolutionInv`, `Spec => []TypeOK`
- `SentIsTaken`: `Spec => []SentIsAccepted`
- `FullIsTheSame`: `Spec => []FullMeansSame`
- `ChoicesEditable`: `Spec => []ChoicesStayEditable`
- `AWayOut`: `Spec => []WayOutWithProject`

The first part is about one question, with no state: `SettledIsAccepted` and
`FullCreatesTheSame` go through the rules one by one and say what a plan with no open item and
no blocker, or the label FULL, means for the request. `ResolutionInv` then says that nothing else
is sent. Its core is `Held`: the server accepts the choices, each has an item of the rule that
made it, and an optional field has a value to keep. Screen and stored plan hold the same
choices with different items, since each merges in its own order; `Covers` is what the two lists
agree on, rule and reference, and all that the choices need (`CoverKeeps`). `AWayOut` has one
lemma for each group of rules, which names the control and shows that its choice closes the
item. Its proof showed two cases in which nothing could close one and the property, as it was,
asked for it: "No task" on an old control while tasks are required, and a field of several
choices whose definition offers none. `Answerable` excludes them now, and the slices contain
them.

The assumptions are named where the constants are declared, and TLC evaluates them on every
run. They are of two kinds: what an instance is (a bound is a number, a fingerprint is in its
set, there are finitely many entries, an entry that ended did so after its start, a viewer can
type a number), and that SQL's NULL or JavaScript's undefined is told
apart from every value, list or record (`NoneAssumption`, `NullListAssumption`,
`NoRecordAssumption`).

Every safety and action property that a run checks is a theorem. Only model-checked is liveness,
`ClaimsEnd`, `WaitsEnd` and `ExitsAfterSignal`, which is out of the provers' reach.

## Not modelled

Listed with reasons under `components` in `PROJECT.json`: pure I/O and wiring,
DOM helpers and wording, the SDK's token checks, the table that maps Clockify's errors,
opening and migrating the database, the fault injection for tests. Of modelled
components: the list's cursor, the lineage link of a deleted recreated entry, metrics,
the presentation's wording, group memberships, pages that are read at different
instants.

## Plan

In this order; each item brings its runs, mutants or theorems.

1. `Listing`: the cursor over entries that arrive while pages are read.
2. The two buttons of the uncertain view that do not exclude each other, and the background
   reads of the widgets, in `UiSession`.
