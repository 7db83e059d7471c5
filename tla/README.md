# Verification of open-domain-radar

TLA+ models, TLC runs and TLAPS proofs for `src/open_domain_radar`: a service
that watches certificate streams for domains that resemble those of watched
organisations, keeps them as *candidates*, enriches them through passive
providers and lets one operator review them. Paths below are relative to the
repository root; `PROJECT.json` maps every definition to the lines it models.

## 1. Inventory

One web process (FastAPI, handlers run in a thread pool) and one worker
process share a SQLite file in WAL mode (`README.md`, `docs/DEPLOYMENT.md`:
"one web process and one worker"). There is no message queue: they interact
through rows only.

| Component | State it keeps | Operations | Interacts with | What is hard | What makes it correct |
| --- | --- | --- | --- | --- | --- |
| Pivot queue and worker rounds (`worker.py`, `services.py`, `api.py`) | rows of `pivot_jobs`; the worker's claim in memory | queue from a sighting, queue by domain, queue by candidate, recover, select, claim, call, store, fail | collector and console insert rows, worker closes them, providers are called outside transactions | claims that race, recovery against a slow owner, a process lost between claim and store, check then insert | a row is executed at most once, ends for good, ends eventually, is not duplicated |
| Review desk (`services.py`, `api.py`) | candidate status and target, review events, suppressions, watch targets | review, restore, add/disable suppression, add/patch/disable target, sightings | collector and pivots create candidates under a policy the console changes | a policy read before it is used; two requests on one candidate; a rollback of several rows | events tell the status, or show by a gap that reviews overlapped; a rule outlives its disposition, and a candidate comes back, only in ways on record |
| CertStream collector (`providers/certstream.py`, `worker.py`) | rows of `collection_runs`, an open transaction, the provider's status | open, listen, commit, close, mirror | the stream, the writer lock the console needs too | cancellation, a refused flush, two timeouts in one handler, a lock held across awaits | a run is closed with what happened, little is lost, the lock is given back |
| Schema and start-up (`migrations.py`, `db.py`) | tables, triggers, ledger, provider rows | ledger, adopt, create, record, verify, seed | every process runs it on the same file | two first starts at once; a crash between two statements; newer databases | whoever serves has a complete database |
| Backup and restore (`db.py`, `cli.py`) | the main file, its `-wal` and `-shm`, backups, rollback copies | back up, validate, check stopped, copy aside, copy, validate again, replace | processes that should be stopped, or were lost | a loss between two steps; a WAL that belongs to the old file | old or new content, never a mixture; nothing is lost but what a rollback copy holds |
| Login, sessions, throttle (`security.py`, `api.py`) | sessions, failure counts per key, verification slots | login, authenticate, logout, evict | concurrent logins | check before and charge after a slow verification; a bounded table | attempts and sessions stay bounded |
| Candidate evidence (`services.py`) | confidence, reasons, sources, observations | merge a sighting, append an observation | collector, pivots and console on one row | read-merge-write by two processes | the row is what its observations say; a disposition survives a merge |
| Passive providers (`providers/passive.py`, `providers/base.py`) | a budget of three requests per call | request, retry, parse | worker, test endpoint | the last request must decide | at most three requests, only transient failures are followed by another |
| Domain matching (`matching.py`) | none | match, score, edit distance | everybody who stores a sighting | ambiguity, early exits of the distance, the order of a set | exactly one target; the distance by definition up to the bound; a score that no order changes |
| Provider status (`api.py`, `worker.py`) | `last_*` columns | test, mirror, record | console test against worker | last writer wins, column by column | the last writer's columns stand; no more is promised |
| Public API (`api.py`) | none | list, count, health | reads committed rows, in two statements | paging at its edges | a page is the one asked for |
| Browser console and public page (`static/*.js`) | selected candidate, page, filters | load, open, review, queue | answers of requests in flight | answers out of order | what is shown and acted on is what was last asked for |
| Secrets, settings, command line, markup, packaging | none of their own | | | | not modelled: library calls, parsing and layout |

`PROJECT.json` lists, under `hazards`, each place where this code is hard to
test, with the properties that watch it.

## 2. Modules

| Module | Models | Instance |
| --- | --- | --- |
| `PivotQueue` | the queue, the three ways of queueing, provider configuration, any number of workers, crashes, restarts and time | `MCPivotQueue` |
| `JobLifecycle` | abstract: what a row of the queue promises; `PivotQueue` implements it with `phase <- state` and `executed <-` the rows whose provider was called | in `PivotQueue` |
| `ReviewDesk` | candidates of one domain, dispositions, restores, rules, targets, sightings under the window's or the current policy, any number of console requests | `MCReviewDesk` |
| `Collector` | one collector: windows, runs, the open transaction and its lock, the mirrored status, a refusal of every write, cancellation, crashes | `MCCollectorAndLogin`, `MCCollector` |
| `SchemaMigration` | start-up of any number of processes on one file: ledger, legacy adoption, table creation, triggers, seeding, crashes | `MCComponents`, `MCSchemaMigration` |
| `AdminConsole` | the review queue of the console in the browser: paging, filter, dialog, dispositions, with their requests in flight, and the server's side of them | `MCAdminConsole` |
| `LoginThrottle` | the login endpoint: the throttle's three dictionaries, verification slots, any number of login threads and peers | `MCCollectorAndLogin` |
| `CandidateEvidence` | one candidate and its observations: collector, pivots and console merge, dispose and restore with stale reads, collisions and rollbacks | `MCComponents` |
| `Restore` | backups and restores of the database file, with its WAL and sidecars, running and lost processes, and a restore lost at any step | `MCComponents` |
| `DatabaseContents` | abstract: what an opener of the database file finds; `Restore` implements it with `content <- Content` | in `Restore` |
| `ProviderStatus` | calls of a passive provider with the request loop, and the row that tests and jobs write | `MCComponents` |
| `DomainMatching` | the bounded edit distance cell by cell, and the score of a target alias by alias | `MCComponents`, and itself |
| `PublicPage` | the public page: form, address, paging, requests that abort each other, and the server's two statements | `MCComponents` |
| `PivotQueue_proofs`, `ReviewDesk_proofs`, `Collector_proofs`, `SchemaMigration_proofs`, `LoginThrottle_proofs`, `AdminConsole_proofs`, `Restore_proofs` | the theorems of section 5 about the module they are named after | |
| `Components_proofs` | those about `PublicPage`, `CandidateEvidence`, `ProviderStatus` and `DomainMatching` | |

`MCComponents` puts six modules that share no variable side by side, and
`MCCollectorAndLogin` two, so that one run explores each of them alone: the
variable `component` names the one whose behaviour it is, and the others stay
as they begin.

The definitions whose comment begins with *Mutant* are plausible bugs, used to
show that each property can fail; no specification uses them.

### Atomicity

pysqlite begins a transaction at the first INSERT, UPDATE or DELETE of a
session, and that takes SQLite's only writer lock; a SELECT before it reads
the latest commit and holds nothing, and DDL before it commits by itself. Hence:

* a handler whose first statement writes is one action (`QueueByDomain`,
  `ClaimUpdate`, `RestoreLinked`, `AddSuppression`);
* a handler that reads, decides and then writes is a reading action and a
  writing action, and the second repeats none of the first's conditions,
  because the ORM updates by primary key (`CheckByCandidate` and
  `InsertByCandidate`, `FindStale` and `FailStale`, `StoreRead` and
  `StoreWrite`, `LoadForReview`, `CheckPolicy` and `CommitReview`);
* an await is an action boundary (`CallProvider`, `CallReturns`, `Receive`);
* each CREATE TABLE is an action of its own (`SchemaMigration`);
* a method of the throttle runs under its own lock and is one action, together
  with the clock it reads just before; check, slot, verification and charge of
  one login are separate (`LoginThrottle`);
* a request's transaction commits after the handler has returned (`get_db`), and
  with the FastAPI that `requirements/runtime-py312.lock` pins (0.141.1) after the
  answer has been sent: `Review` answers, `CommitReview` and `LoseReview` follow
  (`AdminConsole`), and meanwhile the transaction holds the writer lock;
* the ORM writes the columns whose value differs from the one it loaded and no
  other (`Flushed`, `Written`); times loaded from SQLite are naive and never
  equal to the aware ones assigned, so that a merge always writes both;
* a browser handler runs up to its next await; the server's statement, the
  arrival of the answer and the failure of a request are separate
  (`AdminConsole`, `PublicPage`);
* each call of SQLite or of the file system in a restore is a step, and the
  process may be lost before any of them (`Restore`).

### State and actions against the code

* **PivotQueue.** `last`, `state`, `about`, `attempts`, `waited`, `ran` are the
  columns of `pivot_jobs` (ages instead of timestamps, capped one tick past
  the cooldown and past the 15 minutes of recovery). `worker[w]` is the
  program counter and the locals of `run_once`: the overdue rows read by
  `_recover_stale_jobs`, the batch read by `_due_job_ids`, the claimed job and
  whether it has a key. `RunOnce` is the union of the steps of `run_once`, in
  its order. `called` and `stored` are history variables. A request for
  several providers is one request for each.
* **ReviewDesk.** The candidates share one domain, so rules differ by scope
  only, and a target's whole row (enabled, aliases, threshold, official
  domains of all targets) is whether it would score the domain: `watched`.
  `Accepts` is `match_domain`: exactly one unsuppressed target. `window` is
  the policy that `collect` loads once. `request[r]` is what the handler has
  read before it writes. Merging another sighting into an existing candidate
  changes none of these columns.
* **Collector.** `messages` and `holding` are the open transaction: how many
  messages it covers and whether it has written. `latest` and `shown` are the
  committed run and provider status; `broken` is a SQLAlchemy session whose
  flush failed. Every write may be refused (a busy lock, a full disk), each with
  what its exception does: the insert of the run (`OpenRefused`), a flush or a
  periodic commit (`StoreRefused`), the closing commit (`FinishRefused`) and the
  write of the status (`StatusRefused`). The last two raise inside a `finally`,
  so that their exception takes the place of an interruption, which `loop` then
  does not see: it goes on. `unseen` is a history variable, the runs opened since
  the status was last written. What the console does to the provider row waits for the lock.
* **SchemaMigration.** `tables` counts the required tables in the order of
  `create_all`; `todo[p]` is what `create_all` found missing before its first
  CREATE. A refusal ends the process, which the container runtime restarts.

* **LoginThrottle.** `failures`, `left` and `seen` are the three dictionaries
  by key: ages, countdowns and least-recently-used order instead of monotonic
  timestamps. `left` tells an absent lock (0) from an expired one that is still
  stored (1), so that `TrackedExactly` sees what is kept; an empty failure list
  exists only beside a lock and is pruned before anyone looks at it, so it is
  the same as none. `free` is the semaphore. `late` is a history variable. The
  session that follows a success is not modelled.
* **AdminConsole.** `list` is `state.candidatePage`, `state.candidateTotal`
  and the table's rows, each with the status it was listed by; `selected` is
  `state.selectedCandidate`; `dialog` the candidate in the heading; `hidden`
  and `disabled` the disposition buttons. `flight` holds each request with what
  the server has put in its answer so far; `frees` is the button that
  `reviewCandidate` enables again in its `finally`. The dialog is modal, so the
  list is used only while it is closed. False positives and closed candidates
  are one status, since the console and the server treat them alike here.
  The refresh button loads the watch targets first (`Refresh`) and the list once
  that has ended, well or not, with the page of that later moment and possibly
  under an open dialog (`TargetsSettled`).
  `writing` is the review that is answered and not yet committed; it holds the
  writer lock.
* **CandidateEvidence.** `row` is the candidate, `evidence` the observations
  with the restores between them. `reading[w]` is what a writer has loaded and
  not yet written; `draft` and `pending` are the collector's open transaction,
  which holds the writer lock. A score stands for the score and the reasons of
  one match. The statuses are those of a candidate that is open or put away.
  `overlapped` and `decided` are history variables. The worker collects or
  pivots, never both at once.
* **ProviderStatus.** `shown` is `last_status` and `last_message`; `call[c]` the
  test or job: the row it loaded, the answers of its requests, its outcome.
  `last_run_at` is the writer's clock and always written.
* **DomainMatching.** `comparison` is a call of `bounded_levenshtein` with its
  two rows before and the one being filled, on strings of letters; `scoring` a call of `_score_target`, where an
  alias is described by how it lies in the host's labels. No score reaches the
  cap of 100 (the largest is 90).
* **Restore.** A content is the set of transactions a database holds; `main`
  and `wal` are the two files of the destination, `sidecars` whether `-wal` and
  `-shm` exist, `files` every backup and rollback copy, named by the second.
  `had` is a history variable. No process starts while a restore runs
  (`docs/OPERATIONS.md:24`); one may be running when it begins.
* **PublicPage.** `place` is `state.page`, `state.pageSize` and `state.pages`;
  `panel` what the page shows and for which question; `controller` the request
  that `state.controller` aborts, `NoFetch` one that is over or aborted. Which signals match is a number for each search.

## 3. Runs

| Run | Question | Bounds |
| --- | --- | --- |
| `PivotQueueOneWorker` | Does one worker keep the lifecycle, end every row, keep results and the cooldown? | 1 pair, 1 request, 2 rows, 1 crash, batch of 2, cooldown 1 tick |
| `PivotQueueTwoWorkers` | Can two workers share a row or call a provider twice for one? | 2 workers, 1 pair, 1 request, 2 rows, 1 crash |
| `PivotQueueManual` | *(violated)* Are active manual jobs deduplicated? | 2 requests, 2 rows, no crash |
| `ReviewDeskTwoRequests` | With two reviews of one candidate at once: does its trail tell its status or show the overlap, do only overtaken requests mislead, and does what was reviewed away come back only on record? | 2 requests, 1 candidate, 2 targets, 1 rule, 3 events |
| `ReviewDeskPublished` | *(violated)* Can a candidate be published against its own suppression? | 2 requests, 1 candidate, 1 target, 1 rule |
| `CollectorAndLogin` | Collector: are losses bounded, only faulty runs stuck and statuses behind; is the lock let go, do windows go on and does the status catch up? Logins: is the table bounded and exact, does a lock stop all but the requests in flight, end only for its own reasons, and end; is every slot accounted for? | commit every 3 messages, 2 refusals, 2 losses, windows without bound; 3 peers, room for 2, 2 logins, 2 failures lock, 1 slot, window 1 tick, lock 2 ticks |
| `CollectorHandshake` | *(violated)* Has every healthy window listened? | no faults |
| `SchemaMigrationCrash` | *(violated)* Has a migration happened entirely or not at all? | 1 process, 3 tables, 1 crash |
| `AdminConsole` | Does the dialog offer what its candidate allows, does the table show existing pages, does no load or button hang? | 2 candidates, pages of 1, one change of filter, 2 requests in flight |
| `Components` | Does the public page show what its address asks; is a candidate what its observations say, and does its disposition survive; is a call's budget kept; are distance and score right; is whoever serves complete, on every kind of database and with a crash, and do colliding first starts all end up serving; do backup and restore neither mix nor lose contents? | page: 2 searches, sizes 1 and 2, 3 signals, 2 requests; evidence: 2 requests, 3 scores, 3 sightings, 2 reviews; calls: test and job, 3 requests, 3 calls; matching: strings of up to 4 of 3 letters, 2 aliases; start-up: 3 processes, 3 tables, 1 crash; restore: 1 backup, 2 transactions, 2 seconds |
| `AdminConsoleLateDetail` | *(violated)* Is a disposition sent for the candidate the dialog shows? | 2 candidates, one page, 2 requests in flight |
| `MatchingExact` | *(violated)* Is an exact alias the strongest? | 2 aliases, of 3 and 5 characters |

Why the bounds are enough. Rows of the queue interact only through one
candidate and provider, and each way of queueing looks for one older row that
matters, active or recently successful, so one pair with two rows has every
interaction of an old row with a new one; ages are capped where no
comparison can tell them apart; two rows suffice for two workers to disagree
about one while the other is claimed. At the desk two requests for one candidate
are the least that overtake each other, two targets give a restore that moves
its candidate, and three events a review, its restore and one more; a second
candidate would add the unique constraint on a target (`Taken`), whose failure
rolls back like every other and which only the proofs cover. Three messages separate the first,
a middle and the last message before a commit. Three tables separate the
first, a middle and the last; three processes allow two to collide behind the
third's back. Three peers with room for two give evictions in every order, two
logins a charge behind a check, and one slot both outcomes of an acquisition.
Two requests in flight are the least that overtake each other, and two
candidates on pages of one the least whose last page disappears. Three
sightings are one that creates the row and two that merge into it at once, and
two reviews a disposition and its restore; with three scores an overlapping
merge can keep a confidence whose reasons it has lost, which two do not show. Strings of four have every pair one
edit apart, at the ends and in the middle, and a swap on either side of the
row that ends a comparison; three letters tell a swap from two substitutions.
Two aliases suffice since the best of them is kept pairwise. Two transactions
tell a WAL from the file it belongs to, and two seconds two rollback copies
from one that is overwritten. All but the page stop at their bounds,
which is why the run does not check for deadlock.

The violated runs are disagreements between the code and what the repository
says of it; `PROJECT.json` quotes both sides under `findings`. In short: a
disposition may be sent for a candidate other than the one shown, when the
details of a closed dialog arrive in the next one; a concurrent review can leave a candidate
published against its own suppression; a handshake timeout counts as a healthy
window; a crash inside the first migration leaves a partial table set that
every later start refuses; two requests by `candidate_id` that both look before
either inserts duplicate a manual job; and an exact alias of three or four
characters (60 points) loses against a longer one embedded in a label (66).

More observations are in the models without a run of their own. A flush that
the database refuses leaves its run in state running (`StoreRefused`:
the handler assigns `failed`, but the session is in its failed transaction and
the closing commit raises), although `worker.py:245-246` says "The failed
collection run still records health state."; `StuckRunsAreFaults` states what
remains. Where the closing commit or the write of the status is refused while the process
is being interrupted, its exception replaces the interruption and the loop goes
on (`FinishRefused`, `StatusRefused`). A restore or a publication that another
review overtakes can leave a suppression in force although its candidate is no
false positive any more (`Misapplied`); `OnlyOvertakenMislead` states that
nothing else does. Failed and skipped jobs do not count for the cooldown of automatic ones
(`QueueConfiguredPivot`), so a failing provider is called again by the next
sighting, although `docs/PROVIDERS.md:25` has one cooldown per candidate and
provider; `OneRecentSuccess` states what remains. A second publication of a
published candidate is accepted and recorded again (`Accepted`), and a late
detail answer may re-enable the button that sends it. A window
applies the rules of its start to all of its sightings (`window`). A match
holds SQLite's writer lock across awaits until the next commit (`holding`,
with `LossIsBounded` and `LockIsLetGo`), although `docs/ARCHITECTURE.md:14`
has network calls outside write transactions. A merge that overlaps another
may leave a source or a reason of the other out of the row, even the reasons of
the confidence the row shows, and take its last sighting back to an earlier one;
the observations themselves stay (`overlapped`, `ProjectionIsBacked`). Two restores within one second
share the name of their rollback copy, so that the second replaces the first
one's (`NothingIsLost` asks for a copy when content is replaced, not for ever). A process
that starts between the check and `os.replace` is not in the model: its commits
would go to a file that vanishes. `last_status` and `last_message` may come from
two outcomes when two calls of one provider overlap (`WriteStatus` writes the
columns that differ from what its caller loaded). No property says so: without
the overlap it would repeat `WriteStatus`, with it none holds, and no document
says which answer the row shows.
`bounded_levenshtein` may return more than `maximum + 1` ("ca" and "abb" with
1 give 3), although its docstring says otherwise; its only caller asks for at
most one. A page past the end shows "No matching
signals" without arrows although signals match (`SignalsAnswered`). A list
that is asked for right after an answered review may not show it yet, and a review
whose commit fails after its answer is not reported (`LoseReview`).

## 4. Fairness

* `PivotQueue`: weak fairness of each worker's round, of its restart and of
  the clock. `loop` calls `run_once` for ever, every await inside has a
  timeout, `compose.yaml` restarts the process (`restart: unless-stopped`).
  The console and the collector owe nothing.
* `Collector`: weak fairness of the round, which contains the end of the
  window (`asyncio.timeout`), the closing commit, the status and the restart; the
  stream owes nothing, and the refusals are bounded.
* `SchemaMigration`: weak fairness of each process's start-up (SQLite's busy
  timeout bounds each wait) and of its restart. A process may be stopped at
  any time, and nothing restarts one whose crash budget the runs exclude.
* `LoginThrottle`: weak fairness of each thread after its check (no step of it
  waits but the verification, which ends) and of the clock; no peer owes a login.
* For the other modules no fairness is assumed; their properties are safety and
  step properties only.

These hold for the container topology. The embedded worker (`api.py:157`) is a
task that no one restarts; the liveness results do not cover it.

## 5. Proofs

Thirty-three of the thirty-nine properties of the passing runs are theorems, for every
value of the constants that satisfies the named assumptions of the modules.
Every proof has the same shape: an inductive invariant with one lemma per
action (or group of actions that touch the same variables), the temporal step,
and the property as a consequence.

`PivotQueue_proofs`, for any number of workers, requests, candidates, rows,
crashes and any bounds (`BoundsAssumption`, `NoPairAssumption`):

* `TypeCorrect`: `TypeOK`.
* `ClaimSafety`: the inductive invariant `QueueInv`. Exclusive claims alone
  are not inductive: one must know that an unclaimed row has no attempt, that
  every row a worker holds or means to recover has been claimed, and that a
  worker about to call holds the only attempt (`ClaimsOK`). `ClaimUpdate`'s
  condition is what the step that claims rests on; recovery and failure, which
  have none, only ever touch claimed rows.
* `OneHolderPerRow`, `ExecutionIsExclusive`: no row is held by two workers or
  called twice.
* `SoleOwnership`, `RowsEndForGood`, `QueueImplementsLifecycle`,
  `ResultsAreKept`, assuming `OneWorker`: what the worker holds or recovers is
  still running when it writes, so that rows end for good, say success exactly
  if their answer is stored, and implement `JobLifecycle`. The assumption is
  needed: with two workers recovery may fail a row whose owner then stores its
  answer.
* `CooldownHolds`, assuming `OneWorker`: the strengthening `OneBlocking` says
  that an automatic row that may yet succeed and a recent success of its pair
  exclude each other, and that there is one such row at most.

`ReviewDesk_proofs`, for any targets, candidates, rules and bounds and any number
of requests at once (`ScopesAssumption`); nothing is assumed of how their steps
interleave:

* `DeskTypes`: `TypeOK` needs `RequestInv`: what a request is about exists, and a
  restore writes a target that accepted it.
* `TrailTellsOverlaps`: whoever writes a status appends its event in the same
  transaction (`RecordTells`), whatever it had read; an event of an overtaken
  request starts from a status that is not the last event's, which is the gap.
* `OnlyOverlapsMislead`, `ReturnsAreRecorded`: action properties. The
  strengthening `RequestsAllowed` is what a request keeps of its first step (a
  disposition of a candidate that was in view, a restore of one that was not),
  and `UnseenUnreviewed` that a candidate which was never seen has no trail.
  `ReviewDeskPublished` shows that overtaken requests do mislead.

`Collector_proofs`, for any commit interval, refusals and losses
(`CollectorAssumption`):

* `WorkLostIsBounded`, `OnlyFaultsLeaveRuns`, `StatusFollowsRuns`. For the second,
  `StuckInv` charges a fault to a run that is doomed (its session is broken, or
  its process gone) before it is left behind; for the third, `StatusInv` charges
  one to each run whose status was not written.
* `CollectorTypes`: whose bound on stuck runs is a consequence of `StuckInv`.

`SchemaMigration_proofs`, for any number of processes, tables and crashes
(`CountsAssumption`):

* `StartupTypes`, `StartupSafety` (the inductive `StartupInv`: tables,
  triggers, rows and versions only grow, and a newer history is refused at the
  first read), hence `ServingIsSafe` and `NewerReleasesAreSafe`.
* `FirstStartsAreSafe`: while tables are missing and no process was lost, some
  process is creating exactly the missing ones. The strengthening
  `CreatedInOrder` says that tables appear in order and that a creator has a
  final stretch left; whoever creates a table is then left with exactly the
  missing ones, so a collision always has a survivor.

`LoginThrottle_proofs`, for any peers, any finite set of logins and any limits
(`LimitsAssumption`, `NoPeerAssumption`, `LoginsAssumption`):

* `NoSlotIsLost`: every end of a verification gives back the slot it took; the
  cardinality of the set of those who verify moves with `free`.
* `LocksLetFewPass`: late verifications and the requests that have passed the
  check are, together, fewer than the logins (`LateInv`), since a lock begins
  with a request that leaves the set of those that have passed.
* `TableIsBounded`: pruning, eviction of what is stale and of the excess leave
  the three dictionaries with the same keys. The clock ages every entry at once.
* `LocksHold`: an action property, from the same invariant.
* `ThrottleTypes`.

`AdminConsole_proofs`, for any candidates, page size and number of requests in
flight (`SizesAssumption`):

* `OffersMatch`: `DialogInv` says that an open dialog hides exactly what the
  selected status does not allow, whichever detail opened it last.
* `TableStaysSound`, `DisabledButtonsReturn`: both relate the page to the
  requests in flight, and are inductive together with the types, which include
  the shape of every request at each of its stages.

`Restore_proofs`, for any names, transactions, seconds and losses of processes
(`RestoreAssumption`):

* `RestoreSafety`: the inductive invariant `RestoreSafe`. `RestoreInv` is what
  the code's order rests on: commits outside the main file exist only with
  sidecars, a running process has them, and once the command has found none
  the database stays closed with an empty WAL. `HadBefore`: no whole content is
  made up.
* `RestoreImplementsContents`: what an opener finds is committed to or replaced
  as a whole. The step that needs the invariant is `ReplaceDestination`, which
  must find no WAL beside the file it exchanges.
* `RestoreLosesNothing`: only `ReplaceDestination` takes anything away
  (`OthersKeepContent`), and it does while a rollback copy holds the old
  content (`RollbackSaved`, kept by every step between).

`Components_proofs`, each part from its own module's assumption:

* `ShownIsAsked` (`PageAssumption`), for any number of requests, filters and
  signals: whatever is in flight is the controller's request and asks what the
  address says (`PageInv`). It holds since every load aborts the one before it.
* `RowIsBacked`, `RowIsDerived`, `DispositionIsKept` (`EvidenceAssumption`), for
  any scores and number of requests. `EvidenceInv` says of the committed
  row, of the open transaction's row and of every row a writer has loaded that
  each is sound for the evidence it has seen, which is a part of what there is.
  A first attempt asked that the confidence be among the reasons: it is false
  after an overlap, as TLC confirms with three scores, and the property now says
  what holds.
* `BudgetHolds` (`CallsAssumption`), for any budget and number of callers.
* `DistanceIsRight` (`MatchingAssumption`), for strings of any length over any
  letters and any bound of one or more: the comparison returns zero exactly for
  equal strings, and one exactly for those one edit apart. A cell tells whether
  its prefixes are the same or within one edit (`CellIs`); `WithinStep` is the
  recurrence of that relation, with the swap, and `CellStep` that the least of
  the ways to a cell follows it. The early exits are right because strings
  within one edit have prefixes within one at every length (`PrefixIsWithin`)
  and lengths that differ by one at most (`ApartIsFar`). `OneEditApartIs`
  connects the relation on prefixes with deleting, replacing and swapping in
  whole strings. The induction over the table is the state machine's own: the
  model fills one cell a step.
* `OrderIsIgnored` (`MatchingAssumption`): the best match so far is that of an
  alias among those tried, with the highest score of any, and aliases of one
  score have one match (`TiesAgree`), so that the order of a set leaves no trace.

No assumption restricts the code: those of the modules say that numbers are
numbers and that placeholders are no members of the sets beside them;
`LoginsAssumption` that finitely many requests are in flight. The one hypothesis
of single theorems does: `OneWorker` is the deployment that the documents
prescribe (`docs/DEPLOYMENT.md`).

Only model-checked: liveness under fairness (`QueuedJobsEnd`, `LockIsLetGo`,
`WindowsGoOn`, `StatusCatchesUp`, `EveryoneStarts`, `LockoutEnds`), which is out of the prover's
reach.

## 6. Not modelled, and what comes next

Not modelled for good: cryptography and key files, parsing of settings and
arguments, markup, packaging. Rows deleted by hand do not exist in the models:
no handler deletes a candidate, target, job or event.

Nor are sessions (`security.py`: one row each, created, read and revoked by one
statement), statistics and health (single reads), the parsing of provider
answers, the normalisation of names, and the console's other forms, which keep
no state between requests.

Planned, in this order:

1. Proofs: action properties that no run asks for yet (a restore's steps, the
   lifecycle of a collection run), and an abstract specification of the desk
   that `ReviewDesk` implements but for overtaken requests.
2. `Sessions`: expiry and revocation of the operator's sessions against requests
   in flight.
3. A process that starts during a restore, once a document says what it must
   find.
