# DistillFeed: a formal model

DistillFeed is a single-user RSS reader. It checks feeds, asks an AI provider to
rate new entries, publishes summaries by topic, and sends the best entries to
other devices. All state is in one SQLite database that several threads and
processes write: the web server and its worker threads, a background scheduler,
a systemd timer, and commands typed in a terminal. The pages in the browser keep
a copy of what they show, and a first start builds the whole instance directory.

This directory models the parts of it where the order of steps decides whether
the result is right. `src/` below is the root of the repository.

- [1. The system](#1-the-system)
- [2. The modules](#2-the-modules)
- [3. The runs](#3-the-runs)
- [4. Fairness](#4-fairness)
- [5. What is proved](#5-what-is-proved)
- [6. Where the code and its texts disagree](#6-where-the-code-and-its-texts-disagree)
- [7. What is left out](#7-what-is-left-out)
- [8. Running the checks](#8-running-the-checks)

## 1. The system

### Components

| Component | State it keeps | Operations | What is hard |
|---|---|---|---|
| Job leases (`db.py` 686-761) | `job_locks`: name, owner, expiry, stop flag | acquire (exclusive or shared), renew, release, request a stop, read the flag | Expiry under a live owner; flags outliving owners |
| Update coordination (`service.py`, `web.py`, `scheduler.py`, `cli.py`) | a worker's position, its heartbeat threads | check feeds, update summaries, update the arXiv digest, restore, and the unattended forms | Four names, two modes, a thread that inherits a lease from a request |
| Operation records (`operations.py`) | `app_operations` | create, start, set phase, finish, fail | Late writers |
| Startup recovery (`db.py` 541-671, `launcher.py`) | - | `reconcile_interrupted_state` (any process), `recover_local_process_restart` (launcher) | Telling a slow worker from a dead one |
| AI engine (`ai_engine.py`) | `ai_jobs`, `llm_runs`, `ai_evaluations`, `summaries` | plan, claim, request, store, compose, publish | Partial failure, stop between requests |
| AI review queue (`ai_queue.py`) | `ai_review_queue`, `ai_item_preferences` | synchronise, claim, review, retry, exclude | Pages synchronise without a lease between a worker's steps |
| AI policy and readiness (`ai_policy.py`, `ai_readiness.py`, `ai_usage.py`) | budgets, modes, reservations of tokens | build a plan, cut batches, refuse | Boundaries of budgets |
| Device alerts (`notifications.py`, `ntfy_policy.py`) | `notification_deliveries`, `ntfy_scope_rules` | select, claim, post, record | A post is not a transaction |
| arXiv digest (`distillfeed_arxiv/`) | papers, digests, its own deliveries | retrieve, screen, rank, publish a digest per day, alert | Revised papers, days that move, a changed threshold |
| Feed retrieval (`feeds.py`, `feed_safety.py`) | feeds, items, retry times, provider cooldowns | check all feeds in a pool, insert entries | Threads, rate limits, stale rows |
| Plugins (`plugins.py`) | plugin statistics | refresh and summary stages | Failure isolation |
| Background scheduler (`scheduler.py`) | the next due time in `settings` | claim a cycle, run it | Several processes, one cycle |
| First-run setup (`setup_service.py`, `setup_state.py`, `setup_web.py`) | a session, a stage directory, the instance directory | validate, stage, publish by rename, verify, roll back, expire | A crash or failure at any step; two tabs; a deadline during a commit |
| Backup and restore (`backup.py`, `restore.py`) | archive, database, OPML file | back up, check an archive, replace, roll back | Three files replaced one by one |
| Launcher (`launcher.py`) | an operating-system lock | start, recover, supervise | Trusts its lock to exclude everybody |
| Baseline (`baseline.py`) | `items.summary_eligible` | baseline, restore | Runs beside the queue |
| Review page (`review.py`, `review_sql.py`, `static/review.js`, `static/review-state.js`) | read marks in rows and in the page | list behind a cursor, mark, finish a day, filter | Answers that arrive late and in another order |
| Notices, subscriptions, configuration, migration, network, weather, scripts | settings | forms, files | Mostly sequential; an edited subscription overtakes a request |

### How they interact

A browser request reserves a lease, inserts an operation record and starts a
thread. The thread runs the feed check (lease `feed-refresh`), then the AI stage
(lease `llm-summary`), both inside `summary-update`. A heartbeat thread renews
each lease. The AI stage claims rows of the review queue, sends them, stores the
answers and composes summaries; the arXiv plugin does the same with papers.
After a scheduled job that published something, alerts are sent. The AI page,
the baseline, and the deletion of feeds write the same rows without any lease,
and so do the recoveries, which every `initialize()` runs: at the start of each
server process and of each command, hence about every half hour under the
systemd timer.

SQLite runs in autocommit mode: a statement outside `transaction(...)` is a
transaction of its own. The modules take that as the grain of their actions.

### What makes each part correct

- *Leases and coordination.* One job at a time works on feeds, provider or
  database. A lease that ran out never revives. Nobody but the owner ends the
  lease of a live job. A job that says it was cancelled was asked to stop.
- *Records.* A job that works has a running record, one that ended leaves no
  record open and no lease behind, and a closed record keeps its answer. Every
  record is closed in the end. A failed feed shows in the answer.
- *Review queue.* An entry counts as reviewed exactly when an answered request
  left an evaluation. Nothing takes a claimed entry from a live request. Every
  claim ends. No entry is sent twice, nor after it was excluded.
- *Device alerts.* An entry is posted once to a destination. A row that says
  delivered tells the truth and stays. No row says "sending" for ever.
- *Feed retrieval.* A provider that asked for rest gets it, from every feed of its
  host. A host answers no more requests at once than allowed. A row speaks of the
  feed's present address.
- *First-run setup.* A setup that did not succeed leaves no reader behind. What is
  served was verified and is whole. What is published is what was reviewed. The
  page ends.
- *arXiv digest.* A paper has a score exactly when a digest shows it; the score is
  of the stored text; every day that was ranked has its digest; every eligible
  paper is scored in the end.
- *Review page.* The list skips nothing, and shows the read state of the server
  once all requests have ended, and the reader's own choice before.

`PROJECT.json` lists the hazards at their lines with the properties that watch
them.

## 2. The modules

| Module | Models | Notes |
|---|---|---|
| `JobLocks` | the table `job_locks` | one operator per SQL transaction of `db.py` |
| `UpdateJobs` | coordination, records, recovery | extends `JobLocks`; one action per step between two points where another process can write |
| `UpdateTurn` | what the coordination promises | abstract: a turn, the jobs that are gone, a record per job |
| `ReviewQueue` | `ai_queue.py` with the steps of `execute_ai_update`, page, baseline, deletions, recovery | takes from `UpdateJobs` that one worker holds `llm-summary`, or has outlived it |
| `EntryReview` | what the review queue promises about an entry | abstract: who has it, who answered it, the requests that are over |
| `NtfyPolicy` | `ntfy_policy.py` | pure operators |
| `NtfyDelivery` | `notifications.py` and the alerts of the arXiv plugin | extends `NtfyPolicy` |
| `AlertOutbox` | what the device alerts promise about an alert | abstract: its row, whether it is still to be posted, posts, what was accepted |
| `FeedRefresh` | `feeds.py`, `feed_safety.py` and the edits of subscriptions | one check at a time, which `UpdateJobs` shows |
| `SetupDraft` | what a setup payload becomes (`setup_service.py`) | pure operators |
| `FirstRun` | launcher, setup page, session, committer | extends `SetupDraft` |
| `SetupOutcome` | what the first start promises its visitor | abstract: the reader, the visit, what the launcher said |
| `ArxivDigest` | `distillfeed_arxiv/` without its alerts | one job at a time, which `UpdateJobs` shows |
| `ScoreLedger` | what the arXiv plugin promises about scores and digests | abstract: the papers, their scores, the digests |
| `ReviewPage` | one day of the review page, server and browser | - |
| `MCUpdateJobs`, `MCReviewQueue`, `MCNtfyDelivery`, `MCFirstRun` | - | values for the configurations |
| `MCIntake` | - | `ReviewQueue` and `FeedRefresh` in one run |
| `MCReader` | - | `ArxivDigest` and `ReviewPage` in one run |
| `UpdateJobsProofs`, `ExclusionProofs`, `ReviewQueueProofs`, `FeedRefreshProofs`, `NtfyDeliveryProofs`, `FirstRunProofs`, `ReviewPageProofs`, `ArxivDigestProofs` | - | theorems |

`MCIntake` and `MCReader` each hold two systems that share no variable. The first
state chooses which of them runs (`part`), so such a run is two runs with one
configuration, and nothing is lost by it: what one part does to the other's rows
is an action of the other with a free choice. What a retrieval does to the queue is
`Discover` and `Delete`, at any time, and the queue does nothing to a retrieval; a
digest that is published is `Evaluate` in `ReviewPage`, and a paper that is revised
is `Replace`. To the jobs of `UpdateJobs` a retrieval is one step with an outcome
(`RFetch`), and to `FeedRefresh` a job is the start of a check, a request to stop
and the end of the process.

### `JobLocks`

`holder`, `left` and `stop` are the columns of a row by name. `left` counts ticks
of about an hour until the row expires; a row with `left = 0` has expired and is
still in the table, as in the code, until `acquire_lock` or a recovery deletes
it. `AcquireLock` and `RefuseLock` both delete the expired rows, because the
transaction commits that deletion even when it refuses. The owner is a random
text in the code; here it is the job that drew it.

### `UpdateJobs`

A job is one attempt, from the click or the timer to the end of its worker.
`pc[j]` is its position: `reserved`, `starting` and `phase` belong to the request
and the head of its thread in `web.py`; positions with `r_` to `run_refresh`,
`u_` to `run_update_summaries`, `s_` and `c_` to `run_summary` and the outline of
`execute_ai_update`; `m_` to a restore; `finish`, `failing` and `unreserve` to
`_finish_reserved_operation`. `op`, `run` and `aiJob` are the states of the
job's rows in `app_operations`, `refresh_runs` and `ai_jobs`. A statement
`UPDATE ... WHERE id=?` does nothing once a restore has removed its row, which
`SetStatus` says.

Jobs outside `Standalone` are threads of the web server and die with it
(`CrashServer`); each standalone job is a process. `Restart` is a new server, by
the launcher (`"local"`, which deletes every lease) or by a service manager
(`"wsgi"`, which only reconciles). Between any two steps another process may call
`initialize()`: `Reconcile`. Which open rows are older than the five minutes of
grace is a choice. `HostSuspends` lets a laptop sleep through the leases of live
jobs.

### `UpdateTurn`

The abstract specification: a turn that one job has, the jobs that are gone, a
record per job that goes queued, running, closed. `UpdateJobs` implements it
(`TakesTurns`) with `turn` the owner of the live leases and `gone` the jobs at
`dead`. It says in a page what five hundred lines of leases are for: records are
accepted and begun by the job whose turn it is, and somebody else fails a record
only when its job is gone or has given up its turn.

### `ReviewQueue`

`row`, `claim`, `old` and `delayed` are a row of `ai_review_queue`; `current` is
the run whose evaluation of the entry is the current one; `run` and `job` are
`llm_runs` and `ai_jobs`. The five statements of `sync_review_queue` are five
steps, since they are five transactions, and any number of pages may be in the
middle of it. A worker's `Plan`, `StartBatch`, `Claim`, `Answer` and `Fail` are
the transactions of `execute_ai_update`. `Answer` fails as a whole when an entry
of its batch was deleted (a foreign key). Which ready entries a plan takes, and
how the compositions end, are choices. An id may be given to another entry after
a deletion, as SQLite does without AUTOINCREMENT.

Any statement may also raise. `Fail` is an exception that the handler of a batch
takes. It may come after `evaluated_ids` was extended (`ai_engine.py` 583), and the
job then counts as answered a batch that was rolled back. `PlanFails` is one between
the row of the job and the `try` (535-536), `Throw` one that no handler of a batch
takes: in a composition, in the loop, in the transaction of a claim (549-566), or in
the handler itself (591). `Raise` is the outer handler, which closes the job, and
`RaiseFails` its failure (679). `unclosed` records the runs and jobs that these
exceptions leave on record as running, with no worker at them.

`lapsed` records that a live worker has outlived its lease or a claim (a sleeping
host). Properties that rely on the leases say `~lapsed`; the others hold anyway.

### `EntryReview`

The abstract specification of the queue: entries, who has taken each (`held`), who
answered it (`answer`), and which requests are over (`ended`). A request takes
waiting entries together and ends once, for all of them. `ReviewQueue` implements it
(`ReviewsInOrder`): an entry is held by the run in `claim` while its row says
processing, answered by the run of its evaluation once the row says reviewed, and a
request is over when its worker is past it, thrown out of it, or dead. Jobs, leases, pages, clocks and the five
statements of a synchronisation have disappeared. From the moment at which a live
worker outlives a claim (`overdue`) two requests may have one entry, and all that
is promised then is that an entry with an answer keeps one.

### `NtfyPolicy` and `NtfyDelivery`

`Match` is the threshold for a feed: its own rule, else the rule of the nearest
group above, else the general one, unless the mode is "selected". Entries above
it are taken by relevance up to the cap (`Candidates`); the second key of the
plugin's order, its final score, is left out.

A sender is one call of `deliver_ntfy_for_job`, which claims all alerts in one
transaction (`ClaimAll`), or of `deliver_arxiv_pushes`, which claims them one by
one (`ClaimNext`), in a table of its own. `Post` is the request: the server takes
the alert or not, and the answer may be lost. `Record` writes an outcome *by row
id*; the row may have gone with its entry, and its id may belong to another alert
by then. `ClaimRaises` and `RecordRaises` are the exceptions that end a call.
`Reconcile` fails rows past their grace. `lapsed` here: a sender started while
another was alive, which only a lapsed lease permits.

The two tables write their times in different formats; section 6 says what
follows. In the model, `sameDay` holds the arXiv rows for which that matters.

### `AlertOutbox`

The abstract specification of the alerts: `Claim` makes a row for alerts that have
none, `Post` posts one that was claimed, `Settle` writes its outcome, `GiveUp` fails an
open row, `Abandon` is a call that ends early, `Remove` a deletion. Calls, row ids, the
two tables, caps, clocks and settings have disappeared. An alert is due while a live
call has it in its list unposted (`Due`). Once two calls have worked side by side
(`beside`), a row may take the outcome of another alert (`Mistaken`); claims and
posts keep their order even then.

### `FeedRefresh`

`url`, `validator`, `failures` and `retry` are columns of a row of `feeds`,
`backoff` is `provider_backoff`. A document is a version of a source, and a
validator (ETag and Last-Modified) is the document it came with. `pos[f]` is where
the thread of a feed is: `queued`, `creating` and `waiting` in front of its
semaphore, `asked` while its request is in flight, `ended`. The table of
semaphores is a `defaultdict` whose factory is Python code, so a thread that
misses a host takes two steps (`TakeThread`, `CreateSemaphore`). A semaphore is
named by the feed whose thread made it.

`AskSource` reads the row again, looks at the cooldown and sends the request, with
what it read in `flight`; `NotModified`, `Document` and `Failure` write by id what
follows from it, whatever became of the row meanwhile. `EditFeed` is any change of
an address, a deletion, or a new feed that gets a free id.

Five history variables name the cases that the code does not guard against:
`split` (two semaphores for a host), `crossed` (a challenge while another request
to the host was in flight, so that the later one overwrites the cooldown),
`overtaken` and `tainted` (an address edited under its own request, whose answer
then writes the row of the new address). The properties except exactly these, and
TLC finds each exception necessary. No text of the repository promises more.

Left out: the caps on entries and the first import, which bound how much of a
document is stored; parsing; generated feeds, which are feeds of a host without a
network; the counts of a check, which `UpdateJobs` takes as a choice. Ticks stand
for the units of the delays, and the failure's two statements are one step.

### `SetupDraft` and `FirstRun`

A payload is reduced to the choices that depend on each other; `wellFormed` is
every check of a single field. `Normalised` is the draft, `Review` what the page
says of it, `Configured` and `StoredSecrets` what a commit takes from it.

`inst` and `stage` are the entries of the two directories. The committer takes one
step per thing it writes; each step may fail (`StepFails`), which starts the
rollback, and each step of the rollback may fail in turn (`RollbackFails`). The
process may end between any two (`Crash`); the next start cleans what it can
recognise (`CleanStage`), classifies the directory and verifies a managed one. The
session's phases are those of `SETUP_TRANSITIONS`. Tabs share the session; each
remembers the Review it was shown. The watcher decides that the time is over in
one step and takes the session's lock in another, so a commit may begin between
(`ExpireDecides`, `Expire`), and likewise for Ctrl-C. The watcher's sleep of 0.25
seconds before it ends the server (`setup_web.py` 565-568) is the reason why
`EndSetup` waits for the answer to be sent. Rate limit, idle time and headers of the
page are left out.

### `SetupOutcome`

The abstract specification of the first start: the `reader` that is there, the `visit`
of its page, the reader that was asked for (`wanted`) and what the launcher `told`. A
page opens only where there is no reader; a completion creates what was asked for, or
takes it back, and returns; a visitor or a deadline gives up, but not during a
completion; the process may vanish at any time. `FirstRun` implements it
(`OutcomeAsTold`): the reader is the draft and the secrets the instance was made of,
and the visit is the phase of the session while the page is up. Tabs, tokens, stages,
files, threads and the port have disappeared. An "unsure" end (recovery required) is
the one that promises nothing about the reader.

### `ArxivDigest`

A row of a paper has a status, the version it is known to be (0 when a link
carried none), its text (the number of the version it is really of), its day and
its score (the text that was scored). A digest is the set of papers it shows. One
job at a time is a retrieval (`fetch`, `screen`) or a digest update (`plan` to
`publish`); pages, settings and deletions run beside it.

Announcement and API may each have failed, not been asked, or have nothing to say:
all of that is `Nothing`. `api_backfill` is on. The table of announcements already
seen is written and never read for control. The loop over RSS categories is one
step, as nothing between its requests depends on the rows; so are the batches and
retries of `Rank` and `Compose`. The local score of a paper is constant. The
outcomes of a finished run are one state. `StoreFails` may fail at any time, which
is more than the code does.

### `ScoreLedger`

The abstract specification of the digest: papers arrive or are revised (`Arrive`), a
digest is published with the scores that its papers lack (`Publish`), papers are
deleted with their scores and the digests that show them (`Delete`). Jobs, days,
thresholds, runs and arXiv have disappeared. `Publish` says three things at once:
a digest is not empty, it scores all it shows, and it changes no other score.

### `ReviewPage`

`Key` is the order of the list, `After` the comparison of a row with a cursor,
`IsPage` and `IsNext` the query. In the browser, `loaded`, `showsRead`,
`nextCursor`, `hasMore` are the state of a day in `review-state.js`, `generation`
counts changes of the filters, and `override` and `dayOverride` are the fields it
remembers with their revision, so that a page that was asked for earlier does not
undo them (`Overlay`). A request is sent, carried out and answered in three steps,
in any order with the others. `contended` holds entries that two requests changed
at once, about which the page promises nothing before it is reloaded, and `touched`
the rows that changed since the list was opened.

A request that the page gives up, because the answer was an error or never came, may
have been refused, carried out, or be still on its way: the page cannot tell and rolls
its change back (`review.js` 572-573, 601, 621). `GivesUp` puts such a request into
`late`, from where the server may carry it out at any time (`LateSave`) or never. What
it changes then is in `strayed`: there the page shows the old state, until a later
change of the entry is confirmed, or the list is asked for again while no change is
under way. This is what the
code does, and no text of the repository promises more.

Left out: the order by local score, starred and read-later marks, which go the way
of read marks, the counts and the list of days, the signature in the cursor. The
page aborts a request it no longer wants; the model relies on the weaker check of
the generation, which has to hold as well, since an answer may have arrived.

## 3. The runs

| Run | Instance | Asks |
|---|---|---|
| `update_jobs` | a server job and a command-line job of any kind, one request per AI stage | exclusion, records, stop, answers, refinement of `UpdateTurn` |
| `update_jobs_suspended` | two server jobs, both launchers, host may sleep | what is left of exclusion and what holds without it; `RecordsClose` under fairness |
| `review_queue` | one entry, two exchangeable workers, a page, all edits, exceptions anywhere | evidence, claims, records of the queue, refinement of `EntryReview` |
| `intake` | two entries, one worker with two requests; or two feeds, three addresses of two hosts, two threads | batches, partial failure, `ClaimsReturn` under fairness; cooldowns, the cap per host, rows of feeds |
| `ntfy_delivery` | two entries of a feed in a subgroup, one paper, two senders, two policies | alerts, refinement of `AlertOutbox` |
| `first_run` | two tabs, four payloads, two reviews, two starts | publication, rollback, the end of the page, refinement of `SetupOutcome` |
| `reader` | two papers, one day and one unknown, two thresholds, one disturbance; or two entries, one a page, one change of filters, two marks | scores and digests, refinement of `ScoreLedger`; the list and its read marks |
| `lost_stop`, `reconciled_worker`, `launcher_beside_cli`, `hidden_feed_failure`, `arxiv_grace` | the smallest instance that shows it | section 6 |

### What the properties say, and what would break them

*`update_jobs`.* `Exclusion` is the purpose of the leases; it breaks when an
exclusive acquisition looks only at its own name. `WorkingRecordRuns` breaks when
a recovery ignores leases, `NothingLeftBehind` when an exit path forgets a row,
`CancelledWasAsked` when a flag survives its owner, `AnswersShowFeeds` when the
second look at the stop flag (`service.py` 188-200) changes the answer but not the
row (its part `RunAgrees`), or when the AI stage's answer replaces that of the feed
check (`FailedFeedsShow`),
`LiveLeaseEndsByOwner` when a release goes by name alone, and `TakesTurns` when a
late result is written over a record that somebody closed. Stop requests name
all leases, as the page's button does.

*`update_jobs_suspended`.* Two jobs can now work at once, by design: nothing
fences a worker that lost its lease. What remains is that the jobs which still hold
the leases of their positions exclude each other (`HoldersExclude`, which breaks
when an exclusive acquisition looks only at its own name), that a job which lost
its lease cannot revive it (`LapsedStaysLapsed`) or rewrite a closed record
(`ClosedStaysClosed`), and that every record is closed in the end
(`RecordsClose`), which breaks when a recovery looks at running records only.

*`review_queue`.* `ReviewedIffEvaluated` relates queue rows, evaluations and runs;
`LiveWorkIsKept` says that pages, baselines and recoveries leave a live request
alone; `NoClaimLeftBehind` says that no way through the loop forgets an entry, and
`OpenRowsHaveAWorker` that a run or a job is open only while its worker is at it, after
the worker died, or when one of four exceptions left it open (`ai_engine.py` 535-536,
549-566, 591, 679). A run left open by one is not hidden: its job ends as failed, or is
open as well. It breaks when the outer handler leaves the row of the job as it is.
`AskedOnce` says that a stale plan does no harm. `ReviewsInOrder` is the
refinement of `EntryReview`; it breaks when a late failure returns entries that are
no longer processing, which would take back what another request answered.

*`intake`.* `JobAgreesWithRuns`: the job's answer does not hide a
failed batch, also when the other one was answered. `ClaimsReturn`: a claim whose
worker is gone returns to the queue. `HostsAreSpared` breaks when a manual retry
skips the host's cooldown, `RowTellsHistory` when the request is made from the
list's row instead of the one read after the wait.

*`ntfy_delivery`.* `PostedOnce` is the promise that a failure is durable and never
retried. `OutboxIsKept` is the refinement of `AlertOutbox`; it breaks when a recovery fails
rows whatever they say. It and `DeliveredWasAccepted` are about rows addressed by
ids that return after a deletion: without `~lapsed` TLC finds two overlapping
senders, a deletion, and an outcome written to the wrong row.
`SendingHasASender` ties open rows to senders and posts to rows. `SendingEnds`
needs the recovery.

*`first_run`.* `OutcomeAsTold` is the refinement of `SetupOutcome`; it breaks when the
deadline does not wait for the session's lock, so that a setup is over and its reader
appears after it. `ServedIsComplete` breaks when the manifest is written before the
stage is verified, `PublishedAsReviewed` when a completion does not compare its token
(two tabs), and `SetupEnds` when the deadline leaves a failed session alone.

*`reader`.* `LedgerIsKept` is the refinement of `ScoreLedger`; it breaks when ranking
records its scores before the digest is published, `ScoreIsOfStoredText` when a revision keeps its score,
`EveryDayHasItsDigest` when no ranked day counts as missing its digest,
`EligibleIsScored` when a ranking is done for missing digests only, `AllShown` when
keys of equal times are not told apart by id, `ReadAgrees` when the end of a finish
forgets what it had marked (with `strayed` as the only exception for lost answers), and
`ChangeIsShown` when only confirmed changes are laid
over a page.

### Why the bounds are enough

- *Two jobs* (workers, senders): every property of coordination relates at most
  two of them, one acting and one acted upon; the theorems of section 5 lift the
  central ones to any number. A third job could only wait for a lease.
- *One request per AI stage* in `UpdateJobs`: it has a stop check before and after
  it, and a second pass visits the same positions. `ReviewQueue` has the loop
  with two requests.
- *Entries*: one suffices to interleave two workers and a page; two make a batch
  of which one is deleted. The two workers of `review_queue` are alike, both automatic
  (a manual one has no delay, which is a delay that ends at once), and exchanging them
  is a symmetry, which is sound as the run has no liveness property. In `NtfyDelivery` two ordinary entries make a list
  that is half sent, the paper brings the second table.
- *Leases* of one to three ticks keep the order of the code (120 minutes, 180, and
  720 for the arXiv reservation).
- *Feeds*: two share a host, and one may move to the address of another host;
  one source is published twice, so that "not modified" can be wrong. Two rests of
  different lengths let a cooldown be overwritten by a shorter one. One edit is
  enough to overtake one request; two would meet two requests.
- *Setup*: two tabs and two validations make one stale Review; two starts make a
  crash and what the next start does about it. The payloads are a plain reader, one
  with a key for this launch only, one that stores all, one that is refused.
- *Papers*: two, of two categories and local scores on both sides of the higher
  threshold, one of them revised. A day and "unknown" are two days. One disturbance
  is a stop, a crash, a deletion or a changed threshold, at any point of a job; the
  theorems of section 5 lift the safety properties to any number.
- *Page*: two entries of one time and two pages of one entry make a boundary inside
  a run of equal keys; one change of filters, from the unread to all, makes an answer
  that is out of date. Two changes are enough for one that is given up and carried out
  late beside another that is confirmed.
- *Deadlock* is checked in `review_queue`, `intake`, `first_run` and
  `ntfy_delivery` (with an explicit `Rest` once all calls are over).
  `UpdateJobs` really stops when all jobs are over and no lease or server is left
  to expire or die, and so does a review page when its bounds of changes are used
  up: their configurations say `CHECK_DEADLOCK FALSE`.

Each property of a passing run has a mutant in `PROJECT.json`: a plausible slip in
one definition under which TLC finds the property violated. The mutated forms
stand above the definitions they vary, marked "Mutant".

## 4. Fairness

Safety properties assume none. `RecordsClose` (`update_jobs_suspended`) assumes that
threads run (`WorkerStep`), that hours pass (`Tick`), that a dead server is
restarted, and that `initialize()` is called again and again with every orphan
past its grace (`ReconcileAll`). The last is what
`deployment/rssreader-refresh.timer` does every thirty minutes; without it a crash
of a server nobody restarts leaves a record open for ever, which is true of the
code. No heartbeat and no request is assumed to come.

`ClaimsReturn` (`intake`) assumes that a request ends (the HTTP clients
have timeouts), that time passes, and that some caller synchronises the queue.
`SendingEnds` (`ntfy_delivery`) assumes only that time passes and that the recovery
runs; a sender may stop anywhere.

`SetupEnds` (`first_run`) assumes that the threads of the process run: the commit's
steps and its answer, the watcher, the main thread. Two steps wait for the
session's lock, which commits may take again and again in between (`Expire`,
`InterruptCancels`): they are strongly fair, since a waiting thread gets a
`threading.Lock` in the end when its holder keeps releasing it. Nothing is assumed
of the browser.

`EligibleIsScored` (`reader`) assumes that a job takes its steps, and strong fairness
of four steps that others can forbid again and again: the scheduler or the reader
asks for updates (`BeginSummary`), the model is not blocked whenever it is looked
at (`Plan`), and the provider, asked often enough, answers (`Rank`, `Compose`).
Nothing is assumed of arXiv, of settings, or of a recovery.

## 5. What is proved

All theorems are for every value of the constants under the named assumptions of
each module (`LeaseAssumption`, `JobsAssumption`, `QueueAssumption`, `RefreshAssumption`,
`PolicyAssumption`, `DeliveryAssumption`, `SetupAssumption`, `PageAssumption`,
`DigestAssumption`), which say what kind of values they are.

| Theorem | States | Needs |
|---|---|---|
| `TypeCorrect` | `[]TypeOK` of `UpdateJobs` | - |
| `LeasesAreKept` | `[]LeaseInv` | `~HostSuspends`, and no command-line job beside the launcher |
| `MutualExclusion` | `[]Exclusion` | the same |
| `WorkIsOnRecord` | `[]WorkingRecordRuns` | the same |
| `LeasesEndByTheirOwner` | `LiveLeaseEndsByOwner` | the same |
| `UpdatesTakeTurns` | `TakesTurns`: `UpdateJobs` implements `UpdateTurn` | the same |
| `HoldersDoExclude` | `[]HoldersExclude` | - |
| `LapseIsFinal` | `LapsedStaysLapsed` | - |
| `AnswersAreFinal` | `ClosedStaysClosed` | - |
| `ChecksReportTheirRun` | `[]RunAgrees` | - |
| `FailuresAreShown` | `[]FailedFeedsShow`, for updates of ordinary summaries | - |
| `AnswersAgreeWithFeeds` | `[]AnswersShowFeeds`, the two above | - |
| `StopsWereAsked` | `[]CancelledWasAsked` | - |
| `NothingIsLeftBehind` | `[]NothingLeftBehind` | - |
| `WorkRunsOut` | a job has at most `30 + 4 * MaxBatches` steps left, and only its own steps use them | - |
| `QueueTypeCorrect` | `[]TypeOK` of `ReviewQueue` | - |
| `EvidenceIsKept` | `[]ReviewedIffEvaluated` | - |
| `LiveRequestsAreKept` | `[]LiveWorkIsKept` | - |
| `ReviewsAreFinal` | `ReviewIsFinal` | - |
| `NothingIsAskedTwice` | `AskedOnce` | - |
| `ClaimsHaveAWorker` | `[]NoClaimLeftBehind` | - |
| `OpenRowsAreWorkedOn` | `[]OpenRowsHaveAWorker` | - |
| `VerdictsAreTrue` | `[]JobAgreesWithRuns` | - |
| `QueueImplementsReview` | `ReviewsInOrder`: `ReviewQueue` implements `EntryReview` | - |
| `ExecutionsRunOut` | an execution has at most `13 + 3 * MaxRequests` steps left, and only its own steps use them | - |
| `DeliveryTypeCorrect` | `[]TypeOK` of `NtfyDelivery` | - |
| `AlertsAreNotRepeated` | `[]PostedOnce` | - |
| `AlertsAreAccountedFor` | `[]SendingHasASender` | - |
| `DeliveredIsTrue` | `[]DeliveredWasAccepted` | - |
| `DeliveredStays` | `DeliveredIsFinal`: what is delivered is not failed later | - |
| `AlertsGoInOrder` | `OutboxIsKept`: `NtfyDelivery` implements `AlertOutbox` | - |
| `TopIsTheBest` | what `Top` keeps of any candidates: the best, as many as the cap allows | - |
| `AlertsAreCapped` | a call posts no more alerts than its cap | - |
| `CallsRunOut` | a call has at most `3 * Limit + 3` steps left, and only its own steps use them | - |
| `SetupTypeCorrect` | `[]TypeOK` of `FirstRun` | - |
| `FirstRunKeepsItsWord` | `OutcomeAsTold`: `FirstRun` implements `SetupOutcome` | - |
| `FailedSetupLeavesNoReader` | `[]NoReaderUnlessComplete` | - |
| `ServedInstanceIsWhole` | `[]ServedIsComplete` | - |
| `PublishedWasReviewed` | `[]PublishedAsReviewed` | - |
| `PublishedIsKept` | a published reader is taken back by its own commit at most, before the result is given | - |
| `CommitsEnd` | a commit has at most 13 steps left, and only its own steps use them | - |
| `PageTypeCorrect` | types and request generations of `ReviewPage` | - |
| `NothingSkipped` | `[]AllShown` | - |
| `ReadStateAgrees` | `[]ReadAgrees` | - |
| `ChangesAreShown` | `[]ChangeIsShown` | - |
| `DigestTypeCorrect` | `[]TypeOK` of `ArxivDigest` | - |
| `DigestKeepsTheLedger` | `LedgerIsKept`: `ArxivDigest` implements `ScoreLedger` | - |
| `ScoresArePublished` | `[]ScoredIsPublished`: a score is explained by a digest | - |
| `ScoresAreOfStoredTexts` | `[]ScoreIsOfStoredText` | - |
| `DoneIsDone` | `[]EveryDayHasItsDigest` | - |
| `JobsRunOut` | a retrieval or digest update has at most `4 * LastDay + 6` steps left, and only its own steps use them | - |
| `RetrievalTypeCorrect` | types of `FeedRefresh` | - |
| `RowsTellTheTruth` | `[]RowTellsHistory` | - |
| `HostsAreLeftAlone` | `HostsAreSpared` | - |
| `ChecksRunOut` | each feed of a check has at most 4 steps left, only its thread uses them, and the threads never all wait for one another | - |

The two assumptions of `MutualExclusion` and its companions are not for
convenience. With `HostSuspends` exclusion is false, and `launcher_beside_cli` is
the other case. `HoldersDoExclude` needs neither.

**Exclusion.** `Exclusion` is not inductive: it says where jobs are and not why.
`LeaseInv` adds that a job holds, live, every lease its position relies on
(`LeasesHeld`), that all live rows have one owner (`OneOwner`), that no thread of
a dead server lives, that positions fit kinds, and that the record fits the
position (`RecordFits`). `OneOwner` is the heart: an exclusive acquisition needs an
empty table, and a shared one (`feed-refresh` or `llm-summary` inside an update)
is made by a job that already owns a live row, so the owner stays the same. A
tick keeps it since no live owner's lease ends. Two working jobs would both own
a live row, so they are one.

On a host that sleeps, `OneOwner` and `LeasesHeld` are false: an update may have lost
its own lease and still hold a live `feed-refresh`, beside another update. What is
left is `FirstLeasesAlone`: among the live leases that their owners took first (the
one of their kind, `Outer`), there is one owner. A first lease is taken from a table
without a live row, a second one is no owner's first, and what is lost does not come
back. Every job at work relies on its first lease, so `HoldersDoExclude`.

**Refinement.** `UpdatesTakeTurns` maps `turn` to the owner of the live leases and
`gone` to the jobs at `dead`. `TurnInv` joins `LeaseInv` with the invariants of the
records. Lemmas say what each transaction on the leases does to the turn: an
exclusive acquisition takes a free one, a shared one keeps it, a renewal or a
deletion of expired rows keeps it, a release ends it or keeps it. Each group of
steps then maps to a step of `UpdateTurn` or to a stutter. The step that needs the
records is the recovery: an orphan it fails has no turn, so the abstract
specification lets somebody else fail its record.

**Records.** `LapsedStaysLapsed` and `ClosedStaysClosed` need only the types and a
case per action: the heartbeat renews live rows, a deletion makes no row, an
acquisition moves its job; every write of `op` tests its old value. The others
rest on `Books(j)`, which follows the paths of one job: the position fits its kind
(`Placed`), its rows fit the position (`Recorded`), the answer of its feed check
fits the row of the run (`CheckReports`), and a failure travels from there to the
answer of the update (`FailuresReach`). A step of another job, or of a recovery,
changes of it only what `Aside` names. `OwnLeases` says which leases a position
may still own, and `StopWasAsked` that a flag in the table belongs to a job that
was asked. None needs the leases to hold.

`WorkRunsOut` is the part of `RecordsClose` that safety can say. `Remaining(j)` counts
the steps in front of a job on its longest way to the end (`Ahead`, by position) and
four for each request it may still send (`Rounds`). A lemma per group of steps shows
that a step of the thread uses one up, and `OthersKeepCount` that nobody else, a
reader who asks for a stop or a recovery that closes the record, gives one back. A
thread that runs therefore ends, after a number of steps that does not depend on the
others; that it runs is the fairness which stays with TLC.

**Review queue.** `QueueInv` adds to `ReviewedIffEvaluated` which rows belong to
which request and that the lease holder is the only live worker unless `lapsed`
(`RowsAndLease`), that runs are numbered in order and later ones do not exist yet
(`RunsInOrder`), and that a worker's open rows are its own (`OpenWork`). `BookInv`
joins the three invariants about open work and verdicts with `WorkerHistory`: what
a worker remembers of its outcomes is what its closed runs say (it may remember an
answer too many, which makes "partial" of "failed" but never "success"), and with `LeftOpen`:
an exception that leaves a run open ends the work of its worker.

`QueueImplementsReview` maps each statement to a step of `EntryReview`. A claim is
`Take`, an answer `Settle`, a failure that returns its entries `Return`, a death
or an exception out of the loop `End`,
and a recovery or a page that finds an abandoned claim `GiveBack`. It needs
`QueueInv`, to know that no one else has what a request answers for, and
`ClaimsAreNamed`, that a claimed row carries a run: without it a row could be
processing for nobody, and nobody could give it back. The steps in which a claim
becomes overdue, and all after it, map to `OutOfOrder`, for which `ReviewIsFinal`
and `ReviewedIffEvaluated` are enough.

`ExecutionsRunOut` says of a worker what `WorkRunsOut` says of a job: `Remaining(w)` counts
the steps to the end by position, and three for each request the plan still allows.
It needs `SyncedFirst`: a worker that has not yet synchronised has sent nothing.

**Alerts.** `PostedOnce` rests on `DeliveryInv`: an alert that was posted is on
record while its entry is stored (`OnRecord`), an alert in a sender's list has
not been posted yet (`NotYetPosted`), and no two lists share one (`ClaimsDiffer`).
A deleted entry has no row, but it cannot be selected either. (SQLite may give
its id to a new entry; the model leaves that out, since `PostedOnce` would then
have to count entries and not ids.) `TruthInv` says that, while no sender started
beside a live one, the row ids in a live sender's list are those of its own
alerts. New ids are larger than all ids in the table, but a live
sender's list may hold a larger id whose row was deleted: only a second sender
could insert a row under it, hence the assumption in the property.

`TopIsTheBest` is about a cut that the model writes as "fewer than `limit` entries of
the set come earlier". It takes the entry with the smallest set of predecessors, or
of successors, to show that a finite set has a first and a last entry, and that the
cut is full when anything was cut off. `AlertsAreCapped` then follows a call: its list
is a cut (`Capped`), and no step adds to what it has still to send (`OnlyTakesOff`).
`CallsRunOut` counts a claim, a post and a record for each alert still to send.

`AlertsGoInOrder` needs little more than these invariants. `DueAfter` says what a step of
one call does to the alerts that are due: those of the others stay. An insertion is
`Claim`, a post `Post`, as no other list has the alert (`ClaimsDiffer`); a call that
begins or ends is `Abandon`. An outcome is `Settle` while calls take turns, since ids then
lead a call to its own rows (`OwnRows`) and it has posted what it writes about
(`RecordsArePosts`); otherwise it is `Mistaken`, or changes nothing.

**First start.** `IInv` ties the directory to the session. An instance is there
exactly while it is published (`LiveIsPublished`), one request at a time commits
and has published only in its last phase (`OneCommit`), the stage grows phase by
phase (`StageGrows`) so that an instance is whole from the moment of the rename
(`InstanceIsWhole`), and a token stands for the draft it was issued with
(`TokensMeanDrafts`). That last one is what two tabs need: the tab whose token is
current was shown the session's draft.

`FirstRunKeepsItsWord` maps the phases of the session to the visit. `Ask` is a completion
that passes its checks, `Create` the rename, `TakeBack` the rename back, `Return` the end
of a commit (`Postcheck`, `RolledBack` or `RollbackFails`), `GiveUp` a cancellation or the
deadline, `Close` the end of `run_setup`, `Vanish` a crash. `IInv` is nearly enough; `MappedWell`
adds that an instance has a draft, that a closing page has come to its end, and that
what was completed is there. A deadline during a commit has no counterpart, and
indeed cannot be: it waits for the lock.

`PublishedIsKept` says the same of the files in the directory: only the one commit in
progress may remove what is there, and only what it published itself and before its
result was handed over.
`CommitsEnd` is what the fairness on the session's lock rests on: `LockLeft` counts the
steps of the commit and of its rollback, so a waiting deadline finds the lock free.

**Review page.** `ListInv`: what is due and not loaded lies behind the cursor
(`RestIsBehind`), the request in flight starts where the list ends
(`AskedWhereItEnds`), and its answer leaves nothing out (`AnswerIsWhole`). It needs
that `After` orders the keys totally, which is a lemma about keys that end with an
id. `ReadInv` treats each entry that no two requests changed at once by itself
(`ItemRight`): at most one request is about it, the change is remembered with a
revision that is not older than any later mark of the whole day, the page is right
once the requests have ended, and so is whatever is still in flight, as soon as the
remembered fields are laid over it (`FlightIsRight`). What a request that was given
up has changed since (`strayed`) is excepted, and a confirmed change ends the
exception: it sets the row to what the page then shows.

**Digest.** `RowInv`: scores, status and published digests agree, and a known version
is that of the stored text. Retrieval enters by what an answer can be (`Honest`),
and screening moves papers between two states only (`Mild`), so that most steps
need no look at rows. `JobInv` follows a digest update: whatever is ranked is among
the papers it has read (`AllTaken`), and a ranked day has a digest of its own, or is
the one at work, or is still in the list (`DaysAhead`); when the list is empty, that
is `EveryDayHasItsDigest`. `JobsRunOut` counts four steps for each day in the list: a
day leaves it before it is attempted, and no step puts one back.

`DigestKeepsTheLedger` maps `Store` to `Arrive`, with the papers that are new or
revised, `Publish` and `Delete` to their names, and all else to a stutter, as it is
mild or leaves the rows alone. That an honest revision carries a text is `Honest`;
the rest is `LedgerInv`: each day in the list has papers to show, and a paper of the
plan that is ranked by now is of a day that is done, so that a publication scores
only papers without a score.

**Retrieval.** `HistoryInv`: a request that no edit overtook carries the address and
the failures the row still has (`FlightIsCurrent`), so its answer writes what the
history says; a tainted feed has a row (`TaintIsOnRows`), so an answer for a deleted
feed cannot clear the mark. `RestIsKept`: unless requests crossed, a host's cooldown
lasts at least as long as the host asked, and while a request is in flight it had
asked for nothing; a reply that asks for rest therefore ends the only request
there. `OneSemaphore`: all threads at a host that was not split use the semaphore of
the table, so the permits counted by `Permit` are those of the host (`CapIsKept`).
`ChecksRunOut` needs only the types: a permit is held by a request in flight alone,
and a request waits for nobody, so a thread without a permit has one ahead of it
that goes on (`NobodyBlocksAll`); the pool takes the least id that is queued.

**Left to TLC.** Liveness (`RecordsClose`, `ClaimsReturn`, `SendingEnds`, `SetupEnds`,
`EligibleIsScored`) is out of the prover's reach, and so is what the runs of
section 6 refute. A safety part is proved: `WorkRunsOut`, `ExecutionsRunOut`,
`CallsRunOut`, `CommitsEnd`, `JobsRunOut` and `ChecksRunOut` bound the steps of a job,
an execution, a call, a commit, a digest update and a check of feeds, so that what is
left to fairness is that these steps are taken and that the next job, recovery or
retry comes.

## 6. Where the code and its texts disagree

Each has a run that TLC finds violated, and an entry with the quoted text in
`PROJECT.json`.

1. **A stop request can be lost** (`lost_stop`). Between its two stages an update
   owns only `summary-update`. A stop that lands after the one look at that flag
   flags a row nobody reads again; the page says the job is stopping, and the AI
   stage sends all of its requests.
2. **A recovery can fail an update that succeeded** (`reconciled_worker`). Workers
   release their lease before they report. A recovery in between sees an old
   record without a lease.
3. **The launcher trusts a lock that commands do not take** (`launcher_beside_cli`).
   It deletes the live lease of a command-line update.
4. **An up-to-date digest hides failed feeds** (`hidden_feed_failure`). The answer
   "unchanged" is not among those that become "partial".
5. **The grace period does not reach the alerts of the arXiv plugin**
   (`arxiv_grace`). Their times are written with a blank where the limit has a
   "T", and texts are compared: any claim of the limit's day counts as old.

## 7. What is left out

In the modelled parts, beside what section 2 says of each module:

- `UpdateJobs`: two exceptions that leave `ai_jobs` open, between the insertion of the
  row and the `try` and in the statement that closes it (`ai_engine.py` 535-536, 679),
  which `ReviewQueue` has; how the answer of an unattended job combines plugin outcomes; which
  rows are past the grace of minutes (a choice); the scheduler's own due time.
- `ReviewQueue`: selection of a plan (a choice among the ready entries);
  compositions (one step with an outcome); papers of the arXiv plugin,
  which enter with `summary_eligible=0`.
- `NtfyDelivery`: `deliver_ntfy_for_run` (the same steps for one request, with no
  caller but a plugin context), the validation of rules, the test message, the
  cases in which alerts are off.

Not modelled, as `PROJECT.json` says part by part:

- *AI policy and plan, readiness, usage*: limits and counts in front of a job. The
  plan is a choice in `ReviewQueue`, whose properties so hold for any policy.
- *Background scheduler*: a due time in front of the unattended job of
  `UpdateJobs`. It advances before the work, so a cycle that finds a lease is
  skipped and made up by the next one; no text says otherwise.
- *The files of a restore*: the lease and the replaced rows are in `UpdateJobs`. A
  crash between the files leaves them different, and no text promises that they
  agree.
- *Notices, configuration, secrets, OPML, settings migration*: derived rows, or
  files that one request at a time reads, checks and writes.
- *Network safety, interests and weather, error classes, installation scripts*:
  input checks, external services, text classification, shell. They have no
  protocol of their own.

## 8. Running the checks

In this directory:

    tlc -workers 2 -config UpdateJobs.cfg MCUpdateJobs
    tlapm ExclusionProofs.tla

and likewise for the other runs, whose modules and configurations `PROJECT.json`
names.
