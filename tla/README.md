# TLA+ models and proofs for memexpert

This directory models the background machinery of memexpert: what happens
between the moment a database transaction says "this work exists" and the
moment every process, queue, row and stored object agrees that it is done.
Paths below are relative to the repository; `runtime.py` without a directory is
`memexpert/workers/pipeline_runtime/runtime.py`.

## 1. The system

memexpert is a Python backend of five kinds of process and a SvelteKit
frontend:

| process | runs |
|---|---|
| `memexpert-api` | FastAPI routes over `services/` and `ingest/` |
| `memexpert-workers` | RabbitMQ consumers: media inspect, TRANSCODE, OCR, EMBED, CLASSIFY, SYNC_QDRANT, SYNC_MEILI, engagement capture |
| `memexpert-telegram-crawler` | live and historical reading of Telegram channels |
| `memexpert-scheduler` | APScheduler jobs in the one process that holds a PostgreSQL advisory lock: outbox publisher, recovery, media collector, batches |
| `memexpert-bot` | Telegram bot |

They share PostgreSQL (the only source of truth), RabbitMQ (at least once
delivery, one queue and one retry queue per stage), S3 (objects), Qdrant and
Meilisearch (derived indexes) and Redis (caches). No process talks to another
directly: they meet in rows, messages and objects.

### Inventory

| component | state | operations | what makes it hard | correct when |
|---|---|---|---|---|
| Transactional outbox (`messaging/`) | `rabbitmq_outbox_messages`: status, attempts, lease | publish, claim, send, mark, recover stale, rebuild | relay crashes; lost confirms; late outcomes of recovered leases | published only if accepted; budget kept; every message settles |
| Stage delivery (`runtime.py`, `pipeline/`) | `pipeline_stage_journal` row, the broker's copies, handlers in flight | start, complete, fail, retry, dead-letter, abandon, reclaim, replay | duplicates, unlocked reads, shutdown, crash, replays of work that still runs | waiting work always has a message; attempts fence stale handlers |
| Media generations (`services/media_generation.py`, `stages/transcode.py`) | `media_generations`, the file's active pointer, two S3 objects each | reserve, verify, upload, activate, fail, collect, delete | S3 is outside the transaction; ambiguous commits; late deliveries | the active generation has its objects; nothing else keeps objects for ever |
| Circuits and capacity (`services/pipeline_reliability.py`) | `dependency_circuit_states`, `pipeline_capacity_states` | acquire, record success or failure, refresh | calls in flight across a state change; owner dies | one fenced probe; opens for a reason; leaves half-open |
| Recovery jobs (`services/recovery_runtime.py`, `admin_recovery.py`) | jobs, items, budgets, dependencies, dead letters | plan, schedule, cancel, dispatch, reclaim, reconcile | an item, its work, its message and its worker move independently | one job owns a work; reports are true; cancelled jobs settle |
| Ingest (`ingest/`) | `pipeline_ingest_requests`, temporary and canonical objects | accept, materialize, attach duplicates | same bytes at once; objects put before a commit | one file per hash; every file has its original |
| Crawler and backfill (`crawlers/telegram/`) | a channel's checkpoint and history cursor, source posts, backfill jobs, the session's state | listen, sweep, catch up, claim and read pages of history, stop, restart | three readers with stale copies of the channel row; disconnects, flood waits, lost leases | no post between cursor and checkpoint is left out; reading ends |
| Merge and dedup (`content_merge.py`, `sha_reconciliation.py`) | memes, files, sources | merge in one transaction | deliveries for files of both memes | every source keeps a meme |
| Index sync (`search_index_sync.py`) | sync-target snapshots | claim, batch, outcome | index ahead of or behind the rows | an index converges to the rows |
| Scheduler (`scheduler/`) | advisory lock session | take the lock or exit, run jobs, stop | a session lost under a running scheduler | two schedulers do no harm |
| Captures (`source_engagement_*`, `source_channel_audience_*`) | schedules, leases, snapshots, the accounts' states | claim what is due, ask Telegram, record, defer, park | leases are times; a channel moves while it is asked; flood waits | a final snapshot stays; what is due is observed |
| Meilisearch settings, synonyms (`admin_search_synonyms.py`, `meilisearch_settings_reconcile.py`) | drafts and published revisions per locale, the desired and applied snapshots, the settings | save, reset, publish, retry; reconcile | the provider's tasks outlive the runs that wait for them; publications overtake runs; stale pages | the ledger is true; Meilisearch converges to what is published |
| Accounts and linking (`services/account_link_service.py`) | users with their identities, link codes, merge logs | sign up, sign in, issue and redeem a code, merge a guest | two row locks and unique keys per call, a second try after a failure | a guest is linked once, with all it collected; no deadlock |
| Admin Telegram login | login attempts | start, confirm, expire | one-time tokens | an attempt is used once |
| Collections, meme of the day | rows under locks | CRUD, pick | unique constraints | one pick per day |
| Reads: search, feeds, trends, recommendations, SEO, analytics | none of their own | queries | none | not a protocol |
| API, bot, frontend, adapters, migrations | none of their own | I/O, rendering | none | not a protocol |

`PROJECT.json` lists the same components with the files of each and its status,
and all hazards with the line where each one bites.

## 2. Modules

| module | kind | models |
|---|---|---|
| `AtLeastOnce` | abstract | what the outbox promises: committed, delivered at least once, reported only after a delivery |
| `Outbox` | component | the relay and the rebuild action |
| `OutboxProofs` | proofs | theorems about `Outbox` |
| `StageDelivery` | component | one pipeline stage of one file |
| `StageDeliveryProofs` | proofs | theorems about `StageDelivery` |
| `MediaGeneration` | component | one file's media |
| `MediaGenerationProofs` | proofs | theorems about `MediaGeneration` |
| `DependencyCircuit` | component | one provider's circuit |
| `DependencyCircuitProofs` | proofs | theorems about `DependencyCircuit` |
| `Ingest` | component | the requests, files and collections of one content |
| `IngestProofs` | proofs | theorems about `Ingest` |
| `RecoveryJob` | component | recovery jobs over stages and source posts |
| `RecoveryJobProofs` | proofs | theorems about `RecoveryJob` |
| `Crawler` | component | one channel's live, catch-up and history readers |
| `AccountLink` | component | the linking of guests to accounts |
| `Capture` | component | scheduled observation of posts and channels |
| `TelegramProofs` | proofs | theorems about `Crawler` and `Capture` |
| `SearchSynonyms` | component | synonyms, their reconciliation into Meilisearch, the scheduler's lock |
| `ServiceProofs` | proofs | theorems about `SearchSynonyms` and `AccountLink` |
| `MC*` | instances | constants, symmetry and constraints for TLC |

### `Outbox`

One row per message: `status`, `attempts` (`attempt_count`), `owner`
(`lock_owner`). Producers commit rows (`Publish`); relays claim a set of rows in
one transaction (`Claim`), send each (`Send`), and write the outcome in a later
one (`MarkPublished`, `MarkFailed`) which selects by id only, whatever the row
has become: that is what `_commit_message_update` does, and where the
interesting interleavings come from. `Send` may return, raise with the message
accepted, or raise without. `Crash` loses what a relay holds in memory.
`RecoverStale` may take any PUBLISHING row, also one whose relay lives, because
the code has nothing but a time to tell them apart. `item`, `begun`, `consumed`
and `fresh` are the newest recovery item of a message: its status,
`attempt_budget_start`, `retryable_failures_consumed`, and whether the row still
has the version the item expects (`updated_at`: every write of the row clears
it). `ceiling` is what the item that names the message grants
(`_recovery_attempt_ceiling`), `older` what it was before that item. Items of
stages, which spend their allowance in workers too, are not in this module.

A dispatch may raise, rolled back or committed (`DispatchRaises`), and is then
recorded in a session of its own, after other writes of the row
(`RecordFailure`): the item is queued again for the version the row has by then.
It is modelled as the code intends it; as the rollback expires `item.id`, it may
also never happen, and nothing makes `RecordFailure` happen here. `seen` and
`granted` are history variables: whether the row is as an operator was shown it
or as the recording took it over, and the most attempts it was ever granted.

`ImplementsPromise` states that this implements `AtLeastOnce` under the mapping
`phase`: absent, pending until published, delivered.

### `StageDelivery`

`row` is the stage's journal row, `next` whether the completion's fan-out
committed, `base[e]` the attempt number event `e` was dispatched with. A copy of
a message is somewhere (`place`), with its own `deaths` (the x-death count), so
`AttemptOf(c) = base + deaths` is `_effective_attempt`. A worker's `task` is a
handler between two awaits; `holds` is what its channel has not acknowledged,
which outlives the handler when the handler ends without answering
(`DeliverStale`, a late `FailRead`).

Actions follow `_process_stage_delivery`: `DeliverAndStart`, `DeliverDuplicate`
and `DeliverStale` are the three ways out of `start_stage_processing`, which
locks the row; `CompleteRead` / `CompleteCommit` are the two ends of a
completion, which does not; `FailRead` and `FailCommit` are the same of a
failure, for `mark_stage_failed` locks nothing and its session flushes at the
commit (`core/database.py`, `autoflush=False`); it is followed by `Reject` (to
the retry queue) or `Bury` (`_dead_letter_or_requeue`, which gives the message back
when the ledger cannot be written); `Abandon` is shutdown. `Reclaim` is the recovery
loop's treatment of a PROCESSING row nobody finished; `ReplayRead` /
`ReplayCommit` are an operator's replay of one item. `crossed` is history: the
row's failure was written over a row that had changed since it was read.

The stage is one of OCR, EMBED and CLASSIFY. The replay of the sync stages
(`pipeline/replay.py:267-350`) asks for no stage status, and a batch
(`:247-265`) reads several rows before it writes the first; neither is modelled.
TRANSCODE locks its completion and is in `MediaGeneration`.

Two abstractions of time, both from configured or structural bounds:

* `Reclaim` never runs while a handler is between its read and its commit
  (`Open`). The row has to be untouched for
  `pipeline_stuck_reclaim_after_seconds` (default 900, more than 60); a read and its
  commit are one database round trip apart.
* `MayCommit`: at most one other transaction commits to the row between the
  unlocked read of a transaction and its commit. Without this bound TLC finds
  behaviours in which a whole handler, provider call included, fits into that
  window. The race itself, one commit against another, is explored, for
  completions, failures and replays. The code does not have this bound.

### `MediaGeneration`

`gen[g]` is a row of `media_generations` (status, cleanup status, recovery
item), `stored[g]` the objects in S3, `pointer` the file's
`active_media_generation_id` together with the keys copied next to it, `job[w]`
a delivery, `gc` the collector, `deletion` the deletion of an orphaned private
meme. Every storage call is a step of its own that may fail; every commit may
raise although it happened (`Activate(w, raised)`).

The collector takes generations older than the seven days of retention. A
delivery does not take seven days, so the model's collector does not take a
generation a delivery is working on. Cancellation of an upload's thread and its
late effect is left out for the same reason.

### `DependencyCircuit`

`circuit` is the row, `call[p][s]` the calls of a process, `boot[p]` the number
of its starts: `OwnerOf(p)` is `role:boot_id`. `outcomes`
is a history variable for the properties: the errors and successes recorded so
far. `cooling` says that `retry_at` lies ahead; it ends some time after the
circuit opens.

### `Ingest`

Everything that happens to one content, that is, to one SHA-256. `request[s]`
is the row of source `s` (platform, source, post: unique), `tempOf[s]` the
temporary object it names, `temp` and `original` the two kinds of objects in the
store, `files` the rows of `meme_files` with the hash together with their memes,
`public` and `blocked` attributes of these, `saves` the rows of
`collection_memes`. `hashLock` is the transaction-level advisory lock of the
hash: taken by `AcceptDecide` and `Decide`, released by whatever ends the
transaction.

* `client[u]` is a call of `accept_bytes`: `AcceptReplay` or `AcceptFindsNone`
  (the unlocked lookup), `AcceptDecide`, then either `AcceptDuplicate` or
  `AcceptPut` and `AcceptCommit` / `AcceptRollback` with `AcceptCleanup`.
* `task[w]` is a media-inspect handler: `Deliver` locks the request's row and
  gives up when it is settled; `InspectInvalid`, `Decide`, `Resolve`,
  `PutOriginal`, `Materialize`, `DiscardTemp` follow `materialize`;
  `MaterializeFails` with `CleanupOriginal` and `InspectFails` are its errors,
  `Fail` and `Bury` what the handler makes of them.
* `removal[k]` is a removal from collection `k`, whose transaction deletes the
  row and counts the others in one step (`RemoveOpen`) and commits, perhaps
  deleting the meme, in another (`RemoveCommit`). `lock` is what the
  transaction happens to hold on the meme: a favourite's like count updates it,
  the user's first recommendation row locks it through its foreign key, other
  removals do not lock it at all. `Locked` is what an upload's
  `SELECT ... FOR UPDATE` waits for; a plain save waits for nothing.

`MEDIA_INSPECTING` is written and settled in the same transaction, so nobody
else sees it. A commit that raises was rolled back or took effect
(`AcceptCommit`, `Materialize`); the code cannot tell, and cleans up in both
cases (`AcceptCleanup`, `CleanupOriginal`). `raisedCalls` and `raisedFiles` are
history: whose commit took effect and raised.

### `RecoveryJob`

`job`, `item` are the two tables of Replay & Repair, `row[w]` the stage's
journal row or the source post a work stands for, `msg[w][e]` the outbox row and
the one broker copy of the `e`-th event minted for a stage, `letter[w][e]` its
dead letter. `raised` and `call` are what the telegram worker remembers between
transactions. `admitted`, `crashes`, `done` are history.

| actor | actions | code |
|---|---|---|
| admin | `Preview`, `Perform`, `Schedule`, `Expire`, `Cancel`, `OperatorReplay` | `admin_recovery.py`, `pipeline/replay.py` |
| dispatcher | `Dispatch`, `DispatchStale`, `DispatchWaits`, `DispatchRaises`, `RecordFailure`, `SkipDependent` | `recovery_runtime.py` |
| telegram worker | `BeginReplay`, `FetchFails`, `Observe`, `ReplayFails`, `ReplayUnsupported`, `ReplayBreaks`, `ReplayAccepts`, `CompletePost`, `RequeuePost` | the same file, post items |
| relay | `Publish`, `PublishFails` | `rabbitmq_outbox.py` with the item's broker budget |
| stage worker | `Deliver`, `Superseded`, `Complete`, `MarkFailed`, `Bury`, `FinishCancelled`, `Answer`, `RetryExpires`, `Abandon`, `WorkerCrash` | `runtime.py`, `stage_completion.py` |
| scheduler | `ReclaimAtLimit`, `Reclaim`, `Reconcile`, `ReconcileExhausted`, `RecountJob` | `recovery_runtime.py` |

A version string is abstracted to what comparing it tells. `fresh` says that a
dispatch would compute the version the item expects, apart from the dead letters
it linked (`links`); `seen`, that reconciliation charged the present version;
every write of a row or a letter clears what it must. `snap` is the row a stale
dispatch restores. `reserved` is the partial unique index that makes one live
item own a work. Budgets are counted as the code counts them: `start` and
`consumed` by the worker, `pub` by the relay. Failed publications and crashes
are bounded; leases of the outbox are in `Outbox`, several copies of a message
in `StageDelivery`. Telegram workers replay different posts side by side
(`BeginReplay`). Of one item's replays the model has one at a time: it assumes
that a replay has ended when its own item is claimed again, 15 minutes after it
was (`recovery_runtime.py:750-755`), its calls of Telegram being limited to 30
and 120 seconds (`core/config.py:325-326`). The kinds BACKFILL, SYNC_TARGET, INGEST and the
action REGENERATE are not modelled.

### `Crawler`

One channel of one account. `chan` is its row (checkpoint `last`, history
cursor, `initial_window` and `history_exhausted` flags), `post[p]` the source
posts, `ingested` the requests, `job` the backfill job. `reader[r]` is a reader:
the crawler process's sweep and live listener, and one per telegram worker. Each
has a database session that never reloads the channel, so `cur` and `seen` are
what it remembers and compares with; its commits write only the columns it
changed. That is the reason for the interesting races: two readers take a post
each, and the one that commits last does not see the other's checkpoint.

`HandlePost(r)` is the common path of a post (`Observe`, then `Refuse`,
`Resolve`, `Malformed`, `Unavailable`, `Flood`, `Raise` or `Accept`, then
`Advance` and `RecordAccepted`); the sweep around it is `BeginSweep`, `NextPage`,
`WindowEnds`, `SweepEnds`; pages of history are `Claim`, `BeginPage`, `PageEnds`
with `ClaimWaits` when historical admission is closed. `Interrupt`,
`CrawlerStops`, `WorkerStops`, `Reload`, `RetryIncomplete`, `Supervise` and
`Unpark` are what stops and restarts them. `Fate[p]` is what may go wrong with
post `p`. Pause and disable flags, edits and deletions of posts, banned
sessions, several channels per account, and the budget a recovery item gives a
backfill are not modelled; a SIGHUP reload is a stop and a start.

### `AccountLink`

`AccountLinkService` over `UserService` and `ProviderAuthService`. `owner[i]` is
the user who has identity `i` (a unique column), `saves[u]` what a user
collected, `code[k]` the link codes, `links` the upgrades and merges, `lock[r]`
the row locks, `call[c]` one request. A call takes its statements one by one:
`Begin`, `LockCode`, `Resolve` (who has the proved identities), `LockAccount`,
`LockNext` (both users, in the order of their ids), `Work` (its checks; unique
keys other calls wrote and did not commit make it wait), `Commit`. `Fails`,
`PostMortem` and `Again` are the rollback, the look at what others did
meanwhile, and the second try in a new transaction; `TimesOut` and
`DatabaseEnds` (a circle of waits) are the database's part; `IssueLock` and
`IssueCommit` issue a code.

`Resolve` is one read, and a call's start time and its snapshot are one step.
Users are always active; there are no custom collections; a later update of
`updated_at` is ignored. Passwords, tokens, sessions, suspension and deletion
are not modelled.

### `Capture`

Both capture schedulers, their handlers, and the changes an operator makes.
`next[t]` is the due slot of a post or a channel, `lease[t]` the claim (a time
in the code: free, held, or stale once the timeout is over), `snap[t][k]` the
snapshot of slot `k`, `status[s]` the account's row and `truth[s]` what Telegram
makes of it. `batch` is what a run of the scheduler read of the accounts before
it claims (`LoadSessions`, `ClaimDue` are two statements of one transaction,
and others commit between them); `queue[m]` the
copies of a message; a handler takes a message (`Take`), asks (`Fetch`), and
records, parks or answers (`Record`, `Park`, `Ack`), or fails (`Raises`,
`Dies`, `ChannelCloses`). `Revoke`, `Repair`, `Assign`, `Pause`, `AddAgain` are
Telegram's and the operator's. Slots stand for the checkpoints of a post's age
and the daily captures of a channel; metric values are left out.

### `SearchSynonyms`

`draft[l]`, `published[l]` and `archived[l]` are the revisions of a locale's
catalog, `sync` the one row of the ledger, `tx[l]` an open publication. A text
stands for what it compiles to, `KeysOf[t]`; texts collide when they share a
key. Requests of admins (`SaveDraft`, `ResetDraft`, `PublishBegins`) may come from
any page (`Accepted`): the version that fences them is a number that starts at
one again with every publication, so a page of an earlier draft can have the
present one's (see the observations). `PublishBegins` is what a
publication does once it has its locks, `PublishCommits` and `PublishFails` its
end.

`holder` is the advisory lock: `Starts` takes it or the process exits, `Stops`
is a stop or a crash, `LosesLock` the end of the session under a scheduler that
goes on, for nothing looks at that connection again. `run[s]` is a
reconciliation: `RunBegins` reads the published snapshot and refuses what it
cannot trust, `ReadSettings`, `RecordSyncing`, `Submit`, `TaskEnds`, `Verify`,
`Record` follow, each write in a transaction of its own that compares the
snapshot again; `SubmitFails`, `WaitTimesOut`, `ReadFails`, `RunBreaks` are the
errors. `settings` and `tasks` are Meilisearch, which carries out its queue in
order (`Carry`); a task nobody waits for stays there. A superseded run starts
again at once and a finished one after the interval; both are `RunBegins`. The
row's `version`, timestamps and task number, and the confirmation of large
reductions, are left out.

## 3. What is checked

`CHECK_DEADLOCK FALSE` appears in the configurations (not in that of `synonyms`, whose scheduler
never stops) because each of these models really stops: when every bounded supply (messages,
attempts, events, generations, boots) is used up, nothing is left to do.

| run | instance | shows |
|---|---|---|
| `outbox` | 2 messages, 2 relays, 2 attempts, and one row rebuilt; 0.29 M states | `PublishedWasAccepted`, `AttemptsWithinBudget`, `OneCopyPerAttempt`, `RebuildOnlyWhatWasSeen`, refinement of `AtLeastOnce`, `EventuallySettled` |
| `stage` | 2 workers, 3 events or 2 with the first message twice, 3 attempts; 1.5 M states | `NothingIsLost`, `AttemptsNeverRegress` |
| `stage_channel_loss` | 1 event, 1 copy, channels may close | `WaitingIsOwned` fails (below) |
| `ingest` | 2 calls for one upload, 1 crawled post, 2 copies of the upload's message or 1 commit that took effect and raised, 2 workers, 1 collection, 2 files, 2 attempts; 2.8 M states | `NoMatchHolds`, `OriginalIsStored`, `PendingCanGoOn`, `SettledForGood` |
| `media` | 2 deliveries, 1 recovery item, 3 generations (2 when the meme is deleted); 2.2 M states | `ActiveIsPlayable`, `NothingLeaks`, `RetiredForGood` |
| `circuit` | 2 processes with 2 calls, 2 kinds of error, threshold 3; 0.13 M states | `OpenAndFenced` |
| `circuit_stuck` | 1 call each, threshold 2, fair | `HalfOpenEnds` fails (below) |
| `recovery` | five worlds of jobs (below), one process loss; 0.26 M states | `OneOwner`, `ReportIsTrue`, `OutcomeStands`, `CancelEnds` |
| `crawler` | 3 posts, pages of 2, 2 workers, 3 starting states; 1.04 M states | `NothingSkipped`, `ReadingEnds` |
| `link` | every three of six calls and two sets with the issue of a code; 0.29 M states | `LinkedAsTold`, `NoCircleOfLinks` |
| `capture` | 1 post, 1 channel, 2 accounts, 2 handlers, one trouble; 37 000 states | `NeverBehind`, `RecordedOnceForItsOwner`, `DueIsObserved` |
| `synonyms` | 2 locales, 4 texts, 3 changes, 2 schedulers, one trouble, 3 starting states; 0.25 M states | `LedgerIsTrue`, `Converges` |

Every passing run also checks its module's `TypeOK` (`CrawlerTypeOK`, `LinkTypeOK`).

Every property has a mutant: a plausible slip in the code (a dropped guard, a
comparison one off, an unfenced write) written next to the definition it
replaces, under which the same run reports a violation.

### Why the bounds are enough

* Two relays, workers or deliveries are the two sides of each race. A third adds no new
  pair, but it may add a new chain of pairs: three workers lose the message of a stage that
  was handed on (see the observations), which is why `NothingIsLost` says nothing of
  such a stage. What it does say is proved for any number of workers, as are the
  safety properties of the other runs. Two messages are needed because a claim
  takes several.
* In `stage`, three events are a first dispatch, a reclaim's and a replay's;
  the duplicate of the first message is the outbox sending twice, explored with
  two events (`TwoCopiesOrThreeEvents`; the 6.4 M states without this bound passed too).
  Three attempts are a first, a retry and a last one.
* In `media`, three generations are one active, one in flight and one to retire
  between them. While the meme is deleted two of them are explored
  (`FewWhenDeleted`); the space without this constraint, 24.6 M states, passed
  too but takes longer than a run should.
* In `ingest`, two calls with one identity meet at the unique constraint, two
  identities with the same bytes meet at the advisory lock, two copies of a
  message and two workers meet at the request's row. Two file ids are one file
  and the one made after its deletion, or after a failed attempt; with both
  issued no further `PutOriginal` is possible. `Save` is by anyone who sees the
  meme. One trouble at a time (`OneAtATime`): the upload's message is doubled, or one
  commit takes effect and raises, or a removal is under way. With removals at
  any time there are 5.2 M states; that passed too but takes longer than a run should.
* In `circuit` the threshold is the code's three.
* In `outbox`, one ordinary retry of two rows shows a late outcome of a first
  attempt meeting a second one while the batch has a further row. Rebuilds are explored
  on one row (`OneRowIsRebuilt`), since they concern no other: two attempts each, and
  `AttemptBound` leaves room for a second item or a second dispatch.
* `recovery` explores five worlds: a stage and its dependent (each may be the
  one that failed); a recovery and a replay of the same stage, which compete for
  it; two replays of one source post; a recovery whose publications may fail
  and whose stage operators replay as well; and a replay that is retried while an
  operator replays its stage. A job's retry limit is 1 or 3, the
  broker's maximum 3; one crash of any process; two events for the stages that
  are reclaimed or contended, one for the others.
* `crawler`: three posts with pages of two make a full page, a rest, and a post
  published meanwhile. Two tries at a post and two attempts at a page are a retry
  and giving up; the code has 3 and 5. One lost connection, one lost process and
  one lost lease. The three starting states are a new channel, an old one whose
  history an admin may ask for, and both at once.
* `link`: all calls are by one person, whose Telegram, Google and mail identities
  may have an account already: the two sides of a merge. The six calls are a
  redemption, the same tapped again, sign-ins by Google and Telegram, a login and
  a signup. The sets with an issued code are kept small because issuing expires
  earlier codes.
* `capture`: an account with the target and one it may move to, a message and
  its redelivery or the message of a later claim, and one trouble of any kind
  (a failed call, a flood wait, a revoked or banned account, a lost handler or
  channel, a change by the operator). Either the channel is due at first, or the
  post at its last slot, or the post at the slot before. In the third world the
  trouble is a ban and no lease runs out (`OnlyABan`): it is there for what a ban
  does to a post that has a slot left.
* `synonyms`: three changes replace a publication and publish the former text
  again while a task of the first is still queued; two locales have texts that
  collide; one trouble is what leaves a task behind or starts a second scheduler.
  The three starting states have nothing published, one locale published and in
  sync, and one locale published by an older compiler.
* `AttemptBound`, `MaxEvents`, `MaxGenerations`, `MaxFiles`, `MaxBoots`, `MaxProbes`,
  `MaxOutcomes`, `MaxCrashes`, `MaxFailures`, `MaxDrops`, `MaxStales`, `MaxCopies`,
  `MaxNow`, `MaxActs` and `MaxTroubles` bound what the code does not bound; each is a guard of the
  action it bounds, and nothing else. `MaxOutcomes = 0` means no recording is
  counted in the history, which liveness needs and no property there reads.

### Fairness

`outbox`: a relay that does not crash takes its next step; the
scheduler's batch claims due rows and recovers stale leases
(`rabbitmq_outbox_runtime.py:48-84` does both on every run); the recovery tick
reconciles. Producers, operators, dispatches, the recording of their failures and crashes
are not fair, and a relay may crash again and again: attempts run out, which is
why `EventuallySettled` holds.

`recovery`: the scheduler reclaims stuck stages and reconciles dispatched items
and live jobs on every tick; the relay and the stage workers are restarted when
they stop, so each event's next step is taken; the telegram worker's replay goes
on or its failure is recorded. Admins, operators, dispatches of new items and
crashes are not fair.

`crawler`: a sweep that started goes on, each worker goes on with its page, and
some worker claims a queued page when historical admission is open. Nothing is
promised of Telegram, stops and restarts.

`capture`: the schedulers' jobs run again and again, a queue with messages is
served (one consumer per account), handlers go on, leases and flood waits run
out. Nothing more is assumed of accounts: a handler that met an earlier wait parks
its account again after it was resumed, and may do so for ever. `DueIsObserved` names
these behaviours itself (`KeepsParking`).

`synonyms`: a publication's transaction ends, some scheduler starts when nobody
has the lock, each running scheduler goes on with its reconciliation (an interval
job), and Meilisearch carries out what it accepted. Troubles are bounded, not
excluded.

`circuit_stuck`: calls are admitted when they can be, admitted calls record
their outcome (strong fairness, for a restart may interrupt any one of them),
the cooldown ends. Nothing forces a restart; one is enough.

## 4. The properties

Outbox:

* `PublishedWasAccepted`: a row says PUBLISHED, and an item SUCCEEDED, only if a
  copy is in the broker, although outcomes are written late and unfenced.
* `AttemptsWithinBudget`, `OneCopyPerAttempt`: an attempt is counted before its
  message leaves, so that copies in the broker are bounded by the budget
  whatever crashes. The budget is what is in force or, when an item went back in
  the queue and no longer is, what a dispatch of it had granted (`granted`).
* `RebuildOnlyWhatWasSeen`: a row is reset only if nothing has changed it, there and back
  included, since an operator was shown it. The exception is named: after a
  dispatch that raised, since the recording of that failure, which takes the row's
  version over unseen.
* `EventuallySettled`: no crash leaves a row in PUBLISHING for good; a dispatched
  rebuild is reported one way or the other or queued again. Exempt is a row that a
  second dispatch of one item reset at the limit of its attempts (`Stranded`).

Stages, media and circuits:

* `NothingIsLost` is two parts. `WaitingIsOwned`: nothing in the code looks for PENDING or
  retryable FAILED rows, so each must have a copy that will start it: unsettled and not older
  than the row's attempt. `TerminalIsRecorded`: a terminal failure has a dead letter, or its
  message is still there; stated for the first event only, since a replay takes the dead letter
  over. Two cases are exempt, because in both the code can lose the message (see the
  observations): a stage that was handed on (`next`) and fails again for a late handler, and a
  failure written over a row that had changed since it was read (`crossed`).
* `AttemptsNeverRegress`: the fence against stale handlers works only if
  `attempt_count` never falls.
* `ActiveIsPlayable`: both objects of what the file points to are stored, and it
  is the one ACTIVE row.
* `NothingLeaks`: at most one generation is being made, a generation whose
  cleanup says DELETED has no objects, and stored objects always have a row from
  which something will delete them. Generations reserved between the reads and
  the commit of the meme's deletion are exempt: the code does not purge those
  (`collection_service.py:1366-1395`).
* `RetiredForGood`: a retired generation never returns.
* `OpenAndFenced` is two parts. `OpenForAReason`: the circuit opens only when the history of
  recorded outcomes has the threshold of one kind of error with no success since.
  `ProbeIsTheOwners`: while the circuit is half-open, calls carrying its probe are of the
  process it names.

Ingest:

* `NoMatchHolds`: "no file has these bytes", read under the advisory lock, is
  still true when the object is stored and the rows are inserted. A key computed
  from another hash, or a lock that ends early, would break it.
* `OriginalIsStored`: a file's original is in the store while cleanups of failed
  attempts and purges of deleted memes remove others. Exempt is a file whose own
  commit took effect and raised: the code deletes its original.
* `PendingCanGoOn`: losing calls, rollbacks and finished deliveries never remove
  the temporary object a pending request names, and the request has a copy of its
  message or a dead letter. Exempt, for the object, is the request of a call whose
  own commit took effect and raised.
* `SettledForGood`: a request is resolved once.

Recovery jobs:

* `OneOwner`: one job at a time works on a row, through retries, reclaims and
  cancellation, and what ended or was never scheduled holds nothing.
* `ReportIsTrue`: a settled job has nothing under way, "completed" hides no
  failure and no skipped step, a succeeded item's work was done under its own
  event, a dependent went only after its parent's work, and only an item that
  succeeded resolves a dead letter.
* `OutcomeStands`: no late delivery, failure record or reclaim changes the outcome of an item or
  revives a settled job, and finished work of a stage item is never reported failed or stale,
  although budgets, reclaims and snapshots move independently of it. Only another event of
  the same stage can take the row over (`TakenOver`): an operator's replay, or a copy an
  earlier item left in flight (see the observations).
* `CancelEnds`: a cancelled job settles, except where a dispatched item is
  `Stranded`: failed at the reclaimer's attempt limit with budget left, reclaimed
  into an event the spent budget forbids to publish, a post left observed by a
  replay that is over (three ways the code has), or out of the model's events.

Crawler:

* `NothingSkipped`: from the history cursor to the checkpoint every post was
  ingested or given an outcome, whatever raced; exempt is what a live post or a
  restarted initial window left behind, recorded when it happens.
* `ReadingEnds`: a catch-up ends however many posts fail, and a backfill job ends
  although posts are quarantined, pages retried and owners stale.

Linking:

* `LinkedAsTold` is two parts. `LinkedWhole`: a guest is upgraded or merged once, and what it
  collected, also while the merge ran, is with its heir. `AnswerIsTrue`: "linked" means that the
  account has the proved identity; "completed elsewhere" is said only of a guest that was
  linked.
* `NoCircleOfLinks`: linking calls never wait for each other in a circle.

Captures:

* `NeverBehind`: a target is never due at a slot that has its observation, which
  every later claim would answer as a duplicate and leave due.
* `RecordedOnceForItsOwner`: a final snapshot is immutable, and a channel's answer
  is recorded only for the account that has it, unpaused and due at that slot.
* `DueIsObserved`: what is due is observed, unless Telegram said that the post is
  not there (`Gone`), the channel is paused or the account needs an operator. Two
  losses of the code are exempt by name: a post that exists and that a banned account's
  answer marked as not accessible (`TakenForGone`), and accounts that handlers
  park again without end (`KeepsParking`).

Synonyms:

* `LedgerIsTrue`: no key is published in two locales; what the row desires is what
  is published; and SYNCED is said only of the present publications, and only
  when Meilisearch had exactly their synonyms at some time since, whichever runs
  of two schedulers, publications and left-over tasks overlap.
* `Converges`: in the end Meilisearch has what is published and the row says so,
  unless what is published cannot be trusted (another compiler's) or is nothing.

### Two disagreements with the documentation

1. `stage_channel_loss`. A redelivered message is acknowledged as a duplicate
   while the handler that holds its first delivery still runs. If that
   handler's channel is the one that closed, its own answer goes nowhere; when
   its provider fails, the stage is FAILED and retryable, with attempts left and
   no message. `docs/tech-design/04-content-pipeline.md:497`: "No message is
   silently lost."
2. `circuit_stuck`. The process that owns the half-open probe dies. Its
   successor has another `boot_id`, and a probe has no expiry.
   `docs/ops/recovery-control-plane.md:151-152`: "one fenced half-open probe is
   admitted. A success closes the circuit; a failed probe reopens it."

### Further observations

Made while modelling; where a hazard of `PROJECT.json` is about one it says so
there. None of them has a run of its own.

Outbox. When the dispatch of a rebuild raises, its failure is recorded in a new session
and the item is queued again for the version the row has by then
(`recovery_runtime.py:1976-1995`): what happened to the row in between, perhaps
a whole attempt, is reset by the next dispatch although no operator saw it. A
dispatch that raised at its commit may have taken effect. Then the row may be claimed
before the failure is recorded; the recording reports the item as stale although
its rebuild went through, or, when the row failed meanwhile, queues it again, and
the second dispatch resets the row under a ceiling its attempts have reached. Such a
PENDING row is claimed by nobody and found by nothing (`Stranded`).

Stages and circuits. Only PROCESSING and SUCCEEDED rows make a second copy of an
event a duplicate: after the first copy's provider failed, the second runs the
provider again for the same attempt
(`docs/tech-design/04-content-pipeline.md:504-506` says it cannot). After such a
second run handed the work on, a third worker that fails an older event and is
shut down can leave the row FAILED and retryable with attempts left and no message:
its commit and the second worker's change different columns, so that the row names
an event whose message is acknowledged (three workers, two events, the first event's message
twice; the attempt to prove it without exemption found it). Nothing downstream is
missing, for the next stage was dispatched. Two workers lose a message when a
replay meets a retry of the same stage, so that two events have one attempt
number: the first event's handler fails and reads the row, the second's starts and
commits, and the failure is written over that. As only changed columns are written,
the row is FAILED and retryable under the second event. A shutdown of the first
handler before it rejects takes its event for superseded and acknowledges its message;
the second event's, redelivered meanwhile, is acknowledged as a duplicate
(`stage_completion.py:592-694`). Stale
deliveries can stay unacknowledged; late outcomes move a circuit they do not
belong to.

Media and collections. Generations reserved in the deletion window are not
purged; two removals can each leave the deletion of an orphan to the other. A
removal counts the remaining saves of a meme without a lock and later deletes it
by id (`collection_service.py:1325-1341`): a save or an upload that commits
between the two, and was answered, is deleted with the meme, although
`docs/prd/07-collections.md:51` has it "deleted from storage when removed from
all collections".

Recovery. A step whose parent has a dead letter is always skipped as changed, for
resolving the letter moves the version it expects (`admin_recovery.py:3526-3530`
against `recovery_runtime.py:850-851`; `docs/ops/recovery-control-plane.md:46`,
`:59`). After a dispatch raised and was rolled back, the
handler reads `item.id`, which the rollback expired
(`recovery_runtime.py:502-505`). Of the strandings that `CancelEnds` exempts, the
first is at `recovery_runtime.py:563-565`: at the attempt limit the reclaimer
fails the stage as retryable and mints no event, while the item has budget left
and is not ended. While an item's event waits in the retry queue its row is FAILED and
retryable, and the operators' replay (`api/routes/v1/pipeline.py:252`) looks at no
reservation: it mints a second event with the attempt number the retry will have.
Neither supersedes the other; if the item's is handled first, the other takes the
row over, and the item is reported stale although its work was done. The same
can come of a copy that an earlier item left behind. A publication may raise after the
broker accepted it; once the broker budget is spent, reconciliation ends the item
and puts the row back as it was (`recovery_runtime.py:1306-1367`). The next
job's item is dispatched with the same attempt number, and when its work is done
the first job's late copy is not stale: it takes the row, and the second item is
reported stale. TLC finds it with a second job on the same stage and one failed
publication, a world larger than those of run `recovery`.

Ingest. After a commit that raised the code deletes what it stored, also when the
commit took effect: `materialize` the original of the file it made
(`materializer.py:178-188`), `accept_bytes` the temporary object of its pending
request (`accept_service.py:335-358`). The file then has no original until its
meme is deleted; the request's handlers fail to read it until it is
dead-lettered.

Crawler. A listener that is restarted without a catch-up leaves a gap that the
next live post's checkpoint hides (`manager.py:351`, `models/content.py:1066-1067`;
`docs/ops/content-pipeline-telegram-crawler.md:417-419`).

Linking. The second try of an anonymous sign-in merges a guest that its rollback
took away (`account_link_service.py:381-386`). The look after a failure compares
the times of flushes, not of commits. Issuing a code locks the guest and then its
codes, a redemption the other way round: a circle the database must break, and
the bot does not catch that error (`bot/linking.py:108-130`). The mark "redeemed"
is rolled back with the first try, so a code can stay active after its guest was
merged. A timeout may fire at the commit and answer a failure that succeeded.

Captures. An engagement capture through a banned account marks posts as not
accessible for good, although they exist (`source_engagement_capture.py:365-383`):
after the account was repaired or the channel moved they are never observed
again, where `docs/ops/content-pipeline-telegram-crawler.md:795-808` has the slot
stay due until the repair, as a channel's does; revoked authorization
fails for ever without parking the account. A late flood wait overwrites
"quarantined" and "auth required" (same file, `:738-741`). A failed capture keeps
the oldest slot and claims are oldest first with a limit per account, so targets
that fail for ever starve newer ones. A message clears a newer claim's lease when
the slots are equal. Queued messages can park an account again whose wait is over
(`manager.py:1053-1065`).

Synonyms. A draft's versions start at one again after each publication
(`admin_search_synonyms.py:280-294`), so a page of the draft before it can pass
for one of the draft after it, and what is replaced or published was not on the
screen (`docs/prd/09-policy-and-admin.md:226-228`); a publication sent twice may
be carried out twice. A settings task whose wait timed out, or whose scheduler
stopped, is carried out later: when the former synonyms were published again
meanwhile, it overwrites them while the row says SYNCED
(`docs/tech-design/03-search.md:188-190` says it cannot), until the next periodic
run. After its session was lost a scheduler goes on beside its successor
(`docs/research/meilisearch-synonym-behavior.md:361`). A retry is refused after a
snapshot that could not be trusted, for the row then desires nothing.

## 5. What is proved

### `OutboxProofs`

`OutboxProofs` proves, for any sets of messages and relays and any limits,

    IInv == TypeOK /\ Budgeted /\ Copied /\ Fenced

invariant, and from it `TypeOK`, `PublishedWasAccepted`, `AttemptsWithinBudget`,
`OneCopyPerAttempt`, `RebuildOnlyWhatWasSeen` and `ImplementsPromise`. The
assumptions are those of `Outbox`: positive limits, `NoRelay` and `NotSent`
different from what they stand beside.

Why the conjuncts are needed:

* `Budgeted`: a PENDING row no item grants anything was never attempted (so its
  claim, which has no guard on attempts, stays within the maximum), attempts are
  within the budget in force or within what was granted, and a queued item is not
  in force and has some of its allowance left.
* `Copied`: every lease, every outcome not yet written and every copy carries an
  attempt that was counted, and no attempt is in two places. Without it nothing
  says that a late `MarkPublished` follows a copy, which is what
  `PublishedWasAccepted` and the refinement's `Report` step need.
* `Fenced`: only a PUBLISHING row has an owner; a row whose version a queued item
  still expects is as it was shown or taken over (`seen`), for every write moves
  the version; and only the recording of a failure, which counts it, takes over.

The proof has one step per action and one below it per conjunct the action
disturbs; `ImplementsPromise` shows that every step is a step of `AtLeastOnce`
or leaves `phase` and `copies` alone.

### `IngestProofs`

`IngestProofs` proves, for any calls, sources, collections, workers and bounds,

    IInv == TypeOK /\ HandlersOK /\ LockInv /\ RowInv

invariant, and from it `TypeOK`, `NoMatchHolds` and `SettledForGood`. The
assumptions are those of `Ingest`: calls and workers are different processes,
the marks `Free`, `NoTask`, `Crawler` are none of what they stand beside, and
the bounds are positive.

* `LockInv`: a call or handler that has decided and not ended holds the advisory
  lock, and one that decided "no file" sees none. As the lock has one owner, no
  second decision and no insertion come in between; removals only delete files.
* `RowInv`: a handler before its commit has a pending request, and no two
  handlers have the same one open. This is what the row lock of
  `load_locked_ingest_request` gives, and it makes every settling step start
  from a pending request, which is `SettledForGood`.
* `HandlersOK`: two handlers never have the same copy, so that settling one
  does not take the other's away, and a handler that stored an original has the
  id of its file, which `Materialize` inserts.

Steps are grouped by actor (`NextCases`); `TaskMoves` and `TaskEnds` say once
what a handler's step does to the handlers and to the copies they hold.

Two more theorems have an inductive invariant of their own on top of `IInv`.

* `OriginalsStay` (`OriginalIsStored`) rests on `Originals`, which is about whose id an
  original has. Every id in use was issued; a handler that stored an original
  has an id no other handler and no removal has and no row yet (`Unshared`, `NotYetARow`),
  so that its cleanup takes nobody else's away, unless its own commit took effect and
  raised (`TakenForFailed`); a purge's file has lost its row (`NoLongerARow`).
* `PendingRequestsGoOn` (`PendingCanGoOn`) rests on `Pending`, which is about who may
  remove bytes and messages: a request's temporary object is one object
  (`OneObject`), that of a call whose commit took effect, which ended or is going to
  clean up because the commit raised (`OfEndedCalls`); only handlers of settled requests discard
  or acknowledge (`DoneWhenSettled`), and a copy of a pending request is gone only
  by way of the ledger.

### `StageDeliveryProofs`

For any workers, events, duplicated messages and attempts,

    IInv == TypeOK /\ Numbered /\ Known /\ Channels /\ Bounded /\ UntilHandedOn

is invariant; from it `TypeOK`, `AttemptsNeverRegress` and `NothingIsLost`
(`MessagesAreKept`).

* `Bounded` is the arithmetic of the fence. A copy is at most one attempt ahead of
  the row, what a worker has started is not ahead at all, and what an unlocked
  transaction has read is at most one attempt behind when it commits. The last
  is the bound `MayCommit` of the model (one other commit in the
  few milliseconds between a read and its commit); with it, no flush of changed columns takes
  `attempt_count` back.
* `Channels`: a copy is on one channel at most and a handler's on its own.
* `UntilHandedOn` says, with the exemptions of `NothingIsLost`, which message owns waiting
  work or an unrecorded failure: one of the row's own event and not behind it, so that no delivery
  takes it for stale and no shutdown for superseded, and its worker is not about to
  acknowledge it.

Why the exemptions: without the exemption of `next`, `NothingIsLost` holds with the two workers of run
`stage`, but the attempt to prove it for any number met the three-worker
behaviour described under further observations, which is one of the code. `crossed` is a
matter of two, and TLC found it once the read and the commit of a failure were
two steps.

### `MediaGenerationProofs`

For any number of deliveries, recovery items and generations, `IInv` is `TypeOK` with

* `Numbered`: the next generation number is fresh;
* `Jobs`: a delivery past its reservation has a generation to itself, and deletes
  only a retired one; `Collecting` and `Deleting` say the same of the collector
  and the deletion;
* `Whole`: an UPLOADED generation has both objects; `Retained`: only an ACTIVE
  one is kept from the collector; `Present`: what has objects is on
  record and not DELETED;
* `ActiveIsPlayable` and `OneInFlight` themselves.

From it `TypeOK`, `ActiveIsPlayable`, `NothingLeaks`, and `RetiredForGood`. Three
parties delete objects; each acts on a generation it saw retired, perhaps long ago,
and `RetiredForGood` is what makes that safe.

### `DependencyCircuitProofs`

For any processes, prefetch count, kinds of error and threshold, `IInv` is `TypeOK`,
`ProbeIsTheOwners`, `Numbered` (calls carry the number the circuit had when they
were admitted, never a later one) and `Reasoned` (the row's counter counts equal
failures at the end of the history). It gives `TypeOK` and `OpenAndFenced`. The
latter assumes `MaxOutcomes # 0`: with 0 the model keeps no history of outcomes, and
`OpenForAReason` is about that history.

### `TelegramProofs`

**`Crawler`.** For any posts and what may go wrong with them, page sizes, retry limits,
workers and faults,

    CrawlerInv == Shapes /\ Reaches

is invariant; from it `CrawlerTypeOK` and `NothingSkipped`. `RowsAtTheStart` says of the
scenarios what the crawler leaves: a channel that is new, or one between whose
cursor and checkpoint every post was accepted.

`NothingSkipped` is about the row's cursor and checkpoint and is not inductive: a
reader compares with a copy of the row it read long ago and then writes its own post
over it, so the row's checkpoint may become one that nobody but this reader knew. The
conjuncts:

* `Shapes`: a page is in the channel, within its limit and above (the sweep) or below
  (a worker) the post at hand; a reader compares with one checkpoint; there is no
  backfill job before the initial window.
* `Covered` says what `NothingSkipped` says of every checkpoint and every cursor anybody
  remembers (`IsTop`, `IsBottom`), so it does not matter whose copy becomes the row's.
* `ForwardReaches`, `OlderReaches`: between the checkpoint a forward page starts from and a
  post in hand, and between a post in hand of an older page and any checkpoint, there
  is nothing that is neither known nor in hand. This is where page boundaries,
  pages in memory and failed posts come in.
* `WindowReaches`, `NewChannel`: the same for the initial window, which moves both ends
  and may be read again after a stop: the newest posts may then be others.

The proof says once what a step must do for each part to stay: knowledge grows, a
new checkpoint leaves nothing out above one somebody had, no new cursor appears, posts in hand
leave it only for what is known (`KnownGrows`, `TopsKept`, `BottomsKept`, `HandKept`, ...).
It then shows this of each action.

**`Capture`.** For any posts, channels, accounts, handlers and troubles,

    IInv == Typed /\ NeverBehind /\ Past /\ Sent /\ Answered

is invariant; from it `TypeOK`, `NeverBehind` and `RecordedOnceForItsOwner`. A handler
records with what it knew when it took its message, after other claims went on.
That a late record cannot take the schedule back rests on three facts: what was observed is
not in the future (`Past`); a message is about a slot that has come, and a
post's is answered or still the one the post is due at (`Sent`); and an answer's time is not
before its slot (`Answered`).

### `ServiceProofs`

**`SearchSynonyms`.** For any locales, texts and schedulers,

    IInv == CatalogsOK /\ SyncOK /\ RunsOK /\ QueueOK /\ LockOK /\ CountsOK

is invariant; from it `TypeOK` and `LedgerIsTrue`. `ScenariosAssumption`
says of the rows at the start what publications and runs leave: the published
revisions are older than the drafts and combine, and the sync row speaks of them.

* `CatalogsOK`: there is one publication under way, and what it is going to desire is the present
  publications with its own; so what it compared still stands when it commits.
* `RunsOK`: a run's snapshot is older than every draft. Revision numbers only
  grow, so a snapshot that was superseded never is current again, and comparing it with the
  present publications (`_snapshot_is_current`) is enough even for a run whose lock
  was lost to another scheduler's.

**`AccountLink`.** For any users, calls, identities and codes, `LinkInv` is `LinkTypeOK` with
the conjuncts below; from it `LinkedAsTold` and `NoCircleOfLinks`. Of the constants it
assumes that ids are numbers (their order is the order of locking), that the account a
signup may create has an id of its own (`FreshAreFresh`), and that a call proves one identity, a Google one
perhaps with an address (`OneIdentityIsProved`).

* `OwnersLive`, `HasTarget`: an identity's owner exists and an account stays one, so the
  target a call resolved before it had any lock is still an account when it has them.
* `LocksInOrder`: a call holds only rows below the one it waits for.
* `GuestIsHeld`, `AboutToCommit`: from its turn at the guest's row on a call holds
  it, so what it found of the guest when it worked (still a guest, what it had saved) is so at the
  commit; `WritesApart`: two calls about to commit write different unique keys.
* `LinksOK`, `GivenOK`: a linked guest is gone or no guest, hence is not linked again;
  what was saved by a user that is gone was saved by a linked one.

`NoCircleOfLinks` follows without a further induction. In a circle every call waits and is
waited for, which leaves only calls that wait for a user row: one about to commit
waits for nobody, and a unique key is kept only by one about to commit. Among them is
one waiting for the least id (`LeastNumber`); whoever waits for it waits, by
`LocksInOrder`, for a lesser one. The number of calls does not matter, so no induction along the
circle is needed.

### `RecoveryJobProofs`

For any jobs, items, works, plans, retry limits and bounds,

    IInv == TypeOK /\ Shape /\ OneOwner /\ Plans /\ Truth /\ Letters_ /\ Outcomes /\ Reports

is invariant; from it `TypeOK`, `OneOwner`, `ReportIsTrue` and `OutcomeStands`.
Of a plan it assumes what the tables enforce (a job has one item for a work,
`uq_recovery_job_items_target`) and of the rows at the start that nothing is
under way (`RestingRows`).

* `Plans` says of an item where its job is (`Fits`), where the worker is with it
  (`InTurn`), which event and snapshot it has from its dispatch on (`Numbered`),
  and that it and its parent earned what they report (`Earned`). The snapshot
  has to be true too, for restoring it makes it the row.
* `Truth`: a row says "succeeded" under an event only when the event was handled to
  the end; an event so handled has no copy left, and one not minted has none yet; a
  row being processed is so by the delivery of its own event.
* `Outcomes` is what `OutcomeStands` needs. While the row has the item's
  event, it shows finished work (`Shown`); and unless somebody else had an event
  for the stage, the row keeps the item's event, because every older copy is behind the
  row's attempt count and none of them will be retried (`Unrivalled`).
* `Letters_` and `Reports`: who resolved a letter succeeded, and a settled job's
  status is what became of its items.

The proof does not meet each of the thirty-odd actions in each conjunct. It first
reduces an action to what becomes of each item and job (`ItemMove`, `JobMove`:
planned, admitted, sent, moved along, ended) and of each row and copy
(`WorkMove`: minted, relayed, carried, returned, started, failed, completed,
given up, restored), then proves each conjunct from these moves alone.

`Unrivalled` is where the proof changed the model: "unless an operator replayed the
stage" was not enough, and TLC confirmed it with the late copy described under
further observations. `TakenOver` now names both.

### Only model-checked

All liveness (`EventuallySettled`, `CancelEnds`, `ReadingEnds`, `DueIsObserved`, `Converges`): fairness and
ENABLED are out of the prover's reach. So is induction along data by an operator: where a
proof needs an extremal element of a set of numbers, it takes it from the order on the naturals
being well-founded (`LeastNumber`), which the library states of a set and not of an operator.
Every other invariant and action property of a passing run is a theorem.

## 6. Plan and limits

In order:

1. Still to model: capacity hysteresis with a reference definition; index sync
   batches (`search_index_sync.py`); content merges; the admin's Telegram login; several stages with
   the fan-out from CLASSIFY and a consumer's prefetch window.
2. `Ingest`: near-duplicate merging by perceptual hash and the recovery of
   dead-lettered requests.
3. `StageDelivery`: the sync stages' replay and replays in batches.

Not planned: HTTP, bot and frontend handlers, provider adapters, configuration,
migrations, ranking and read models (no protocol of their own).
