# fxjournal: TLA+ models, checks and proofs

fxjournal is a trading journal: a Flask web application, Celery workers, and Windows VMs on which
MetaTrader 5 (MT5) terminals run. A user links an MT5 account to a trade account; a worker keeps
synchronising the account's trades into the journal, and the user reviews them, alone or with an AI.

This directory models the parts of that system in which several actors share state, or in which a
rule spans many steps, checks them with TLC on small instances, and proves their main invariants
with TLAPS for instances of any size. Paths below are relative to `src/`.

## Layout

| module | what it models | checked in | proved in |
| --- | --- | --- | --- |
| `Mt5Sync` | trade synchronisation of one linked MT5 account: broker, Celery task, lock, ingest handler, report upload | `sync_race`, `sync_window`, `sync_partial` | `Mt5SyncProofs` |
| `Mt5Lifecycle` | the life of the MT5 link of one trade account: link, setup, failover, archive, unlink, cleanup, deletion | `life_all`, `life_settles`, `life_archive` | `Mt5LifecycleProofs` |
| `Access` | batches, access requests and slots; trial, expiry, pause and extension | `access` | `AccessProofs` |
| `WeeklyAI` | the weekly AI review and its follow-up chat | `weekly` | `WeeklyAIProofs` |
| `Book` | trade accounts, trades entered and uploaded, strategies, bundles, as overlapping transactions | `book` | `BookProofs` |
| `Members` | sign-up, codes, verification, change of address, password reset, purge | `desk` | `DeskProofs` |
| `Bars` | the price bars behind the replay of a trade | `desk` | `DeskProofs` |
| `Patterns`, `Figures`, `Review` | suggestions of the reviews; figures of the journal; bundle review and check-in | `desk` | `JournalProofs` |
| `Reflect` | reflection sessions: the trades a session speaks of, replies and citations | `desk` | `JournalProofs` |
| `Lease` | abstract: what a Redis lock with a lifetime promises | through `Refresh` | `Mt5SyncProofs` |
| `Refresh` | the broker discovery refresh, on any number of VMs | `ops` | `OpsProofs` |
| `Monitor` | delay alerts and stall flags of the workers | `ops` | `OpsProofs` |
| `Pages` | the pages cached in Redis | `book` | `OpsProofs` |
| `Symbols` | broker names of instruments and the caches of the processes | `ops`, `symbols` | `OpsProofs` |

`MC*.tla` hold the small instances, `<run>.cfg` the constants and properties of each run.
`PROJECT.json` lists components, runs, mutants, the map from definitions to source lines, findings,
hazards and theorems. Check a run with `tlc -workers 2 -config sync_race.cfg MCMt5Sync` (the other
runs alike; `PROJECT.json` names the module of each), a proof with `tlapm Mt5SyncProofs.tla`.

`Review` EXTENDS `Figures`, which EXTENDS `Patterns`; `Reflect` EXTENDS `Review`: a session speaks
of the trades that reviews bundle while syncs add more. `MCBook`, `MCDesk` and `MCOps` put
components side by side that share no state: a behaviour explores one of them, chosen at the start
(`part`), so the state space is the sum of theirs and not the product.

## Inventory

### How the parts interact

```
 browser --HTTP--> web server (Flask) --SQL--> PostgreSQL <--SQL-- Celery workers (web side)
                        |    ^                    ^                     |  weekly AI, health checks
              Celery messages|                    |                     v
                        v    | POST /internal     |                  OpenAI, email
                     Redis (broker, locks, cache) |
                        |    |                    |
                        v    |                    |
        VM: sync worker (solo), setup worker (solo) --> MT5 terminals, folders on disk
```

Each VM runs two workers, each a solo process executing one task at a time (README.md:202,
celery_app.py:208-222). The sync worker takes `mt5_priority.<vm>` and `mt5_sync.<vm>` and
acknowledges a message after it was executed. The setup worker takes `mt5_setup.<vm>`, which holds
setups, cleanups, pauses and broker refreshes, and acknowledges before executing. The web server and
the setup worker write the same rows, each in its own transaction; the sync worker writes through
the web server's internal API. The weekly review runs in a worker of its own and is acknowledged
before it is executed. Redis is asked for locks, claims, stamps and pages; a call that Redis refuses
raises `CacheUnavailableError`, which each caller answers in its own way.

### Components

| component (main files) | state it keeps | hard behaviour | what makes it correct |
| --- | --- | --- | --- |
| MT5 trade sync (`celery_workers/mt5_sync_tasks.py`, `routes/mt5_internal.py`, `trading.py`) | `trade` rows, sync stamps, messages, Redis lock, requests in flight | two broker reads at different moments; read-then-insert handler; timeouts with a running handler; lost lock; a 7-day window | one ingest at a time; one trade per position; a closed trade stays closed, with a realised amount; everything closed gets recorded |
| MT5 link lifecycle (`celery_workers/mt5_setup_tasks.py`, `helpers/core.py`, `helpers/mt5_dispatch.py`) | `mt5_account` rows, folders per VM, setup queues | transactions overlap with tasks that take minutes; successive links share a folder; messages lost by early acknowledgement | a tombstone belongs to nobody; a live link keeps its terminal; a linked row goes only by an administrator's rejection; tombstones get cleared; retries end |
| Batches and access requests (`helpers/core.py`, `routes/trade_accounts.py`, `auth_account.py`) | slot counters, requests | a counter written from two sides, one of them without a row lock; deletion by cascade | no batch admits more than its capacity |
| Entitlements, trial, pause (`helpers/entitlements.py`) | trial dates, `sync_paused_at` | a pause task that runs after the extension; tasks queued before a commit | a paused account's terminal stops; an account can always be resumed; a trial does not start twice |
| Weekly AI review (`celery_workers/weekly_tasks.py`, `helpers/weekly_ai_queue.py`, `ai_service.py`) | claims, generated responses, chat messages | a claim that ends while its task waits or runs; a task that finds another week than it was queued for | one review per week; one in the end; the chat's limits hold |
| Trade accounts, trades, strategies (`routes/trade_accounts.py`, `routes/trades.py`, `routes/trade_profiles.py`) | accounts, trades, versions, bundles | requests that overlap; rules that no index keeps | nothing twice; a trade fits its strategy's version and its history; one default account |
| Authentication and codes (`auth_account.py`, `routes/account.py`) | users, codes, nonces, signed tokens | a counter read and written back; tokens used after the state they were made for | the uses of a code are members; an address changes only when both were asked; a reset link works once |
| Replay bars (`routes/mt5_internal.py`, `helpers/trade_bars.py`) | bars of a trade, tasks | batches that starve older trades; late answers; two handlers at once | a closed trade gets its bars in the end |
| Reviews (`helpers/trade_analysis.py`, `routes/checkin.py`, `routes/trades.py`) | marks of trades, forms that travel | suggestions detected anew at every post | answering a suggestion settles it and raises no other |
| Figures (`trading.py`, `helpers/running_pnl.py`) | none | bundles with members that are open, unpriced or signed otherwise | totals agree however the trades are bundled |
| Reflection sessions (`routes/admin_journal.py`, `helpers/journal_context.py`) | sessions, replies | numbers in old replies looked up in a new list | a citation leads back to the trade it spoke of; an idea counts once |
| Redis locks (`celery_workers/cache.py`) | keys with a lifetime | expiry during the work | exclusion until a lease lapses |
| Broker refresh (`helpers/mt5_broker_discovery_refresh.py`) | two locks, stored answers | crashes, refusals and expiry at any of its steps | it leaves nothing behind, and answers |
| Monitoring (`celery_workers/mt5_monitoring.py`, `celery_workers/worker_monitor.py`) | alert rows, stamps and flags in Redis | mail before commit; overlapping checks; lost stamps; flags, stamps and worker states that expire | one alert per delay; a delay and a stall are reported |
| Page cache (`celery_workers/cache.py`, `routes/dashboard.py`) | three payloads per journal | a page stored after the change that made it stale; trades that fail to load | a stored page is that of the journal |
| Broker symbols (`trading.py`, `auth_account.py`) | aliases, a cache per process | edits that overlap; processes that keep old aliases | a name leads back to its instrument |
| Administration, text analytics, report parsers, public pages, templates | - | - | see "Not modelled" |

What can go wrong in each of them, with the line where it bites, is the `hazards` list of
`PROJECT.json`; a hazard no property covers says why.

### Conventions

*Transactions.* Where rows are written by requests that overlap (`Mt5Lifecycle`, `Access`, `Book`,
`Members`), a request loads its rows in one step and commits in another. It writes back only the
columns whose value it changed, as SQLAlchemy does; the unique indexes and foreign keys decide
whether the commit fails. Nothing else keeps two requests apart, as in the code.

*History variables.* A property that the code keeps only while something does not happen says so
with a variable that records that it happened (a lease lapsed under its owner, two requests
overlapped on a row). The runs still explore everything after that for the other properties. Each
such exception is a real scenario; the hazard's note in `PROJECT.json` tells it.

*Bounds.* Moves, faults and days are counted up to a constant whose name begins with `Max`. They
bound what people, the market and failures do; tasks, commits and answers are free.

## Mt5Sync: trade synchronisation

One MT5 account, its positions at the broker, and every path that writes its trades.

| model | code |
| --- | --- |
| `deals`, `old`; `OpenPosition`, `PartialClose`, `ClosePosition`, `Age` | the broker's history and the rolling seven-day window of `history_deals_get` |
| `task[s]` with `pc`; `Beat`, `Request` | a message of `sync_mt5_account`, queued by the beat or by a person |
| `SkipBusy`, `SkipGate`, `Start`, `StartUnlocked` | the claim of the account lock, the early returns, and the run without a lock when Redis is down |
| `ReadDeals`, `ReadPositions`, `Aggregate`, `Supplement` | the two broker reads and the rows built from them |
| `Post`, `Finish`, `Refused`, `Retry`, `Release` | the request, its answers, `task.retry` and the `finally` block |
| `req[k]`; `ReadTrades`, `BuildBatch`, `Commit`, `Rollback` | the handler `sync_mt5_trades`: two reads, one transaction |
| `Crash`, `Timeout`, `ReplyLost`, `TaskExpires`, `LockExpires`, `LockExpiresInUse` | `acks_late` with `reject_on_worker_lost`, the 30 s request timeout, message expiry and the 600 s TTL |
| `UploadRead`, `UploadCommit`, `UploadConflict`, `DeleteTrade` | report upload and deletion, which take no lock |

`req` is indexed by the lock token of the execution that posted it, so a handler that outlives its
task still has a name. A trade is its id, position, closed flag and the kind of amount it shows
(`{}` for none, `Floating`, or the set of exit deals it is the sum of). A row sums the exits that the
task has seen, and nothing in it tells whether these are all. Amounts, prices, bars, notes,
validation of values, soft reconnects and the redispatch of a message that reached the wrong VM are
left out.

*Time.* Nothing has a duration: a TTL, an expiry or a timeout is a step that may come at any
moment. `Disturb` counts those steps, failures and what people do, up to `MaxMoves`.

*History variables.* `faulted`: the lock stopped protecting a running sync (its TTL ended early, a
request timed out while its handler ran, or Redis was down). `mixed`: an upload and a sync
overlapped between read and commit. `blind`: the broker returned no history. The properties that
rely on the lock say so; those runs still explore everything after the fault for the properties
that do not rely on it.

| run | instance | shows |
| --- | --- | --- |
| `sync_race` | one position, two messages, three lock tokens, two uploads, one retry, two disturbances; symmetric in messages, tokens and uploads | `LockSerialisesIngest`, `OneTradePerPosition`, `ClosedTradesAreRealised`, `ClosedNeverReopened` |
| `sync_window` | two positions, one of them older than the link, the other closed in part and ageing; full sync and recalibration; one disturbance | `ClosedWithEveryExit`, `FullStampSound`, and under fairness `ClosedEventuallyRecorded` |
| `sync_partial` | one position that ages | violated: `RunningTradesStayOpen` |

*Bounds.* A duplicate or a reopened trade needs two handlers (or a handler and an upload) on one
position, so one position, two messages and two uploads show every race of that kind; a third token
lets a retried execution meet a handler left behind by the first one. Two disturbances are enough
for the worst known scenario (a timeout, then an expired lock), and the passing properties are
proved without bounds below. The window needs two positions because `lastFull` belongs to the account: a
full sync for the one changes what the next sync reads of the other.

*Fairness.* The beat fires every 30 s (`celery_app.py`), delivered messages are executed, a
handler ends and a TTL runs out: weak fairness of `Beat`, of each message's `Worker`, each
request's `Handler` and `LockExpires`. Nothing is assumed of the market, of people or of failures.
`LockExpires` matters: after a crash only the TTL frees the account, and without it
`ClosedEventuallyRecorded` fails.

*Disagreement.* `sync_partial`: the worker's comment calls `positions_get` authoritative for
running trades, but when the entry deal has left the window and part of the position was closed
inside it, the row without an entry is taken for a close, and the trade of the running position is
closed. The exceptions in `OneTradePerPosition` are real, too: a request that times out leaves a
handler running without the lock, and the retry's handler may insert the same position, since no
unique index stands behind the two reads of a row without an import key.

### Proved of Mt5Sync

For any positions, messages, tokens, uploads and bounds (`ConstantsAssumption`, `NoTradeAssumption`):

- `TypeCorrect`: `Spec => []TypeOK`, with ids below the sequence and a token for every execution.
- `LockSerialises`: `Spec => []LockSerialisesIngest`. The property is not inductive: nothing in it
  keeps a second task from posting. `LockInv` says what the key stands for until a fault: every
  request in flight was posted under the token that is the key's value now, the one running task holds
  the lock, and a task that has not posted yet has no request in flight. It is kept because a crash
  that leaves a handler behind leaves the key too, and the key expires only when nobody works under
  it, or sets `faulted`.
- `AccountLockLeased`: the account lock implements `Lease` (see there): the executions are its
  clients, by their tokens, and one is inside from its claim until it ends (`Working`). `Lease` counts
  only an expiry under an execution as a lapse, while `faulted` also counts a timeout and a run
  without a lock, so the mapping needs the history variable of `Lease`, kept by `Remembers`. It says
  of the executions what `LockSerialises` says of the requests they post: at most one works under the
  lock, also after a timeout and next to runs without a lock. `OwnInv`, tokens belong to one
  execution, is what makes an end a `Leave` or an `Abandon` of nobody else (`WorkerMoves`).
- `RecordedOnce`: `Spec => []OneTradePerPosition`. `UniqueInv` adds to `LockInv`: what a built
  request will insert is not in the journal yet, and a trade recorded for a position that an upload
  is about to insert carries a dedupe key, so that the unique index refuses the upload. Both hold
  until an upload and a sync overlap (`mixed`).
- `NeverReopened`: `Spec => ClosedNeverReopened`, an action property, from the types and `KeyInv` (id
  and position name one trade): whatever the handler had loaded, it assigns the closed flag only to
  set it.
- `ClosedShowsEveryExit`: `Spec => []ClosedWithEveryExit`. A row with a lone exit is the same whether
  the exit was the last one or a part, so the claim cannot be read off a row. `BrokerInv` carries it
  along: of a position none of whose deals has left the window, whatever a task has built, a request
  has posted or the journal holds as closed was closed by the broker and sums every exit
  (`WholeRows`, `WholeTrade`). With the entry in the window a row closes only when its exits offset
  the entry's volume; and this stays true however late the row is written, since the broker adds no
  deal to a closed position and no deal comes back into the window (`Settled`, `DealsGrow`).
  `RealisedWhenClosed` rules out the one other amount, a late floating profit, while the lock holds.
- `RealisedWhenClosed`: `Spec => []ClosedTradesAreRealised`. `SeenInv`: while the lock held, a trade
  that a handler has loaded is still as loaded, or gone; with the lock invariant and `KeyInv` the
  handler's decision is therefore made on the row it writes. `BrokerInv` does the same for uploads,
  which speak of closed positions only.
- `StampIsSound`: `Spec => []FullStampSound`. Two invariants: `OwnInv` (an execution's request asks
  for the history its task asked for, and nobody else holds its token) and `StampInv` (a task, a
  posted request and an open handler of a full history hold every trade older than the link, and
  the stamp is written with them). It holds with and without the lock.

`JournalSteps` and `WorkerSteps` sort the actions once: a step shrinks the journal, commits a handler
or an upload; a worker's step ends, begins, reads or posts. Each invariant is proved per kind.

## Mt5Lifecycle: the link of one trade account

The `mt5_account` rows that are or were linked to one trade account, its folder on each VM, the
setup queues and the setup workers.

| model | code |
| --- | --- |
| `row[a]` | the row: owner, ciphertext, `is_active`, status, terminal path, `vm_id`, `cleanup_marked_at`, `archived_at` |
| `web[w]`; `Open`, `Commit`, `Dispatch`, `DispatchFails` | a request's transaction: load, UPDATE of the columns that changed, message after the commit |
| `RetrySetup`, `Archive`, `Reactivate`, `DeleteFiles`, `VmFiles`, `Unlink`, `AdminDelete`, ... | the operations; those that queue their task before the commit do so in `Open` |
| `queue[v]`, `delayed[v]`, `job[v]` | the FIFO queue of VM v, its countdown retries, the one task the solo worker executes |
| `BeginSetup`, `FinishSetup`, `SetupError`, `SetupRefused`, `TradingPassword`, `Failover` | `setup_mt5_terminal` and its error paths |
| `BeginCleanup`, `FinishCleanup`, `CleanupFails`, `WorkerDies` | `cleanup_mt5_terminal`; a message acknowledged early is lost with its worker |
| `files[v]` | the folder named after user and trade account on VM v: one for all rows |
| `RejectRequest` | `admin_mt5_reject_request`: the rejected account's row, loaded inactive and without a terminal, is deleted at the commit |
| `DropTradeAccount` | the `before_flush` hook that marks the row when its trade account is deleted |

`Written` is the point of the model: a transaction writes the columns whose value it changed since
it loaded the row, so a setup that loaded the row minutes ago overwrites `is_active` but not the
owner. The password is a ciphertext that is only compared with what was loaded.

Left out: the trial pause task (see Access), the broker refresh (see Refresh), legacy queues and messages for the wrong VM,
timestamps other than the mark, a partly removed folder (all or nothing here), and the failure to
queue a task before a commit (the request then changes nothing). `VmFiles` handles one row where the
code handles each row of the VM in one transaction.

*History variables.* `calm`: requests came one by one, no administrator moved or removed anything,
and no setup removed its own folder. `lost`: the cleanup of a row failed on a VM or never got there.

| run | instance | shows |
| --- | --- | --- |
| `life_all` | two rows, two VMs, two overlapping requests, failover to the second VM, one retry, any four moves of all thirteen operations and of the failures | `TombstoneIsBare`, `LinkedTerminalStays`, `NoFolderForgotten`, `LinkedRowsGoByRejection` |
| `life_settles` | the same with one request at a time | under fairness `TombstonesAreCleared`, `WorkersComeToRest` |
| `life_archive` | one row, one VM, link and archive | violated: `ArchivedIsNotSynced` |

*Bounds.* A second row is born only after the first was unlinked: two rows show what two successive
links do to each other. Two VMs are what failover needs. Four moves allow the longest scenarios of
interest: link, unlink, link again and a failure; or link, archive, reactivate, delete files. An
operation or failure is a move; executing tasks and committing is free, so every interleaving of
what four moves start is explored.

*Fairness.* Requests end and workers take tasks: weak fairness of `Commit(w) \/ Dispatch(w)` and of
`Work(v)`, which covers taking a task and finishing it. Failures are never fair.

One request at a time in `life_settles`: two unlinks that overlap can leave the mark of the newer
cleanup for ever (each writes the mark it computed from the row it loaded).

`NoFolderForgotten` relates the folders to the rows: a tombstone whose setup was still running, or
was refused, failed over and erased its path, stays marked as long as the folder exists, so an
administrator can find it. With `calm` it leaves out the administrator's move to another VM, which
leaves the old folder behind, and a setup that fails over after it made a folder.

*Disagreement.* `life_archive`: archiving promises that sync stops, but a setup in flight does not
look at `archived_at` and activates the account. What `LinkedTerminalStays` excludes with `calm` is
real, too: a bulk cleanup takes an account whose setup is under way for inactive, and the failing
setup of an unlinked row removes the folder that the next link shares. So is a rejection that meets a
setup: it looks at the row it loaded, so its DELETE takes the row that the setup has activated
meanwhile, and the folder stays with no row to find it by (auth_account.py:6582-6605). Whether a
request waits for an administrator is a matter of `Access`; here any linked row may have one.

### Proved of Mt5Lifecycle

For any rows, VMs, sessions and bounds (`LifecycleAssumption`, `DeletedAssumption`):

- `LifecycleTypeCorrect`: `Spec => []TypeOK`. The inductive invariant `TypeInv` adds that an open
  request names a row that was born, and `NoTaskDeletes`: a cleanup that would delete the row it is
  given is never given one. This is why `FinishCleanup` deletes nothing, although the task's code
  would.
- `TombstonesStayBare`: `Spec => []TombstoneIsBare`. The property is not inductive: a commit writes
  what a request decided on an older row. `LinkInv` adds what makes it safe: what a request
  `Intends` (leave owner and mark alone, and set a password only if it saw no mark; or make a
  tombstone), and what is `StillTrue` of the row it loaded (an owner lost is never regained; in a
  calm history the mark has at most been cleared and no password appeared). Steps of workers, syncs
  and immediate deletions are `Mild`: no owner, mark or new password, and only rows without an owner
  go. One lemma per action shows that it is mild, or what its request intends.
- `LinkedRowsGoRejected`: `Spec => LinkedRowsGoByRejection`, an action property, from `TypeInv`, the
  same classification of steps, and `RejectionsLoadedIdle`: what an open rejection has loaded is an
  inactive row without a terminal.
- `LinkedTerminalIsThere`: `Spec => []LinkedTerminalStays`, and `FoldersAreAccountedFor`:
  `Spec => []NoFolderForgotten`. Both follow from `CalmInv`, what is true while the history is calm:
  everything happens on the first VM (`Elsewhere`, `RowsAtHome`); the open request loaded the linked
  row and moves nothing (`CalmRequests`); a running setup has its folder and a row that accounts for
  it, a running cleanup has removed it (`WorkerAtHome`, `FolderAccounted`); and the heart of it,
  `InOrder`: no cleanup waits behind a setup of the linked account, and none waits at all once the
  account has a folder, a delayed setup or one in progress. A setup may therefore overtake the queue
  by its countdown without harm: what a cleanup still finds in the queue is older than the link.
  Steps are `Gentle` with rows and `Quiet` with queues; beginning a setup, beginning a cleanup and
  inserting a row are the three that are not, and have their own lemmas. TLC checked `CalmInv` on
  the instance of `life_all`, and on one of calm operations alone with seven moves, before the proof.

## Access: who may synchronise

The batches of the setup queue, the access request of each trade account, and the premium trial of
the user who owns the accounts.

| model | code |
| --- | --- |
| `SubmitRead`, `SubmitCommit`, `SubmitRefused` | `_submit_mt5_sync_request`: it reads the batch and the request row, and later locks the batch with `SELECT ... FOR UPDATE`, which returns the values read first (identity map); only the count of requests is fresh |
| `UnlinkRead`, `UnlinkCommit` | a disconnection gives one slot back per request row, written as computed from the counter it read |
| `Approve`, `Reject`, `CreateBatch`, `AddSlots`, `CloseBatch`, `DeleteLink`, `DropAccount` | the administrator and the cascade |
| `Used`, `TrialOver`, `MaySync`; `Synced`, `ChatUsed`, `GateRefuses` | the first use starts the clock; a sync without permission pauses the account |
| `Pause`, `PauseNotSaved`, `PauseNotQueued`, `PauseTask`, `SetupTask`, `Extend` | the stamp, its task in the VM's setup queue, and the extension, which queues setups before its commit |

`access` (two trade accounts, two sessions, one batch of at most two slots, four moves) shows that
the approved and pending requests never exceed the capacity although `total_slots_claimed` loses
updates (`ActiveWithinCapacity`), that a paused terminal stops (`PausedIsStopped`), that nothing
but an extension restarts a trial (`TrialNotRenewed`), and, under the fairness of the setup worker
and of the beat that reaches every unpaused account, that an expired account is paused
(`ExpiredIsPaused`). `MCNext` explores batches and trials one beside the other: a request for a slot
reads no date, and a trial reads no batch. Two accounts compete for a slot, a third would wait like
the second; the one-day trial is over, extended and over again within the bound.

The exceptions are real: a submission that overwrote a rejection it had not read re-enters a batch
that was filled meanwhile (`unseen`); a pause task that the broker refuses is queued by nobody else,
and a setup does not look at the pause (`astray`). The stamps of single accounts, which the code
reads before the user's, are never consulted since migration 0058 fills the user's from them. The
administrator's page offers an extension only when the trial is not active (entitlements.py:660), so
an account that a late pause task paused again after an extension has no button there.

*Proved* (`AccessProofs`), for any trade accounts, sessions, batches, dates and bounds:

- `AccessTypeCorrect`: `Spec => []TypeOK`. The requests of a batch are counted, so the proof needs a
  finite set of trade accounts (`AccessAssumption`); `RowsAssumption` keeps "no row" apart from rows.
- `CapacityIsKept`: `Spec => []ActiveWithinCapacity`. `CapacityInv` adds what a submission knows: its
  batch exists, and the capacity it has read is at most the current one, since batches only grow. A
  commit counts afresh under the batch's lock, so it adds one request to fewer than the capacity; a
  submission that re-enters over a rejection it had not read is counted in `unseen`.
- `PausesStop`: `Spec => []PausedIsStopped`. `Covered`: a paused terminal that still runs has its
  pause task in the queue or is `astray`; steps either start no terminal (`NoneStarts`) or belong to
  the setup worker and the extension, which are treated one by one.
- `TrialEndsOnce`: `Spec => TrialNotRenewed`, an action property, from the types.

## WeeklyAI: the weekly review

| model | code |
| --- | --- |
| `now`, `closed`, `Latest`, `Ready` | weeks and their cutoff, counted in half weeks; the latest week with trades |
| `Produce` (`Ingest`, `Dashboard`), `DispatchFails`, `Regenerate` | the producers: an import or sync, a visit, the administrator; the claim is a key of the week the producer saw |
| `TaskStart`, `TaskSaves`, `TaskEnds`, `TaskFails`, `Crash` | `generate_weekly_ai_task`, which finds its week anew, retries, and deletes the key at its end |
| `Lapse`, `CacheFails`, `CacheReturns` | the lifetime of the key, and Redis |
| `CheckIn`, `CleanUp`, `CheckinComplete` | the check-in that a visit asks for first |
| `Ask`, `Answer`, `NoAnswer`, `Ages`, `TrialEnds` | the follow-up chat: counted, then answered, then inserted |
| `unstarted`; `StartTrial`, `SyncLoads`, `SyncEnds` | the start of the trial, by a chat or a sync, on the user as loaded before the work |

`weekly` (two weeks, two workers, two tabs, two faults, one retry) shows one review per week
(`NoDuplicateReview`) and that the dashboard does not show a review in the making without a task
(`GeneratingIsPending`), each with its exceptions; that the chat exceeds its limits by at most the
requests beside it, counted from the trial's start (`ChatWithinLimit`); and that every week
that may be reviewed is reviewed in the end (`ReviewInTheEnd`): workers go on, keys end, Redis
returns, and the member comes back and asks.
Two weeks are needed for a task that is queued for one and finds the other (`crossed`); two workers
and two faults for a key that ends under a pending task (`lapsed`).

The trial's start is written from the user as the request loaded it, which was before the model's
reply (dashboard.py:2404, 2461-2483; entitlements.py:184-189). A request or a sync that loaded a user
without a start therefore overwrites the start that another one wrote meanwhile, and the messages
from before drop out of the count (entitlements.py:346-348). `unstarted` are those that may do so,
`restarts` counts that they did, `made` all messages of the trial: it may have more than its limit,
one more allowance for each restart, and there are fewer restarts than requests and syncs that ran at
once. Two tabs and one sync show two restarts. In `Access`, whose trials are counted in days, a start
moved by the minutes of a reply changes nothing.

*Proved* (`WeeklyAIProofs`), for any weeks, workers, tabs, syncs, retries, faults and limits:

- `WeeklyTypeCorrect`: `Spec => []TypeOK`; the week that a producer or a task settles on is a week.
- `ReviewedOnce`: `Spec => []NoDuplicateReview`. `OnceInv` has three parts. `Alone`: for a key that
  never lapsed, at most one automatic task is in the queue or at a worker, and while there is one
  the key is set, so no producer can claim the week. `Crossing`: a task that generates another week
  than its key's has marked it `crossed`. `Fresh`: a week that is neither has at most one review, and none
  while a task generates it.
- `GeneratingIsReal`: `Spec => []GeneratingIsPending`. A status is told by a step that leaves a task
  pending, and the step that ends the last task removes it, or Redis did not take the removal.
- `ChatIsLimited`: `Spec => []ChatWithinLimit`. `ChatInv` counts the open
  requests as sent: with them, the limits are exceeded by at most one less than there are tabs
  (`Rates`). Restarts and those who may still cause one are together fewer than tabs and syncs, since
  the first start was one of them (`Restarts`); and what was made before the present count is at
  most an allowance for each restart.

## Book: accounts, trades, strategies

The rows of one user, written by transactions that overlap. A value stands for all that makes two
trades the same; a report row is inserted unless its value is in the account when the upload reads
it. `Heir`, `SetDefault`, `Visit`, `DeleteAccount`, `DeleteAll` keep the default account;
`Attached` a trade's strategy with its current version; `Logged` the history of a trade's marks;
`QueueReview`, `OpenReview`, `ConfirmBundle` and `CompleteReview` the bundle review after an upload.
`Flushed` and `Unique` follow the order in which the session writes: updates before deletes.

`book` (three accounts, two trades, one strategy, two values, two sessions, four moves; symmetric in
trades, values and sessions) shows `NothingTwice`, `TradeIsCoherent` and `DefaultKept`, with the
exceptions of requests that overlapped. `MCNext` explores a user with a strategy who trades and a
user without one who deletes accounts; its conditions are commented. Two facts about the code came
out of it: deleting the default account while others remain always fails (the heir's UPDATE precedes
the DELETE and meets the unique index, trade_accounts.py:897), and setting the default account as
default again leaves none (the bulk UPDATE clears it and the loaded row is unchanged,
trade_accounts.py:519); the next page heals the latter (`Visit`).

*Proved* (`BookProofs`), for any accounts, trades, strategies, values, requests and moves
(`BookAssumption`: the kinds of keys are apart, the user has an account key, and NULL is no value;
`RowsAssumption`: NULL is no row):

- `BookTypeCorrect`: `Spec => []TypeOK`.
- `NoTradeTwice`: `Spec => []NothingTwice`, `TradesAreCoherent`: `Spec => []TradeIsCoherent`, and
  `DefaultStays`: `Spec => DefaultKept`.

None of the three is inductive: a commit writes what its request decided on an older table. `BookInv`
says of each transaction in progress what stays true of it while others commit (`TxOK`). The rows to
insert are nobody else's and not there (`TxView`, `Exclusive`); a trade stays in its account; changed
marks are in the log (`TxMarks`); the version to write exists, since versions are only added
(`TxVersions`). A transaction beside which nothing was committed (`~x.late`) still sees the rows as
they are, so its search for duplicates (`TxValues`) and its choice of a default (`TxDefault`) hold at
its commit. After a commit, every other transaction is late, so that only the first group has to be
kept for it; and what a late one writes is in `raced`, or unchanged, or refused.

The proof goes by what a step does to transactions. `RequestKeeps` is about any request that begins;
`AccountRequestKeeps`, `ProfileRequestKeeps` and `TradeRequestKeeps` reduce it to what the operations
decide, and one lemma per operation shows that. `CommitKeeps` is the other half: `FlushedRows` and
`CommittedRows` say what a commit leaves in each row, `LateTransaction` what it leaves of the others,
and `CommitBooksOnce`, `CommitIsCoherent`, `CommitKeepsDefault` conclude for the three properties.
TLC checked `BookInv` on the instance of `book`, and without the conditions of `MCNext` on two
accounts and three moves, before the proof.

## Members: sign-up and accounts

`web[w]` is a transaction on one row of `users`: `Register`, `GoogleRegister`, `OpenVerification`,
`GoogleLink`, `RequestChange`, `CancelChange`, `ConfirmChange`, `Forgot`, `Reset`, `Decide`,
`DeleteUser`, `Purge`, each with its `Commit` or `Rollback`. A mailed link can be opened any number
of times; a token carries what it is about, not the row it was made from.

In `desk` two rows, three addresses and two requests show `UsesAreMembers` (a code of two uses with
one or both left), `ResetLinkOnce`, `ChangeConfirmedByBoth` (requests for different addresses replace one
another while their links are opened) and, since the purge is run by requests that keep arriving,
`UnverifiedLeave`. Requests that overlap on a row are the exception (`blind`, `doubled`): two requests
both spend a reset link, or both take a use for the one member they verify.

`UsesAreMembers` says that the counter of a code is charged for members only: no link opened again,
no purged or failed sign-up takes a use. The code is checked at registration and used at verification;
`LoadCode` is the moment in which the code's row is read, after the UPDATE of the member's row was
flushed, which waits for a request that has updated the same row. The limit does *not* cap the
members, and no property says so: a row registered while the code was usable is verified without a
use once the code is exhausted (auth_account.py:3945-3952), a Google sign-in verifies such a row without
one (auth_account.py:3405), and two increments may overwrite one another. The model has all three.

*Proved* (`DeskProofs`), for any users, addresses, sessions, limits and bounds:

- `MembersTypeCorrect`: `Spec => []TypeOK`. `SoundWeb` goes with it: a transaction on a row changes it
  the way one of the actions does, so that commits need one case each. `RowAssumption` keeps "no row"
  apart from rows.
- `UsesCountMembers`: `Spec => []UsesAreMembers`. `CodeInv`: a request that is to take a use has read a
  counter below the limit and makes a member, or the member was made while it was pending
  (`doubled`). Only `Commit` moves the counter, to one more than was read.
- `ResetIsOnce`: `Spec => ResetLinkOnce`. The step that honours a reset link is the first to do so,
  but for a request that overlapped. `NonceInv` is the life of one link: it is in at most one row, a
  transaction that issues it does so before anybody has used it, and once used it is in no row and
  nobody is about to issue it again.
- `BothConfirm`: `Spec => ChangeConfirmedByBoth`. `StampsInv`: a confirmation stamped on a row is that
  of a link which was opened, made from the addresses the row has now.

## Bars: replay bars

| model | code |
| --- | --- |
| `Sync`, `Newest`, `Missing`, `Backfill` | what queues a batch task (the newest incomplete trades) or a single one |
| `Fetch`, `GiveUp`, `Redeliver`, `Post`, `Refuse` | the two worker tasks |
| `Store` | the handlers: DELETE, INSERT under a unique index, COMMIT; a batch is refused as a whole |
| `Close`, `Elapse`, `Mature`, `MoveTimes`, `DeleteTrade`, `Clear`, `SetAuto`, `SetAccount` | the trade, the clock, the recalibration and the administrator |

`desk` shows `BarsInTheEnd` with three trades, one of them before a market gap, and a batch of two:
while syncs go on, a trade whose window is over gets complete bars, unless newer trades that can
never be completed fill every batch. *Fairness*: tasks are executed; a terminal that is asked again
and again has rates some time (a trade without any rates at all would fill its place in the batch
for ever, like those before a gap), and so have a POST and a commit that are tried again and again
(strong fairness of `Fetch`, `Post`, `Store`); time passes. A forced backfill of a complete trade
does nothing (`ToFetch` leaves it out, mt5_sync_tasks.py:1381, though auth_account.py:6376 dispatches
it), and a sync without changes queues nothing (mt5_internal.py:684).

*Proved* (`DeskProofs`), for any trades, messages, batch size and bounds:

- `BarsTypeCorrect`: `BarsSpec => []BarsTypeOK`, by `BarsInv`, which adds what a message may name: a
  single task one trade, a batch at most `MaxBatch`.
- `BatchesStaySmall`: `BarsSpec => []BatchesAreSmall`. `Newest` keeps a trade only while fewer than
  `MaxBatch` are newer; the lemma `NewestAreFew` counts them from the oldest one it keeps.

`BarsInTheEnd` is liveness and stays with TLC.

## Patterns, Figures, Review: the reviews and the figures

`Patterns` is `helpers/trade_analysis.py`: entries that look like one idea, trades that look like
revenge. `Figures` is the analytics page and the running P&L: bundles merged to one trade, records,
drawdown, streaks, stops and targets. Both are operators over a set of trades; amounts are whole
numbers. `Review` makes trades arrive and change (`Record`), lets the bundle review
(`OpenListing`, `ConfirmListed`) and the three pages of the check-in (`OpenCheckin`, `PostBundles`,
`PostClassification`, `SaveCheckin`) mark them, and checks the figures of every journal it reaches:

- `FiguresAgree` compares each figure with its definition: the drawdown with the deepest fall of the
  equity curve, a streak with the longest run, the totals of merged trades with those of their
  members, the running P&L with the analytics page and with itself over adjacent ranges.
- `SuggestionsSound`: answering a suggestion settles it and raises no other.

In `desk` four trades in five row states are chosen so that a stop, a winner, two losers of one idea
and a trade the other way occur, with two acts in between. Bundles with an open or unpriced member
or with commissions of two signs are reached and excluded by `Tidy`: there the figures do differ (a
bundle with an open member counts in the running P&L, whose page loads closed trades only, and not
in the analytics). Nobody keeps an old page from being posted (`ConfirmListed` of a bundle of one),
and a candidate for which the form holds no answer is saved with the detector's type.

*Proved* (`JournalProofs`), for any finite set of trades, prices, rows, tolerance, deposits, weeks and
numbers of acts (`PatternsAssumption`, `FiguresAssumption`, `ReviewAssumption`):

- `FiguresAlwaysAgree`: `ReviewSpec => []FiguresAgree`. It holds in every state there is, reached or
  not, so the argument is about the folds. The library's induction takes operators, so these are
  treated as functions on the subsets of the set they run over: `FoldExists` and `RunExists` build
  such a function step by step, by `Numbers` and `FiniteSubsets`, which induct over a set instead of
  an operator. Then `RecordsAreListed` lists each record once and in order; along that list the pen
  that draws the curve has the highest equity and the deepest fall so far (`PenRight`,
  `DrawdownIsDeepest`), the counter the longest run so far (`CountRight`, `StreaksAreLongest`). Totals
  are sums that may be taken family by family (`SumOfFamily`), so tidy bundles change none
  (`BundlesChangeNoTotal`), ranges add up (`RangesAddUp`) and the running P&L ends at the net P&L
  (`RunningEndsAtNet`). `TargetsMeasure` and `StopsMeasure` tell an early exit by its amount.
- `SuggestionsAlwaysSound`: `ReviewSpec => SuggestionsSound`. The detector is greedy: it takes the
  trades in order and groups each free one with the free ones that look like its idea. `Grouped` says
  what its result is without the order of the fold, and that determines the groups (`OneGrouping`),
  whatever order trades with equal keys are taken in. From this, taking away whole groups and trades
  of no group leaves the rest as it was (`RestGrouped`); and neither a bundle nor a mark changes what
  a trade looks like to the detector of revenge (`SameSuspicion`). What remains is that a step of the
  journal marks only what is unmarked (`Grows`), by induction over the groups that are confirmed
  (`BundlesAllBundle`).
- `ReviewTypeCorrect`: `ReviewSpec => []ReviewTypeOK`, the invariant the step lemma rests on.

## Reflect: reflection sessions

The sessions of the AI journal about a trade, a day, a week or the latest trades, on top of `Review`.
`Ideas(s)` builds the list of a session; `Ask`, `Answer` and `AnswerLost` are the chat; a reply cites
numbers (`[T2]`) that are looked up in the list as it is when displayed, although the list the model
saw is gone. `CitationsLeadBack` says when that is right: always in a session about one trade (or it
leads nowhere), in others while what was listed is still listed and what came since closed later
(`Undisturbed`). `IdeasCountOnce` says that an
idea counts on one day, is told the same in every session, and that a recommended session is not
empty, except on days all of whose trades belong to bundles that close another day.

`desk` has a session of every scope, a reply, lists of two, and two changes of the journal.
`citations_json`, which could keep what was cited, is stored and never read.

*Proved* (`JournalProofs`), for any finite set of trades with ids of their own and natural times, any
sessions, lengths of the lists and bounds (`ReviewAssumption`, `ReflectAssumption`):

- `CitationsAlwaysLeadBack`: `ReflectSpec => []CitationsLeadBack`. `TalksInv` says what list a session
  of each scope can have sent: sorted by close, and of at most one trade in a session about a trade.
  Only `Ask` and `Answer` touch these lists, so a reply keeps such a list whatever happens to the
  trades. The rest is about lists: one that is sorted and contains another, everything new being
  later, begins with it (`Continued`), so its numbers mean the same trades.
- `IdeasAlwaysCountOnce`: `ReflectSpec => []IdeasCountOnce`. It holds in every state there is, reached
  or not. `InOrderSorts`: taking the trade with k - 1 before it as the k-th yields each trade once and
  in order. `IdeasOfPeriod`: the list of a period is the closed ideas that closed in it, since a bundle
  is loaded whole and cut by its own close; so each falls on the one day its close falls on.
  `TradeTellsIdea`: a session about a member tells of the bundle.

Both rest on `Merged` alone, not on the sums in `Figures`.

## Lease and Refresh: the broker refresh

`Refresh` is the job that drives the window of a terminal to discover brokers: a click (`Request`),
the guard that publishes a copy when the wrong VM takes it (`WrongVm`), two locks (`ClaimGui`, 120 s,
one per VM; `ClaimGlobal`, 600 s, one for all VMs), the automation as a sequence of steps each of
which may fail (`Drive`, `StepFails`), the two `finally` blocks (`ReleaseGlobal`, `ReleaseGui`), and
crashes, refused Redis calls and lapsing locks at every step.

`Lease` is what such a lock promises: `Enter`, `Leave` (delete only the own token), `Abandon`,
`Lapse`; exclusion until a lease lapses under a client inside. `Refresh` implements it:

    GlobalLease == INSTANCE Lease
        WITH Clients <- Jobs, Free <- Nobody, holder <- global, inside <- Holding

`ops` checks `RuntimeIsLeased == GlobalLease!LeaseSpec` and `NothingLeftBehind` for two clicks, two
VMs and two workers, one of which listens to both queues. Two jobs and their copies are all that can
meet at one lock.

*Proved*, for any requests, workers and VMs (`RefreshAssumption`): `NothingStays`, `OneAtATime` and
the refinement `RuntimeLeased`. `Mt5SyncProofs` proves `LeaseIsExclusive` of `Lease` itself (the
token of a free lock must not be a client) and that the account lock of `Mt5Sync` implements it too
(`AccountLockLeased`, in no run). `RefreshInv` joins the types with what each lock, terminal and answer is owned by in each
phase of a job (`GlobalOwned`, `GuiOwned`, `TerminalsDriven`, `AnsweredInTime`) and `HolderInside`:
until a lease lapses, whoever drives a terminal holds the lock. One lemma per group of actions
keeps it, and one per group maps the step to a step of `Lease` or a stutter.

What the code's comments say is wider than what it does: the lock is taken by the broker refresh
only, while the comment at cache.py:23-26 names bootstrap, login, sync, bar fetch and terminal
cleanup as well, and it is one for all VMs although its
message says "on this VM". The copy that the guard publishes stores its answer under a task id that
no page polls. Nor does a job answer when the database fails outside the automation's `try`
(mt5_broker_discovery_refresh.py:1397, 1521).

## Monitor: alerts and stalls

Two parts without shared state. The delay check (`Load`, `Mail`, `Commit`, `LoseCommit`) mails before
it commits the row that remembers the mail, and two checks may overlap: `OneAlertPerDelay` excepts
what an overlap or a lost commit repeats, `DelayIsReported` says that an account that stays late is
alerted for good. *Fairness*: the beat runs every check each minute (`celery_app.py`), mail works some
time (strong fairness of `Mail`), some check ends with its commit, thresholds pass.

The stall checks compare queues with stamps that signals leave in Redis, or fail to (`StartTask`,
`FinishTask`), and keep a flag beside them. Stamps, flag and the states of the workers are hashes that
expire 24 h after they were last written (`LapseQueue`, `LapseWorker`). The list of queues is made
anew at each check (`ReadQueues`): those of the VMs that the environment names (`NamedQueues`), those
of VMs whose workers have a state (`OtherQueues`, `shown`), and the legacy ones if the environment says
so; a listing that Redis refuses counts as empty. `StallIsFlagged` says that workers of a kind that
stop for good are flagged again and again while work waits in a queue the checks read, and that the
flag ends up cleared when none has work left and the checks read the hash that keeps it. *Fairness*:
the checks are made every minute, some of them can list the workers, and thresholds pass
(`CheckStall(k, shown)`, `AgeProcessed`, `AgeStarted`).

Facts about the code that the model has, and the property is worded by: without the legacy setting
the hash of `mt5_sync`, which keeps the flag of the sync workers, is not among those read, so every
check sets and logs the flag again and none clears it (mt5_monitoring.py:188); a VM that the
environment does not name drops out of the checks 24 h after its worker last gave a sign, with the
tasks that wait for it; the stall of one VM is masked as long as another VM's queue is processed
(mt5_monitoring.py:205); the setup check reads the unscoped queue only (mt5_monitoring.py:308), and the
first task of an idle queue is flagged at once. `NamedQueues # {}` excludes a setting of commas only.

*Proved* (`OpsProofs`), for any VMs, accounts, checks and queues: `MonitorTypeCorrect`, and
`DelayMailedOnce`: `MonitorSpec => []OneAlertPerDelay`. `AlertInv` adds `AloneOrExcused` (two checks
that run at once excuse every VM), `RowsKnown` (of a VM that is not excused, a check that runs knows
the row), and `AlertRemembered`: a mail that was sent is in the row, or in the check that is about to
commit it. A check that ends without a commit excuses the VMs it mailed about, and only those.

## Pages: the page cache

Three payloads in Redis that pages store after they loaded the trades (`OpenDashboard`,
`OpenAnalytics`, `LoadTrades`, `Store`), and that changes delete after they committed (`Change`,
`Invalidate`), without a lock and with a Redis that may refuse any call. A page whose trades the
database fails to load is built of an empty journal, and stored for the hour like any other
(dashboard.py:986). A changed account size and bundles an administrator dissolves delete no key
(`Resize`, `ChangeQuietly`).

Nothing promises fresh pages. `PagesShowJournal` says what the deletions after a commit do achieve:
once every change has deleted the keys, a stored page is that of the committed journal, whichever
requests ran side by side, unless its request is in `spoiled` (it failed to load the trades, or
loaded before a change) or its key in `behind` (stored by such a request, or not deleted by a
change). It needs no fairness. In `book` one request opens the dashboard while another one opens
the analytics, whose two keys are stored one by one, and one editor makes two changes, of which the
second meets at most one open page (`MCPagesNext`). The mutant leaves the summary out of the keys
that are deleted.

*Proved* (`OpsProofs`): `PagesAlwaysShow`: `PagesSpec => []PagesShowJournal`, for any visits, editors
and number of changes (`PagesAssumption`). `PagesInv` adds to it and to the types what a request
holds (`VisitsTrue`): one that is not spoiled has the trades and the size of the journal as it is.

## Symbols: broker names

A name is a base and suffixes. `Canonical` and `Candidates` translate both ways by the aliases that
a process has read once (`known`) and keeps. `NamesLeadBack` holds while no two edits overlapped
(the check for conflicts is not repeated at the commit), and excepts a candidate that by itself is
the alias of another instrument (GOLD with the suffix M, if GOLDM is one): then a worker may ask for
the other's rates. The table of `ops` has a short base, an inactive row, and proposals that collide.

*Proved* (`OpsProofs`): `NamesAlwaysLeadBack`, for any table, aliases, processes and edits, from the
assumptions that names are not empty and that the defaults, which fill the first table (migrations
0042 and 0043), give no key to two instruments (tests/test_trading_math.py:233). A name is the
longest of its own lookup keys and the only one of its length (`KeysOfName`), so where no key has
two owners it is read as its instrument (`KeyLeadsBack`); a name with a suffix falls back to the
name (`KeysOfSuffixed`). The invariant, `SymbolsInv`, is about time: the table and every copy that
processes keep are free of conflicts while no edits overlapped, and so is the table an open edit
was checked against, with its aliases put in.

*Disagreement.* `symbols`: the page says "Saves apply immediately (symbol cache cleared)", but the
cache is the saving process's; the sync workers keep the old aliases until they restart.

## Runs

| run | module | expected | properties |
| --- | --- | --- | --- |
| `sync_race`, `sync_window` | `MCMt5Sync` | pass | 4 and 3, see Mt5Sync |
| `sync_partial` | `MCMt5Sync` | violation | `RunningTradesStayOpen` |
| `life_all`, `life_settles` | `MCMt5Lifecycle` | pass | 4 and 2, see Mt5Lifecycle |
| `life_archive` | `MCMt5Lifecycle` | violation | `ArchivedIsNotSynced` |
| `access` | `MCAccess` | pass | 4 of Access |
| `weekly` | `MCWeeklyAI` | pass | 4 of WeeklyAI |
| `book` | `MCBook` | pass | 3 of Book and 1 of Pages |
| `ops` | `MCOps` | pass | 6 of Refresh, Monitor and Symbols |
| `desk` | `MCDesk` | pass | 9 of Members, Bars, Review and Reflect |
| `symbols` | `MCOps` | violation | `SavesApply` |

Deadlock is not checked: in every instance the moves end at their bound, and the system may then
rest. No run is a simulation; each explores its whole state space.

The runs marked "violation" are small on purpose: each shows one behaviour that contradicts what the
repository says of itself. Every property of a passing run has a mutant in `PROJECT.json`: an
operator beside the original that changes it as a plausible mistake would (a key that is not deleted,
a version that stays, a limit not compared) and breaks that property in that run.

## What is checked only

- *Liveness* is out of the proof system's reach, as is anything that speaks of ENABLED:
  `ClosedEventuallyRecorded`, `TombstonesAreCleared`, `WorkersComeToRest`, `ExpiredIsPaused`,
  `ReviewInTheEnd`, `DelayIsReported`, `StallIsFlagged`, `UnverifiedLeave`, `BarsInTheEnd`.

Every other property of a passing run is a theorem.

## Not modelled, and why

- *Report parsers* (in `trading.py`): decoding of CSV, HTML and spreadsheets into rows, a conversion of
  formats without state. What an import does with the rows is in `Book` and `Mt5Sync`.
- *Prompts and payloads* (most of `ai_service.py`, `helpers/weekly_signals.py`): text for the
  language model. When a review is asked for, made, saved and mailed is in `WeeklyAI`.
- *Administration pages*: lists, filters, exports, single fields. The acts that change shared state
  are actions of `Mt5Lifecycle`, `Access`, `Members`, `Bars`, `Symbols` and `Refresh`.
- *Figures that are averages, ratios and breakdowns* of sums that are modelled: floats and layout.
- *Login sessions, profile and onboarding forms, waitlist, contact, templates, migrations, tools*:
  single rows, presentation or generated code.
- Parts left out of a modelled component are named in its note in `PROJECT.json`.

## Plan

1. **Redispatch of setups** that reached the wrong VM, in `Mt5Lifecycle`.
