# SmartRisk in TLA+

SmartRisk analyses smart contracts and sells that analysis: a web service takes
scan requests, runs three engines over a token (static, state fork, heuristics),
keeps the reports in SQLite, and offers accounts, a developer API with batches and
quotas, embeddable widgets, and subscriptions paid in USDT on Ethereum. This
directory holds a model of the parts of it that have state shared between threads,
processes or restarts, the model-checking runs, and machine-checked proofs.

Paths below are relative to `src/smartrisk/`. `PROJECT.json` lists, for each
definition, the source lines it stands for.

## 1. Inventory

| Component | State | Operations | What is hard | What makes it correct |
|---|---|---|---|---|
| Crypto billing (`service/billing.py`) | tables `payment_invoices`, `payment_events`, `payment_settlements`, `payment_scanner_state`; the subscription | create/read invoice, `verify_transaction` (HTTP threads), `PaymentMonitor` (one thread: expire, scan, reconcile) | stale rows across RPC calls, reorgs, finality, crash between two writes, status overwritten by another thread | an invoice is credited at most once, by a final transfer of its exact amount seen in time; paid iff settled; a timely final payment is settled |
| Scan jobs (`service/store.py`, `service/service.py`) | table `jobs`; executor queue and 0.25 s timers of each process | submit, rerun, claim, run, update, recover at start | double dispatch, several processes, crash while running, recovery by age | one runner per job, repeats only after failures, every job ends |
| Developer API, batches (`service/developer_api.py`) | `api_batches`, `api_batch_items`, `api_usage_monthly`; `_running` set, coordinator and submitter threads | create (idempotent, under quota and limit), submit items, monitor, close, recover | crash between job and link, repeated requests, close versus running jobs | quota reserved once per batch, what is called finished is true of the jobs, batches close |
| Developer API, keys (`service/developer_api.py`, `key_state` of `service/admin.py`) | `api_keys`, rate windows | create, rotate, revoke, switch, authenticate, consume | reads before a transaction, two stores with a lock each, requests that wait | at most 5 active keys, a revoked key stays revoked, requests per second kept |
| Queue and workers (`service/distributed.py`, `worker_cli.py`) | Redis records and stream with a consumer group | create, consume (claim idle, then read), mark running, update, ack, retry | duplicated delivery, worker death, attempts limit, record written three times | a job is acked only when final, one worker has it, attempts are bounded; what spoils a job touches no other |
| Accounts (`service/auth.py`) | users, one-time tokens, sessions | register, verify, log in, reset, log out; status and role by administrators | several transactions per request, a mail that fails after it arrived, restart in the middle | one open token per kind, a session is for the present status and password, an active administrator remains |
| Administration (`service/admin.py`) | plans, subscriptions, manual payments, grants | confirm/refund, grant/revoke, upsert, plan on and off sale | stale snapshot of a subscription, a settlement beside it | a confirmation credits once, a grant does not outlive its revocation |
| Embed apps (`service/admin.py`, `embed*.py`, `http.py`) | apps, monthly counters, reservations | reserve, bind, release | release by nested handlers, release in another month | no more scans than the quota but for places given away wrongly |
| Chain indexer (`indexer/`) | blocks by hash, head, ledger; the subscriber's connection | ingest, rebuild, sync, head loop | reorgs while blocks are fetched, gaps, reconnects | all heads there were are connected, the index catches up with the chain |
| RPC routing (`core/multi_provider.py`, `alchemy_gateway.py`) | health, circuit state, preferred provider, cache | call, request with failover | threads that share counters, two fetches of one key | an answer is not older than it may be, a provider that is back is used |
| State fork (`state_fork/`) | an anvil process, its URL and port, snapshots | start, snapshot, run, revert, stop | failure in the middle of a scan, threads that share the fork | each attempt starts from the anchored block, no process is left, a blocked sale is the token's doing |
| Trade analysis (`state_fork/`) | none between calls | tax, cause, class, signals, verdict | rounding, missing observations | the verdict of a decided matrix is the one the token deserves |
| Unified engine and heuristics (`unified/`, `heuristics/`) | none between scans | anchor, three engines in turn, features, score, verdict | the chain moves between engines, sources fail, partial data | no verdict from one engine, a scan of a safe block speaks of that block only, no code is never low risk |
| HTTP front end, static engine, web pages, tools | requests only | - | - | - |

The components meet in one SQLite database. The front end calls billing, accounts,
administration and the developer API; batches submit scan jobs and read their
status; billing, administration and accounts write the subscription which the developer
API reads for limits; `service/distributed.py` is an alternative to the
in-process executor of scan jobs.

## 2. Plan

Done: billing, scan jobs, batches, the queue, accounts, the platform (subscriptions, keys, embed quota) and
RPC routing and the indexer with their proofs; the state fork with the trade matrix, its proofs for one thread; the report (heuristics and the unified engine)
with its proofs.

Left, in this order:

1. `Batches` for two users that share the executor; `alchemy_indexer.py` beside `sync_once`.
2. Refinements: `WorkQueue` and `JobLife` (whose final statuses it shares), and a ledger of
   periods that `Subscriptions` implements.

## 3. Modules

| Module | Models |
|---|---|
| `BillingStore` | the tables of billing and each `BillingStore` method that changes them, one operator per transaction |
| `Billing` | the threads that call the store: `verify_transaction` calls, the `PaymentMonitor`, the chain as environment, crashes and RPC failures; properties |
| `SettlementLedger` | abstract: an invoice is posted at most once, a transfer at most once, a posting credits one period |
| `MCBilling` | transfers and amounts of the runs |
| `BillingProofs` | theorems of `Billing`; TLAPS |
| `JobLife` | abstract: the life of a job as readers of the table see it |
| `ScanJobs` | the table, the processes, dispatches and threads, failures and recovery; refines `JobLife` |
| `Batches`, `MCBatches` | batches, items, usage, coordinators and submitters; EXTENDS `JobLife` for the jobs; instance |
| `BatchesProofs` | theorems of `Batches`; TLAPS |
| `WorkQueue` | the distributed queue: records, stream, producers, workers, their deaths and failed commands |
| `WorkQueueProofs` | theorems of `WorkQueue`; TLAPS |
| `Indexer` | the subscriber, `on_head`, `sync_once`, the canonical chain, and the chain they follow |
| `Accounts`, `MCAccounts` | users, tokens and sessions, the requests that use them, administrators, restarts; instance |
| `AccountsProofs` | theorems of `Accounts`; TLAPS |
| `Subscriptions` | a user's subscription and all who write it: grants, recorded payments, upserts, the settlement |
| `ApiKeys` | EXTENDS `Subscriptions`: the user's keys, their state, and the window of requests per second |
| `EmbedApps` | an embedded application, its monthly places and the handler that takes and returns them |
| `Platform`, `MCPlatform` | composes the three; instance |
| `PlatformProofs` | theorems of `Platform`; TLAPS |
| `RpcRouting` | the gateway's cache in front of the providers with their circuits |
| `ChainAccessProofs` | theorems of `RpcRouting` and `Indexer`, whose names carry a prefix because it stands beside another module here; TLAPS |
| `TradeMatrix` | pure: sale sizes, tax, cause and class of an attempt, signals, verdict |
| `StateFork` | EXTENDS `TradeMatrix`: scan threads, `AnvilFork`, the anvil processes and the token |
| `StateForkProofs` | theorems of `StateFork` for one thread; TLAPS |
| `RiskScore` | pure: features of market and bytecode, the rules of the policy, `RuleEngine.score` |
| `Intelligence` | EXTENDS `RiskScore`: holders, clusters, history, deployer, liquidity from transfers |
| `UnifiedScan`, `MCUnifiedScan` | EXTENDS `Intelligence`: a scan by the three engines while the chain moves; instance |
| `ScanProofs` | theorems of `ScanJobs` and of `UnifiedScan`, whose `unifiedVars`, `UnifiedInit`, `UnifiedNext`, `UnifiedSpec` and `UnifiedTypeOK` carry a prefix because both stand here; TLAPS |

### Billing

Each store method runs in one transaction under the store lock and is one action; each
RPC read is one action; what a thread read is kept in its record (`mon`, `ver[v]`) and
is used later as it was read. `pc` names the place between two such steps. The data are
abstracted as follows.

- *Amounts.* `create_invoice` gives every open invoice its own amount, so
  `AmountOf[t]` is the invoice whose amount transfer `t` carries (0: nobody's).
- *Time.* An invoice lapses in an environment step (`lapsed`). `first_seen_at` compared
  with `expires_at` is the bit `late` of the event; the block time the bit `overdue`.
- *Chain.* `head`, `final`, and for each transfer the height and the fork number of its
  block; a block hash is that pair. A reorg replaces the blocks above `final` and
  may drop, keep or move the transfers. A failed transaction is one without a matching transfer.
- *Subscription.* Plan and number of credited periods instead of dates.
- *Left out.* The `LIMIT 200` of the reconciler, confirmation counts, rejection codes, the
  copy of a settlement in the older payments table (only written), pricing, RPC decoding.
  `create_invoice` reads the plan just before its transaction: one step.

Faults (`MaxFaults`): a crash restarts the monitor and drops the calls; an RPC error ends the
pass; a provider without a receipt yet, or without the block a receipt names (`NoTimestamp`: then the
expiry is not looked at).

Three history variables say what the properties except: `replaced` (transfers whose block was
replaced after a thread or a row knew it), `moved` (those that were mined again at another height),
and `refused` (invoices whose settlement met a plan that had been switched off).

### Scan jobs

A process is `down`, `recovering` (has read the stale rows), `starting` (has requeued
them) or `up`. A dispatch is `<<process, path, job>>` with path `pool` or
`timer`; `disp` says where its thread is. `claim` is a guarded UPDATE and one step;
the analysis is the time in `run`; `update` is unconditional. `old` is the set of rows
whose `updated_at` is `recover_stale_seconds` ago. `recover_running` reads and writes
in two steps, since the SELECT runs outside of the transaction of the UPDATEs.

- `submit` creates the row and dispatches it in one step: a crash in between leaves what a
  crash right after leaves. `create` and `update` commit and then read the row back, so a call may raise
  after it was carried out: `SubmitError` leaves a row that nobody dispatched, and `StoreError` may go
  on to write "failed" over a stored report. `accepted` holds the jobs `submit` dispatched. The order of the executor's queue is left out, which only adds behaviours.
- Metrics, the request cache and the synchronous mode (used by tests only) are left out.
- `API-AUDIT-AR.md` (last section) describes deployments with several processes on one database,
  so `Procs` may have several members.

### Batches

One user, one process, one month. A request's fingerprint is its number of items. The
coordinator of a batch goes `waiting -> submit -> watch -> more/close -> tally`; being
in `_running` is not being `none`. A pass over the items is one step: only their own
coordinator writes items at that time, and jobs only progress. `Close` reads the counts
and writes the row. A crash and the following start are one step (`Crash`). The jobs
move by `JobLife`: any dispatcher that implements it may stand below, and
`ScanJobs` does (run `jobs`, property `ImplementsJobLife`).

### Work queue

Every Redis command is a step of its own: `create` is three, `mark_running` and `update` are a GET and a
SET each. A worker's row says where it is, which job it has in hand, the record it
read (`copy`), the attempts it counted (`tries`) and the status it will store (`out`).

- A message is new, delivered or acknowledged; who holds it does not matter, because a claim takes a message
  from whoever had it. `idle` is the set of messages delivered `claim_idle_ms` ago. The order of the stream
  is left out, which only adds behaviours.
- What the queue does not mend is marked in the history `spoiled` of the job it happened to: `Overrun` (its scan took
  longer than `claim_idle_ms` and its message may be claimed meanwhile), `CreateAgain` after a worker changed
  the record ("overtaken"), and an XACK that was carried out and raised ("unanswered").
- A scan returns a report or raises; the isolated child that fails, dies or is too late raises as well.
- An exception outside of the handler of `process_message` ends the process, as a death does (`WorkerDies`);
  one inside of it after the scan is `StoreFails`.

### Indexer

A block is the path to it: a sequence with 1 for each block that took the place of another, so
that it names its ancestors, as a hash does through the parent hashes. The index is empty at the
start, as `realtime_cli.py:24-34` leaves it. `sync` is the one call of `sync_once` there is at a time
(`on_head` is awaited before the next message); the reads of a block and of its logs are
separate steps, and the chain moves between them. `adopted` is a history: the blocks that were the head.

- `Mine` and `Reorg` are the environment. A reorg replaces no block more than `Window` below
  the greatest height, and the index is never behind by more than it looks back over
  (`WithinWindow`).
- The ledger is not modelled. Only `rebuild` writes it, and it follows parents to a block that names none;
  from an empty start the walk ends at a parent that is not stored and raises (`canonical.py:52-55`) before
  it writes. By then the head has moved, and `sync_once` goes on to the next block (section 6).
- Back-off delays, the handshake of a subscription, malformed messages and metrics are left out; an
  answer "latest" that cannot be used ends a call without effect.

### Accounts

A request is a thread's sequence of store calls, each one transaction and one action; `req[t]`
holds what it read. A password is its number, a token is known by the request that made it, and rows
that can no longer be used (tokens with `used_at`, revoked sessions) are left out. `Mail` delivers;
`MailFails` may have delivered too. Three history variables say what the properties except:
`stale` in a request and its session (the account changed after the login read it), `raced` (a
change was written on an outdated check), `cut` (a restart fell between the new password and the
revocation of sessions).

### Platform

One user, one application, any number of threads. The admin store and the developer
store have a lock each, so their methods exclude their own kind only; `sqlite3` begins a transaction at the first
write, so what a method reads before it is a step of its own (`GrantRead`, `StateRead`, `CreateCheck`,
`RotateRead`). Time is a small clock, used for the ends of subscriptions and the seconds of the rate window;
a request may wait for the lock
for any part of that time. Windows are kept for two seconds; the history `overdue` holds the seconds of which a request was let through that had
waited longer. Places of an embedded scan are given back by the inner handler and by the outer ones
(`StartFails`, `ReleaseAgain`), and for a scan that runs when something after its start fails
(`FinishFails`): these are counted in `misgiven`.

### RPC routing

A thread's call goes through `Miss`, then `Route` to one provider after another, then `Store`. Cache entries
keep two ages: since they were stored, and since the provider read the value. `open`
and `method` are remaining times. `Fail` counts and `Judge` compares, since the lock is given up in between.
Providers come and go (`Change`, at most `MaxChanges` times).

### State fork and trades

The set-up of accounts, the reads, a transaction and the wait for its receipt are one
action (`Execute`) of the thread, which a failed poll for the receipt ends with an error (`PollFails`); start, poll, verification, snapshot, revert, `stop` and the
clearing of the fields are steps of their own, because each may fail or meet another thread. An anvil that meets an occupied
port exits; whoever listens answers. The token is one of thirteen kinds that restrict, tax or
swallow sales, with the words its revert would carry; a mined revert carries none.
`Plan` names the attempts of a sequence, of scenarios and of the two matrices. `Leave` is the
outer `finally` of the matrix.

### Heuristics and the unified scan

`RiskScore` holds the 17 rules of `policies/score-v0.4.json` with their weights, factors and caps in integers
(ten-thousandths of a point; coverages in thousandths), so that comparisons are exact. `Intelligence`
computes the features from a set of transfers. `UnifiedScan` is one sequential scan, one action per
part of it that looks at the chain or at a source; between any two the chain may grow or replace its
last block. An engine that fails leaves its summary without a score, one that finds no anchor its own way of
saying so, as in the code: the heuristics then have a score of zero, the others none.
The static engine's report, the fork's result and what there is to read of the token come from
small sets of the instance.

## 4. Runs

| Run | Checks | Result |
|---|---|---|
| `billing` | 2 invoices, 1 transfer, 1 verify call, a reorg, plan switched off and on; finality and payer of credits, safety | holds |
| `billing_live` | 1 invoice, 1 transfer, 1 verify call, a reorg, plan switched off and on, a fault, fairness; ledger, liveness | holds |
| `jobs` | 2 processes, 2 jobs, 1 worker, one crash or store failure; safety, liveness, `JobLife` | holds |
| `batches` | 2 batches of 1 or 2 items, 3 jobs, one repeated request, one crash or store failure; safety and liveness | holds |
| `queue` | 2 workers, 2 jobs of 2 attempts, a death, failed command, lost reply or overlong scan; safety and liveness | holds |
| `indexer` | an empty index, windows of 2 blocks, 2 reorgs, a provider that refuses, a fault; safety and liveness | holds |
| `accounts` | 2 users, one an administrator or both, 2 threads, two changes, failed mails or restarts | holds |
| `platform` | 2 grants, a payment, 2 keys of which 1 may be active, 1 request a second, 1 embedded scan a month for 2 months, 4 requests | holds |
| `rpc` | 2 providers, 2 keys and room for one, 2 threads; freshness and recovery | holds |
| `scan` | 1 thread, 2 scans of any of 4 kinds, 13 kinds of token, one fault | holds |
| `scan_shared` | `BlockedIsProven` with two threads on one fork | violated: finding |
| `report` | 3 blocks, a reorg, 6 tokens, 6 requests, 4 static reports | holds |

**Bounds.** Billing's threads interact through one invoice and one transfer; a second
invoice is needed for the reuse and single-open rules. The monitor and the verify call are the two threads
that race to settle; two transfers of one amount are left to the proofs. A block above and one below a reorg is enough to move a
transfer up, and the scan chunk of one block makes the cursor stop between blocks. In
`ScanJobs` jobs interact only through the workers of a process, hence two jobs
and one worker; two processes are the smallest number in which a start meets a live process; any number of
failures is left to the proofs. In `queue` one failure meets jobs that may be given up, retried and
overtaken without any, because a scan may raise at every attempt. In `Batches` two batches meet in the
quota, the limit and the idempotency key, two items in the submitters. `RecoverLimit` (1000 in the
code) is never reached, and `JobsFinish` says nothing above it. Of the statuses a
report can end with, the runs of `ScanJobs` take one: the table treats them alike. In `indexer` a
window of two blocks has a block to rewind to and one to come back to; the second reorg may
strike while the first is being fetched, and may bring the old branch back. In `accounts` two threads are enough for
every race the exceptions name, and two events for a change that meets another one. In `platform` the second
key and the second grant are the ones that break a limit or an order; requests that do not meet in a table share the
bound on requests, so that a run of four still has two on either side. The plan `developer` stands for all:
`Subscriptions` compares plans only with those on sale. In `rpc` one entry of room makes eviction happen, and a
threshold of one opens the circuit at the first failure; ages beyond `TTL + MaxFetch` are equal. In `scan` the second scan meets
whatever the first left, and the sizes of sales are those of the code (a tenth of 5 units sells
none). In `report` a window of one block is shorter than the chain, so that holders are older than it;
thresholds on the numbers of holders, buyers and transfers are 1 or 2 in place of 10, 20 and so on.

**Fairness.** *Billing*: blocks become final, the monitor's loop goes on (it catches every
exception and polls), a verify call that began goes on; nobody is obliged to call.
*Scan jobs*: the thread of each dispatch runs (threads of an executor and timers are
scheduled by the system, and an analysis ends), and a process that died is started again.
*Batches*: coordinator and submitter threads run; nothing is asked of jobs, because no
thread of a batch waits for them.
*Queue*: a worker's loop goes on and a dead worker is replaced (`worker_cli` runs it for ever under
a service manager), a call of `create` that began goes on, and time passes. *Indexer*: the subscriber reconnects for ever, a call of
`sync_once` goes on, and heads keep being announced, as a chain that produces blocks does; the chain itself is obliged to nothing. *RPC*: a call that began goes on and time passes.
*State fork*: a scan's thread goes on; an anvil owes nothing, because every wait for it has a deadline.
No run uses strong fairness. `accounts`, `platform` and `report` claim safety only.

**Conditions stated in the properties.** `CreditsAreSound` excepts the finality of a transfer in `moved`:
read, and then mined again at another height. `MonitorSettles` and `LapsedInvoiceCloses` except what takes a
payment out of the monitor's hands for good (`Disturbed`): a fault, because a crash between "confirmed" and the
settlement leaves an event that only the owner's call settles; a reorg after which the row says "reorged"; and
a plan that was switched off when the settlement came. They are checked for invoices whose payer was given at
creation. `OneRunner` and `RepeatsAreRecoveries` assume that no analysis outlives
`recover_stale_seconds` (`MayOverrun`) and that starts do not overlap
(`StartsOverlap`). `JobsFinish` speaks of jobs that `submit` dispatched; it excepts a row that was claimed by a thread that died (recovery
happens only at a start, and only for old rows), and two failed store calls, which
may take both dispatches. `BatchCloses` excepts failed store calls, which end a coordinator for good. `FinishedIsTrue` says
nothing of items that still read "running" and of batches that are "failed" or "partial" (`ClosedIsDone`, section 6). In `JobsAreSafe` each part excepts
the jobs that were spoiled in a way that breaks it, and no others: `OneWorker` those with an overlong scan, `AckedIsFinal` all
three kinds, `FailedIsExhausted` overlong scans and overtaken records, the bound on attempts overlong scans. `JobsEnd` excepts spoiled jobs and a producer that died before it
sent the message. `CatchesUp` assumes `WithinWindow`. Beyond it the code
gets stuck: `on_head` looks back from the new head, `sync_once` cuts that to the block after its own
head, and when that head was replaced meanwhile no block has a known parent, now or later.
`RateKept` excepts the seconds in `overdue`. `SafeScanIsOneBlock` speaks of the tag "safe": the block of "latest"
may be replaced while its logs are read by number.
`SessionsAreCurrent`, `AdminsRemain`, `KeysLimited`, `RevokedIsRevoked`, `GrantsEnd` and `QuotaKept` name
the race in which the code does not keep them (`stale`, `cut`, `raced`, `late`, `disordered`,
`misgiven`), and hold outside of it. `MatrixVerdict` speaks of a matrix all of whose sales were decided,
`HoldingsNotOverstated` of the tag "safe", whose block is not replaced.
`CHECK_DEADLOCK` is off where all requests of the bound may be done, except in billing, where the
monitor polls for ever.

## 5. Finding

`scan_shared`: `AnvilFork.start` overwrites the one field `process` and always takes port 8545, and `ScanService`
runs its scans in several threads with one engine. The second scan's anvil exits, but its poll is answered by the
first one's, so it trades on a chain where the first has traded already, and a token with a cooldown is reported
as `sell_blocked`. `README.md:220` of the repository says that the snapshot of a sequence keeps
honeypot tests from affecting one another or the next fork process.

## 6. Conditions of the code that no run shows

Each of these was met while modelling. For the first group a definition of the modules
states the property, and TLC finds the violation when it is checked with the constants given.

- `ReconciledIsFinal` (billing): after a reorg the reconciler stores the new block hash but keeps the old height, and judges finality
  by it. `billing.cfg` with `MaxInvoices = 1`, `Verifiers = {}`, `PayerChoices = {w1}`.
- `AutoSettleNeedsPayer` (billing): the rule that an invoice without a payer is not settled automatically is applied when a log is
  processed, not when the event is reconciled. The same with `PayerChoices = {NoPayer}` and no reorg.
- `ClosedIsDone` (batches): the counts of the four statuses always add up to the total, so the first pass of the monitor closes the
  batch while scans run (`developer_api.py:781`); its items then read "running" for good and the batch "failed" or "partial", although the
  jobs complete. `tests/service/test_developer_api.py:188-206` (`test_500_batch_completes_end_to_end`) expects a batch that is
  "complete" with all items counted. `batches.cfg` with `MaxFailures = 0`.
- `RevokedForGood` (keys): `key_state` may write over a revocation it did not see (`admin.py:332`), although `ADMIN-CONSOLE-AR.md:20`
  says that a revoked key stays revoked. `platform.cfg` with grants, payments and embed threads set to none or one.
- `NoPaymentSkipped` (billing) with `Lookback = 0`, `MaxReorgs = 0`: the first scan of an empty database starts `scan_lookback` blocks
  (50, `billing.py:559`) below the final head; what was paid before is never scanned. `FirstScanInTime` says that it starts in time.

For the second group the modules show the behaviour in their actions.

- A payment moved by a reorg may be credited before its new block is final (`billing.py:865` keeps the old height), or its row ends as "reorged", or
  stays "payment_detected", and nothing reads it again (`moved`, `replaced`). When the plan is switched off before the settlement,
  `settle` raises `PLAN_INACTIVE` (469) after the event was made "confirmed": the event keeps that status and the invoice stays
  "confirming", also when the plan comes back, until the owner verifies the payment again (`refused`).
- An invoice without a payer when its payment is detected, and with one later, is not settled by the monitor: the runs of liveness give the payer at creation.
- A call of `store.update` that raises after its commit makes `_run` write "failed" over the report it has just stored (`store.py:73`,
  `service.py:108-109`; `StoreError`, `FailLate`). One of `store.create` leaves a pending row that no thread was given (`SubmitError`): the next
  start dispatches it.
- A batch whose idempotency key is used again after it was closed is closed again, and its completed and failed scans are added to the month
  once more (`Tally`, `developer_api.py:787`); the reserved ones are not.
- `create` of the queue writes its record again after the message is sent, over the result of a faster worker (`CreateAgain`). A scan that outlives `claim_idle_ms`
  is run by two workers, and as often as it does (`Overrun`). An XACK whose reply is lost leaves "pending_retry" behind an acknowledgement (`StoreFails`).
- `rebuild` raises at every move of the head after a start with an empty index: the head has moved, the ledger is never written, and the
  result of that synchronisation is not "complete". `canonical.py:18` and `README.md:645` of the repository promise the replay.
- `consume_rate_limit` drops the windows of more than two seconds ago, so a request that waited longer for the lock finds its second's
  count gone and is counted anew (`overdue`).
- A scan of "latest" reads its logs by number and without a hash, so its holders may be those of another block than its anchor (`HeuristicsRead`).
- Two starts that overlap (`StartsOverlap`) may run a job twice; a repeated idempotency key takes a closed batch
  up again without asking for `max_active_batches` (`RepeatBatch`).
- A matrix whose attempts are all unknown, or whose buys all failed, has the verdict `LOW_RISK` (`TradeVerdict`); one whose sale rounds to zero raises
  and fails the scan; words of the router in a revert hide the words of a restriction (`Cause`).
- An unknown trade in the buy of a sequence is classified `buy_failed` (`Class`).
- An engine that was asked for and failed after its anchor may still bring a score of 0.0 with its full weight (`HeuristicsAnchor`, `ForkRun`), although
  `unified/engine.py:71` says "A missing engine result is unknown, not safe."; the coverage alone keeps such a report from a verdict.
- The unified verdict uses the heuristic score and not its band, so an outage of the market source may end in `LOW_RISK`
  when the coverage suffices (`Band`).
- Anchors that disagree lower status and coverage and drop correlations, and leave findings as they are (`Combine`).
- A scan of a network other than the configured one with a fork request ends in an error: the fork it is given has no `fork_url` (`Abort`).
- Nothing stops an anvil when the service itself dies.

## 7. Proofs

`BillingProofs` proves for any number of invoices, transfers, users, plans, verifiers and any chain:
type correctness, `LinksExact`, `SettlementBacked`, `PaidIffSettled`, `OneOpenInvoice`,
`CreditedOnce`, `PaidIsForever`, `ExpiredStaysClosed`, and `ImplementsLedger`.
The assumptions are `StoreAssumption` and `BillingAssumption` (types of the constants, and that the
model values for "none" are not members of the sets); TLC evaluates both in the runs.

None of the properties is inductive by itself: a thread settles or attaches on
the strength of a row it read some steps ago. The invariant `IInv` adds that a
thread which is about to write (`MonInv`, `VerInv`, `ThreadInv`) holds a
transfer and an invoice of the same amount, both of them in the tables (rows are never
deleted), and that events are linked only to existing invoices and are late only for lapsed ones
(`StoreInv`). The argument has two layers. For every store
method a lemma (`SettleStep`, `AttachStep`, ...) says that from `StoreInv` and the
caller's pairing, the method preserves `StoreInv`, keeps paid invoices, does not reopen
expired ones, and is a step of the ledger or a stutter (`StoreStep`). For every
thread action the caller's pairing follows from `IInv` and its next `pc` keeps it. The temporal theorems
combine these with `PTL`.

`ScanProofs` proves of `ScanJobs`, for any number of processes, workers, jobs and failures: type correctness,
`OneRunner`, `RepeatsAreRecoveries`, `ResetIsConservative`, and, when no analysis outlives
`recover_stale_seconds` and starts do not overlap (`Careful`), `ImplementsJobLife`. The inductive
invariant has three parts beside the types. `HoldersInv`: a thread that works on a job is the
only one, its row is not old, and running unless an `update` that raised has finished it. `StaleInv`: the rows a starting process read are old, still
running, and no other process has any in hand, so that requeuing cannot hit a live run. `AttemptsInv`:
the attempts of a row are at most the failures so far, plus one when it has a runner or is finished;
a runner that dies pays for its attempt with the failure that killed it.

`BillingProofs` goes on to the two invariants that relate the tables to the chain.

- `CreditsAreSound`. `SettlementsAreFinal` and `EveryCreditIsSound` say that every settlement
  rests on a final transfer, with any crashes, RPC errors and reorgs, unless the transfer is in `moved` (section 6). `SoundInv` adds to `IInv` that
  a row or a thread which knows a transfer knows its present height or has it in `moved`, that the statuses "confirmed" and "settled" are given to final
  transfers only, and that a thread's UPDATE finds the row it read. `CreditsAreFromThePayer` holds with reorgs too, if every invoice
  is created with a payer (`NoPayer \notin PayerChoices`): a link, or a pair of transfer and invoice in a thread's hands, has the right wallet (`PayerInv`).
- `NoPaymentSkipped`. `NoneIsSkipped` has the hypothesis `[]FirstScanInTime`: a scan of an empty database starts when the chain is at most
  `scan_lookback` blocks old, counted from the first payment that matters; without it the code does skip payments (section 6). `SkipInv` says
  where a transfer of the chunk at work is: in the table, in the logs still to be processed, or in the hands of the monitor.

`AccountsProofs`, for any number of users, threads and changes. `IInv` adds to the types: two open tokens of one kind and user are
the same one (`TokensUnique`); the configured administrator has not been registered by a request and so is never rolled back (`RootInv`); a dismissal that was
checked and is not outdated leaves another administrator (`AdminsInv`); a login in flight has read the
account as it is, or is `stale` (`LoginsInv`); and a session is current, or a reset is on its way to revoke it (`SessionsInv`).

`PlatformProofs`, for any plans, grants, payments, keys and threads; the three services compose by showing that each step of one
leaves the invariant of the others alone. `GrantsInv`: what running grants put aside is backed by earlier grants. `KeysInv`: an insertion that is not late has
room for its key. `RateInv`: a window that was dropped is of a second no request can come from any more, unless it waited longer and the second is `overdue`.
The quota follows from `scans + open reservations <= used + misgiven`, per month.

`ChainAccessProofs`. *RPC routing*, for any number of providers, keys and threads: a value in the cache, and one in a thread's hands, was read at most
`MaxFetch` before its entry was dated (`CacheInv`, `CallsInv`). That the cache keeps its bound needs that an eviction finds an oldest entry.
*Indexer*, for any window, heights, providers, reorgs and failures, from an empty index: `HeadsStayJoined`. A block becomes the head only as a child of the head
or when its walk back meets the head's; blocks are never dropped, so walks only get longer, and
that walks meet is transitive, because of two blocks on one walk the lower one is on the walk from the other.

`WorkQueueProofs`, for any number of jobs, workers, attempts and failures, with no condition: each part speaks of the jobs that nothing of the kind
spoiled. `HoldInv`: a job in hand was delivered and, unless overrun, is not idle. `WorkerKnows`: a worker's copy is the record as long as it works, unless `create` wrote
over it, and its own attempt was the last one counted. `JobInv`: a job
whose attempts are used up has a worker at its last one, or a failure has paid for it.

`BatchesProofs`, for any number of batches, items, jobs, threads, repeated requests and failures. `BatchInv`: a coordinator past its first
step works on a running batch, and the counts of a closed batch are those of its items also while a repeated request waits to run it again.
`ItemInv`: an item is submitted only under its coordinator and only without a job. `JobsInv`: a job is named by one item or one
submitting thread, and without failures every job is named. `ReservedExactly` compares the counter with a sum over all batches; that
changing one total changes the sum by the difference (`SumGrows`) is shown by a least counterexample, because induction over sets is out
of reach. The module assumes that job ids are positive and that final statuses differ from "none", "pending" and "running".

`StateForkProofs`, for one thread (`OneWorker`; with two the code does not keep them, section 5) and any number of scans, blocks and faults and any token.
`RestInv` and `UpInv`: outside of a running scan no anvil exists, and within it at most the one `process` names, so that whoever answers on the port is
the scan's own. `AnvilInv`: it was made at the scan's anchor; every snapshot was taken before any trade; the snapshot of the attempt at work is unused, so its
revert works; and before its sale an attempt has not sold. `JobInv`: what a matrix attempt sells is a fraction of what this attempt bought, and each
result so far is proven: a blocked sale is restricted by the token's rule, a taxed one is not and paid the tax of the rule. An attempt's transactions are looked up in
`Plan`, about which `PlanFacts` and `ListFacts` say that a sale is the last one and in a matrix follows a buy. `MatrixInv`: as long as nothing was raised the results are those
of the modes in their order, so that a verdict rests on all of them. `DeservedVerdict` then compares the signals with the rule: the rounding of `effective_tax_bps` is
exact for the sizes sold (`TaxExact`), the comparison of the smallest with the largest sale misses no difference, because the tax of a token grows with the size (`Extremes`, `Rising`),
and hence the gravest signal is the deserved verdict.

`ScanProofs` also proves the four invariants of `UnifiedScan`, for any chain, transfers, tokens, requests, static reports and length of the window. `UnifiedInv` has
four parts beside the types. `WorkInv` says what the scan knows at each `pc`: no heuristics before they start, at "score" features whose coverages are ratios and which
say that there is no code when the bytecode was read and is absent, and afterwards a summary that was graded from such features.
`ReportInv` holds the two properties of the verdict with the fact that a scan which is idle is the only one to have a report.
`LedgerInv` speaks of the chain: nobody has a negative balance after any block (`Solvent`), and the heuristics' anchor of a request for "safe" is not
above the blocks that no reorg replaces, with the holders they found backed by the balances there. `AnchorInv`: in a scan of a safe block every
anchor so far is the chain's block at the shared number, and the holders are those of the chain's own transfers. The arguments:

- *Sums.* Scores, coverages and balances are folds of the community modules. The lemmas under "Sums over finite sets" show that a fold whose running sums
  are an integer on each subset is the sum of its elements in any order, that it splits over disjoint sets, and that it is bounded by the sum of bounds; everything
  about scores rests on these and on the rounding (`RoundIsInt`).
- *Weights.* `Combine` gives the engines 30, 40 and 30 of 100. One engine alone, also after the cut of a quarter for anchors that differ, stays under
  the half that a verdict needs (`NoVerdictFromOneEngine`); the hard block of a token without code puts the heuristics at 100 of
  100, so that the weighted score leaves the band of "LOW_RISK" (`NoCodeIsNeverLow`).
- *Ledger.* What a window of transfers credits to a holder is the difference of his balances after and before it; the balance before is
  not negative, hence `HoldingsNotOverstated`. What lies at or below the safe block never changes again, hence `SafeScanIsOneBlock`. That a block keeps the chain solvent is `Possible`, the rule of the token.

The theorems assume, beside the named conditions, only the ASSUMEs of the modules, which TLC evaluates in the runs. `CreditedOnce`,
`PaidIsForever`, `ExpiredStaysClosed`, `LinksExact` and `ResetIsConservative` are proved and no longer part of
a run. A type invariant is proved for every module that a run checks.

Only model-checked: liveness (fairness and ENABLED are out of the prover's reach). Every safety property of the runs that hold
is proved.

## 8. Not modelled

- *Sandbox and tool processes, models and networks, validation and command-line tools, web pages*: no state
  between calls; a state machine says nothing of them.
- *Static engine*: runs external analysers and matches text. Its report is an input of `UnifiedScan`.
- *HTTP front end*: the order in which it calls the services is in the actions of the services; parsing, pages and the
  in-memory rate limiters are left out.
- *Unified engine*: risk dimensions, the evidence graph, confidence. *Heuristics*: churn, fingerprints,
  the lower coverage of a stale market answer, decoding of bytecode. *State fork*: calldata, pool discovery, state diffs.
- *Indexer*: `alchemy_indexer.py`, `analytics.py`, the single poll of `--once`.
- *Batches* of several users, processes or months: users share no row, and a month change only moves the counter; with
  several processes each start would take up every active batch also of a live process, which the code does not foresee.
- *Embed tokens* and partner pages: signing is a pure computation.
