# Verification of the Gharabi platform server

This directory holds TLA+ models of the server of the Gharabi platform, the TLC
configurations that check them on small instances, and theorems about them that
TLAPS proves for every value of the constants. It is about `server.ts` and the
modules of `engine/` it calls. Paths below are relative to the root of the
repository; `server.ts:20870` is a line of it.

To run it: `tlc -config persist_core.cfg MCStatePersistence` (one line per run in
the table of section 4) and `tlapm StatePersistenceProofs.tla`.

Contents: 1 the system, 2 the modules, 3 the plan, 4 the runs, 5 fairness,
6 the proofs, 7 disagreements between code and documentation, 8 what is not
modelled.

## 1. The system

One Node process serves the web interface and the owner's API, polls the social
platforms, receives their webhooks, drafts and sends replies and publications,
and keeps its whole state in memory. Postgres (Neon) holds copies of that state
under a few keys of the table `gharabi_state`, and the reservations of external
operations in `gharabi_idempotency`. During a deployment two processes run for a
while. There is no lock but the event loop: code between two `await`s is atomic,
anything may happen at an `await`.

| Component | State it keeps | Operations | Modelled |
|---|---|---|---|
| State persistence queue | live containers; `persistQueue`, `persistPending`, `lastPersistError`, `storageReady`; the adapter's `writeBaseline` | `persistState`, `persistStateDurable(OrThrow)`, `persistStateNowStrict`, `persistCritical(NowStrict)`, `saveControlState`, `bootstrapStorage`, `shutdown`/`drainQueue` | `StatePersistence` |
| Idempotent external operations | `inFlightReplyKeys`, `socialReplies`, rows of `gharabi_idempotency` | `acquireReplyLock`, `beginExternalOperation`, the reply executors and publish wrappers, `endExternalOperation` | `ExternalOperation`, `OperationPromise` |
| Polling watchers | `watcherRunning`, `watcherLease` and siblings, the processed lists, `watcherWriteMemos` | `runYouTubeWatcherCycle` and the Meta, Telegram, commercial cycles, `persistWatcherState` | `WatcherCycle` |
| Webhook intake | `webhookEvents`, `socialComments`, provider id lists | `POST /api/webhooks/:platform`, platform webhook routes, `ingestWebhookComments` | `WebhookIntake` |
| YouTube content queue | `contentQueue`, `youtubeOperationKeys`, retry dates | drafts, review decisions, `executeYouTubePublish`, the quota retry timer | `ContentQueue` |
| Owner approval of outgoing messages | `outboundApprovals`, `commercialDrafts` | record, update, supersede, decide, send | `OutboundApproval` |
| Automation jobs and publishing | `automationJobs` | create, approve, preflight, `executeApprovedJob`, cancel | `PublishingJob` |
| Owner alerts | `ownerAlertState` | queue, digest, mark, reconnect | `OwnerAlerts` |
| Sessions and one-time codes | consumed windows, revoked sessions, epochs | verify a code, logout, change an account | `AccessControl` |
| Disaster recovery | `driveLease`, recovery points, `current/`, the mirror's versions, the schedule's times | `runFullBackup`, `runBackup`, retention, `runCurrentMirror`, `decideAutoBackupRun` | `BackupRun`, `CurrentMirror`, `BackupSchedule` |
| AI engine | circuit breaker, cache, daily count | `run`, charge, release, open and close | `AiEngine` |
| Agent orchestrator | the list of tasks | create, run a tool, time out, restore | `AgentTask` |
| Provider credentials | `providerTokens`, `platformConnections`, `tokenRenewTrack` | link, renew, prove, disconnect (TikTok) | `TokenRenewal` |
| Storage adapters | file with rotating backups, or Postgres | `read`, `write`, `writeMany`, start-up retry | Postgres writes in `StatePersistence` |
| YouTube quota | units spent per day, reserves | spend, refuse, reset | only its refusals, in `ContentQueue` |
| Brain runtime, commercial brain | cycle clock, memory, leads | cycles, drafts | drafts in `OutboundApproval`, polling in `WatcherCycle` |
| Social connectors | (none) | HTTP calls | the outcomes of calls only |
| Conversations, monitoring, recovery centre, content decisions, interface, gateway, tools | their own, or none | see `PROJECT.json` | no |

`PROJECT.json` lists all of them with their files and the reason for each
omission.

### How they interact

* Every handler changes memory first and then asks for a write. Lazy writes
  (`persistState`) are coalesced and build their snapshot when the job starts.
  Eager ones (`persistCritical`, the strict writes) take the snapshot at the
  call and reject their caller when the write fails.
* A watcher cycle decides on a comment and calls a reply executor, which takes
  the in-flight lock of the process, then the durable reservation, then asks the
  provider, records the reply and ends the reservation. The cycle's own state is
  written to its own key, beside the queue.
* A webhook route puts the event on the list that detects duplicates, waits for
  the queue and answers the provider.
* The owner's decisions (replies, content, jobs) and the timers (quota retry,
  preflight, automatic cycles) call the same executors. Each keeps a row of its
  own in memory, saved some time later or under another key than what it led to.
* Backups and the mirror write to Drive, where nothing spans two files.
* The next process reads everything at boot, and only then.

### What makes it hard, and what correctness means

* **Persistence.** A snapshot may be older than the state another job already
  wrote; a change may be coalesced into a job that has already started; a failed
  write must neither stop the chain nor be reported as a success; nothing may be
  written before the stored state has been read. Correct: a confirmed write
  stays; every requested change is written by a write that starts after it, or a
  failure is announced.
* **External operations.** Two processes, or a request and a cycle, answer the
  same comment; the process or the answer is lost after the provider acted, or the
  answer refuses what was done; the store fails; an attempt outlives its
  reservation. Correct: one executor at a time, no repeat after `done`, no quick
  repeat after a lost answer, `done` only for what happened, no lock or reservation
  held for ever.
* **Watchers.** Timer, manual route and self-healing call start the same cycle;
  a process dies with the lease; the decision is lost with the process.
  Correct: one cycle at a time, the lease comes back, each comment is decided.
* **Webhooks.** The write fails after the event was listed; the provider
  repeats; newer events push older ones off the list. Correct: what was
  acknowledged is stored, what is refused can be sent again.
* **Content, approvals, jobs.** A row is withdrawn, edited or replaced while its
  upload or reply is in flight; a retry and a manual request meet; two nested
  reservations must end together; saves overtake each other, and a restart finds the
  row older than what was done. Correct: what the owner withdrew stays withdrawn,
  nothing goes out twice unless a call or its record was lost or misjudged, what is
  marked sent is what was sent, and nothing the owner was asked about disappears.
* **Alerts.** Events arrive while the digest is being mailed; both lists are cut.
  Correct: what counts as sent was mailed, and what is queued is sent.
* **Access.** A code or a logout is confirmed by a write of a snapshot, with older
  snapshots behind it. Correct: a code opens one session, a confirmed logout holds.
* **Backups.** Drive calls take effect and lose their answer; the process stops
  between two files; retention deletes. Correct: after a success one point as
  recent can be restored, the mirror's HEAD names an intact version, no backup
  grows old just by being put off, the lease comes back.
* **AI.** A charge before midnight and a failure after it; failures that arrive
  while the breaker is open. Correct: the day's limit, and the breaker closes.
* **Agent.** A tool that was given up goes on. Correct: no second effect for a key
  unless its task left the list or was lost.
* **Credentials.** Nothing keeps a renewal, a disconnection and a new link apart.
  Correct: credentials belong to the linked account, and a connection that was
  given up too early comes back.

The list of hazards, each at its line, is in `PROJECT.json`.

## 2. The modules

A step of a model is the code between two `await`s. Data are abstracted to what
the properties tell apart.

### StatePersistence

The content of a key is the number of changes made to it (a *version*); only
changes that add or remove an entry count, because a snapshot shares its rows
with memory, so that edits of a row in place reach a write that has not been
serialised yet. `None` marks a key that a job does not write and `Unread` the
blank content of a process before `bootstrapStorage` has read the database.

| Variable | Code |
|---|---|
| `phase` | before and after `storageReady`; `shuttingDown`; process gone |
| `mem`, `db` | the live containers; `gharabi_state` |
| `baseline` | `writeBaseline` of the adapter (adapter.ts:735) |
| `queue`, `writing` | the jobs chained on `persistQueue`; the one that runs |
| `pending`, `failed` | `persistPending`; `lastPersistError` set |
| `direct` | the write of `saveYouTubeDelegationState`, beside the queue |
| `requested`, `captured`, `acked` | ghosts: last version asked for, newest one captured by a started write, newest one confirmed |

`PersistState`, `SaveControlState` and `PersistEager` are the callers (the last
one for the strict and critical writes), `StartWrite` the start of a job with its
snapshot and `serializeIfChanged`, `CommitWrite` and `FailWrite` its end.
`FailWrite` may leave the database changed when `Timeouts` holds: `query_timeout`
is the client's, and the statement may have been carried out. `Crash` lets the
write in flight land or not. `Sigterm` and `DrainExit` are the shutdown:
`drainQueue` awaits `persistQueue` until it is still the last promise. The ghosts
are reset on a restart except `acked`, which is what the outside world was told.

### ExternalOperation and OperationPromise

An attempt is one call of a reply executor (`executeMetaCommentReply` and its
siblings) or of a publish wrapper, which has no in-flight lock and no reply guard
(`Replies` separates their keys). Its stages are the code between the awaits:

`idle -> asking` (lock taken) `-> refused | granted` (reservation)
`-> sending -> sent` (provider) `-> saving` (recorded, `persistStateDurable`)
`-> ending` (`finally`) `-> idle`.

`Faults` names the store calls that may fail. A failed `reserve` or `read` becomes
`backend_unavailable`, which the code lets through; a failed reserve may have been
carried out. Time is counted down, not up: `left` is what remains of a
reservation, so that time needs no bound. `window` is a ghost, what was left of
the reservation at the last delivery. `Misjudged` is the answer of a provider that
has acted and yet counts as a refusal: an error of its server, or a body that cannot
be read or has no id (facebook.ts:1469, server.ts:1377); the row ends as `failed`, free at
once, and `window` is closed, so that `RepeatWaits` excepts what follows such an
answer and nothing else. `Slow` lets an attempt outlive its
reservation: no client sets a time limit on `fetch`, and the defaults of the
runtime (five minutes for the headers, five for the body) add up to the ten
minutes of the reservation. A provider that acts after the process that asked it
is gone is modelled as one that acted just before.

`OperationPromise` is what the component promises, without processes, rows, locks
or clocks: an operation has one executor at a time (`Claim`), is carried out only
while it has one and not while a former delivery is recent (`Carry`), is settled
by its executor only after it was carried out (`Settle`), and never executed
again. The one exception is stated as such: an executor that carried out the operation
may be told that it was refused (`Disown`), and nothing protects that delivery from
then on. `KeepsPromise` is the refinement: executors are the working attempts,
settled the `done` rows, recent the keys with time left in their window. TLC
checks it and TLAPS proves it.

### WatcherCycle

`kind` chooses the YouTube watcher, or one of the Meta, Telegram and commercial
watchers, which have neither the running flag nor the persisted claim, and whose
`finally` clears the lease whoever holds it. `Start` is the code up to the first
await, `Consider` and `Decide` the loop over comments, `Conclude` every way out of
it (list done, gate closed, error), `Finally` the `finally` clause, which runs in
the turn in which the last save settles. `BeginSave`, `Settle` and `EndSave` are
`persistWatcherState` with the coalescing of `writeCoalescing.ts`: a save is left
out when nothing but bookkeeping changed (the save that the code lets through
every half hour only renews times). Saves do not use `persistQueue`, so several
may be under way, and a failure is swallowed. `RouteSave` is any route that only
saves. `Restart` lets any write under way land, or the forced one of an orderly
shutdown; the lease read at boot always names another owner, since the owner's
name contains the process.

### WebhookIntake

The signed route (`Signed` events) queues a snapshot that contains the event and
waits for that write alone; the platform routes (`Direct` events) ask for a lazy
write and wait for the end of the queue, and answer 200 whatever its outcome. The
queue is the one of `StatePersistence`, reduced to what the routes see of it: jobs
that carry their snapshot and at most one live job that has not started. The write
baseline plays no part: each row carries its time of arrival, so two snapshots
with different rows are never the same text. A handler starts only when no settled
delivery is left to run (`Quiet`), as promise callbacks run before the next
request. A live job may start between the failure of a strict write and the
rollback: the event it then stores is also offered again, which is harmless.
Duplicates are answered at once by the signed route, Telegram and TikTok, and
after the queue by Facebook, Instagram and WhatsApp. `evicted` is a ghost: events
that newer ones have pushed off the bounded list, of which the code promises
nothing.

### ContentQueue

One item of `contentQueue` and the tasks that touch it: requests of the owner
(`Slot`) and the retry timer. `queue` and `saved` are the queue in memory and under
the watcher's key, `keys` and `savedKeys` the fingerprints (`youtubeOperationKeys`)
under the workspace's key, `res` the reservation, `videos` what YouTube has; `due`
is the list that a retry pass captured before it began to send. A restart may find
the two keys and the reservation at different ages, which is the point of keeping
them apart.

`persistWatcherState` writes beside `persistQueue`, on a pool of connections, and
swallows failures. `saved` is therefore a set: every snapshot of which it is not yet
settled whether the store will keep it. `SaveResults` chooses what a write may do:
`Save` replaces the set by the present state when that lands before its caller goes on
("landed"), or adds it ("late"). `Settle` removes a snapshot that failed or was
overwritten, so that a late write may end either way; a restart finds any of them, also
an older one that overtook a newer one. `MaxSnapshots` bounds the set.

`decided` and `withdrawn` are ghosts of the owner's decisions: an item counts as
withdrawn once nothing works on it and no snapshot in `saved` says otherwise
(`Standing`). `lost` marks items with a call whose result the records do not have, or
took for a refusal (`Misjudged`).

### OutboundApproval

Rows of `outboundApprovals` and drafts of the commercial brain for the same
comments, with the decisions in progress (`task`), the reply history, reservations
and what the customer got. An approval is `ApproveRow` or `ApproveDraft` (status and
gate), the reservation, the provider's answer, the outcome written into whatever row
has the id by then, and the save. A draft and a row use different keys, so neither
the lock nor the reservation keeps them apart; what does is `Superseded`. `got` is what
was delivered under a key.

`persistCommercialLeads` writes beside `persistQueue` as well, and `saved` is a set of
snapshots as in `ContentQueue`, with `SaveResults` and `Settle`. Both lists are cut: rows at `Capacity`, drafts at `MaxDrafts`
(`Drafted`). `asked` and `refused` are ghosts of what the owner was shown and has
decided: a comment enters them once it is recorded, or decided, in memory and in every
snapshot of `saved`, and leaves them when newer rows or drafts push it out.

### PublishingJob

`status` of a job, `task` an execution, `res` its two reservations (job and
publication), `posts` what was published. `Direct` jobs send a Telegram message
under the outer reservation alone. `Concluded` is `endExternalOperation`, for either
of them. `Misjudged` is a publication whose answer counts as a refusal. Decisions
(`Create`, `Approve`, `Cancel`, `Retry`, and `AgentDecision` from every status) change the status alone, while an execution is under way too.

### OwnerAlerts

`alerts` is `ownerAlertState` as a whole, as the code replaces it: pending list,
sent keys, the half-hour window, the switch. `cycle` is the digest a caller built
before it awaits the mail; `Sent` marks its keys and whatever else the code marks.
The ghosts `excused`, `late` and `cut` say which events lost a mail or a record,
came while a digest was in flight, or were cut from a full list.

### BackupRun, CurrentMirror, BackupSchedule

`BackupRun`: a file is the number of the run that wrote it. A run writes a
recovery point (`Create`, `WritePoint`), then `current/` in place (`WriteCurrent`),
reads it back (`Verify`) and prunes (`Plan`, `Delete`). Each `Call` takes effect,
fails, or takes effect with its answer lost. `lease` is `driveLease` in memory: free,
own, or of an older life; `savedLease` what a restart reads.

`CurrentMirror`: versions as folders with their own manifest and `HEAD.json` as the
point of commitment; a run stages, uploads, verifies, writes the manifest, adopts
and deletes the others. `Blocked` is a run that the scan for secrets, the folders or the
space on Drive turn away before it writes anything. Faults (a run turned away is one)
are counted, so that `CatchesUp` can say what happens
when Drive answers again. `misread` is set when a run takes an unreadable HEAD for
none.

`BackupSchedule`: `decideAutoBackupRun` and its timer, with the two ages that follow
from the saved times, the quota guard, failures and stops.

### AccessControl

`mem` and `stored` are what ends a session: the windows used, the sessions revoked,
the epoch, the state of the account. A login and a logout change memory, wait for a
strict write of their snapshot in `queue`, and answer; the owner's changes ask for a
lazy write. `opened`, `given` and `left` are what users have been told.

### AiEngine

`cache`, `call` (executions in progress, of which equal ones are joined), `breaker`,
and the count of the day (`used`, `saved`, unordered `writes` on their way).
`overnight` marks a call that was charged to a day that is over; `uncounted` is a
ghost of charges that the count has lost.

### AgentTask

`order` is the bounded list of tasks, `record` their keys and status, `slot` what
each request runs, `stray` the tools that go on after they were given up. `effects`
counts what a tool did for a key; `lost` are keys whose task is no longer on the
list, or whose effect the list does not know of.

### TokenRenewal

One TikTok connection. `link` holds the credentials and what `platformConnections`
shows; `call` what the keeper, an operation or the proof of the connection wait for,
with the credentials they captured; `track` is `tokenRenewTrack`. `Retired` is the
provider, which may retire older refresh tokens when it gives a new one. `Refused` is any
code of `PERMANENT_CODES`: about credentials that were retired, or about the
application or the request (`invalid_client`, `invalid_request`), which turns good
credentials away as well. No lock
keeps these calls apart, and `saveTikTokCredentials` writes over what is there:
`disturbed` is a ghost that says that this has happened, or that good credentials were
refused for good (section 7).

### MCParts

The eleven modules from `ContentQueue` on share no state: each sends through
reservations of its own key and saves rows of its own. Two runs therefore check
several of them side by side: `part`, which no step changes, says which module a
behaviour is about, its variables are kept in `v1`, ..., `v13` and `restarts` by
`INSTANCE ... WITH`, and those it does not need stay 0. The state space is the union,
not the product. Each property is restricted to the behaviours of its part, and names
the property of the module. `safety.cfg` checks the parts whose properties are safety
ones under `Spec`, `liveness.cfg` those with fairness under `FairSpec`, in which the
fairness of a part binds that part alone.

`MCParts` names what the parts ask of their bounds as assumptions, which TLC evaluates
in both runs and the theorems use. Three of them say something of the code:
`BackupAssumption` (one point or more is kept, as `resolveKeep` has it; nothing is asked of
the protected ids), `ScheduleAssumption` (the limit of deferral, 24 h, is positive and
not shorter than the interval, 6 h) and `LoginAssumption` (a write that is not a
request's own is of none of them). The others are the types of bounds and the
finiteness of the sets that the models count.

## 3. The plan

Written, in this order: `StatePersistence` (everything else relies on it),
`ExternalOperation` (what customers see) with `OperationPromise` and its refinement,
`WatcherCycle` (who calls it), `WebhookIntake` (the other source); then the owner's
decisions and what they start (`ContentQueue`, `OutboundApproval`, `PublishingJob`,
`OwnerAlerts`, `AccessControl`), disaster recovery (`BackupRun`, `CurrentMirror`,
`BackupSchedule`), and the helpers (`AiEngine`, `AgentTask`, `TokenRenewal`).

Left, most important first:

1. The file adapter: rotating backups, keys written one by one, the boot check
   (adapter.ts:226–470). Property: a guarded file is damaged or at least as new as
   what was acknowledged.
2. The cycle of the brain's memory (brainRuntime.ts, server.ts:20553–20690).
   Property: a cycle that reports success has stored what was in memory.
3. `RollingDeploy`: two instances of `StatePersistence` over one database.
4. The other send modes, and the limits per customer, in `OutboundApproval`; the
   other platforms in `TokenRenewal`.
5. The YouTube quota ledger as numbers.
6. Conversations and their limits; the recovery centre's restore protocol.

An abstract specification still worth stating is the *confirmed store*, what a
caller of `persistCritical` relies on, implemented by `StatePersistence`;
`AccessControl` uses a reduced copy of the queue instead. Every safety property of
the passing runs is proved (section 6); what is left to prove is the refinement of
that abstract store, once it is written, and the modules above.

## 4. The runs

| Run | Module | Checks | Distinct states |
|---|---|---|---|
| `persist_core` | `MCStatePersistence` | `TypeOK`, `AckedHolds`, `NoBlankOverwrite`, `RequestedIsCaptured` | 62,833 |
| `persist_lazy` | `MCStatePersistence` | `HealthyMeansSaved`, `CleanExitSaved`, `ChangeCovered` | 121,818 |
| `external_single` | `MCExternalOperation` | `OneExecutor`, `RepeatWaits`, `DoneIsFinal`, `KeepsPromise` | 9,318 |
| `external_faults` | `MCExternalOperation` | `DoneMeansDelivered`, `LocksHaveOwners`, `ReservationEnds` | 53,664 |
| `watcher_cycle` | `MCWatcherCycle` | `OneCyclePerProcess`, `LeaseRecovered`, `EveryCommentDecided` | 37,350 |
| `webhook_intake` | `MCWebhookIntake` | `AckedStored`, `ListedIsStored`, `EveryEventAcknowledged` | 114,724 |
| `safety` | `MCParts` | `TypeOK`, `WithdrawalStands`, `RepeatNeedsLoss`, `SentIsTrue`, `AskedIsKept`, `RetryFindsFree`, `SuccessStaysRecoverable`, `AnswersHold`, `MarkedWasMailedOrLate`, `LinkIsWhole`, `LeavesMarked` | 1,269,849 |
| `liveness` | `MCParts` | `BudgetHeld`, `IntactUnlessMisread`, `StaleOnlyAfterFailure`, `QueueIsSent`, `DatedIsRetried`, `LeaseComesBack`, `CatchesUp`, `BreakerComesBack`, `ComesBack` | 79,070 |
| `persist_lost_update` | `MCStatePersistence` | violates `HealthyMeansSaved` | |
| `content_forgotten` | `ContentQueue` | violates `PendingIsRetried` | |
| `reply_second` | `OutboundApproval` | violates `OneReplyPerCustomer` | |
| `backup_false_success` | `BackupRun` | violates `SuccessMeansIntact` | |

Deadlock is checked in the runs of the first six rows and in
`persist_lost_update`: none of those systems stops. It is not checked in the others,
where a bound (runs, rows, versions, days, restarts) may leave a finished system with
nothing to do.

**persist_core** has eager and lazy writes, failures that are known not to have
committed, one restart, two waiting jobs and versions up to 3 (the stored state is
version 2, so one change per key, and one more after a restart has lost it). It
shows that a confirmed critical or strict write is never undone and is read by the
next process; that the blank memory of a booting process is never written; that a
failed write does not keep later changes from being written.

**persist_lazy** drops the eager writes and adds ambiguous timeouts and the direct
write, with two changes per key. An idle queue without an announced error means
that the state is saved; a drained shutdown loses nothing; coalescing always
leaves a write that starts after the change. Two waiting jobs are enough: one lazy
state job at most waits, and the others can be told apart only by being before or
after it.

**external_single**: two processes with two attempts each on one reply, a
reservation of two ticks, no faults. One key is enough, because rows, locks and
records of different keys meet only in the limit on identical texts (section 7).
Two ticks separate a fresh reservation, a delivery at its last moment and an expired
one. Processes and slots are symmetric and no property is a liveness property.

**external_faults**: one attempt at a time, on a reply or a publication, with every
fault and attempts that outlive their reservation. These properties must survive
the faults; the safety of the other run cannot (section 7).

**watcher_cycle**: one process, two concurrent calls, two comments, a budget of one
comment per cycle (so that a second cycle is needed), a lease of one tick and
cycles that outlive it, one restart; both kinds of watcher. Two processes are left
out, since memory takes the lease from the database only at boot and processes are
otherwise independent (section 7).

**webhook_intake**: two signed events and one comment on a list of two rows, so that
eviction, duplicates and rollback all meet; two deliveries at once, two jobs, one
restart. Providers wait for an answer before they repeat.

**safety** has thirteen parts, given below with their bounds. Comments,
texts, accounts, slots, requests, keys of tasks and callers can be exchanged: the
modules only compare their elements and never name or order them, and the run has no
liveness property. `Symmetry` exchanges the two elements of each of these sets at
once, which halves every part that has such a pair.

| Part | Module | Instance | Why it is enough |
|---|---|---|---|
| `queue` | `ContentQueue` | one item with a date of its own, one request beside the timer, writes that land at once, one restart | rows of different items meet nowhere but in the captured list; a timed and an untimed upload differ in their verification |
| `late` | | one item without a date, late writes, two snapshots in question, one restart | two writes are needed for one to overtake the other, and a restart to read what is left |
| `pair` | `OutboundApproval` | one comment, two decisions at once, one row, one restart | two clicks, or a click and a bulk decision |
| `edits` | | one decision, two rows, two texts, one restart | a text that changes in flight, a row replaced by a newer one |
| `unsaved` | | one decision, one row, late writes, two snapshots in question, one restart | memory and store differ, writes fail and overtake each other |
| `crowd` | | two comments, two rows, lists of one row and of one draft, late writes, two snapshots in question, one restart, nothing being sent | the cuts of both lists, and comments that push each other out while the store is behind |
| `nested`, `messages` | `PublishingJob` | one job, two executions, two restarts | both kinds of job; two restarts lose a save twice |
| `backup` | `BackupRun` | four runs, `Keep` 2, the first point protected | retention deletes for the first time in the third run, and after it |
| `alerts` | `OwnerAlerts` | one event and one platform, both callers, lists of two, one restart | an overflow needs a third key, which the platform's reconnection gives |
| `access` | `AccessControl` | two requests, two windows, two sessions, two waiting writes, one restart | one request to be overtaken by the other |
| `agent` | `AgentTask` | two keys, a list of two, three tasks, one restart | the third task pushes the first off the list |
| `token` | `TokenRenewal` | two accounts, one operation beside the keeper and the proof | a relink to the other account, and to the same one |

What a restart may find is in `saved` whether or not one happens, and the properties
about what stays (`WithdrawalStands`, `AskedIsKept`) speak of every snapshot in it.

**liveness** has seven parts: `alerts` (a platform, both callers), `queue` (one
item, one request, uploads without a date of their own, one restart), `backup` (two
runs, one restart), `mirror` (two paths, two trees, five versions, two faults, two
deployments), `schedule` (interval 4, retry 1, limit 8, ages up to 10), `ai` (two
keys, two callers, limit, threshold and cooldown 2, one midnight) and `token` (one
account, a token that lasts two rounds). `schedule` has safety only. One version
more than there are faults and deployments lets the mirror finish. Two faults reach
every pair of calls that fail.

**The four violations** are the disagreements of section 7.

Every property also has a mutant: a plausible mistake in one definition of the
model (a dropped guard, a missing reset, a wrong order) which makes TLC find it
violated. They stand before the definition they change, marked "Mutant of". The
properties over several parts (`WithdrawalStands`, `RepeatNeedsLoss`) have one of
one part.

## 5. Fairness

* `StatePersistence`: a job that can start starts, and a started write settles:
  `query_timeout` and `statement_timeout` of 45 s (adapter.ts:529) end every
  query. Nothing is assumed about writes succeeding.
* `ExternalOperation`: each attempt goes on (its awaits settle through the time
  limits of `fetch` and of the queries), and the clock runs. No attempt has to
  begin.
* `WatcherCycle`: weak fairness for the steps of a call and the clock. Strong
  fairness for starting a cycle, because the interval timer tries again and again
  and lease and flag come and go in between; and for considering and deciding a
  comment, because a provider or an AI that fails from time to time does not fail
  for ever. Without the latter a platform that is down for ever leaves its
  comments undecided, as it must.
* `WebhookIntake`: jobs start, writes settle, answers are given. A provider repeats
  an event that was not acknowledged (strong fairness on its delivery, since a slot
  or room in the queue is not always free), and not every write that an event keeps
  waiting for fails. `EveryEventAcknowledged` is therefore a property of the retry
  protocol and not of a provider that gives up.
* `OwnerAlerts`: the half hour ends, the timer runs cycles, a mail is answered or
  times out; strong fairness on a mail that is accepted, because a mail provider
  that fails from time to time does not fail for ever.
* `ContentQueue`: the timer starts its passes and goes on with them, and the steps
  of an executor that has begun are taken. No request of the owner has to come.
* `BackupRun`: the steps of a run are taken (each Drive call ends by its time
  limit), and the time of a lease passes. Drive may fail every call.
* `CurrentMirror`: the steps of runs are taken, and runs begin (the schedule is the
  subject of `BackupSchedule`). Faults are bounded by `MaxFaults`, and `CatchesUp`
  says what follows them.
* `AiEngine`: time passes and calls to the provider end, in whatever way.
* `TokenRenewal`: time passes, the keeper's timer runs, its calls and writes end;
  strong fairness on a renewal that the provider grants.

## 6. The proofs

Eight modules prove safety for every value of the constants that satisfies the
assumptions named: four about a component each, three (`DriveProofs`,
`ServiceProofs`, `DeliveryProofs`) about the components of `MCParts`, and
`PartsProofs`, which carries the latter over to the very properties that the runs
`safety` and `liveness` check.

The components with a module of their own:

* **`StatePersistenceProofs!TypeCorrect`** needs no strengthening. (The types of
  `ExternalOperation` and `WatcherCycle` are proved and in no run.)
* **`ConfirmedWritesHold`** (`AckedHolds`), assuming `~Timeouts` and `~Direct`.
  `AckedHolds` is not inductive: a queued snapshot could be older than what was
  confirmed. `IInv` adds that the baseline is right, that snapshots in the queue
  are in the order of the changes, none older than what was confirmed
  (`QueueFresh`, `QueueOrdered`, `WritingFresh`, `WritingFirst`), and that what a
  write leaves out is in the database (`SendExact`). Both assumptions are needed
  (section 7).
* **`CoalescingCovers`** (`ChangeCovered`) holds under every fault. The
  strengthening `CInv` says that `persistPending` implies a waiting lazy job, and that
  a lazy job holds nothing until it starts.
* **`HealthyIsSaved`** (`HealthyMeansSaved`) and **`CleanExitIsSaved`**
  (`CleanExitSaved`), assuming `~Eager`: with lazy writes alone, whatever times out
  or is written beside the queue. `HInv` adds to `CInv` that only lazy and control
  jobs are queued (`OnlyLazy`), what a started state write holds (`StateWrite`), that
  a database behind the requests means a job or an announced error (`Behind`,
  `Announced`). `persist_lost_update` is the counterexample with eager writes.
* **`StoredStateNotBlanked`** (`NoBlankOverwrite`), under every fault: no queue, no
  write and no direct write of a process holds `Unread`.
* **`ExternalOperationProofs!TypeCorrect`**, under every fault; the cut of the reply
  history is the only delicate part.
* **`SingleExecution`**, **`RepeatsWait`**, **`SettledIsFinal`**, assuming
  `Faults = {}` and `~Slow`. `SInv` follows a key: a working attempt holds a live
  row (`HoldsRow`); no two work on one key; before the provider is asked, or after
  it refused, nothing recent was delivered (`ClearWindow`); a recent delivery is
  protected by its row, which is `done` or has as much time left
  (`RecentGuarded`); after an answer that refused it, no delivery counts as recent. Without the assumptions the properties are false, as the code
  accepts on purpose (`backend_unavailable` goes on) or not (section 7).
* **`DoneIsDelivered`** (`DoneMeansDelivered`) needs neither assumption: `DInv`
  follows one attempt from its delivery over its outcome to the row.
* **`LocksAreOwned`** (`LocksHaveOwners`), under every fault: `LInv` says that a lock
  is held by an attempt past its acquisition, and that two attempts of a process on
  one key do not both hold it.
* **`PromiseKept`** (`KeepsPromise`), under the assumptions of `SingleExecution`:
  `ReserveGranted` is a `Claim`, `Deliver` a `Carry`, `Misjudged` a `Disown`, `Finish` a `Settle` or a
  `Release` by its outcome, `Restart` a `Release` of all attempts of the process,
  `Tick` a `Forget`, and every other step a stutter.
* **`WatcherCycleProofs!TypeCorrect`** carries along that a deciding cycle is below
  its budget. **`OneCycleAtATime`** (`OneCyclePerProcess`): each cycle is protected
  by the flag (YouTube) or by a lease in memory with time left (the others, if
  cycles are shorter than their lease), and both exclude a second one.
* **`WebhookIntakeProofs!TypeCorrect`**, **`AcknowledgedIsStored`** (`AckedStored`) and
  **`RefusedIsNotLost`** (`ListedIsStored`), assuming providers that wait for an answer
  (`~Impatient`; section 7 has the counterexample). `Shape` describes the queue and
  the deliveries: the cut list, the running job first, which delivery waits for
  which job, one delivery per event. `EInv` follows a signed event: a delivery that
  waits has its event in the snapshot of its job (`WaitsFor`), a job that has run
  with it has stored it (`Written`), an event on the list with no delivery is stored
  (`Rested`), and snapshots behind a stored event keep it (`Promised`).

The components of `MCParts`. Their bounds are constants here, any numbers and sets
that satisfy the hypothesis `...Parameters` of each; every component has an inductive
invariant `...Inv`, proved action by action (`...Init`, `...Step`, `...Implies`).

| Theorem | Component | What makes the properties inductive |
|---|---|---|
| `DriveProofs!ScheduleNoSilentGap` | `BackupSchedule` | without a failed run or a stop the ages of the last run and of the last success are one (`ScheduleTogether`), and at the limit no guard is asked |
| `DriveProofs!MirrorStaysIntact` | `CurrentMirror` | unless HEAD was misread, a run works beside the adopted version until it adopts, adopts what it verified, and its cleaning spares what HEAD names (`MirrorApart`) |
| `DriveProofs!BackupStaysRecoverable` | `BackupRun` | the point in progress is the latest folder and written in order (`BackupOwn`), later points are of later runs (`BackupOrder`), and above all that retention deletes there is a complete point it keeps (`BackupTop`, under the condition of the property: two points kept and the first id protected; the other clauses need no condition) |
| `ServiceProofs!LoginAnswersHeld` | `AccessControl` | snapshots wait in the order of their age (`LoginOrdered`), each waiting request has its write (`LoginOwned`), a session that was left is revoked in memory, in every snapshot and in the store (`LoginEnded`), and the like for windows (`LoginCodes`) |
| `ServiceProofs!AiWithinBudget` | `AiEngine` | the calls in progress are counted with the answers (`AiCovered`) |
| `ServiceProofs!TokenLinkStaysWhole` | `TokenRenewal` | one set of credentials at a time, and a call that was not overtaken asks with those that are held (`TokenHeld`) |
| `ServiceProofs!AgentEffects` | `AgentTask` | the task of a key that was not lost is the only one and on the list, and a tool that may still work has had no effect (`AgentOnce`); tasks bound effects (`AgentCount`) |
| `ServiceProofs!AlertsMarks`, `AlertsLeaveMarked` | `OwnerAlerts` | one digest in flight (`AlertsFlight`), what waits meanwhile is in it or late (`AlertsTrue`), and an event waits or is sent, never both (`AlertsOnce`) |
| `DeliveryProofs!JobsStand` | `PublishingJob` | a reservation is held only by an execution in progress (`JobsHeldFor`), which ends it as free if nothing was published (`JobsEndsFree`); while no result is lost one execution holds a job and what was published is recorded or about to be (`JobsOnce`) |
| `DeliveryProofs!RepliesStand` | `OutboundApproval` | a row has one comment, the same in memory and in every snapshot (`RepliesShape`); what shows as sent, in any of them, and what an answered decision is about to write was delivered in these words (`RepliesTrue`); one decision holds a key (`RepliesOnce`). That rejections stand and questions are kept is inductive as it is stated, over all snapshots a restart may find |
| `DeliveryProofs!QueueStands` | `ContentQueue` | as for jobs, with the passes of the retry timer (`QueueOnce`); a task has one item (`QueueOneItem`); that withdrawn content stays so is inductive as it is stated, over all snapshots |

`ScheduleTypeCorrect`, `LoginTypeCorrect`, `AiTypeCorrect` and `JobsTypeCorrect` are
the types of those four; the types of the others are a conjunct of their theorems.

`PartsProofs` is about `MCParts!Spec`. For each part a lemma `...Same` shows that the
instance in `MCParts` is the one the component's proofs are about, and `...Kept` that its
invariant holds at the start and after every step of `Next`; the content
queue needs one instance of `DeliveryProofs` for each of its two sets of bounds, the
approvals for each of their four. `PartsInv`, the
invariants of all parts, is therefore inductive (`PartsKept`), and gives:

| Theorem | Property of the runs |
|---|---|
| `PartsTypeCorrect` | `TypeOK` |
| `OwnerWithdrawalStands` | `WithdrawalStands` |
| `NothingRepeatsWithoutLoss` | `RepeatNeedsLoss` |
| `SentIsWhatTheCustomerHas` | `SentIsTrue` |
| `AskedStaysOnTheDesk` | `AskedIsKept` |
| `FailedJobsCanRetry` | `RetryFindsFree` |
| `LastSuccessIsRecoverable` | `SuccessStaysRecoverable` |
| `LoginAnswersHold` | `AnswersHold` |
| `CredentialsFollowTheLink` | `LinkIsWhole` |
| `MarkedAlertsWereMailed` | `MarkedWasMailedOrLate` |
| `AlertsLeaveMarked` | `LeavesMarked` (an action property) |
| `MirrorStaysRestorable` | `IntactUnlessMisread` |
| `NoSilentGap` | `StaleOnlyAfterFailure` |
| `DayBudgetHolds` | `BudgetHeld` |

What they hold for is any sets of items, comments, texts, jobs, requests and so on,
and any value of the bounds that are constants of `MCParts`. Where `MCParts` fixes a
bound by number (one restart, two sessions), the theorem of the component says the
same for every bound.

Model-checked only: the liveness properties (`RequestedIsCaptured`,
`ReservationEnds`, `LeaseRecovered`, `EveryCommentDecided`,
`EveryEventAcknowledged`, and those of `liveness`), since liveness under fairness and
`ENABLED` are out of reach of these provers. No safety property of a passing run is
left to TLC alone. The
prover has no induction over data, so the few proofs that need one take the smallest
counterexample, which exists because `<` is well-founded on the naturals, and refute
it: the latest point of a backup, the list of alerts from which keys are removed
(`Forget`, written as a recursive function because the provers cannot expand the
filter of the standard module) and the fold that queues an alert for every platform.

## 7. Where the code and its documentation disagree

Shown by a run, which ends in the state described:

* `persist_lost_update`, server.ts:21037: an eager snapshot waits behind a lazy job
  that writes newer state and then overwrites it. The queue is idle, no error is
  announced, and the database is older than the last requested change, although
  server.ts:20867 promises a later write for every change.
* `content_forgotten`, server.ts:8354: `normalizeContentQueue` drops `retryAt` when the
  queue is read after a restart, and `isQuotaRetryDue` is false without it
  (quotaRetry.ts:105), so an upload that waited for its quota is never retried,
  although server.ts:3598 says that it is tried again by itself.
* `reply_second`, server.ts:10434: `createInstantReplyDraft` removes a row that is still
  pending while its approval is in flight; the new draft's key differs from the
  row's, so the customer gets two replies, contrary to outboundApprovals.ts:11. Before
  that it looks for a row that was sent (10422), not for one that was rejected,
  although server.ts:11404 says that a rejected reply is not prepared again.
* `backup_false_success`, drive-store.mjs:313: `current/` is overwritten in place. A run
  that dies on the way leaves a damaged file under an old manifest; the next run
  compares manifests alone (backup.mjs:223) and reports `no_change`, a success,
  contrary to backup.mjs:13 and 275.

Found with the models and other values of their constants; there is no run for
these, and the operators named are in the modules:

* server.ts:7506: the delegation route writes the control key beside the queue and can
  undo a confirmed critical write, although server.ts:20855 and 18903 say that
  writes are serialised (`AckedHolds` with `Direct`).
* server.ts:5884, comments.ts:333: the limit on identical replies is tested before the
  call and the record is added after it, so concurrent replies to different targets
  exceed it (`IdenticalBounded`).
* idempotencyStore.ts:289: a refused reservation whose following read throws is taken
  for an unreachable store and goes on, although line 11 says that who is refused
  does not execute (`NeverAfterDone` with a failing read).
* server.ts:8441: the stored lease is read only at boot, so the claim of another
  process is not seen, although line 8447 says that it is read at once (`OneCycle`
  with two processes).
* server.ts:21960: a repeated delivery is told that it is a duplicate of one which is
  refused afterwards, although line 21964 says that it is stored before it is
  acknowledged (`AckedNotLost` with `Impatient`).
* server.ts:12971: the retry pass goes on with a list captured before its first await
  and does not look again whether the owner has withdrawn the item
  (`RetryOnlyDecided`).
* outboundApprovals.ts:100 offers a failed row again, but the reply guard
  (comments.ts:338) refuses every key that has a record (`FailedCanBeRetried`).
* server.ts:20427: `markOwnerAlertSent` clears the whole pending list, with the alerts
  that came while the digest was mailed; they are in no mail, although
  ownerAlerts.ts:10 speaks of one digest of all of them (`SentWasMailed`).
* current-mirror.mjs:14 says that the adopted version is never touched; when HEAD
  cannot be read the run takes it for the first one and builds version 1 in place
  (`AdoptedIntact`).
* orchestrator.ts: a task saved while it was executing stays so for ever after a
  restart, and its key is answered with it for a day (`TaskEnds`); a tool that timed
  out goes on, so a `failed` task may have had its effect (`FailedIsUndone`).

Met while modelling:

* *Persistence.* A failed control write is masked by the next success of a state
  write (server.ts:20889). A write that timed out but was committed leaves the
  baseline behind the database (adapter.ts:739): a later critical write of the older
  content is skipped and confirmed, hence `~Timeouts` in `ConfirmedWritesHold`. The
  file adapter writes several keys one by one (adapter.ts:372), although its
  interface says all or none (146). In a rolling deployment the last process wins
  (server.ts:20800). The check of all keys at boot (18655) leaves out the file of
  reservations, which reads as empty when damaged and is then overwritten
  (adapter.ts:440); a directory that cannot be written at boot leaves `storageReady`
  true and the containers blank (server.ts:18580); a daily backup torn by a crash is
  not made again that day.
* *Operations.* idempotencyStore.ts:322 says that `failed`, which allows a repeat at
  once, is declared only on explicit evidence that the provider did not act. A call
  that was delivered and answered with a 5xx, an unreadable body or one without an id
  ends so too (facebook.ts:1469, server.ts:1377 and 7774): `Misjudged` in the four
  modules that send. For a reply the guard still refuses the same key while the
  history holds its record; for publications, jobs and content nothing does. A
  `failed` operation may be reserved again (idempotencyStore.ts:25) but
  the reply guard refuses it. An attempt that goes on without the store and is then
  refused by a later check ends the row as `failed` (server.ts:5848), even when the
  row said `done`. `executeApprovedJob` holds a reservation around that of the post
  (15156): a lost answer leaves both reserved and the job failed.
* *Saves beside the queue.* `persistWatcherState` (8274) and `persistCommercialLeads`
  (10192) may land in another order than they were called in: a decision of the owner
  that was answered can be undone by a restart as long as an older write is under
  way. `WithdrawalStands` and `AskedIsKept` speak of what no such write can undo.
* *Watchers and webhooks.* The Meta watcher's `finally` sets the lease to null whoever
  holds it (9651). `x-event-id` is compared across platforms (21960). The platform
  routes answer 200 with `persisted: false`: such an event lives in memory only.
* *Content and jobs.* The executor saves the workspace's key and not the queue's
  (12659). A list of uploads that cannot be read counts as not found, and then the
  upload is repeated. A job that was cancelled while it was executing ends as
  executed; a job that stopped after publishing ends as failed; one whose quota was
  spent counts as executed (12662), contrary to jobAutomation.ts:9. Lists cut at 2000
  forget what was rejected.
* *Backups.* `SuccessStaysRecoverable` of `BackupRun` has a condition. With
  `DR_RETENTION_KEEP=1` (retention.mjs:30 accepts it), or when the protected ids are
  changed so that the first one is not among them, a run that takes an unreadable list
  for an empty one may have retention delete the point that the last success relied
  on. What the run itself reported stays there in any case (`ReportedIsThere`). A point is complete by its manifest alone. An upload may outlive the
  lease.
* *AI.* A call charged before midnight that fails after it takes one from the new day's
  count, so that the day may exceed its limit by one for each such failure, although
  quotaPolicy.ts says that the guard is always effective. retry.ts announces one
  probe after the cooldown; nothing keeps others back. One charge covers several calls.
* *Access.* The owner's changes of an account (server.ts:2280–2375) are answered before
  their lazy write, and a restart may forget them although line 2336 says that all
  take effect at once. When the write of a used window fails, the code stays refused
  until a restart. A session issued in the millisecond of the epoch survives it.
* *Credentials.* A renewal reads the refresh token, awaits, and writes what it got over
  what is there (3385–3455). After a disconnection (14705) this brings the credentials
  back; after a link to another account it puts the old account's token under it, or
  a late refusal marks the fresh link. A refusal of the application
  (`invalid_client`, tokenKeeper.ts:80) counts as permanent: the keeper gives up
  credentials that are good, and only the owner brings such a connection back
  (`disturbed`). `tokenRenewTrack` is not reset by a new link
  (5490), so after a permanent refusal the keeper leaves the new token alone, although
  tokenKeeper.ts says that it renews each before it expires. The proof of a
  connection (14710) shows `connected` although the platform was disconnected or
  linked anew during its await.
* *Brain.* When the save of the memory fails the next cycle finds the records in memory,
  adds none, and reports `NO_NEW_DATA` with a success (brainRuntime.ts:14 rules this
  out); the save is repeated only with the next new record.
* *YouTube quota.* The guard checks and charges in one turn (18505), but the mark that
  the quota is exhausted is not restored by a restart, and the writes of the ledger
  are not ordered (18434).

## 8. What is not modelled

The map names less than four per cent of the lines of the implementation. Most of the
others are the interface, HTTP calls of one connector each, pure functions on
texts, the recovery centre's tools, audits and tests: they keep no state of their
own or meet nothing that could interleave with them, and a model would repeat them.
What is modelled is where state, order and failure meet. `PROJECT.json` gives a
reason for each component. Within the modules:

* `StatePersistence`: keys other than state and control, the file adapter, edits of
  rows in place, two processes over one database.
* `ExternalOperation`: the file backend of the store, the checks before the lock,
  texts and targets as such.
* `WatcherCycle`: what a decision is and how a reply is carried out; the half-hour
  renewal of an unchanged state; the cursors of the pages.
* `WebhookIntake`: signatures, parsing, and the provider id lists as such (they are
  part of the comments).
* `ContentQueue`: texts, checks of the media, and the quota as numbers.
* `OutboundApproval`: automatic sending, deletion of rows, limits per customer; the order
  of the drafts (any draft that is not being sent may be the one that is cut).
* `PublishingJob`: the gates before an execution and the times of a schedule.
* `OwnerAlerts`: the instant Telegram message and the pairing.
* `BackupRun`, `CurrentMirror`: the vault of keys, the accounting of Drive calls, the
  reconciliation report, and two mirror runs that overlap. A gate that stays shut
  (no space) keeps the mirror behind for ever; `CatchesUp` has it open again.
* `BackupSchedule`: a scheduled request that meets a full backup the owner started is
  skipped (`already_running`) and asked again at the next tick; `NoSilentGap` takes such
  a backup to be over before the limit.
* `AccessControl`: preview sessions, limits of attempts, expiry.
* `AiEngine`: the choice of a model, retries within a call, the ledger of usage.
* `AgentTask`: plans, tools that only read, and the gates.
* `TokenRenewal`: the other platforms, the choice of a page, the states of OAuth, and
  restarts.
* Liveness is checked on instances, not proved. Time is counted in ticks.
