# Hot: a TLA+ verification project

Hot is a language and the runtime that executes it as a service: programs emit
events, events run handlers, handlers start tasks, schedules emit events. The
parts that have to survive crashes and run concurrently are the durable queues,
the workers that drain them and the tables they keep. This project models them
in TLA+, checks the models with TLC and proves their main safety properties
with TLAPS. Paths below are relative to the repository root.

## 1. Inventory

| Component | State | Operations | Hard because |
|---|---|---|---|
| SQLite queue (`crates/hot/src/queue/sqlite.rs`) | table of messages (state, retry count, lease owner/token/deadline, last error), table of consumers, live lease handles | enqueue, claim, process, renew, acknowledge, release, dead-letter, recover, unregister | several processes, leases that lapse under a running handler, stale handles, crashes between two statements, recovery against shutdown |
| Event worker, crash quarantine (`crates/hot_worker/src/server.rs`) | claimers, executors, janitor, `CrashQuarantine` lock, shutdown phase | claim and hand off, run handlers, recover at startup and every minute, drain | a crash kills every delivery of the process; which one is to blame? |
| Event handler runs (`hot_worker/src/server.rs`, `db/run.rs`, `lang/emitter/database_writer.rs`) | a row per event and handler: running, ended, waiting for a retry or for a redelivery | read earlier runs, reopen, start, end, hold, reap, retry | every delivery of an event meets the rows of the earlier ones; results arrive late; a worker that lost its message goes on |
| In-memory queue (`queue/mem.rs`) | ready/processing/dead-letter lists | as above, in one process | cancellation, in-place retries |
| Redis Streams queue (`queue/streams.rs`) | stream, consumer group with its pending list, attempt counts, delayed set, dead letters; per process a prefetch buffer and the in-flight set | enqueue, refill, process, acknowledge, requeue, bury, reclaim, trim, fast-forward, purge, unregister | two deliveries of one entry, replies lost after their effect, trims at the limit, shutdown against the janitor |
| Task lifecycle (`db/task.rs`, `crates/hot_task_worker/src/lib.rs`) | task rows: queued, running, completed, failed, cancelled, timed out; attempts | insert, claim, heartbeat, complete, cancel, retry, reap, reconcile | a slow worker, the reaper, the reconciler and a retry race on one row |
| Task lease and shutdown (`task_lease.rs`, `shutdown.rs`) | one Redis key per task, registered tasks | acquire, extend, release, drain, finalise | token-matched extension after expiry |
| Admission (`resource_budget.rs`, `db/*/quota.rs`) | counters per organisation | reserve, release | limits under concurrency |
| Scheduler (`crates/hot_scheduler`) | schedules, leader state, runs waiting for a retry | tick, enqueue, queue a retry | two leaders, missed ticks, a retry queued and not marked |
| Streams (`crates/hot/src/stream`) | per-stream log, subscribers | publish, subscribe, replay | replay against live delivery |
| Emitter writer, redeploy, bundle extraction | batches, reference counts | write, swap, clean up | partial failure |
| Compiler, VM, API, app, CLI, LSP, docs, hotbox | - | - | not concurrent protocols; not modelled |

They interact through the queues: the API and the scheduler enqueue on
`hot:event`; the event worker claims, runs handlers, writes runs to the
database and enqueues on `hot:task`; the task worker claims those, owns task
rows and publishes on streams. In a standalone deployment every queue is an
SQLite file shared by the processes of one host, in a cluster a Redis stream, so
these two queues are what "nothing is lost" rests on. What the event worker does
with a delivery rests on what they promise.

What makes each part correct, in a line: *queue* - a message is delivered until
a handler finishes it or its retries are spent, and one delivery at a time
holds it; *event worker* - a crash is counted only against the delivery that
can have caused it, and a redelivery starts from a settled database; *handler
runs* - a run that ended stays ended, is not executed again and is retried once,
and a settled event leaves no run open; *tasks* -
one terminal status per attempt, one successor per retried attempt; *leases* -
two holders never both believe they hold one; *admission* - counters never
exceed the limit nor leak; *scheduler* - one event per due tick.

## 2. Modules

| Module | Models |
|---|---|
| `SqliteQueue` | the queue as the processes of a deployment use it |
| `EventQuarantine` | extends it with the worker's `CrashQuarantine` lock |
| `TaskLineage` | abstract: what the task table promises about attempts and their successors |
| `TaskLifecycle` | code tasks under workers, leases, retries, the reaper, the reconcilers and shutdown |
| `StreamsQueue` | the Redis Streams queue as the processes of a cluster use it |
| `EventRuns` | the run rows of an event's handlers over its deliveries, and the scheduler's retries |
| `MCSqliteQueue`, `MCEventQuarantine`, `MCTaskLifecycle`, `MCStreamsQueue`, `MCEventRuns` | symmetry for TLC |
| `SqliteQueueProofs` | inductive invariant and theorems of the queue |
| `EventQuarantineProofs` | the quarantined queue implements the queue; bystanders are not charged; recovered messages are settled first |
| `TaskLifecycleProofs` | inductive invariant and theorems of the task table; it implements `TaskLineage` |
| `StreamsQueueProofs` | inductive invariants and theorems of the Redis queue |
| `EventRunsProofs` | inductive invariant and theorems of the handler runs |

### SqliteQueue

`row` is the table `queue_message`. A row keeps what the statements test or
write: state, `retry_count`, `lease_owner`, `lease_token`, whether
`lease_until_ms` has passed (`lapsed`), and `last_error` abstracted to what the
code tells apart (nothing, `RECOVERED_MARK`, `PROCESSING_ALONE_MARK`, any other
text). `registered` is `queue_consumer`. `lease` has the live
`SqliteQueueLease` handles by token, with the phase `process` is in; `recov`
is each process's `recover_orphaned_items_then` in progress; `proc` is the life
cycle of each process. `handled`, `taken`, `trimmed`, `unsettled` are history.

One SQL statement, or one transaction, is one action. Where the code runs
several statements, the model has several actions if anybody could act in
between with effect, and one if not: the select, update and delete of
`expire_leases_of_gone_processes` concern only processes that are gone;
`trim_dead_letters` touches only dead letters. If that trim fails after a
recovery's commit the recovery ends there, which is `AbandonRecovery`.

| Code | Actions |
|---|---|
| `Queue::enqueue`, `dequeue`, `move_to_dead_letter_queue` | `enqueue`, `dequeue`, `move_to_dead_letter_queue` |
| `claim_id` under `claim_now`/`claim_blocking`; `register_consumer` | `claim_id`; a claim dropped by the claimer's `select!` is `claim_cancelled` |
| `SqliteQueueLease::process` | `process`, `renew_lease`, `HandlerReturns`, then `acknowledge` or `release_for_retry`, or `SettleFails` |
| `Drop for SqliteQueueLease` | `DropLease`, `release_dropped_lease`, `DropReleaseFails` |
| `SoleDeliveryMarker::mark` | `mark` |
| `recover_orphaned_items_then` | `BeginRecovery`, `CommitRecovery`, `settle`, `ReleaseRecovered`, `AbandonRecovery` |
| shutdown sequence, `unregister_idle_consumer` | `Shutdown`, `consumer_has_pending`, `unregister_consumer`, `Exit` |
| the clock | `AbandonedLeaseLapses`, `HeldLeaseLapses` |
| a crash and a new process | `Crash`, `Start` |

Time is not modelled: a lease can lapse at any step, also under a live
delivery. Backoff delays and poll intervals are arbitrary delays. A claim takes
any claimable row, which includes the code's order (notified ids first, then
the oldest). A new process has a new consumer name; the model reuses the
process's name and renames the old one to `Former` in the table, so names stay
finite. A token is fresh when nothing mentions it, so tokens stay finite too.

### EventQuarantine

`pass` is what each delivery holds of its process's read-write lock. `enter` is
`CrashQuarantine::enter`: shared for an ordinary delivery, exclusive and marked
in the row for a recovered one. The pass ends with the handler's future
(`QHandlerEnds`), the row is settled afterwards. `"done"` is history: a pass
that was exclusive and ended.

### TaskLifecycle and TaskLineage

`row` is the table `task`: status, `worker_id` (`owner`), whether
`last_heartbeat_at` is past `ZOMBIE_HEARTBEAT_STALE_SECS` (`stale`),
`retry_attempt`, `infra_retry_count`, `parent_task_id`, and who wrote the
terminal status (`by`), which stands for the result payload that
`persist_terminal_task` compares. `slot` is what each processor does with its
delivery: its program counter in `process_task`, and whether the queue still
regards the message as its own (`held`). `msgs` counts the messages the queue
has ready, `registered` is `active_tasks` of the shutdown coordinator, `key` the
Redis lease key. `reap` and `owed` are the reaper between its query, its update
and its retry; `pending` are retries whose enqueue was spawned; `life` and `fin`
are the shutdown. `call` is the rest of a `::hot::task/start`.

One SQL statement or transaction, or one Redis command, is one action. A call
that times out is a fault with or without its effect. `faults` also counts
stops, lapses, refusals and dead letters. The queue is what the worker sees of
it: at least once, in any order; its own retries are not counted, so a message
that was delivered before may be given up (as a fault). A process that ends is
replaced, and its name in the table becomes `Former`.

| Code | Actions |
|---|---|
| `::hot::task/start`, `cancel` | `start`, `enqueue`, `fail_if_queued`; `cancel` |
| `process_task_inner` up to the claim | `deliver`, `load_task_for_execution`, `task_message_should_execute`, `try_register_task`, `try_acquire`, `claim_task_for_execution`, `fail_refused_task` |
| `process_code_task` | `process_code_task`, `persist_terminal_task`, `maybe_retry_task`, `enqueue_retry` |
| the end of `process_task_inner` | `lease_lost`, `unregister`, `terminal_is_durable`, `release_worker` |
| `guard_task_panics` | `panic`, `panic_fence`, `panic_fail` |
| heartbeat loop, reaper, reconcilers | `heartbeat`, `heartbeat_stale`, `find_zombie_tasks`, `reap_zombie_task`, `maybe_retry_zombie_task`, `reconcile_queued_task`, `reconcile_dead_lettered_task` |
| `TaskShutdownCoordinator` | `initiate_shutdown`, `drain_timeout`, `finalize_interrupted_task`, `exit` |
| queue, Redis and process failures | `queue_lease_lapses`, `key_expires`, `crash` |

`TaskLineage` has five actions: an attempt is created, runs, finishes, is
retried, is interrupted. `TaskLifecycle` implements it with the table as the
mapping: every write of every actor is one of these or changes only owner and
heartbeat.

### StreamsQueue

The Redis side: `entry` is what each id was added with (the message it is a copy
of and `prior_deliveries`), `present` the ids still in the stream, `cursor` the
group's last-delivered-id, `pel` the consumer each id is pending for, `idle` the
pending ids past the orphan idle time, `attempts` the `<stream>:attempts:<id>`
keys, `delayed` the delayed set, `dlq` the copies in the dead-letter stream. The
process side: `deliv` has the deliveries (in the prefetch buffer, leased,
running, about to be buried), `in_flight` is the set of that name, `target` the
cutoff a startup step has computed, `pass` marks a process told to shut down in
the middle of a janitor pass. `done`, `discarded`, `released` and `starts` are
history.

A Redis command or a Lua script is one action. A reply that is lost (a timeout,
a dropped connection, a claim dropped by the shutdown's `select!`) is the same
action without its effect on the process. Ids are numbers in order; `old` is the
id up to which entries are older than the startup window, and grows. `XTRIM ~`
removes any prefix of what it may remove. A replaced process's consumer name
becomes `Former`.

| Code | Actions |
|---|---|
| `enqueue`; `promote_due_delayed`, `trim_stream_lua` | `enqueue`; `promote_due_delayed`, both with `XAdd` |
| `refill_prefetch`, `read_own_pending`, `read_fresh`, `pop_prefetched` | `refill_prefetch`, `pop_prefetched` |
| `process_one`, `record_attempt`, `move_msg_to_dlq`, `requeue_msg_for_infrastructure_retry`, `touch_pending_entry`, `Drop` | `record_attempt`, `move_msg_to_dlq`, `ack_processed`, `requeue_msg_for_infrastructure_retry`, `touch_pending_entry`, `DeliveryFails` |
| janitor: `recover_orphaned_items`, `cleanup_stale_consumers`, `trim_stream` | the same names |
| startup: recovery, `fast_forward_if_stale`, `purge_old_pending` | `recover_orphaned_items`, `FastForwardReads`, `fast_forward_if_stale`, `PurgePending`, `purge_old_pending`, `StartupStepSkipped` |
| shutdown, `unregister_idle_consumer` | `Shutdown`, `consumer_has_pending`, `unregister_consumer`, `Exit` |
| time, stops | `OrphanIdles`, `KeepaliveMissed`, `EntryAges`, `Crash`, `Start` |

### EventRuns

`row` is the table `run`, keyed as its ids are derived: by event and handler. Of
`pending_retry` the code tells two kinds apart by `next_retry_at`: a failed run
whose retry is due some time (`"retry"`) and a run waiting for the event's
redelivery (`"held"`). `job` is the delivery in each worker: what it read of the
rows (`view`), the handlers it has still to run (`todo`), the run it executes,
whether any handler has started and whether it can vouch for its claim. `late`
are results of runs their worker no longer waits for: a flush that timed out, or
the detached VM of a run stopped by its budget or the claim fence. `sched` is the
scheduler between enqueueing a retry and marking it. `interrupted`, `unmarked`,
`lost` and `job.ended` are history.

The queue is reduced to what the two queue modules promise: a message is
delivered until it is acknowledged or its deliveries are used up, a worker may
lose its claim while it lives, and a settlement reaches the message if the lease
is the worker's (SQLite) or the entry is pending for anybody (Redis). `redis`,
chosen in `Init`, says which. One SQL statement is one action; the statements
that make an event's rows ready before its handlers start concern different rows
and are one (`Admit`).

| Code | Actions |
|---|---|
| `acknowledge_unhandled_event`, `EarlierDelivery::of`, `fail_unrun_earlier_deliveries`, `reopen_held_runs`, `open_event_run` | `acknowledge_unhandled_event`, `earlier_deliveries`, `AcknowledgeFinished`, `Admit` |
| setup of a handler, `record_unstarted_run` | `SetupDefers`, `SetupTimesOut`, `SetupFails`, `InfrastructureRetry` |
| `write_run_start`, `write_run_stop`, `write_run_fail`, `write_run_cancel` | `write_run_start`, `RunEnds`, `RunStopped`, `LateWrite` |
| claim fence, `claim_stops_new_runs` | `ClaimUnconfirmed`, `ClaimLapses`, `ClaimLost`, `StopNewRuns` |
| end of the delivery | `FinishDelivery` |
| `fail_active_runs`; `settle_orphaned_event_runs`, `settle_dead_lettered_event_runs`; `fail_stale_runs` | `fail_active_runs`; `Recover`; `fail_stale_runs` |
| `process_pending_retries` | `process_pending_retries`, `mark_retry_queued`, `MarkFails`, `mark_retry_abandoned` |

## 3. Runs

| Run | Instance | Shows |
|---|---|---|
| `queue_safety` | 2 messages (the second undecodable), 1 process, 3 tokens, 2 retries, 1 dead letter kept, 2 faults | `RetryLeft`, `NothingLost`, `HolderUnlessLapsed`, `LastAttemptAccurate`, `EventuallySettled` without crash quarantine |
| `queue_quarantine` | 2 processes, 1 fault, the second message of an unknown format, crash quarantine on and any delivery marking itself | `TypeOK`, `NoInheritedAloneMark`, `HolderUnlessLapsed`, `RetryLeft` |
| `quarantine_safety` | 2 messages, 1 process, 3 tokens, 2 faults, no graceful shutdown (finding 1; for `BystanderNeverCharged` the theorem covers it) | `SettledBeforeRedelivery`, `BystanderNeverCharged` |
| `quarantine_liveness` | 2 messages, 1 process, 1 retry, 1 fault | `EventuallySettled` under the lock |
| `quarantine_settle_leave` | 2 messages, 2 processes, 2 faults, graceful shutdowns | `SettledBeforeRedelivery` is violated (finding 1) |
| `task_redis` | 2 workers of 1 processor, Redis lease, 3 rows, 1 fault | `TypeOK`, `OneSuccessor`, `ExecutedOnce`, `ImplementsLineage` |
| `task_local` | 1 worker of 1 processor, no lease, 3 rows, 2 faults | `TypeOK`, `OneSuccessor`, `ImplementsLineage`, `EventuallyTerminal` |
| `task_drain` | 2 workers, 1 fault (the shutdown) | `ReapedOnlyWhenDead` is violated (finding 2) |
| `streams_safety` | 2 processes, 2 ids, no startup window, 1 fault | `Conserved`, `StartsBounded`, `OneDeliveryPerProcess`, `PendingSpared` |
| `streams_liveness` | 1 process, 3 ids, the second message undecodable, startup window, 1 fault | `TypeOK`, `Conserved`, `EventuallySettled` |
| `event_runs` | 2 workers, 2 handlers, both queues, 3 events, 1 retry, 2 deliveries, 1 fault | `TypeOK`, `OneRetryPerRun`, `SettledRunsEnded`, `FinishedNotRepeated`, `EndIsFinal` |
| `event_runs_shutdown` | 2 workers, 1 handler, 2 events, 3 deliveries, 1 fault (the shutdown) | `InterruptedRunRetried` is violated (finding 3) |

The queue runs check for deadlock as well: a running process can always start a
recovery, so none stops. The task and event runs do not: when every task or
event has ended, the workers have nothing to do.

Bounds. Two messages are needed for bystanders, for the trim and for a recovery
of more than one row; three tokens for a stale handle beside a live one beside a
recovery. Takeovers of lapsed leases, and a recovery of the leases of the process
that was there before, happen within one process; two processes side by side are
in `queue_quarantine`. `MaxRetries` is 2 where the code has 3: the branches compare with
`MaxRetries - 1` and `MaxRetries`, and 2 is the least value at which a retry
that is not the last exists. `DlqMax` is 1 so that the trim happens.
`MaxFaults` bounds what could otherwise repeat for ever: crashes, shutdowns,
lapses of held leases, uncounted deferrals and failed statements. Two faults
give the shortest harmful combinations (a lapse and a crash, a crash in the
recovery of a crash). The theorems hold for all of these constants. Symmetry
over processes and tokens is used in the safety runs only, where nothing
distinguishes them.

A task run has one started task and two more rows: room for two successors of
one attempt, which `OneSuccessor` excludes, and for a chain of a retry and an
infrastructure retry. Retry budgets are 1 (the code has a user's number and
`MAX_INFRA_RETRY_GENERATIONS` = 3): the branches compare a count with its limit.
`MaxCopies` only keeps the reconciler from filling the queue with copies.
`task_redis` has one fault because the fault may be any of some thirty, and the
shutdown of a worker is one; the combinations of two are covered on the single
worker of `task_local`, where a duplicate message and a replacement of the
process still give two deliveries of one task. `EventuallyTerminal` is claimed
for behaviours with at most one fault. Outcomes of user code are split between the runs;
`timed_out` takes the path of `failed` everywhere and is left out.

In `StreamsQueue` the lengths are 1 and 2 so that both trims happen with two
entries, the batch is 2 so that a buffer can hold an entry behind another, and
two processes with one fault give two deliveries of one entry (a missed keepalive
and a reclaim). `Conserved` is checked without a startup window for two processes
and with one for a single process: with a window two processes that start at once
can move the group back over entries already delivered, see below. In
`EventRuns` three events are the original and two retries, so a run could get
two; two deliveries are a first and a last one; two handlers are needed for a
delivery that stops half-way. `copy` is bounded by the counted
deliveries and the faults.

Fairness (`Fairness`, `QFairness`). Weak fairness of the steps a running
process takes by itself: executors process the leases they receive, handlers
end (every run has a budget), settlements and the release that `Drop` spawns
are executed, claimers poll every 50 ms, the janitor ticks every minute, the
clock passes an abandoned lease's deadline, a process told to shut down ends
(the sequence has deadlines) and is started again. Entering the quarantine is
strongly fair because tokio's `RwLock` is queue-fair. Nothing is assumed of
faults, of notifications (which are not modelled at all: a lost one costs only
time) or of a handler's success.

For tasks: deliveries go on, because every call in them has a timeout and user
code has a deadline; the reaper, the reconciler and the delayed enqueues are
timers of a running process; a shutdown ends by its deadlines; a key that nobody
renews expires, and a row that nobody beats for becomes stale. Delivery of a
message is strongly fair: a deferred message of another task may come first any
number of times, but not for ever. Nothing is assumed of `heartbeat` itself.

For the Redis queue: claimers poll, executors take up the leases they receive,
handlers end, the delayed set is promoted on every claim, the janitor of a
running process ticks, a pending entry nobody touches passes the idle time, the
steps of a startup follow each other and a stopped worker is replaced. The
keepalive, the trim and the cleanup of stale consumers need no fairness.
`EventRuns` has no liveness run: that a message is settled is the queues' promise.

### Findings

1. `recover_orphaned_items_then` says `settle` sees a requeued message before it
   can be claimed again. The recovery leases messages under the process's own
   consumer name (`admin_event_name`, which the event claimer, the janitor and
   the shutdown sequence share), and the janitor is a detached task.
   `unregister_idle_consumer` asks `consumer_has_pending`, which is false; the
   janitor's transaction commits; `unregister_consumer` makes the janitor's
   messages ready; another process claims them before `settle` has reconciled
   their runs.
2. The task worker's heartbeat loop ends as soon as the worker is shutting down
   (`lib.rs:1356`), while the drain lets tasks run for 30 s and then cancels them
   for 3 s. A row is a zombie 30 s after its last beat, which may be 15 s old when
   the drain begins, so in the second half of the drain another worker's reaper
   fails a task that is still executing, discards its result and runs it again on
   the user's retry budget. `OneSuccessor` and `ExecutedOnce` still hold: the row
   is failed once, and the retry is a row of its own.
3. `fail_active_runs` says it marks runs as failed so that retry logic can kick in
   (`hot_worker/src/server.rs:760`). It calls `Run::fail_run`, which writes the
   status only. The retry is scheduled by `write_run_fail`, which skips a row that
   is not running any more, and the event's next delivery takes the failed run for
   finished and acknowledges the event. The handler is neither retried nor
   executed again.

Met while modelling, without a run of their own:

* `CrashQuarantine`'s comment says only a delivery's own retry limit counts the
  stop it causes. The pass ends with the handler's future, the mark in the row
  with the acknowledge or release. A stop in between, caused by the next delivery
  that enters, is counted against the finished one. `BystanderNeverCharged` is
  what does hold: the charged delivery did have the process to itself at some
  time.
* A delivery that finds its task in flight is acknowledged. When the first
  delivery's queue lease had lapsed, that was the task's only message. If the
  first delivery then ends without a terminal row, the row is running, its
  worker's batch heartbeat keeps it fresh, and nothing comes back to it while the
  worker lives. It takes two faults, which is why `EventuallyTerminal` stops at
  one.
* `unregister_consumer` of the Redis queue deletes the consumer with what it owns.
  A janitor pass that was under way can reclaim entries for it after
  `consumer_has_pending` said no; they leave the pending list and are not
  delivered again, where the comment at `streams.rs:1087` has them released to
  the group. In the model these are `released`.
* `fast_forward_if_stale` compares and sets in two commands. Two workers that
  start at once can set the group back behind entries that were delivered in
  between; these are delivered again.
* An infrastructure retry that is not counted carries the count of earlier copies
  but not the entry's own failed starts, so these are forgotten.
* An event whose handlers have all been undeployed is acknowledged without a look
  at its rows: held or running ones wait for the daily reaper. The same reaper
  fails the held run of an event that waited longer than its limit.

## 4. Proofs

A theorem holds for every value of the constants that the named assumptions of
its module allow: sizes are naturals (limits that the code needs positive are),
null values differ from what they stand beside. Nothing is assumed of the sets of
processes, handlers or tokens, except that a task worker's are finite. Where a
theorem has a hypothesis of its own it is part of its statement.

| Property | Theorem | Hypothesis |
|---|---|---|
| `RetryLeft`, `NothingLost`, `HolderUnlessLapsed`, `LastAttemptAccurate`, `NoInheritedAloneMark` | `SqliteQueueProofs`: `RetryBound`, `AtLeastOnce`, `ExclusiveUntilLapse`, `LastAttemptRight`, `NoMarkInherited` | |
| `BystanderNeverCharged` | `EventQuarantineProofs`: `BystandersNeverCharged` | |
| `SettledBeforeRedelivery` | `SettledFirst`; `SettledFirstNoShutdown` | no unknown format, and not the race of finding 1; no unknown format and no graceful shutdown |
| `OneSuccessor`, `ExecutedOnce`, `ImplementsLineage` | `TaskLifecycleProofs`: `SuccessorUnique`, `ExecutionExclusive`, `TableImplementsLineage` | |
| `StartsBounded` | `StreamsQueueProofs`: `StartsWithinRetries` | |
| `PendingSpared` | `TrimmingSparesPending` | no startup window |
| `OneDeliveryPerProcess`, `Conserved` | `NoDoubleDelivery`, `MessagesConserved`; `...NoWindow` | the group's position never moves back; no startup window |
| `EndIsFinal`, `OneRetryPerRun`, `FinishedNotRepeated`, `SettledRunsEnded` | `EventRunsProofs`: `EndsAreFinal`, `RetriedOnce`, `NotRepeated`, `NoRunLeftOpen` | |
| `TypeOK` of the four components | `TypeCorrect` of the four modules | |

### The SQLite queue and the quarantine

None of the properties of `SqliteQueue` is inductive alone. `IInv` adds: only
leased rows name a token (`RowShape`); rows are inserted in order (`RowsSent`); a handle's token leases
no row but the handle's, the handle's process is not gone, and a handle in
phase ok is of a handled message (`HandleShape`, which `AtLeastOnce` needs at
acknowledge); a lapsed row's live handle is overdue (`LapsedOverdue`, which
makes takeovers and recoveries harmless to `HolderUnlessLapsed`); a recovery's
token has no handle and its rows are marked recovered (`RecoveryShape`); after
`consumer_has_pending` said no, a consumer owns only rows of a recovery that was
still under way (`IdleShape`). The last two are why unregistering never
releases a live delivery and never leaves an alone mark on a ready row. Each
action has a lemma; actions with the same effect on the table share one
(`PhaseStep`, `SettleStep`, `TouchStep`, `ClaimStep`, `ReadyAgainStep`, ...).

`EventQuarantineProofs` proves `ImplementsQueue` (`QSpec => Spec`: every step of
the worker is a step of the queue or leaves it unchanged, so the theorems above
hold of it) and `BystandersNeverCharged`, from `MarkedByPass`: a row marked
alone is leased to a delivery whose pass is, or was, exclusive. It assumes that
the queue is opened with crash quarantine.

`SettledFirst` is about finding 1. `KeptBack` says where a recovered message is
until `settle` has seen it: dead or removed, or leased under a token that has no
handle, and if a recovery still has that token it has the message in its batch
and has not called `settle`. A crash, a lapse and a recovery of the recovered
message preserve it; what does not is `unregister_consumer` of a consumer that
owns such a message (`KeepsRecovered` excludes it) and a batch that cannot be
decoded. So the race of finding 1 is the only way in which a worker that reads
every message can break the promise of `recover_orphaned_items_then`. Quarantine
is needed too: without it a claim takes over a recovery's lapsed lease.

### Tasks

Every statement that writes the table is one of six table steps (`TableStep`: a
new root, a claim, an end, a retry, an interruption, or nothing that matters),
and what it does to the deliveries is told separately (`Calm`, `Passes`).
`OneSuccessor` then rests on who may insert a successor: a delivery in phase
`retry` has failed the row as `worker` (`SlotShape`), a reaper owes a retry only of
rows failed as `reaper` (`OwedShape`), and the shutdown inserts the successor with
the failure. Two successors are also told apart by their numbers (`ChildShape`): a
shutdown's has the attempt number of its predecessor, a retry's the next, and the
duplicate check of the insert compares that number. `ExecutedOnce` needs only
the conditional claim: the theorem holds without the Redis lease, which is there
to spare work. `TableImplementsLineage` shows that each table step is a step of
`TaskLineage` or changes nothing it sees.

### Handler runs

`RowsAdvance` says what any statement may make of a row, and is all `EndIsFinal`
needs. `OneRetryPerRun` needs that a run that has a retry is `failed`, is the one
the scheduler is marking, or is one it could not mark (`Retried`), and that the run
it is marking has failed (`SchedShape`). `FinishedNotRepeated` needs that what had
ended when a delivery claimed the message is ended still and not among what it has
to do (`EndedShape`), which on a first delivery, where the rows are not read, needs
that the event has none (`FirstDelivery`). `SettledRunsEnded` is the hardest:
`OpenAccounted` says that of every open run somebody will still write the end (a
delivery that has it to do, a result on its way, the delivery that has or will
have the message), or the run is among those that were lost. On Redis a delivery
settles an entry it no longer owns, so it also needs that such a delivery runs
nothing more (`FenceHolds`).

### The Redis queue

`IInv` (types, `EntriesKnown`, `IdsReserved`, `StartsCounted`, `RunningCounted`)
gives `StartsBounded`: the attempts key counts a start before the handler runs, and
both counts end with the pending entry. Every action but `record_attempt` leaves
a `Footprint` that cannot disturb it.

`OneDeliveryPerProcess` and `Conserved` hold of every behaviour in which the
group's position never moves back (`CursorForward`): what was delivered is then
behind the position (`DeliveredBehind`), so a refill reads nothing twice, and every
delivery past the buffer is in `in_flight` (`FlightMarked`), so a reclaim buffers
nothing twice. Without a startup window only reads move the position
(`NoWindowForward`). For `Conserved` the places of a message are four columns
(live entries, delayed copies, dead letters, ends), `Placed` says that one of them
has one element and the others none, and every action is one of four moves
between columns (`Settles`, `Buries`, `Defers`, `Adds`). The step
that moves a position back is the second half of `fast_forward_if_stale`, with
several processes that start at once.

### What the proof attempts showed

* `SettledRunsEnded` was too strong: with more faults than its run allows, a
  worker that had lost the message, or that a later delivery overtook, can leave a
  run open after the event was settled. `lost` now counts these runs, which the
  daily reaper ends.
* `RunEnd` was a CASE with overlapping arms, which TLC resolves by their order and
  TLA+ leaves open; it now says which one comes first, as `write_run_fail` does.
* `Conserved`, `OneDeliveryPerProcess` and `PendingSpared` do not hold with a
  startup window and several processes. Of the first two the hypothesis above is
  what is missing; the purge of a startup deletes by age whatever is pending.

Before they were proved, the strengthened invariants were checked by TLC on
instances like those of the runs, those with a hypothesis under a specification
restricted to it, with shutdowns or a startup window and two processes.

### Only model-checked

`EventuallySettled` of both queues and `EventuallyTerminal`: liveness under
fairness is out of the prover's reach. The three properties that are violated
(section 3) have no theorem; `SettledFirst` is what holds of the first.

## 5. Not modelled

Schema creation and versions, queue file names, the admin API
(`SqliteQueueAdmin`: snapshots, clear, status, repair of damaged files),
`purge_old_pending` and `fast_forward_if_stale` (no-ops here), metrics, the
`redelivered` flag (reported, never tested), payloads and their formats beyond
"decodes", "does not" and "unknown format". A statement of the queue's database
that fails leaves it unchanged.

Of tasks: container tasks (boxes, adoption after a restart, cancellation quota),
events, alerts, run rows and blobs, the quota's arithmetic (a claim is granted,
deferred or refused), rows without a heartbeat from before the migration, and
the detached thread of a timed-out VM. Every task has the same retry budget.

Of the Redis queue: the attempts key's time to live, the recreation of a lost
group (`NOGROUP`), the destructive `dequeue`, the trim of the dead letters,
connection pools and metrics. A message of the model is enqueued once; a resent
enqueue is two messages.

Of handler runs: how handlers are chosen (`once` and `multi`), events that wait
for a build to be deployed, duplicates an API client asks for, runs of schedules
and calls, alerts, and everything a run emits. All events share one stream.

The parser, compiler, type checker, VM and JIT, the HTTP handlers, the web
application, the CLI, the language server, the documentation generator and the
container sandbox are most of the repository's lines. They are sequential
programs over data (text, syntax trees, values, pages) or I/O around the
components above: what would have to be right about them is the meaning of a
language and of its requests, for which a state machine with small sets of
values says nothing a test does not. Bounded inputs of them are out of TLC's
reach, so most of the repository's lines stay outside this project.

## 6. Plan

1. `DeliveryQueue`: the abstract specification of a work queue (ready, held,
   done or dead; at least once; bounded retries), implemented by `SqliteQueue`
   and by `StreamsQueue`, with the refinement proved from their invariants.
2. A run of a failed or interrupted handler is accounted for: the part of
   `InterruptedRunRetried` that holds without a shutdown, proved of `EventRuns`.
3. Container tasks: adoption after a restart against the reaper, and the
   reservation a cancelled container keeps until its usage is settled.
4. Cron schedules and the scheduler's lock, admission counters, stream replay.
