--------------------------- MODULE TaskLifecycle ---------------------------
(***************************************************************************)
(* The life of a code task (crates/hot/src/db/task.rs,                     *)
(* crates/hot_task_worker/src): one row per attempt, written by the        *)
(* deliveries that execute it, the zombie reaper, the shutdown             *)
(* coordinator, ::hot::task/start and ::hot::task/cancel; a queue that     *)
(* delivers each message at least once; a Redis lease per task.            *)
(*                                                                         *)
(* One SQL statement or transaction, or one Redis command, is one step.    *)
(* A call that fails is a fault, with or without its effect: a timeout     *)
(* does not say whether the statement committed.  Time is abstract: a      *)
(* heartbeat is stale or not, delays are arbitrary.                        *)
(***************************************************************************)
EXTENDS Naturals, FiniteSets

CONSTANTS
  Workers,      \* worker processes (worker_id)
  Lanes,        \* processors of each worker, one delivery each
  MaxTasks,     \* bound on task rows
  MaxRoots,     \* bound on tasks started by ::hot::task/start
  MaxAttempts,  \* RetryConfig::max_retries of every task
  MaxInfra,     \* MAX_INFRA_RETRY_GENERATIONS
  MaxCopies,    \* the reconciler adds no message beyond this many of a task
  MaxFaults,    \* bound on stops, lapses, refusals and failed calls
  Outcomes,     \* how user code can end
  RedisLease,   \* RedisTaskLease, or NoopTaskLease
  Former,       \* the worker_id of any process that was replaced
  NoOwner, NoKey, Orphan

ASSUME SizesAssumption ==
  /\ MaxTasks \in Nat /\ MaxRoots \in Nat /\ MaxAttempts \in Nat
  /\ MaxInfra \in Nat /\ MaxCopies \in Nat /\ MaxFaults \in Nat
ASSUME ProcessesAssumption == IsFiniteSet(Workers) /\ IsFiniteSet(Lanes)
ASSUME LeaseAssumption == RedisLease \in BOOLEAN
ASSUME OutcomesAssumption ==
  Outcomes \subseteq {"completed", "cancelled", "failed", "timed_out", "broken"}

Tasks == 1..MaxTasks
Slots == Workers \X Lanes

ASSUME NullsAssumption ==
  /\ Former \notin Workers /\ NoOwner \notin Workers \cup {Former}
  /\ NoKey \notin Slots /\ Orphan \notin Slots \cup {NoKey}

VARIABLES
  row,         \* the task table
  created,     \* number of rows inserted
  call,        \* the ::hot::task/start that inserted a row: what it does next
  msgs,        \* messages of each task the queue has ready
  tried,       \* whether one was delivered, and whether one was given up
  slot,        \* what each processor does with its delivery
  registered,  \* TaskShutdownCoordinator::active_tasks of each worker
  key,         \* the lease key of each task: its holder, Orphan or NoKey
  pending,     \* retries each worker has still to enqueue
  reap,        \* zombies the reaper of each worker has yet to fail
  owed,        \* the zombie it failed and has yet to retry, or 0
  life,        \* phase of each worker
  fin,         \* tasks the shutdown of each worker has yet to finalize
  faults       \* faults so far

vars == <<row, created, call, msgs, tried, slot, registered, key, pending, reap, owed,
          life, fin, faults>>
workerVars == <<pending, reap, owed, life, fin>>

---------------------------------------------------------------------------
(* Rows.                                                                   *)

Terminal == {"completed", "failed", "cancelled", "timed_out"}
Statuses == {"absent", "queued", "running"} \cup Terminal

\* Who wrote the terminal status, which is what its result payload tells.
Writers == {"none", "worker", "reaper", "shutdown", "user", "other"}

Row == [status : Statuses, owner : Workers \cup {Former, NoOwner}, stale : BOOLEAN,
        attempt : 0..MaxAttempts, infra : 0..MaxInfra, parent : 0..MaxTasks,
        by : Writers]

NewRow(s, a, i, p) ==
  [status |-> s, owner |-> NoOwner, stale |-> FALSE, attempt |-> a, infra |-> i,
   parent |-> p, by |-> "none"]

Active(t) == row[t].status \in {"queued", "running"}

\* Task::complete, Task::cancel: the row reaches status s, written by b.
Ended(f, t, s, b) == [f EXCEPT ![t].status = s, ![t].by = b]

\* The table after an UPDATE that concerns active rows only.
EndedIfActive(t, s, b) == IF Active(t) THEN Ended(row, t, s, b) ELSE row

\* INSERT ... ON CONFLICT (parent_task_id, retry_attempt) DO NOTHING.
Duplicate(p, a) == \E c \in Tasks : row[c].parent = p /\ row[c].attempt = a

Insert(f, a, i, p) ==
  /\ created < MaxTasks
  /\ created' = created + 1
  /\ row' = [f EXCEPT ![created + 1] = NewRow("queued", a, i, p)]

Claimed(t, w) == [row EXCEPT ![t].status = "running", ![t].owner = w, ![t].stale = FALSE]

\* Task::release_worker, fenced by worker w.
Released(t, w) ==
  IF row[t].status = "running" /\ row[t].owner = w
  THEN [row EXCEPT ![t].owner = NoOwner, ![t].stale = TRUE] ELSE row

\* One more fault is possible.  Every fault conjoins it.
Fault == faults < MaxFaults /\ faults' = faults + 1
NoFault == UNCHANGED faults

---------------------------------------------------------------------------
(* Deliveries.                                                             *)

Phases == {"idle", "claimed", "busy", "loaded", "registered", "leased", "refused",
           "running", "ended", "retry", "returned", "check", "release",
           "panicked", "failing"}

Slot == [task : 0..MaxTasks, pc : Phases, held : BOOLEAN,
         out : {"none", "fenced", "unfenced"} \cup Outcomes]

IdleSlot == [task |-> 0, pc |-> "idle", held |-> FALSE, out |-> "none"]

\* The delivery holds the lease guard (TaskOwnership::leased).
Owning == {"leased", "refused", "running", "ended", "retry", "returned"}

Goes(d, p) == slot' = [slot EXCEPT ![d].pc = p]

\* process_task returns: the guard's Drop releases the lease a little later.
Leave(d, m) ==
  /\ slot' = [slot EXCEPT ![d] = IdleSlot]
  /\ msgs' = m
  /\ key' = IF key[slot[d].task] = d THEN [key EXCEPT ![slot[d].task] = Orphan] ELSE key

\* The queue gets the message back, if the delivery still holds it.
Back(d) == IF slot[d].held THEN [msgs EXCEPT ![slot[d].task] = @ + 1] ELSE msgs

Ack(d) == Leave(d, msgs)
Defer(d) == Leave(d, Back(d))

unregister_task(w, t) == registered' = [registered EXCEPT ![w] = @ \ {t}]

Copies(t) == msgs[t] + Cardinality({d \in Slots : slot[d].task = t /\ slot[d].held})

---------------------------------------------------------------------------
Init ==
  /\ row = [t \in Tasks |-> NewRow("absent", 0, 0, 0)]
  /\ created = 0
  /\ call = [t \in Tasks |-> "none"]
  /\ msgs = [t \in Tasks |-> 0]
  /\ tried = [t \in Tasks |-> "no"]
  /\ slot = [d \in Slots |-> IdleSlot]
  /\ registered = [w \in Workers |-> {}]
  /\ key = [t \in Tasks |-> NoKey]
  /\ pending = [w \in Workers |-> {}]
  /\ reap = [w \in Workers |-> {}]
  /\ owed = [w \in Workers |-> 0]
  /\ life = [w \in Workers |-> "up"]
  /\ fin = [w \in Workers |-> {}]
  /\ faults = 0

---------------------------------------------------------------------------
(* ::hot::task/start and ::hot::task/cancel.                               *)

\* The insert may time out and have committed: the call then ends with an error.
start ==
  /\ Cardinality({t \in Tasks : row[t].status # "absent" /\ row[t].parent = 0}) < MaxRoots
  /\ Insert(row, 0, 0, 0)
  /\ \/ NoFault /\ call' = [call EXCEPT ![created + 1] = "enqueue"]
     \/ Fault /\ UNCHANGED call
  /\ UNCHANGED <<msgs, tried, slot, registered, key, workerVars>>

\* A failed enqueue may have reached the queue all the same.
enqueue(t) ==
  /\ call[t] = "enqueue"
  /\ \/ /\ NoFault
        /\ msgs' = [msgs EXCEPT ![t] = @ + 1]
        /\ call' = [call EXCEPT ![t] = "none"]
     \/ /\ Fault
        /\ \E n \in {0, 1} : msgs' = [msgs EXCEPT ![t] = @ + n]
        /\ call' = [call EXCEPT ![t] = "compensate"]
  /\ UNCHANGED <<row, created, tried, slot, registered, key, workerVars>>

\* Mutant of fail_if_queued: fails whatever the row has become.
fail_whatever(t) ==
  /\ call[t] = "compensate"
  /\ row' = Ended(row, t, "failed", "other")
  /\ call' = [call EXCEPT ![t] = "none"]
  /\ NoFault
  /\ UNCHANGED <<created, msgs, tried, slot, registered, key, workerVars>>

fail_if_queued(t) ==
  /\ call[t] = "compensate"
  /\ \/ NoFault /\ row' = IF row[t].status = "queued" THEN Ended(row, t, "failed", "other")
                          ELSE row
     \/ Fault /\ UNCHANGED row
  /\ call' = [call EXCEPT ![t] = "none"]
  /\ UNCHANGED <<created, msgs, tried, slot, registered, key, workerVars>>

cancel(t) ==
  /\ Active(t)
  /\ row' = Ended(row, t, "cancelled", "user")
  /\ UNCHANGED <<created, call, msgs, tried, slot, registered, key, workerVars, faults>>

---------------------------------------------------------------------------
(* A delivery up to the claim: process_task_inner.                         *)

deliver(d, t) ==
  /\ slot[d].pc = "idle" /\ life[d[1]] = "up"
  /\ msgs[t] > 0
  /\ msgs' = [msgs EXCEPT ![t] = @ - 1]
  /\ tried' = [tried EXCEPT ![t] = IF @ = "no" THEN "delivered" ELSE @]
  /\ slot' = [slot EXCEPT ![d] = [task |-> t, pc |-> "claimed", held |-> TRUE, out |-> "none"]]
  /\ UNCHANGED <<row, created, call, registered, key, workerVars, faults>>

\* load_task_for_execution and the decision of task_message_should_execute.  A
\* queued task is deferred when a read fails or its build needs a newer runtime,
\* and acknowledged when its environment or project is suspended.
load_task_for_execution(d) ==
  LET t == slot[d].task
      r == row[t]
  IN  /\ slot[d].pc = "claimed"
      /\ \/ NoFault /\ r.status = "queued" /\ Goes(d, "loaded") /\ UNCHANGED <<msgs, key>>
         \/ NoFault /\ r.status = "running" /\ r.owner = d[1]
            /\ Goes(d, "busy") /\ UNCHANGED <<msgs, key>>
         \/ NoFault /\ r.status = "running" /\ r.owner # d[1] /\ Defer(d)
         \/ NoFault /\ r.status \in Terminal /\ Ack(d)
         \/ Fault /\ Defer(d)
         \/ Fault /\ r.status = "queued" /\ Ack(d)
      /\ UNCHANGED <<row, created, call, tried, registered, workerVars>>

\* Mutant of task_message_should_execute: leaves the row to the heartbeat.
withhold_only(d) ==
  /\ slot[d].pc = "busy"
  /\ NoFault /\ UNCHANGED row
  /\ Defer(d)
  /\ UNCHANGED <<created, call, tried, registered, workerVars>>

\* A running row of this worker: withhold the message, and give the row up if
\* nothing here executes it.
task_message_should_execute(d) ==
  LET t == slot[d].task
  IN  /\ slot[d].pc = "busy"
      /\ \/ NoFault /\ row' = IF t \in registered[d[1]] THEN row ELSE Released(t, d[1])
         \/ Fault /\ UNCHANGED row
      /\ Defer(d)
      /\ UNCHANGED <<created, call, tried, registered, workerVars>>

try_register_task(d) ==
  LET t == slot[d].task
  IN  /\ slot[d].pc = "loaded"
      /\ \/ /\ t \in registered[d[1]]
            /\ Ack(d) /\ UNCHANGED registered
         \/ /\ t \notin registered[d[1]]
            /\ registered' = [registered EXCEPT ![d[1]] = @ \cup {t}]
            /\ Goes(d, "registered") /\ UNCHANGED <<msgs, key>>
      /\ UNCHANGED <<row, created, call, tried, workerVars, faults>>

\* SET NX; an error does not tell whether the key was set.
try_acquire(d) ==
  LET t == slot[d].task
  IN  /\ slot[d].pc = "registered"
      /\ \/ /\ NoFault /\ ~RedisLease
            /\ Goes(d, "leased") /\ UNCHANGED <<msgs, key, registered>>
         \/ /\ NoFault /\ RedisLease /\ key[t] = NoKey
            /\ key' = [key EXCEPT ![t] = d]
            /\ Goes(d, "leased") /\ UNCHANGED <<msgs, registered>>
         \/ /\ NoFault /\ key[t] # NoKey
            /\ Ack(d) /\ unregister_task(d[1], t)
         \/ /\ Fault /\ RedisLease
            /\ slot' = [slot EXCEPT ![d] = IdleSlot] /\ msgs' = Back(d)
            /\ \E k \in {key[t], Orphan} :
                 key' = IF key[t] = NoKey THEN [key EXCEPT ![t] = k] ELSE key
            /\ unregister_task(d[1], t)
      /\ UNCHANGED <<row, created, call, tried, workerVars>>

\* Mutant of Claimable: the claim takes any active row.
ClaimableActive(t) == Active(t)

Claimable(t) == row[t].status = "queued"

\* claim_task_for_execution, after the waits for a slot.  The fault disjuncts: the
\* environment was suspended, the quota refuses the task, there is no slot or the
\* claim fails (the message is deferred), the claim committed but timed out.
claim_task_for_execution(d) ==
  LET t == slot[d].task
      w == d[1]
  IN  /\ slot[d].pc = "leased"
      /\ \/ /\ NoFault /\ Claimable(t)
            /\ row' = Claimed(t, w)
            /\ Goes(d, "running") /\ UNCHANGED <<msgs, key, registered>>
         \/ /\ NoFault /\ ~Claimable(t)
            /\ Goes(d, "returned") /\ UNCHANGED <<row, msgs, key, registered>>
         \/ /\ Fault /\ Claimable(t)
            /\ \E p \in {"returned", "refused"} : Goes(d, p)
            /\ UNCHANGED <<row, msgs, key, registered>>
         \/ /\ Fault
            /\ row' \in {row} \cup (IF Claimable(t) THEN {Claimed(t, w)} ELSE {})
            /\ Defer(d) /\ unregister_task(w, t)
      /\ UNCHANGED <<created, call, tried, workerVars>>

fail_refused_task(d) ==
  /\ slot[d].pc = "refused"
  /\ \/ NoFault /\ row' = EndedIfActive(slot[d].task, "failed", "other")
     \/ Fault /\ UNCHANGED row
  /\ Goes(d, "returned")
  /\ UNCHANGED <<created, call, msgs, tried, registered, key, workerVars>>

---------------------------------------------------------------------------
(* Execution and its outcome: process_code_task.                           *)

\* "broken" is a build that does not load.
StatusOf(out) == IF out = "broken" THEN "failed" ELSE out

process_code_task(d, out) ==
  /\ slot[d].pc = "running"
  /\ slot' = [slot EXCEPT ![d].pc = "ended", ![d].out = out]
  /\ UNCHANGED <<row, created, call, msgs, tried, registered, key, workerVars, faults>>

\* Where the delivery goes once the outcome was persisted, or was not.  Every
\* outcome but a failure and a timeout is never retried.
AfterPersist(d, persisted) ==
  Goes(d, IF persisted /\ slot[d].out \in {"failed", "timed_out"} THEN "retry" ELSE "returned")

\* Mutant of OursAlready: the status alone, without the payload.
SameStatus(t, out) == row[t].status = StatusOf(out)

\* A zero-row update is our own earlier write if the status is ours and so is
\* the payload; a cancellation is as good as ours.
OursAlready(t, out) ==
  row[t].status = StatusOf(out) /\ (out = "cancelled" \/ row[t].by = "worker")

\* persist_terminal_task: Task::complete fenced by this worker, tried several
\* times.  In the last disjunct an attempt committed but its answer was lost:
\* the next attempt finds the row ended, or was the last one and nobody knows.
persist_terminal_task(d) ==
  LET t == slot[d].task
      fits == Active(t) /\ row[t].owner = d[1]
      done == Ended(row, t, StatusOf(slot[d].out), "worker")
  IN  /\ slot[d].pc = "ended"
      /\ \/ NoFault /\ fits /\ row' = done /\ AfterPersist(d, TRUE)
         \/ NoFault /\ ~fits /\ UNCHANGED row /\ AfterPersist(d, OursAlready(t, slot[d].out))
         \/ Fault /\ UNCHANGED row /\ AfterPersist(d, FALSE)
         \/ Fault /\ fits /\ row' = done /\ (UNCHANGED slot \/ AfterPersist(d, FALSE))
      /\ UNCHANGED <<created, call, msgs, tried, registered, key, workerVars>>

\* insert_retry for worker w of the ended task t, and the enqueue it spawns.
InsertRetry(t, w) ==
  IF Duplicate(t, row[t].attempt + 1)
  THEN UNCHANGED <<row, created, pending>>
  ELSE /\ Insert(row, row[t].attempt + 1, 0, t)
       /\ pending' = [pending EXCEPT ![w] = @ \cup {created + 1}]

\* Mutant of Retryable: one retry too many.
RetryableInclusive(t) ==
  row[t].status \in {"failed", "timed_out"} /\ row[t].attempt <= MaxAttempts

\* Retries remain (otherwise the retry check ends here).
Retryable(t) ==
  row[t].status \in {"failed", "timed_out"} /\ row[t].attempt < MaxAttempts

\* The fault: the row cannot be read, or the insert fails or times out.
maybe_retry_task(d) ==
  LET t == slot[d].task
  IN  /\ slot[d].pc = "retry"
      /\ \/ NoFault /\ Retryable(t) /\ InsertRetry(t, d[1])
         \/ NoFault /\ ~Retryable(t) /\ UNCHANGED <<row, created, pending>>
         \/ Fault /\ UNCHANGED <<row, created, pending>>
         \/ Fault /\ Retryable(t) /\ ~Duplicate(t, row[t].attempt + 1)
            /\ Insert(row, row[t].attempt + 1, 0, t) /\ UNCHANGED pending
      /\ Goes(d, "returned")
      /\ UNCHANGED <<call, msgs, tried, registered, key, reap, owed, life, fin>>

enqueue_retry(w, t) ==
  /\ t \in pending[w]
  /\ \/ NoFault /\ msgs' = [msgs EXCEPT ![t] = @ + 1]
     \/ Fault /\ UNCHANGED msgs
  /\ pending' = [pending EXCEPT ![w] = @ \ {t}]
  /\ UNCHANGED <<row, created, call, tried, slot, registered, key, reap, owed, life, fin>>

---------------------------------------------------------------------------
(* The end of a delivery.                                                  *)

\* The lease heartbeat finds the key gone: local work is cancelled and the
\* message deferred, also when the work had ended.
lease_lost(d) ==
  /\ RedisLease
  /\ slot[d].pc \in Owning
  /\ key[slot[d].task] # d
  /\ Defer(d) /\ unregister_task(d[1], slot[d].task)
  /\ UNCHANGED <<row, created, call, tried, workerVars, faults>>

\* Processing returned.  A build that does not load is an error for the queue's
\* retry limit, which may be reached (the fault): the message is dead-lettered.
unregister(d) ==
  /\ slot[d].pc = "returned"
  /\ unregister_task(d[1], slot[d].task)
  /\ \/ NoFault /\ slot[d].out # "broken" /\ Goes(d, "check") /\ UNCHANGED <<msgs, key, tried>>
     \/ NoFault /\ slot[d].out = "broken" /\ Defer(d) /\ UNCHANGED tried
     \/ Fault /\ slot[d].out = "broken" /\ slot[d].held /\ Ack(d)
        /\ tried' = [tried EXCEPT ![slot[d].task] = "given_up"]
  /\ UNCHANGED <<row, created, call, workerVars>>

\* Acknowledge only if the row is read back terminal.
terminal_is_durable(d) ==
  /\ slot[d].pc = "check"
  /\ \/ NoFault /\ row[slot[d].task].status \in Terminal /\ Ack(d)
     \/ NoFault /\ row[slot[d].task].status \notin Terminal /\ Goes(d, "release")
        /\ UNCHANGED <<msgs, key>>
     \/ Fault /\ Goes(d, "release") /\ UNCHANGED <<msgs, key>>
  /\ UNCHANGED <<row, created, call, tried, registered, workerVars>>

release_worker(d) ==
  /\ slot[d].pc = "release"
  /\ \/ NoFault /\ row' = Released(slot[d].task, d[1])
     \/ Fault /\ UNCHANGED row
  /\ Defer(d)
  /\ UNCHANGED <<created, call, tried, registered, workerVars>>

\* guard_task_panics: a delivery without the lease leaves the row alone.
panic(d) ==
  /\ slot[d].pc \in {"registered"} \cup Owning
  /\ Fault
  /\ unregister_task(d[1], slot[d].task)
  /\ \/ slot[d].pc = "registered" /\ Defer(d)
     \/ slot[d].pc # "registered" /\ Goes(d, "panicked") /\ UNCHANGED <<msgs, key>>
  /\ UNCHANGED <<row, created, call, tried, workerVars>>

panic_fence(d) ==
  LET r == row[slot[d].task]
      fail(f) == /\ slot' = [slot EXCEPT ![d].pc = "failing", ![d].out = f]
                 /\ UNCHANGED <<msgs, key>>
  IN  /\ slot[d].pc = "panicked"
      /\ \/ NoFault /\ r.status = "queued" /\ fail("unfenced")
         \/ NoFault /\ r.status = "running" /\ r.owner = d[1] /\ fail("fenced")
         \/ NoFault /\ r.status # "queued" /\ ~(r.status = "running" /\ r.owner = d[1])
            /\ Ack(d)
         \/ Fault /\ Defer(d)
      /\ UNCHANGED <<row, created, call, tried, registered, workerVars>>

panic_fail(d) ==
  LET t == slot[d].task
      fits == Active(t) /\ (slot[d].out = "unfenced" \/ row[t].owner = d[1])
  IN  /\ slot[d].pc = "failing"
      /\ \/ NoFault /\ fits /\ row' = Ended(row, t, "failed", "other") /\ Ack(d)
         \/ NoFault /\ ~fits /\ UNCHANGED row
            /\ IF row[t].status \in Terminal THEN Ack(d) ELSE Defer(d)
         \/ Fault /\ UNCHANGED row /\ Defer(d)
      /\ UNCHANGED <<created, call, tried, registered, workerVars>>

\* The queue gives a message out again under a delivery that is still at work.
queue_lease_lapses(d) ==
  /\ slot[d].held
  /\ Fault
  /\ slot' = [slot EXCEPT ![d].held = FALSE]
  /\ msgs' = [msgs EXCEPT ![slot[d].task] = @ + 1]
  /\ UNCHANGED <<row, created, call, tried, registered, key, workerVars>>

\* A message at its retry limit is dead-lettered instead of delivered; retries
\* are not counted here, so any message of a task delivered before may be.  With
\* the SQLite queue the recovery that did it then fails the row, unless it stops
\* first; with Redis Streams nobody does.
reconcile_dead_lettered_task(t) ==
  /\ msgs[t] > 0 /\ tried[t] = "delivered"
  /\ Fault
  /\ msgs' = [msgs EXCEPT ![t] = @ - 1]
  /\ tried' = [tried EXCEPT ![t] = "given_up"]
  /\ row' \in {row} \cup (IF RedisLease THEN {} ELSE {EndedIfActive(t, "failed", "other")})
  /\ UNCHANGED <<created, call, slot, registered, key, workerVars>>

\* Released, or run out: at once when nobody renews the key, as a fault otherwise.
key_expires(t) ==
  /\ key[t] # NoKey
  /\ IF key[t] = Orphan THEN NoFault ELSE Fault
  /\ key' = [key EXCEPT ![t] = NoKey]
  /\ UNCHANGED <<row, created, call, msgs, tried, slot, registered, workerVars>>

---------------------------------------------------------------------------
(* Heartbeats, the zombie reaper and the queued-task reconciler.           *)

heartbeat(w) ==
  /\ life[w] = "up"
  /\ \E t \in Tasks : row[t].status = "running" /\ row[t].owner = w /\ row[t].stale
  /\ row' = [t \in Tasks |->
               IF row[t].status = "running" /\ row[t].owner = w
               THEN [row[t] EXCEPT !.stale = FALSE] ELSE row[t]]
  /\ UNCHANGED <<created, call, msgs, tried, slot, registered, key, workerVars, faults>>

\* Nobody beats for a process that is gone, nor for one that is shutting down;
\* an active process misses two beats only by a fault.
Beating(o) == o \in Workers /\ life[o] = "up"

heartbeat_stale(t) ==
  /\ row[t].status = "running" /\ ~row[t].stale
  /\ IF Beating(row[t].owner) THEN Fault ELSE NoFault
  /\ row' = [row EXCEPT ![t].stale = TRUE]
  /\ UNCHANGED <<created, call, msgs, tried, slot, registered, key, workerVars>>

Zombies(w) == {t \in Tasks : row[t].status = "running" /\ row[t].stale} \ registered[w]

find_zombie_tasks(w) ==
  /\ life[w] = "up" /\ reap[w] = {} /\ owed[w] = 0
  /\ Zombies(w) # {}
  /\ reap' = [reap EXCEPT ![w] = Zombies(w)]
  /\ UNCHANGED <<row, created, call, msgs, tried, slot, registered, key, pending, owed, life,
                 fin, faults>>

\* Unfenced Task::complete; whoever changes the row owes its retry.
reap_zombie_task(w, t) ==
  /\ t \in reap[w] /\ owed[w] = 0
  /\ reap' = [reap EXCEPT ![w] = @ \ {t}]
  /\ \/ /\ NoFault
        /\ row' = EndedIfActive(t, "failed", "reaper")
        /\ owed' = [owed EXCEPT ![w] = IF Active(t) THEN t ELSE 0]
     \/ /\ Fault
        /\ row' \in {row, EndedIfActive(t, "failed", "reaper")}
        /\ UNCHANGED owed
  /\ UNCHANGED <<created, call, msgs, tried, slot, registered, key, pending, life, fin>>

maybe_retry_zombie_task(w) ==
  LET t == owed[w]
  IN  /\ t # 0
      /\ owed' = [owed EXCEPT ![w] = 0]
      /\ \/ NoFault /\ row[t].attempt < MaxAttempts /\ InsertRetry(t, w)
         \/ NoFault /\ row[t].attempt >= MaxAttempts /\ UNCHANGED <<row, created, pending>>
         \/ Fault /\ UNCHANGED <<row, created, pending>>
      /\ UNCHANGED <<call, msgs, tried, slot, registered, key, reap, life, fin>>

\* A copy the reconciler adds a little after its query is one that waits in the
\* queue, so query and enqueue are one step.
reconcile_queued_task(w, t) ==
  /\ life[w] = "up"
  /\ row[t].status = "queued"
  /\ Copies(t) < MaxCopies
  /\ msgs' = [msgs EXCEPT ![t] = @ + 1]
  /\ UNCHANGED <<row, created, call, tried, slot, registered, key, workerVars, faults>>

---------------------------------------------------------------------------
(* Shutdown, crash, restart.                                               *)

initiate_shutdown(w) ==
  /\ life[w] = "up"
  /\ Fault
  /\ life' = [life EXCEPT ![w] = "draining"]
  /\ UNCHANGED <<row, created, call, msgs, tried, slot, registered, key, pending, reap, owed, fin>>

drain_timeout(w) ==
  /\ life[w] = "draining" /\ registered[w] # {}
  /\ life' = [life EXCEPT ![w] = "finalizing"]
  /\ fin' = [fin EXCEPT ![w] = registered[w]]
  /\ UNCHANGED <<row, created, call, msgs, tried, slot, registered, key, pending, reap, owed,
                 faults>>

\* Mutant of InfraLeft: one generation too many.
InfraLeftInclusive(t) == row[t].infra <= MaxInfra

InfraLeft(t) == row[t].infra < MaxInfra

\* finalize_with_infra_retry: the successor and the failure in one transaction,
\* whichever worker the row belongs to.
FinalizedWithRetry(t) ==
  /\ Active(t) /\ InfraLeft(t)
  /\ LET done == Ended(row, t, "failed", "shutdown")
     IN  IF Duplicate(t, row[t].attempt)
         THEN row' = done /\ UNCHANGED created
         ELSE Insert(done, row[t].attempt, row[t].infra + 1, t)

\* The child is enqueued before the next task is finalized; in the faults the
\* transaction did not commit, or it did and the enqueue is left to the reconciler.
finalize_interrupted_task(w, t) ==
  /\ t \in fin[w]
  /\ fin' = [fin EXCEPT ![w] = @ \ {t}]
  /\ unregister_task(w, t)
  /\ \/ NoFault /\ FinalizedWithRetry(t)
        /\ msgs' = [c \in Tasks |-> msgs[c] + (IF c \in (created + 1)..created' THEN 1 ELSE 0)]
     \/ Fault /\ FinalizedWithRetry(t) /\ UNCHANGED msgs
     \/ NoFault /\ Active(t) /\ ~InfraLeft(t)
        /\ row' = Ended(row, t, "failed", "other") /\ UNCHANGED <<created, msgs>>
     \/ NoFault /\ ~Active(t) /\ UNCHANGED <<row, created, msgs>>
     \/ Fault /\ UNCHANGED <<row, created, msgs>>
  /\ UNCHANGED <<call, tried, slot, key, pending, reap, owed, life>>

\* A process ends and another takes its place.  The queue will deliver again
\* what it held, its lease keys run out, its name stays on its rows.
Stop(w) ==
  LET mine == {d \in Slots : d[1] = w}
  IN  /\ slot' = [d \in Slots |-> IF d \in mine THEN IdleSlot ELSE slot[d]]
      /\ msgs' = [t \in Tasks |->
                    msgs[t] + Cardinality({d \in mine : slot[d].task = t /\ slot[d].held})]
      /\ key' = [t \in Tasks |-> IF key[t] \in mine THEN Orphan ELSE key[t]]
      /\ row' = [t \in Tasks |->
                   IF row[t].owner = w THEN [row[t] EXCEPT !.owner = Former] ELSE row[t]]
      /\ registered' = [registered EXCEPT ![w] = {}]
      /\ pending' = [pending EXCEPT ![w] = {}]
      /\ reap' = [reap EXCEPT ![w] = {}]
      /\ owed' = [owed EXCEPT ![w] = 0]
      /\ fin' = [fin EXCEPT ![w] = {}]
      /\ life' = [life EXCEPT ![w] = "up"]
      /\ UNCHANGED <<created, call, tried>>

exit(w) ==
  /\ \/ life[w] = "draining" /\ registered[w] = {}
     \/ life[w] = "finalizing" /\ fin[w] = {}
  /\ Stop(w) /\ NoFault

crash(w) == Stop(w) /\ Fault

---------------------------------------------------------------------------
Client == start \/ \E t \in Tasks : enqueue(t) \/ fail_if_queued(t) \/ cancel(t)

BeforeClaim(d) ==
  \/ load_task_for_execution(d) \/ task_message_should_execute(d) \/ try_register_task(d)
  \/ try_acquire(d) \/ claim_task_for_execution(d) \/ fail_refused_task(d)

Executing(d) ==
  \/ \E out \in Outcomes : process_code_task(d, out)
  \/ persist_terminal_task(d) \/ maybe_retry_task(d)

AfterEnd(d) ==
  \/ lease_lost(d) \/ unregister(d) \/ terminal_is_durable(d) \/ release_worker(d)
  \/ panic_fence(d) \/ panic_fail(d)

Delivery(d) == BeforeClaim(d) \/ Executing(d) \/ AfterEnd(d)

Background(w) ==
  \/ \E t \in Tasks : \/ enqueue_retry(w, t) \/ reap_zombie_task(w, t)
                       \/ reconcile_queued_task(w, t) \/ finalize_interrupted_task(w, t)
  \/ heartbeat(w) \/ find_zombie_tasks(w) \/ maybe_retry_zombie_task(w)

Shutdown(w) == initiate_shutdown(w) \/ drain_timeout(w) \/ exit(w) \/ crash(w)

Environment ==
  \/ \E d \in Slots : queue_lease_lapses(d) \/ panic(d)
  \/ \E t \in Tasks : reconcile_dead_lettered_task(t) \/ key_expires(t) \/ heartbeat_stale(t)

Next ==
  \/ Client
  \/ \E d \in Slots : Delivery(d) \/ \E t \in Tasks : deliver(d, t)
  \/ \E w \in Workers : Background(w) \/ Shutdown(w)
  \/ Environment

Spec == Init /\ [][Next]_vars

\* Processors, spawned tasks and timers of a running process go on; the queue
\* delivers every message in the end; a lease key nobody renews runs out.
Fairness ==
  /\ \A t \in Tasks : /\ WF_vars(enqueue(t)) /\ WF_vars(fail_if_queued(t))
                       /\ SF_vars(\E d \in Slots : deliver(d, t))
                       /\ WF_vars(key[t] = Orphan /\ key_expires(t))
                       /\ WF_vars(~Beating(row[t].owner) /\ heartbeat_stale(t))
  /\ \A d \in Slots : WF_vars(Delivery(d))
  /\ \A w \in Workers :
       /\ WF_vars(find_zombie_tasks(w)) /\ WF_vars(maybe_retry_zombie_task(w))
       /\ WF_vars(drain_timeout(w)) /\ WF_vars(exit(w))
       /\ \A t \in Tasks :
            /\ WF_vars(reap_zombie_task(w, t)) /\ WF_vars(enqueue_retry(w, t))
            /\ WF_vars(reconcile_queued_task(w, t)) /\ WF_vars(finalize_interrupted_task(w, t))

FairSpec == Spec /\ Fairness

---------------------------------------------------------------------------
(* Properties.                                                             *)

\* The variables have their types; in particular no attempt exceeds its retry
\* budget and no lineage its infrastructure retries.
TypeOK ==
  /\ row \in [Tasks -> Row]
  /\ created \in 0..MaxTasks
  /\ call \in [Tasks -> {"none", "enqueue", "compensate"}]
  /\ msgs \in [Tasks -> Nat]
  /\ tried \in [Tasks -> {"no", "delivered", "given_up"}]
  /\ slot \in [Slots -> Slot]
  /\ registered \in [Workers -> SUBSET Tasks]
  /\ key \in [Tasks -> Slots \cup {NoKey, Orphan}]
  /\ pending \in [Workers -> SUBSET Tasks]
  /\ reap \in [Workers -> SUBSET Tasks]
  /\ owed \in [Workers -> 0..MaxTasks]
  /\ life \in [Workers -> {"up", "draining", "finalizing"}]
  /\ fin \in [Workers -> SUBSET Tasks]
  /\ faults \in 0..MaxFaults

\* A task is re-run at most once: the worker that saw it fail, the reaper that
\* took its worker for dead and the shutdown that interrupted it never both
\* create a successor (maybe_retry_task, maybe_retry_zombie_task,
\* finalize_with_infra_retry), though the unique key of the table tells only
\* successors of the same attempt number apart.
OneSuccessor ==
  \A p \in Tasks : \A c1, c2 \in Tasks :
    row[c1].parent = p /\ row[c2].parent = p => c1 = c2

\* User code of a row is executed by one delivery only, whatever messages are
\* delivered twice and leases lost (claim_for_worker).
ExecutedOnce ==
  \A d1, d2 \in Slots :
    /\ slot[d1].pc \in {"running", "ended", "retry"}
    /\ slot[d2].pc \in {"running", "ended", "retry"}
    /\ slot[d1].task = slot[d2].task
    => d1 = d2

\* The table does what TaskLineage says: terminal statuses are final, only
\* failures have successors, and only one each.
Lineage == INSTANCE TaskLineage WITH
  lineage <- [t \in Tasks |-> [status |-> row[t].status, attempt |-> row[t].attempt,
                               infra |-> row[t].infra, parent |-> row[t].parent]]
ImplementsLineage == Lineage!LineageSpec

\* Every task that was started, and every retry, ends in a terminal status, also
\* when its worker stops or its message is lost.  One fault is survived; after
\* two, a row can keep an owner that beats for it and no message.
EventuallyTerminal ==
  \A t \in Tasks : row[t].status = "queued" ~> (row[t].status \in Terminal \/ faults > 1)

\* The reaper fails a row only when its worker is dead or hung, not one that a
\* worker is still draining (ZOMBIE_HEARTBEAT_STALE_SECS).
ReapedOnlyWhenDead ==
  [][\A t \in Tasks, d \in Slots :
       /\ row[t].by = "none" /\ row'[t].by = "reaper"
       /\ slot[d].task = t /\ slot[d].pc = "running" /\ row[t].owner = d[1]
       => life[d[1]] = "up"]_vars
============================================================================
