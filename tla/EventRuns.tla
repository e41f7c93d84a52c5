----------------------------- MODULE EventRuns -----------------------------
(***************************************************************************)
(* The run rows of an event's handlers, across the deliveries of the event *)
(* and the retries the scheduler queues: the event executor of             *)
(* hot_worker/src/server.rs, the statements of hot/src/db/run.rs and of    *)
(* the emitter's database writer, and process_pending_retries of           *)
(* hot_scheduler/src/server.rs.                                            *)
(*                                                                         *)
(* A run id derives from the event and the handler, so every delivery of   *)
(* an event meets the same rows.  Every SQL statement is one atomic step,  *)
(* but those that make different rows ready for a delivery are one.        *)
(* The queue is reduced to what it promises: a message is delivered until  *)
(* it is acknowledged or its deliveries are used up, a live worker may lose*)
(* its claim (SqliteQueue and StreamsQueue have the protocols).  All       *)
(* events belong to one stream.                                            *)
(***************************************************************************)
EXTENDS Integers, FiniteSets

CONSTANTS
  Workers,        \* executors, each in a process of its own
  Handlers,       \* the event's handlers
  MaxEvents,      \* the event and the retries queued for its runs
  MaxAttempts,    \* max_retries of the handlers' retry meta
  MaxDeliveries,  \* MAX_PROCESSING_RETRIES
  MaxFaults,      \* bound on the steps marked Fault
  NoWorker, NoRun

ASSUME RunSizes ==
  /\ MaxEvents \in Nat \ {0} /\ MaxAttempts \in Nat
  /\ MaxDeliveries \in Nat \ {0} /\ MaxFaults \in Nat
ASSUME RunNulls == NoWorker \notin Workers /\ NoRun \notin Handlers

Events == 1..MaxEvents
Runs == Events \X Handlers

Outcomes == {"succeeded", "failed", "cancelled"}
Open == {"running", "held"}
Finished == Outcomes \cup {"retry"}

VARIABLES
  redis,      \* the queue is Redis Streams, not SQLite
  deployed,   \* handlers of the deployed build
  events,     \* events inserted so far; the first is the original
  event,      \* what each event is: its attempt, its handlers, the run it retries
  msg,        \* the message of each event
  owner,      \* the worker its queue has delivered it to
  row,        \* status of each run; "retry" and "held" are pending_retry with
              \* and without next_retry_at
  job,        \* the delivery in each worker; "ended" is history, the handlers
              \* whose run had ended when it was claimed
  late,       \* results of runs that their worker no longer waits for
  sched,      \* the run whose retry is queued but not marked
  faults,
  \* history
  interrupted,  \* runs failed by a shutdown that timed out
  unmarked,     \* runs whose retry was queued and never marked
  lost          \* runs whose end no statement reached, or a delivery forgot

vars == <<redis, deployed, events, event, msg, owner, row, job, late, sched, faults,
          interrupted, unmarked, lost>>
queue == <<msg, owner>>
history == <<interrupted, unmarked, lost>>

---------------------------------------------------------------------------
Settled == {"done", "dead"}
NoMsg == [at |-> "absent", count |-> 0, base |-> 0, redelivered |-> FALSE,
          recovered |-> FALSE, copy |-> 0]
Queued == [NoMsg EXCEPT !.at = "queued"]

NoView == [h \in Handlers |-> "none"]
Idle == [event |-> 0, phase |-> "idle", msg |-> NoMsg, view |-> NoView, todo |-> {},
         run |-> NoRun, started |-> FALSE, claim |-> "held", ended |-> {}]

Event(w) == job[w].event
Busy(w) == job[w].phase # "idle"
At(e) == msg[e].at

\* The worker's queue still has its delivery of the message.
Own(w) == At(Event(w)) = "taken" /\ owner[Event(w)] = w

\* What a settlement by w reaches: with SQLite the lease it holds; with Redis
\* its entry, whichever consumer it is pending for by now.
Reaches(w) ==
  IF redis THEN At(Event(w)) \in {"queued", "taken", "left", "lapsed"}
                /\ msg[Event(w)].copy = job[w].msg.copy
           ELSE Own(w)

LastAttempt(w) == job[w].msg.count >= MaxDeliveries

HandlersOf(e) == deployed \cap event[e].handlers

Fault == faults < MaxFaults /\ faults' = faults + 1

\* Rows of event e as f makes them.
WithRows(e, f) == [row EXCEPT ![e] = f]

---------------------------------------------------------------------------
Init ==
  /\ redis \in BOOLEAN /\ deployed = Handlers
  /\ events = 1
  /\ event = [e \in Events |-> [attempt |-> 0, handlers |-> Handlers, of |-> <<0, NoRun>>]]
  /\ msg = [e \in Events |-> IF e = 1 THEN Queued ELSE NoMsg]
  /\ owner = [e \in Events |-> NoWorker]
  /\ row = [e \in Events |-> NoView]
  /\ job = [w \in Workers |-> Idle]
  /\ late = {} /\ sched = <<0, NoRun>> /\ faults = 0
  /\ interrupted = {} /\ unmarked = {} /\ lost = {}

---------------------------------------------------------------------------
(* The ends of a delivery.                                                 *)

\* The job is over; its message becomes m, if the settlement reaches it.
Leave(w, reaches, m) ==
  /\ job' = [job EXCEPT ![w] = Idle]
  /\ msg' = IF reaches THEN [msg EXCEPT ![Event(w)] = m] ELSE msg
  /\ owner' = IF reaches THEN [owner EXCEPT ![Event(w)] = NoWorker] ELSE owner

\* A delivery that cannot put its message back forgets the runs it has not got to.
Forget(w, reaches) ==
  lost' = IF reaches THEN lost ELSE lost \cup {<<Event(w), h>> : h \in job[w].todo}

OpenRuns(e) == {<<e, h>> : h \in {i \in Handlers : row[e][i] \in Open}}

Ack(w) == Leave(w, Reaches(w), [msg[Event(w)] EXCEPT !.at = "done"])

\* Runs that the acknowledgement of an entry claimed by somebody else settles.
Overtaken(w) == IF Reaches(w) /\ ~Own(w) THEN OpenRuns(Event(w)) ELSE {}

\* settle_dead_lettered_event_runs: fail what earlier deliveries left open.
Buried(e) == WithRows(e, [h \in Handlers |-> IF row[e][h] \in Open THEN "failed" ELSE row[e][h]])

\* The message's deliveries are used up: it is dead-lettered and its runs are
\* failed, unless the database refuses.
DeadLetter(e) ==
  \/ row' = Buried(e) /\ UNCHANGED <<faults, lost>>
  \/ Fault /\ lost' = lost \cup OpenRuns(e) /\ UNCHANGED row

\* A delivery that fails is delivered again until its deliveries are used up.
\* One that has lost its message leaves it alone.
Redeliver(w) ==
  LET e == Event(w) IN
  IF ~Own(w) THEN Leave(w, FALSE, NoMsg) /\ Forget(w, FALSE) /\ UNCHANGED <<row, faults>>
  ELSE IF LastAttempt(w) THEN Leave(w, TRUE, [msg[e] EXCEPT !.at = "dead"]) /\ DeadLetter(e)
  ELSE Leave(w, TRUE, [msg[e] EXCEPT !.at = "queued", !.redelivered = TRUE, !.recovered = FALSE])
       /\ UNCHANGED <<row, faults, lost>>

\* A copy of the message takes its place, with n deliveries on its count.
Requeue(w, n) ==
  Leave(w, Reaches(w), [at |-> "queued", count |-> n, base |-> n, redelivered |-> TRUE,
                        recovered |-> FALSE, copy |-> msg[Event(w)].copy + 1])

---------------------------------------------------------------------------
(* A delivery.                                                             *)

Claim(w, e) ==
  /\ ~Busy(w) /\ At(e) = "queued"
  /\ msg' = [msg EXCEPT ![e].at = "taken", ![e].count = @ + 1]
  /\ owner' = [owner EXCEPT ![e] = w]
  /\ job' = [job EXCEPT ![w] = [Idle EXCEPT !.event = e, !.phase = "claimed", !.msg = msg'[e],
                               !.ended = {h \in Handlers : row[e][h] \in Finished}]]
  /\ UNCHANGED <<redis, deployed, events, event, row, late, sched, faults, history>>

\* An event without a handler is acknowledged; nothing looks at its runs.
acknowledge_unhandled_event(w) ==
  /\ job[w].phase = "claimed" /\ HandlersOf(Event(w)) = {}
  /\ Ack(w) /\ lost' = lost \cup OpenRuns(Event(w))
  /\ UNCHANGED <<redis, deployed, events, event, row, late, sched, faults, interrupted, unmarked>>

\* Mutant of Executes: a run with its retry scheduled counts as cut short.
ExecutesAgain(s) == s \notin Outcomes

\* EarlierDelivery::of: whether a handler whose run has status s executes.
Executes(s) == s \notin Finished

\* A redelivery reads the event's rows; a first delivery has none to read.
earlier_deliveries(w) ==
  LET e == Event(w)
      view == IF job[w].msg.redelivered THEN row[e] ELSE NoView
  IN  /\ job[w].phase = "claimed" /\ HandlersOf(e) # {}
      /\ job' = [job EXCEPT ![w].phase = "read", ![w].view = view,
                            ![w].todo = {h \in HandlersOf(e) : Executes(view[h])}]
      /\ UNCHANGED <<redis, deployed, events, event, queue, row, late, sched, faults, history>>

\* Runs earlier deliveries left open that this one will not execute.
Unrun(w) == {h \in Handlers : job[w].view[h] \in Open /\ h \notin job[w].todo}

\* Mutant of fail_unrun_earlier_deliveries: it fails running rows only.
FailUnrunRunning(w, h, s) == IF h \in Unrun(w) /\ s = "running" THEN "failed" ELSE s

fail_unrun_earlier_deliveries(w, h, s) == IF h \in Unrun(w) /\ s \in Open THEN "failed" ELSE s

\* Every handler finished in an earlier delivery.
AcknowledgeFinished(w) ==
  /\ job[w].phase = "read" /\ job[w].todo = {}
  /\ row' = WithRows(Event(w), [h \in Handlers |->
                fail_unrun_earlier_deliveries(w, h, row[Event(w)][h])])
  /\ Ack(w) /\ lost' = lost \cup Overtaken(w)
  /\ UNCHANGED <<redis, deployed, events, event, late, sched, faults, interrupted, unmarked>>

\* reopen_held_runs, fail_unrun_earlier_deliveries and, for a recovered
\* delivery, open_event_run.
Opened(w, h, s) ==
  IF h \in job[w].todo
  THEN IF \/ s = "held" /\ job[w].view[h] = "held"
          \/ s = "none" /\ job[w].msg.recovered
       THEN "running" ELSE s
  ELSE fail_unrun_earlier_deliveries(w, h, s)

\* admit_executions reserves the runs, then the rows are made ready.
Admit(w) ==
  /\ job[w].phase = "read" /\ job[w].todo # {}
  /\ row' = WithRows(Event(w), [h \in Handlers |-> Opened(w, h, row[Event(w)][h])])
  /\ job' = [job EXCEPT ![w].phase = "ready"]
  /\ UNCHANGED <<redis, deployed, events, event, queue, late, sched, faults, history>>

\* A database error, a suspended account or a reached quota before any handler
\* started: delivered again, uncounted.  The copy on Redis forgets every delivery
\* of the entry it replaces.
InfrastructureRetry(w) ==
  /\ job[w].phase \in {"claimed", "read", "ready"} /\ ~job[w].started /\ Fault
  /\ Requeue(w, IF redis THEN job[w].msg.base ELSE job[w].msg.count - 1)
  /\ Forget(w, Reaches(w))
  /\ UNCHANGED <<redis, deployed, events, event, row, late, sched, interrupted, unmarked>>

\* claim_stops_new_runs: a delivery that cannot vouch for its claim starts no
\* more handlers and is not acknowledged.
StopNewRuns(w) ==
  /\ job[w].phase = "ready" /\ job[w].todo # {} /\ job[w].claim # "held"
  /\ Redeliver(w)
  /\ UNCHANGED <<redis, deployed, events, event, late, sched, interrupted, unmarked>>

\* Mutant of record_unstarted_run: it overwrites a run that has ended.
RecordUnstartedAnyhow(s, end) == end

\* record_unstarted_run: inserts the row, or overwrites an open one.
record_unstarted_run(s, end) == IF s = "none" \/ s \in Open THEN end ELSE s

\* A handler's setup fails before its run starts.  Before any handler started
\* the event is delivered again, counted, and the run waits for it: with the
\* failure on its row, or without a row after a setup that timed out.  A worker
\* that has lost the message holds the run all the same.
SetupDefers(w, h) ==
  LET e == Event(w) IN
  /\ job[w].phase = "ready" /\ h \in job[w].todo /\ job[w].claim = "held"
  /\ ~job[w].started /\ ~LastAttempt(w)
  /\ row' \in {row, [row EXCEPT ![e][h] = record_unstarted_run(@, "held")]}
  /\ Requeue(w, job[w].msg.count)
  /\ Forget(w, Reaches(w))
  /\ UNCHANGED <<redis, deployed, events, event, late, sched, faults, interrupted, unmarked>>

\* A setup that times out on the last delivery is not the run's failure: the
\* message is dead-lettered (on Redis when its counted copy is claimed).
SetupTimesOut(w, h) ==
  LET e == Event(w) IN
  /\ job[w].phase = "ready" /\ h \in job[w].todo /\ job[w].claim = "held"
  /\ ~job[w].started /\ LastAttempt(w)
  /\ Leave(w, Reaches(w), [msg[e] EXCEPT !.at = "dead"])
  /\ IF Reaches(w) THEN DeadLetter(e) ELSE Forget(w, FALSE) /\ UNCHANGED <<row, faults>>
  /\ UNCHANGED <<redis, deployed, events, event, late, sched, interrupted, unmarked>>

\* After one started, or on the last delivery, a failed setup is the run's.
SetupFails(w, h) ==
  LET e == Event(w) IN
  /\ job[w].phase = "ready" /\ h \in job[w].todo /\ job[w].claim = "held"
  /\ job[w].started \/ LastAttempt(w)
  /\ row' = [row EXCEPT ![e][h] = record_unstarted_run(@, "failed")]
  /\ job' = [job EXCEPT ![w].started = TRUE, ![w].todo = @ \ {h}]
  /\ UNCHANGED <<redis, deployed, events, event, queue, late, sched, faults, history>>

\* The handler's code runs; run:start inserts the row unless it is there.
write_run_start(w, h) ==
  LET e == Event(w) IN
  /\ job[w].phase = "ready" /\ h \in job[w].todo /\ job[w].claim = "held"
  /\ row' = [row EXCEPT ![e][h] = IF @ = "none" THEN "running" ELSE @]
  /\ job' = [job EXCEPT ![w].phase = "running", ![w].run = h]
  /\ UNCHANGED <<redis, deployed, events, event, queue, late, sched, faults, history>>

\* Mutant of RunEnd: the attempt limit is off by one.
RunEndInclusive(e, s, out) ==
  IF s # "running" THEN s
  ELSE IF out = "failed" /\ event[e].attempt <= MaxAttempts THEN "retry" ELSE out

\* Mutant of RunEnd: run:fail does not look at the row first.
RunFailUnchecked(e, s, out) ==
  IF out = "failed" THEN IF event[e].attempt < MaxAttempts THEN "retry" ELSE "failed"
  ELSE IF s # "running" THEN s ELSE out

\* write_run_stop, write_run_fail and write_run_cancel: only a running row
\* changes; a failure with attempts left is a pending retry.
RunEnd(e, s, out) ==
  IF s # "running" THEN s
  ELSE IF out = "failed" /\ event[e].attempt < MaxAttempts THEN "retry" ELSE out

Ended(w) == [job EXCEPT ![w].phase = "ready", ![w].run = NoRun, ![w].started = TRUE,
                        ![w].todo = @ \ {job[w].run}]

\* A result that meets a held run is lost.
Missed(e, h) == lost' = IF row[e][h] = "held" THEN lost \cup {<<e, h>>} ELSE lost

Late(w, out) == [worker |-> w, run |-> <<Event(w), job[w].run>>, out |-> out]

\* The handler ends and its result is flushed, or the flush times out and the
\* result waits in the writer.
RunEnds(w, out) ==
  LET e == Event(w) IN
  /\ job[w].phase = "running"
  /\ job' = Ended(w)
  /\ \/ row' = [row EXCEPT ![e][job[w].run] = RunEnd(e, @, out)]
        /\ Missed(e, job[w].run) /\ UNCHANGED <<late, faults>>
     \/ Fault /\ late' = late \cup {Late(w, out)} /\ UNCHANGED <<row, lost>>
  /\ UNCHANGED <<redis, deployed, events, event, queue, sched, interrupted, unmarked>>

\* The run passes its budget, or an unconfirmed claim its stop time: the worker
\* records the failure and goes on, the detached VM may end some other way later.
RunStopped(w, claim, out) ==
  LET e == Event(w) IN
  /\ job[w].phase = "running" /\ Fault
  /\ job' = [Ended(w) EXCEPT ![w].claim = claim]
  /\ row' = [row EXCEPT ![e][job[w].run] = RunEnd(e, @, "failed")]
  /\ late' = late \cup {Late(w, out)} /\ Missed(e, job[w].run)
  /\ UNCHANGED <<redis, deployed, events, event, queue, sched, interrupted, unmarked>>

\* No touch has confirmed the claim for two thirds of the idle time, while no run
\* is active; a later touch may confirm it.
ClaimUnconfirmed(w) ==
  /\ redis /\ Busy(w) /\ job[w].phase # "running" /\ Own(w)
  /\ \/ job[w].claim = "held" /\ Fault /\ job' = [job EXCEPT ![w].claim = "unconfirmed"]
     \/ job[w].claim = "unconfirmed" /\ job' = [job EXCEPT ![w].claim = "held"] /\ UNCHANGED faults
  /\ UNCHANGED <<redis, deployed, events, event, queue, row, late, sched, history>>

\* The keepalive finds the entry pending for another consumer: the run stops
\* without recording an end.
ClaimLost(w) ==
  /\ redis /\ Busy(w) /\ job[w].claim # "lost" /\ ~Own(w) /\ Reaches(w)
  /\ job' = [(IF job[w].phase = "running" THEN Ended(w) ELSE job) EXCEPT ![w].claim = "lost"]
  /\ UNCHANGED <<redis, deployed, events, event, queue, row, late, sched, faults, history>>

\* All handlers are through: acknowledged, unless the claim is known to be lost.
FinishDelivery(w) ==
  /\ job[w].phase = "ready" /\ job[w].todo = {}
  /\ IF job[w].claim = "lost" THEN Redeliver(w)
                              ELSE Ack(w) /\ lost' = lost \cup Overtaken(w) /\ UNCHANGED <<row, faults>>
  /\ UNCHANGED <<redis, deployed, events, event, late, sched, interrupted, unmarked>>

LateWrite(l) ==
  /\ row' = [row EXCEPT ![l.run[1]][l.run[2]] = RunEnd(l.run[1], @, l.out)]
  /\ late' = late \ {l} /\ Missed(l.run[1], l.run[2])
  /\ UNCHANGED <<redis, deployed, events, event, queue, job, sched, faults, interrupted, unmarked>>

---------------------------------------------------------------------------
(* Stops, recovery and the reaper.                                         *)

\* What ends with the process: results not written, and the runs of a delivery
\* whose message is not the worker's any more.
Forgotten(w) ==
  {l.run : l \in {k \in late : k.worker = w}}
  \cup {<<Event(w), h>> : h \in {i \in Handlers : Busy(w) /\ ~Own(w)}}

Down(w) ==
  /\ Fault
  /\ job' = [job EXCEPT ![w] = Idle]
  /\ late' = {l \in late : l.worker # w}
  /\ lost' = lost \cup Forgotten(w)
  /\ msg' = IF Busy(w) /\ Own(w) THEN [msg EXCEPT ![Event(w)].at = "left"] ELSE msg
  /\ owner' = IF Busy(w) /\ Own(w) THEN [owner EXCEPT ![Event(w)] = NoWorker] ELSE owner

Crash(w) ==
  /\ Busy(w) \/ \E l \in late : l.worker = w
  /\ Down(w)
  /\ UNCHANGED <<redis, deployed, events, event, row, sched, interrupted, unmarked>>

\* A shutdown times out with a run active: fail_active_runs marks it failed
\* (Run::fail_run), then the executors are aborted.
fail_active_runs(w) ==
  LET e == Event(w) IN
  /\ job[w].phase = "running"
  /\ row' = [row EXCEPT ![e][job[w].run] = IF @ = "running" THEN "failed" ELSE @]
  /\ interrupted' = IF row[e][job[w].run] = "running"
                    THEN interrupted \cup {<<e, job[w].run>>} ELSE interrupted
  /\ Down(w)
  /\ UNCHANGED <<redis, deployed, events, event, sched, unmarked>>

\* The queue takes the message from a live worker: its lease was not renewed, or
\* its keepalive failed for the whole idle time.  The claim fence has stopped the
\* worker's run by then (ClaimFence).
ClaimLapses(w) ==
  /\ Busy(w) /\ Own(w)
  /\ IF redis THEN job[w].claim = "unconfirmed" /\ job[w].phase # "running" /\ UNCHANGED faults
              ELSE Fault
  /\ msg' = [msg EXCEPT ![Event(w)].at = "lapsed"]
  /\ owner' = [owner EXCEPT ![Event(w)] = NoWorker]
  /\ UNCHANGED <<redis, deployed, events, event, row, job, late, sched, history>>

hold_orphaned_runs_for_redelivery(s) == IF s = "running" THEN "held" ELSE s

\* settle_orphaned_event_runs for a message that goes back: its own runs are
\* held, then what else runs in its stream is failed.
Held(e) ==
  [f \in Events |-> [h \in Handlers |->
     IF f = e THEN hold_orphaned_runs_for_redelivery(row[e][h])
     ELSE IF row[f][h] = "running" THEN "failed" ELSE row[f][h]]]

\* Recovery puts back or dead-letters a message without a worker.  The runs are
\* settled first; not by the Redis janitor or a takeover of a lapsed lease, and
\* not when the database refuses.
Recover(e) ==
  /\ At(e) \in {"left", "lapsed"}
  /\ IF msg[e].count >= MaxDeliveries
     THEN msg' = [msg EXCEPT ![e].at = "dead"] /\ DeadLetter(e)
     ELSE /\ msg' = [msg EXCEPT ![e].at = "queued", ![e].redelivered = TRUE,
                                ![e].recovered = At(e) = "left" /\ ~redis]
          /\ \/ row' = Held(e) /\ UNCHANGED faults
             \/ (redis \/ At(e) = "lapsed") /\ UNCHANGED <<row, faults>>
             \/ Fault /\ UNCHANGED row
          /\ UNCHANGED lost
  /\ UNCHANGED <<redis, deployed, events, event, owner, job, late, sched, interrupted, unmarked>>

Stale(s) == s \in Open

\* The daily reaper: a run open for 25 hours, longer than any run takes.  While
\* its event is not settled, that is an event that waited so long.
fail_stale_runs(e, h) ==
  /\ Stale(row[e][h]) /\ \A w \in Workers : Event(w) # e
  /\ IF At(e) \in Settled THEN UNCHANGED faults ELSE Fault
  /\ row' = [row EXCEPT ![e][h] = "failed"]
  /\ UNCHANGED <<redis, deployed, events, event, queue, job, late, sched, history>>

Redeploy ==
  /\ Fault /\ deployed' \in SUBSET Handlers
  /\ UNCHANGED <<redis, events, event, queue, row, job, late, sched, history>>

---------------------------------------------------------------------------
(* The scheduler: a due retry becomes an event of its own.                 *)

\* The retry's event is inserted and enqueued.
process_pending_retries(e, h) ==
  /\ sched = <<0, NoRun>> /\ row[e][h] = "retry" /\ events < MaxEvents
  /\ events' = events + 1
  /\ event' = [event EXCEPT ![events + 1] =
                 [attempt |-> event[e].attempt + 1, handlers |-> {h}, of |-> <<e, h>>]]
  /\ msg' = [msg EXCEPT ![events + 1] = Queued]
  /\ sched' = <<e, h>>
  /\ UNCHANGED <<redis, deployed, owner, row, job, late, faults, history>>

\* Then the failed attempt is marked, whatever its row is by now.
mark_retry_queued ==
  /\ sched # <<0, NoRun>>
  /\ row' = [row EXCEPT ![sched[1]][sched[2]] = "failed"]
  /\ sched' = <<0, NoRun>>
  /\ UNCHANGED <<redis, deployed, events, event, queue, job, late, faults, history>>

\* The statement fails or the scheduler stops in between.
MarkFails ==
  /\ sched # <<0, NoRun>> /\ Fault
  /\ unmarked' = unmarked \cup {sched} /\ sched' = <<0, NoRun>>
  /\ UNCHANGED <<redis, deployed, events, event, queue, row, job, late, interrupted, lost>>

\* The retry's event is gone.
mark_retry_abandoned(e, h) ==
  /\ sched = <<0, NoRun>> /\ row[e][h] = "retry" /\ Fault
  /\ row' = [row EXCEPT ![e][h] = "failed"]
  /\ UNCHANGED <<redis, deployed, events, event, queue, job, late, sched, history>>

---------------------------------------------------------------------------
Handle(w) ==
  \/ acknowledge_unhandled_event(w) \/ earlier_deliveries(w) \/ AcknowledgeFinished(w)
  \/ Admit(w) \/ StopNewRuns(w) \/ FinishDelivery(w)
  \/ \E h \in Handlers : SetupFails(w, h) \/ write_run_start(w, h)
  \/ \E out \in Outcomes : RunEnds(w, out)

Disturb(w) ==
  \/ InfrastructureRetry(w) \/ ClaimUnconfirmed(w) \/ ClaimLapses(w) \/ ClaimLost(w)
  \/ Crash(w) \/ fail_active_runs(w)
  \/ \E h \in Handlers : SetupDefers(w, h) \/ SetupTimesOut(w, h)
  \/ \E out \in Outcomes : RunStopped(w, job[w].claim, out)
                           \/ (redis /\ RunStopped(w, "unconfirmed", out))

Scheduler ==
  \/ \E e \in Events, h \in Handlers : process_pending_retries(e, h) \/ mark_retry_abandoned(e, h)
  \/ mark_retry_queued \/ MarkFails

Next ==
  \/ \E w \in Workers : Handle(w) \/ Disturb(w) \/ (\E e \in Events : Claim(w, e))
  \/ \E e \in Events : Recover(e)
  \/ \E e \in Events, h \in Handlers : fail_stale_runs(e, h)
  \/ \E l \in late : LateWrite(l)
  \/ Scheduler \/ Redeploy

Spec == Init /\ [][Next]_vars

---------------------------------------------------------------------------
(* Properties.                                                             *)

Messages ==
  [at : {"absent", "queued", "taken", "left", "lapsed"} \cup Settled, count : 0..MaxDeliveries,
   base : 0..MaxDeliveries, redelivered : BOOLEAN, recovered : BOOLEAN, copy : Nat]

\* The types of the messages, the rows, the deliveries and the histories.
TypeOK ==
  /\ redis \in BOOLEAN /\ deployed \subseteq Handlers /\ events \in Events
  /\ event \in [Events -> [attempt : 0..MaxAttempts, handlers : SUBSET Handlers,
                           of : Runs \cup {<<0, NoRun>>}]]
  /\ msg \in [Events -> Messages]
  /\ owner \in [Events -> Workers \cup {NoWorker}]
  /\ row \in [Events -> [Handlers -> {"none"} \cup Open \cup Finished]]
  /\ job \in [Workers -> [event : 0..MaxEvents,
                          phase : {"idle", "claimed", "read", "ready", "running"},
                          msg : Messages, view : [Handlers -> {"none"} \cup Open \cup Finished],
                          todo : SUBSET Handlers, run : Handlers \cup {NoRun},
                          started : BOOLEAN, claim : {"held", "unconfirmed", "lost"},
                          ended : SUBSET Handlers]]
  /\ late \subseteq [worker : Workers, run : Runs, out : Outcomes]
  /\ sched \in Runs \cup {<<0, NoRun>>} /\ faults \in 0..MaxFaults
  /\ interrupted \subseteq Runs /\ unmarked \subseteq Runs /\ lost \subseteq Runs

RetriesOf(r) == {e \in 2..events : event[e].of = r}

\* A failed run is retried once: no redelivery, takeover, late result of a
\* detached VM or recovery schedules a second retry of the same run.  Only a
\* scheduler that queued a retry and could not mark it queues it again.
OneRetryPerRun ==
  \A r \in Runs \ unmarked : Cardinality(RetriesOf(r)) <= 1

\* A run that ended keeps its end, whichever of the worker, the writer, the
\* recovery, the reaper and the scheduler writes next; a scheduled retry can
\* only become the failure its retry follows.
EndIsFinal ==
  [][\A e \in Events, h \in Handlers :
       /\ row[e][h] \in Outcomes => row'[e][h] = row[e][h]
       /\ row[e][h] = "retry" => row'[e][h] \in {"retry", "failed"}]_vars

\* Once an event is settled and nobody works on it, its runs have ended, except
\* those whose end was lost with a process or refused by the database, those of
\* an event that no deployed handler was left for, and those that a delivery left
\* after it had lost the message, or acknowledged from under another delivery.
SettledRunsEnded ==
  \A e \in Events, h \in Handlers :
    /\ At(e) \in Settled /\ row[e][h] \in Open
    /\ \A w \in Workers : Event(w) # e
    /\ \A l \in late : l.run # <<e, h>>
    => <<e, h>> \in lost

\* A run that had ended before a delivery was claimed is not executed by it,
\* whichever way the event comes back: after a stop, a failed setup, a lost
\* claim, a lapse or an infrastructure retry.
FinishedNotRepeated ==
  \A w \in Workers : job[w].run \notin job[w].ended

\* fail_active_runs `marks runs as Failed (not Cancelled) so retry logic can
\* kick in for functions with retry meta': once the event of an interrupted run
\* is settled, the run has a retry, scheduled or queued.
InterruptedRunRetried ==
  \A r \in interrupted :
    At(r[1]) \in Settled /\ event[r[1]].attempt < MaxAttempts
      => row[r[1]][r[2]] = "retry" \/ RetriesOf(r) # {}
============================================================================
