---------------------------- MODULE SqliteQueue ----------------------------
(***************************************************************************)
(* The durable SQLite work queue of a standalone Hot deployment            *)
(* (crates/hot/src/queue/sqlite.rs) as the processes of one deployment use *)
(* it: one table of messages, leases identified by a fresh token, a lease  *)
(* handle per delivery, recovery of the leases of stopped workers.         *)
(*                                                                         *)
(* Every SQL statement is one atomic step (SQLite serialises writers).     *)
(* Time is abstract: a lease may lapse at any moment, a backoff delay or a *)
(* poll interval is any delay before the next step.  A claim may take any  *)
(* claimable row: notified ids come first, in no order the table knows.    *)
(***************************************************************************)
EXTENDS Naturals, FiniteSets

CONSTANTS
  MaxMsgs,          \* messages ever enqueued, numbered in created_at order
  Procs,            \* worker processes; each has one consumer name
  Tokens,           \* lease tokens; one is fresh while nothing mentions it
  MaxRetries,       \* MAX_PROCESSING_RETRIES
  DlqMax,           \* DLQ_MAX_MESSAGES
  MaxFaults,        \* bound on stops, shutdowns, lapses of live leases, deferrals
                    \* and failed statements
  CrashQuarantine,  \* the queue's crash_quarantine flag
  BadPayload,       \* messages whose payload does not deserialize
  BadFormat,        \* messages whose serialization id is unknown
  Leaving,          \* processes that are told to shut down; the others only crash
  Former,           \* the consumer name of any process that was replaced
  NoProc, NoToken, NoLease

ASSUME SizesAssumption ==
  /\ MaxMsgs \in Nat /\ DlqMax \in Nat /\ MaxFaults \in Nat
  /\ MaxRetries \in Nat \ {0}
ASSUME FlagAssumption == CrashQuarantine \in BOOLEAN
ASSUME NullsAssumption ==
  Former \notin Procs /\ NoProc \notin Procs \cup {Former} /\ NoToken \notin Tokens

Msgs == 1..MaxMsgs

VARIABLES
  row,         \* the queue_message table
  sent,        \* number of messages inserted so far
  lease,       \* live SqliteQueueLease handles, by token
  recov,       \* the recovery each process has under way
  proc,        \* life cycle of each process
  registered,  \* the queue_consumer table: processes that registered
  faults,      \* faults so far
  \* history
  handled,     \* messages some handler finished successfully
  taken,       \* messages removed by the destructive dequeue
  trimmed,     \* dead letters removed by trim_dead_letters
  unsettled    \* messages requeued by a recovery whose settle has not run

vars == <<row, sent, lease, recov, proc, registered, faults,
          handled, taken, trimmed, unsettled>>
history == <<handled, taken, trimmed, unsettled>>

---------------------------------------------------------------------------
(* Rows, handles and recoveries.                                           *)

Marks == {"none", "recovered", "alone", "reason"}    \* last_error, abstracted

Row == [state : {"absent", "ready", "leased", "dead"}, retry_count : 0..MaxRetries,
        last_error : Marks, lease_owner : Procs \cup {Former, NoProc},
        lease_token : Tokens \cup {NoToken}, lapsed : BOOLEAN]

Phases == {"claimed", "running", "ok", "failed", "deferred", "dropped"}

Handle == [msg : Msgs, cons : Procs, phase : Phases, last : BOOLEAN,
           recovered : BOOLEAN, overdue : BOOLEAN]

ASSUME NoLeaseAssumption == NoLease \notin Handle

Recovery == [pc : {"idle", "begun", "held", "settled"}, token : Tokens \cup {NoToken},
             batch : SUBSET Msgs, decoded : BOOLEAN]

Absent == [state |-> "absent", retry_count |-> 0, last_error |-> "none",
           lease_owner |-> NoProc, lease_token |-> NoToken, lapsed |-> FALSE]

ReadyRow(n, err) ==
  [state |-> "ready", retry_count |-> n, last_error |-> err,
   lease_owner |-> NoProc, lease_token |-> NoToken, lapsed |-> FALSE]

LeasedRow(n, err, c, t) ==
  [state |-> "leased", retry_count |-> n, last_error |-> err,
   lease_owner |-> c, lease_token |-> t, lapsed |-> FALSE]

DeadRow(n, err) ==
  [state |-> "dead", retry_count |-> n, last_error |-> err,
   lease_owner |-> NoProc, lease_token |-> NoToken, lapsed |-> FALSE]

NoRecovery == [pc |-> "idle", token |-> NoToken, batch |-> {}, decoded |-> TRUE]

Live(t) == lease[t] # NoLease

Gone(d) == d = Former \/ proc[d] = "gone"

\* `WHERE message_id = ? AND state = 1 AND lease_token = ?'
Holds(t) == /\ row[lease[t].msg].state = "leased"
            /\ row[lease[t].msg].lease_token = t

\* A token nothing mentions stands for a new UUID.
Fresh(t) == /\ lease[t] = NoLease
            /\ \A m \in Msgs : row[m].lease_token # t
            /\ \A c \in Procs : recov[c].token # t

\* Mutant of Expired: recovery selects with the condition of a claim and never
\* sees a lease that lapsed on its last retry.
ExpiredWithRetryLeft ==
  {m \in Msgs : row[m].state = "leased" /\ row[m].lapsed /\ row[m].retry_count + 1 < MaxRetries}

Expired == {m \in Msgs : row[m].state = "leased" /\ row[m].lapsed}

\* One more fault is possible.  Every fault action conjoins it.
Fault == faults < MaxFaults /\ faults' = faults + 1

\* trim_dead_letters: of the table f keep only the newest DlqMax dead letters.
Trimmed(f) ==
  LET dead == {m \in Msgs : f[m].state = "dead"}
  IN  {m \in dead : Cardinality({k \in dead : k > m}) >= DlqMax}

StoreAndTrim(f) ==
  /\ row' = [m \in Msgs |-> IF m \in Trimmed(f) THEN Absent ELSE f[m]]
  /\ trimmed' = trimmed \cup Trimmed(f)

---------------------------------------------------------------------------
Init ==
  /\ row = [m \in Msgs |-> Absent]
  /\ sent = 0
  /\ lease = [t \in Tokens |-> NoLease]
  /\ recov = [c \in Procs |-> NoRecovery]
  /\ proc = [c \in Procs |-> "up"]
  /\ registered = {}
  /\ faults = 0
  /\ handled = {} /\ taken = {} /\ trimmed = {} /\ unsettled = {}

---------------------------------------------------------------------------
(* Producing, and the destructive dequeue.                                 *)

enqueue ==
  /\ sent < MaxMsgs
  /\ sent' = sent + 1
  /\ row' = [row EXCEPT ![sent + 1] = ReadyRow(0, "none")]
  /\ UNCHANGED <<lease, recov, proc, registered, faults, history>>

move_to_dead_letter_queue ==
  /\ sent < MaxMsgs
  /\ sent' = sent + 1
  /\ StoreAndTrim([row EXCEPT ![sent + 1] = DeadRow(0, "reason")])
  /\ UNCHANGED <<lease, recov, proc, registered, faults, handled, taken, unsettled>>

\* Removes the row before the caller has the item: at most once.
dequeue(m) ==
  /\ row[m].state = "ready"
  /\ row' = [row EXCEPT ![m] = Absent]
  /\ taken' = taken \cup {m}
  /\ UNCHANGED <<sent, lease, recov, proc, registered, faults, handled, trimmed, unsettled>>

---------------------------------------------------------------------------
(* Claiming.                                                               *)

\* Mutant of Claimable: off by one, a takeover may count the last retry.
ClaimableAtLimit(m) ==
  \/ row[m].state = "ready"
  \/ m \in Expired /\ ~CrashQuarantine /\ row[m].retry_count < MaxRetries

\* A claim takes over an expired lease, as one more counted retry, unless the
\* queue quarantines crashes or the retry would be the last.
Claimable(m) ==
  \/ row[m].state = "ready"
  \/ /\ m \in Expired
     /\ ~CrashQuarantine
     /\ row[m].retry_count + 1 < MaxRetries

ClaimedRow(c, t, m) ==
  IF row[m].state = "leased"
  THEN LeasedRow(row[m].retry_count + 1, "recovered", c, t)
  ELSE LeasedRow(row[m].retry_count, row[m].last_error, c, t)

\* Mutant of ClaimedHandle: last_attempt from the count before the claim.
ClaimedHandleStaleCount(c, t, m) ==
  LET r == ClaimedRow(c, t, m)
  IN  [msg |-> m, cons |-> c, phase |-> "claimed",
       last |-> row[m].retry_count + 1 >= MaxRetries,
       recovered |-> r.last_error \in {"recovered", "alone"},
       overdue |-> FALSE]

ClaimedHandle(c, t, m) ==
  LET r == ClaimedRow(c, t, m)
  IN  [msg |-> m, cons |-> c, phase |-> "claimed",
       last |-> r.retry_count + 1 >= MaxRetries,
       recovered |-> r.last_error \in {"recovered", "alone"},
       overdue |-> FALSE]

\* register_consumer, which every claim calls first.  It may fail, or not know
\* its host; that is only logged and the next claim tries again.
Register(c) ==
  \/ UNCHANGED registered
  \/ CrashQuarantine /\ registered' = registered \cup {c}

claim_id(c, t, m) ==
  /\ proc[c] = "up" /\ Fresh(t) /\ Claimable(m)
  /\ Register(c)
  /\ row' = [row EXCEPT ![m] = ClaimedRow(c, t, m)]
  /\ lease' = [lease EXCEPT ![t] = ClaimedHandle(c, t, m)]
  /\ UNCHANGED <<sent, recov, proc, faults, history>>

\* The claimer's select! drops the claim when shutdown is signalled while the
\* UPDATE is in flight: the row is leased and nobody has the handle.
claim_cancelled(c, t, m) ==
  /\ proc[c] = "up" /\ c \in Leaving /\ Fresh(t) /\ Claimable(m) /\ Fault
  /\ Register(c)
  /\ row' = [row EXCEPT ![m] = ClaimedRow(c, t, m)]
  /\ proc' = [proc EXCEPT ![c] = "draining"]
  /\ UNCHANGED <<sent, lease, recov, history>>

---------------------------------------------------------------------------
(* A delivery: SqliteQueueLease::process and Drop.                         *)

SetPhase(t, ph) == lease' = [lease EXCEPT ![t].phase = ph]
Discard(t)      == lease' = [lease EXCEPT ![t] = NoLease]

\* A payload that does not deserialize is dead-lettered, an unknown format
\* leaves through `?' and so through Drop; otherwise the handler starts.
process(t) ==
  LET m == lease[t].msg IN
  /\ Live(t) /\ lease[t].phase = "claimed"
  /\ \/ /\ m \notin BadPayload \cup BadFormat
        /\ SetPhase(t, "running")
        /\ UNCHANGED <<row, trimmed>>
     \/ /\ m \in BadFormat \/ (m \in BadPayload /\ ~Holds(t))
        /\ SetPhase(t, "dropped")
        /\ UNCHANGED <<row, trimmed>>
     \/ /\ m \in BadPayload \ BadFormat /\ Holds(t)
        /\ StoreAndTrim([row EXCEPT ![m] = DeadRow(row[m].retry_count, "reason")])
        /\ Discard(t)
  /\ UNCHANGED <<sent, recov, proc, registered, faults, handled, taken, unsettled>>

\* The renewal task runs while the handler does; it extends a lapsed lease as
\* long as nobody has taken it.
renew_lease(t) ==
  /\ Live(t) /\ lease[t].phase = "running" /\ Holds(t)
  /\ row' = [row EXCEPT ![lease[t].msg].lapsed = FALSE]
  /\ UNCHANGED <<sent, lease, recov, proc, registered, faults, history>>

\* The handler returns: success, an error that counts (an ordinary one, or an
\* infrastructure error that preserves the delivery count), or an
\* infrastructure error that does not.
HandlerReturns(t) ==
  /\ Live(t) /\ lease[t].phase = "running"
  /\ \/ /\ SetPhase(t, "ok")
        /\ handled' = handled \cup {lease[t].msg}
        /\ UNCHANGED faults
     \/ SetPhase(t, "failed") /\ UNCHANGED <<faults, handled>>
     \/ SetPhase(t, "deferred") /\ Fault /\ UNCHANGED handled
  /\ UNCHANGED <<row, sent, recov, proc, registered, taken, trimmed, unsettled>>

\* The handle is dropped unprocessed or with its handler running: a panic, an
\* aborted executor, a shutdown that finds it in the hand-off channel.
DropLease(t) ==
  /\ Live(t) /\ lease[t].phase \in {"claimed", "running"}
  /\ SetPhase(t, "dropped")
  /\ UNCHANGED <<row, sent, recov, proc, registered, faults, history>>

\* A lost lease (no row has the token) and a failed statement both leave
\* through `?', so through Drop.
acknowledge(t) ==
  /\ Live(t) /\ lease[t].phase = "ok"
  /\ IF Holds(t)
     THEN row' = [row EXCEPT ![lease[t].msg] = Absent] /\ Discard(t)
     ELSE SetPhase(t, "dropped") /\ UNCHANGED row
  /\ UNCHANGED <<sent, recov, proc, registered, faults, history>>

\* Mutants of ReleasedRow: a dead letter counts its failure twice; an exhausted
\* message is deleted; a failure is not counted.
ReleasedRowTwice(r, counted) ==
  LET n == r.retry_count + (IF counted THEN 1 ELSE 0)
  IN  IF n >= MaxRetries THEN DeadRow(n + 1, "reason") ELSE ReadyRow(n, "reason")

ReleasedRowDeleted(r, counted) ==
  LET n == r.retry_count + (IF counted THEN 1 ELSE 0)
  IN  IF n >= MaxRetries THEN Absent ELSE ReadyRow(n, "reason")

ReleasedRowUncounted(r, counted) == ReadyRow(r.retry_count, "reason")

ReleasedRow(r, counted) ==
  LET n == r.retry_count + (IF counted THEN 1 ELSE 0)
  IN  IF n >= MaxRetries THEN DeadRow(n, "reason") ELSE ReadyRow(n, "reason")

release_for_retry(t) ==
  LET m == lease[t].msg IN
  /\ Live(t) /\ lease[t].phase \in {"failed", "deferred"}
  /\ IF Holds(t)
     THEN /\ StoreAndTrim([row EXCEPT ![m] = ReleasedRow(row[m], lease[t].phase = "failed")])
          /\ Discard(t)
     ELSE SetPhase(t, "dropped") /\ UNCHANGED <<row, trimmed>>
  /\ UNCHANGED <<sent, recov, proc, registered, faults, handled, taken, unsettled>>

SettleFails(t) ==
  /\ Live(t) /\ lease[t].phase \in {"ok", "failed", "deferred"} /\ Fault
  /\ SetPhase(t, "dropped")
  /\ UNCHANGED <<row, sent, recov, proc, registered, history>>

\* Mutant of release_dropped_lease: by message, not by token.
release_dropped_message(t) ==
  LET m == lease[t].msg IN
  /\ Live(t) /\ lease[t].phase = "dropped"
  /\ Discard(t)
  /\ IF row[m].state = "leased"
     THEN StoreAndTrim([row EXCEPT ![m] = ReleasedRow(row[m], TRUE)])
     ELSE UNCHANGED <<row, trimmed>>
  /\ UNCHANGED <<sent, recov, proc, registered, faults, handled, taken, unsettled>>

\* Drop's spawned task counts the drop; a stale token makes it a no-op.
release_dropped_lease(t) ==
  LET m == lease[t].msg IN
  /\ Live(t) /\ lease[t].phase = "dropped"
  /\ Discard(t)
  /\ IF Holds(t) THEN StoreAndTrim([row EXCEPT ![m] = ReleasedRow(row[m], TRUE)])
                 ELSE UNCHANGED <<row, trimmed>>
  /\ UNCHANGED <<sent, recov, proc, registered, faults, handled, taken, unsettled>>

DropReleaseFails(t) ==
  /\ Live(t) /\ lease[t].phase = "dropped" /\ Fault
  /\ Discard(t)
  /\ UNCHANGED <<row, sent, recov, proc, registered, history>>

\* SoleDeliveryMarker::mark, only handed out with crash quarantine.  Without
\* the lease it changes nothing, and its statement may fail.
mark(t) ==
  /\ CrashQuarantine /\ Live(t) /\ lease[t].phase = "running"
  /\ \/ /\ row' = IF Holds(t) THEN [row EXCEPT ![lease[t].msg].last_error = "alone"] ELSE row
        /\ UNCHANGED faults
     \/ Fault /\ UNCHANGED row
  /\ UNCHANGED <<sent, lease, recov, proc, registered, history>>

---------------------------------------------------------------------------
(* Lapse and recovery.                                                     *)

\* The clock passes lease_until_ms: the normal end of a lease nobody holds.
AbandonedLeaseLapses(m) ==
  LET t == row[m].lease_token IN
  /\ row[m].state = "leased" /\ ~row[m].lapsed
  /\ ~Live(t) /\ \A c \in Procs : recov[c].token # t
  /\ row' = [row EXCEPT ![m].lapsed = TRUE]
  /\ UNCHANGED <<sent, lease, recov, proc, registered, faults, history>>

\* The clock passes the lease of a delivery or a recovery that is still under
\* way: it was not renewed in time.
HeldLeaseLapses(m) ==
  LET t == row[m].lease_token IN
  /\ row[m].state = "leased" /\ ~row[m].lapsed /\ Fault
  /\ Live(t) \/ \E c \in Procs : recov[c].token = t
  /\ row' = [row EXCEPT ![m].lapsed = TRUE]
  /\ lease' = IF Live(t) THEN [lease EXCEPT ![t].overdue = TRUE] ELSE lease
  /\ UNCHANGED <<sent, recov, proc, registered, history>>

\* Mutant of BeginRecovery: every other registered process is taken for gone.
BeginRecoveryOfAll(c) ==
  LET gone == {d \in registered : CrashQuarantine /\ d # c} IN
  /\ proc[c] = "up" /\ recov[c].pc = "idle"
  /\ recov' = [recov EXCEPT ![c].pc = "begun"]
  /\ row' = [m \in Msgs |-> IF row[m].state = "leased" /\ row[m].lease_owner \in gone
                            THEN [row[m] EXCEPT !.lapsed = TRUE] ELSE row[m]]
  /\ registered' = registered \ gone
  /\ UNCHANGED <<sent, lease, proc, faults, history>>

\* recover_orphaned_items_then up to its transaction.  With crash quarantine
\* expire_leases_of_gone_processes first expires the leases of the registered
\* processes of this host that are gone, and forgets them.
BeginRecovery(c) ==
  LET gone == {d \in registered : CrashQuarantine /\ Gone(d)} IN
  /\ proc[c] = "up" /\ recov[c].pc = "idle"
  /\ recov' = [recov EXCEPT ![c].pc = "begun"]
  /\ row' = [m \in Msgs |-> IF row[m].state = "leased" /\ row[m].lease_owner \in gone
                            THEN [row[m] EXCEPT !.lapsed = TRUE] ELSE row[m]]
  /\ registered' = registered \ gone
  /\ UNCHANGED <<sent, lease, proc, faults, history>>

\* Mutant of StopCounts: quarantine or not, every stop counts.
StopAlwaysCounts(m) == TRUE

\* With crash quarantine a stop counts only for a delivery marked alone.
StopCounts(m) == CrashQuarantine => row[m].last_error = "alone"

\* Mutant of Exhausted: off by one.
ExhaustedLate(m) == StopCounts(m) /\ row[m].retry_count >= MaxRetries

Exhausted(m) == StopCounts(m) /\ row[m].retry_count + 1 >= MaxRetries

\* Mutant of RecoveredRow: the transaction makes messages ready at once.
RecoveredRowReady(c, t, m) ==
  LET n == row[m].retry_count + (IF StopCounts(m) THEN 1 ELSE 0)
  IN  IF Exhausted(m) THEN DeadRow(n, "reason") ELSE ReadyRow(n, "recovered")

RecoveredRow(c, t, m) ==
  LET n == row[m].retry_count + (IF StopCounts(m) THEN 1 ELSE 0)
  IN  IF Exhausted(m)
      THEN DeadRow(n, IF CrashQuarantine \/ row[m].last_error = "none"
                      THEN "reason" ELSE row[m].last_error)
      ELSE LeasedRow(n, "recovered", c, t)

\* The transaction: exhausted messages are dead-lettered, the others stay
\* leased, to the recovery's own token.
CommitRecovery(c, t) ==
  LET requeued == {m \in Expired : ~Exhausted(m)} IN
  /\ proc[c] # "gone" /\ recov[c].pc = "begun" /\ Fresh(t)
  /\ StoreAndTrim([m \in Msgs |-> IF m \in Expired THEN RecoveredRow(c, t, m) ELSE row[m]])
  /\ recov' = [recov EXCEPT ![c] =
       IF Expired = {} THEN NoRecovery
       ELSE [pc |-> "held", token |-> t, batch |-> requeued,
             decoded |-> Expired \cap BadFormat = {}]]
  /\ unsettled' = unsettled \cup requeued
  /\ UNCHANGED <<sent, lease, proc, registered, faults, handled, taken>>

\* settle sees the recovery, unless one of its messages could not be decoded.
settle(c) ==
  /\ proc[c] # "gone" /\ recov[c].pc = "held"
  /\ recov' = [recov EXCEPT ![c].pc = "settled"]
  /\ unsettled' = IF recov[c].decoded THEN unsettled \ recov[c].batch ELSE unsettled
  /\ UNCHANGED <<row, sent, lease, proc, registered, faults, handled, taken, trimmed>>

ReleaseRecovered(c) ==
  /\ proc[c] # "gone" /\ recov[c].pc = "settled"
  /\ row' = [m \in Msgs |->
       IF row[m].state = "leased" /\ row[m].lease_token = recov[c].token
       THEN ReadyRow(row[m].retry_count, row[m].last_error) ELSE row[m]]
  /\ recov' = [recov EXCEPT ![c] = NoRecovery]
  /\ UNCHANGED <<sent, lease, proc, registered, faults, history>>

\* The startup recovery runs under a timeout, and any statement may fail.
AbandonRecovery(c) ==
  /\ proc[c] # "gone" /\ recov[c].pc # "idle" /\ Fault
  /\ recov' = [recov EXCEPT ![c] = NoRecovery]
  /\ UNCHANGED <<row, sent, lease, proc, registered, history>>

---------------------------------------------------------------------------
(* Shutdown and stop.                                                      *)

Owns(c, m) == row[m].state = "leased" /\ row[m].lease_owner = c

\* The claimers stop; executors and a recovery under way go on.
Shutdown(c) ==
  /\ proc[c] = "up" /\ c \in Leaving /\ Fault
  /\ proc' = [proc EXCEPT ![c] = "draining"]
  /\ UNCHANGED <<row, sent, lease, recov, registered, history>>

\* Mutant of consumer_has_pending: the consumer unregisters without the check.
NoPendingCheck(c) ==
  /\ proc[c] = "draining"
  /\ proc' = [proc EXCEPT ![c] = "idle"]
  /\ UNCHANGED <<row, sent, lease, recov, registered, faults, history>>

consumer_has_pending(c) ==
  /\ proc[c] = "draining"
  /\ \A m \in Msgs : ~Owns(c, m)
  /\ proc' = [proc EXCEPT ![c] = "idle"]
  /\ UNCHANGED <<row, sent, lease, recov, registered, faults, history>>

\* Releases whatever the consumer owns by now, keeping last_error.
unregister_consumer(c) ==
  /\ proc[c] = "idle"
  /\ row' = [m \in Msgs |-> IF Owns(c, m)
                            THEN ReadyRow(row[m].retry_count, row[m].last_error)
                            ELSE row[m]]
  /\ proc' = [proc EXCEPT ![c] = "left"]
  /\ UNCHANGED <<sent, lease, recov, registered, faults, history>>

\* The process ends: its handles and its recovery are gone, the table is as it
\* was.
Stop(c) ==
  /\ proc' = [proc EXCEPT ![c] = "gone"]
  /\ lease' = [t \in Tokens |-> IF Live(t) /\ lease[t].cons = c THEN NoLease ELSE lease[t]]
  /\ recov' = [recov EXCEPT ![c] = NoRecovery]
  /\ UNCHANGED <<row, sent, registered, history>>

Crash(c) == proc[c] = "up" /\ Fault /\ Stop(c)

\* Shutdown has deadlines: the process ends with or without unregistering.
Exit(c) == proc[c] \in {"draining", "idle", "left"} /\ Stop(c) /\ UNCHANGED faults

\* A new process has a new consumer name.  It is called c again, and the name
\* of the process that is gone becomes Former wherever the database has it.
Start(c) ==
  /\ proc[c] = "gone"
  /\ proc' = [proc EXCEPT ![c] = "up"]
  /\ row' = [m \in Msgs |-> IF Owns(c, m) THEN [row[m] EXCEPT !.lease_owner = Former]
                                          ELSE row[m]]
  /\ registered' = {IF d = c THEN Former ELSE d : d \in registered}
  /\ UNCHANGED <<sent, lease, recov, faults, history>>

---------------------------------------------------------------------------
Produce == enqueue \/ move_to_dead_letter_queue \/ \E m \in Msgs : dequeue(m)

Claim == \E c \in Procs, t \in Tokens, m \in Msgs :
           claim_id(c, t, m) \/ claim_cancelled(c, t, m)

Deliver(t) ==
  \/ process(t) \/ renew_lease(t) \/ HandlerReturns(t) \/ DropLease(t)
  \/ acknowledge(t) \/ release_for_retry(t) \/ SettleFails(t)
  \/ release_dropped_lease(t) \/ DropReleaseFails(t) \/ mark(t)

Recover(c) ==
  \/ BeginRecovery(c) \/ (\E t \in Tokens : CommitRecovery(c, t))
  \/ settle(c) \/ ReleaseRecovered(c) \/ AbandonRecovery(c)

Leave(c) == Shutdown(c) \/ consumer_has_pending(c) \/ unregister_consumer(c)
            \/ Crash(c) \/ Exit(c) \/ Start(c)

Next ==
  \/ Produce
  \/ Claim
  \/ \E t \in Tokens : Deliver(t)
  \/ \E m \in Msgs : AbandonedLeaseLapses(m) \/ HeldLeaseLapses(m)
  \/ \E c \in Procs : Recover(c) \/ Leave(c)

Spec == Init /\ [][Next]_vars

\* Executors run the leases they receive, handlers end (every run has a
\* budget), claimers poll, abandoned leases expire with the clock and the
\* janitor of a running process ticks every minute.
Fairness ==
  /\ \A t \in Tokens :
       /\ WF_vars(process(t)) /\ WF_vars(HandlerReturns(t))
       /\ WF_vars(acknowledge(t)) /\ WF_vars(release_for_retry(t))
       /\ WF_vars(release_dropped_lease(t))
  /\ \A m \in Msgs :
       /\ WF_vars(\E c \in Procs, t \in Tokens : claim_id(c, t, m))
       /\ WF_vars(AbandonedLeaseLapses(m))
  /\ \A c \in Procs :
       /\ WF_vars(BeginRecovery(c)) /\ WF_vars(\E t \in Tokens : CommitRecovery(c, t))
       /\ WF_vars(settle(c)) /\ WF_vars(ReleaseRecovered(c))
       /\ WF_vars(Exit(c)) /\ WF_vars(Start(c))

FairSpec == Spec /\ Fairness

---------------------------------------------------------------------------
(* Properties.                                                             *)

\* The types of the table, the handles and the recoveries.
TypeOK ==
  /\ row \in [Msgs -> Row]
  /\ sent \in 0..MaxMsgs
  /\ lease \in [Tokens -> Handle \cup {NoLease}]
  /\ recov \in [Procs -> Recovery]
  /\ proc \in [Procs -> {"up", "draining", "idle", "left", "gone"}]
  /\ registered \subseteq Procs \cup {Former}
  /\ faults \in 0..MaxFaults
  /\ handled \subseteq Msgs /\ taken \subseteq Msgs
  /\ trimmed \subseteq Msgs /\ unsettled \subseteq Msgs

\* A message that can still be delivered has a retry left, on every path that
\* counts one: releases, drops, takeovers by claim and recoveries
\* (MAX_PROCESSING_RETRIES).
RetryLeft ==
  \A m \in Msgs : row[m].state \in {"ready", "leased"} => row[m].retry_count < MaxRetries

\* At least once: an enqueued message leaves the table only after a handler
\* finished it, by the destructive dequeue, or as a trimmed dead letter,
\* whatever stops, lapses, stale handles and failed statements came between.
NothingLost ==
  \A m \in 1..sent : row[m].state = "absent" => m \in handled \cup taken \cup trimmed

\* A delivery whose lease never lapsed still owns its message: no claim,
\* recovery, unregistering consumer or stale handle takes it away, so a second
\* delivery runs beside it only after a lapse.
HolderUnlessLapsed ==
  \A t \in Tokens : Live(t) /\ ~lease[t].overdue => Holds(t)

\* SqliteQueueLease::last_attempt, computed when the message was claimed, is
\* still right whenever the delivery settles: a counted failure dead-letters
\* the message exactly when it says so.
LastAttemptAccurate ==
  \A t \in Tokens : Live(t) /\ Holds(t) =>
    (lease[t].last <=> row[lease[t].msg].retry_count + 1 >= MaxRetries)

\* A message waiting for its next delivery does not carry the mark of an
\* earlier one as processing alone, which the next stop would count.
NoInheritedAloneMark ==
  \A m \in Msgs : row[m].state = "ready" => row[m].last_error # "alone"

\* recover_orphaned_items_then: `settle' sees a requeued message before the
\* message can be claimed again.
SettledBeforeRedelivery ==
  \A m \in unsettled : ~Claimable(m) /\ ~(\E t \in Tokens : Live(t) /\ lease[t].msg = m /\ Holds(t))

\* Every enqueued message is eventually finished, dead-lettered or dequeued.
EventuallySettled ==
  \A m \in Msgs :
    (m <= sent) ~> (row[m].state \in {"absent", "dead"})
============================================================================
