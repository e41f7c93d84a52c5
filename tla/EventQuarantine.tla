-------------------------- MODULE EventQuarantine --------------------------
(***************************************************************************)
(* The hot:event queue and the CrashQuarantine lock of the event worker    *)
(* (crates/hot_worker/src/server.rs).  A handler first enters the          *)
(* quarantine of its process: a delivery recovered from a stopped worker   *)
(* waits until no other delivery executes and runs alone, marked so in the *)
(* queue; the others run together while none runs alone.  The pass is      *)
(* dropped when the handler's future ends, before the queue settles it.    *)
(***************************************************************************)
EXTENDS SqliteQueue

\* The event queue is opened with_crash_quarantine.
ASSUME QuarantineAssumption == CrashQuarantine

\* What each delivery has of its process's lock.  "done" remembers a pass that
\* was alone and ended; a stopped delivery keeps the value it stopped with.
VARIABLE pass

qvars == <<vars, pass>>

QInit == Init /\ pass = [t \in Tokens |-> "none"]

\* The deliveries that hold the lock beside t in t's process.
Executing(t) == {u \in Tokens : /\ Live(u) /\ lease[u].cons = lease[t].cons
                                /\ pass[u] \in {"shared", "alone"}}

\* CrashQuarantine::enter.  A failed mark is only logged.
enter(t) ==
  /\ Live(t) /\ lease[t].phase = "running" /\ pass[t] = "none"
  /\ \/ /\ ~lease[t].recovered
        /\ \A u \in Executing(t) : pass[u] = "shared"
        /\ pass' = [pass EXCEPT ![t] = "shared"]
        /\ UNCHANGED vars
     \/ /\ lease[t].recovered /\ Executing(t) = {}
        /\ pass' = [pass EXCEPT ![t] = "alone"]
        /\ mark(t)

DropPass(t) ==
  pass' = [pass EXCEPT ![t] = IF @ \in {"alone", "done"} THEN "done" ELSE "none"]

\* A new delivery, or a recovery, starts with a new token.
NewPass(t) == pass' = [pass EXCEPT ![t] = "none"]

QClaim(t) ==
  /\ \E c \in Procs, m \in Msgs : claim_id(c, t, m) \/ claim_cancelled(c, t, m)
  /\ NewPass(t)

\* The handler's future ends with an outcome or is dropped.
QHandlerEnds(t) ==
  /\ \/ pass[t] \in {"shared", "alone"} /\ HandlerReturns(t)
     \/ DropLease(t)
  /\ DropPass(t)

QDeliver(t) ==
  /\ \/ process(t) \/ renew_lease(t) \/ acknowledge(t) \/ release_for_retry(t)
     \/ SettleFails(t) \/ release_dropped_lease(t) \/ DropReleaseFails(t)
  /\ UNCHANGED pass

QRecover(c) ==
  \/ \E t \in Tokens : CommitRecovery(c, t) /\ NewPass(t)
  \/ /\ BeginRecovery(c) \/ settle(c) \/ ReleaseRecovered(c) \/ AbandonRecovery(c)
     /\ UNCHANGED pass

QNext ==
  \/ enqueue /\ UNCHANGED pass
  \/ \E t \in Tokens : QClaim(t) \/ enter(t) \/ QHandlerEnds(t) \/ QDeliver(t)
  \/ \E m \in Msgs : (AbandonedLeaseLapses(m) \/ HeldLeaseLapses(m)) /\ UNCHANGED pass
  \/ \E c \in Procs : QRecover(c) \/ (Leave(c) /\ UNCHANGED pass)

QSpec == QInit /\ [][QNext]_qvars

\* The lock is fair (tokio's RwLock queues waiters in order), so a delivery
\* waiting to enter is not passed over for ever.
QFairness ==
  /\ \A t \in Tokens :
       /\ WF_qvars(process(t) /\ UNCHANGED pass) /\ SF_qvars(enter(t))
       /\ WF_qvars(QHandlerEnds(t))
       /\ WF_qvars(acknowledge(t) /\ UNCHANGED pass)
       /\ WF_qvars(release_for_retry(t) /\ UNCHANGED pass)
       /\ WF_qvars(release_dropped_lease(t) /\ UNCHANGED pass)
  /\ \A m \in Msgs :
       /\ WF_qvars(\E c \in Procs, t \in Tokens : claim_id(c, t, m) /\ NewPass(t))
       /\ WF_qvars(AbandonedLeaseLapses(m) /\ UNCHANGED pass)
  /\ \A c \in Procs :
       /\ WF_qvars(BeginRecovery(c) /\ UNCHANGED pass)
       /\ WF_qvars(\E t \in Tokens : CommitRecovery(c, t) /\ NewPass(t))
       /\ WF_qvars(settle(c) /\ UNCHANGED pass)
       /\ WF_qvars(ReleaseRecovered(c) /\ UNCHANGED pass)
       /\ WF_qvars(Exit(c) /\ UNCHANGED pass) /\ WF_qvars(Start(c) /\ UNCHANGED pass)

QFairSpec == QSpec /\ QFairness

---------------------------------------------------------------------------
(* Properties.                                                             *)

\* A step charges m a retry, and not because m's own delivery was released.
ChargedByRecovery(m) ==
  LET t == row[m].lease_token IN
  /\ row[m].state = "leased"
  /\ row'[m].retry_count > row[m].retry_count
  /\ ~(Live(t) /\ lease'[t] = NoLease)

\* A stopped worker's bystanders are never charged: recovery counts a stop
\* toward a message's retry limit only if its last delivery had the process to
\* itself, across recoveries that fail half-way, marks that fail, graceful
\* shutdowns and a lapse under a live worker.
BystanderNeverCharged ==
  [][\A m \in Msgs : ChargedByRecovery(m) => pass[row[m].lease_token] \in {"alone", "done"}]_qvars
============================================================================
