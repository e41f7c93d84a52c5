----------------------- MODULE EventQuarantineProofs -----------------------
(* The event queue under the CrashQuarantine lock is still the SQLite      *)
(* queue, and no recovery charges a bystander of a stop.                   *)
EXTENDS EventQuarantine, SqliteQueueProofs

\* A row marked as processing alone is leased to a delivery that had, or has,
\* its process to itself.
MarkedByPass ==
  \A m \in Msgs : row[m].state = "leased" /\ row[m].last_error = "alone" =>
                    pass[row[m].lease_token] \in {"alone", "done"}

PassTypeOK == pass \in [Tokens -> {"none", "shared", "alone", "done"}]

QInv == IInv /\ PassTypeOK /\ MarkedByPass

---------------------------------------------------------------------------
\* Every step of the event worker is a step of the queue or leaves it alone.
LEMMA QueueStep == [QNext]_qvars => [Next]_vars
<1> SUFFICES ASSUME [QNext]_qvars PROVE [Next]_vars
  OBVIOUS
<1>1. CASE enqueue
  BY <1>1 DEF Next, Produce
<1>2. ASSUME NEW t \in Tokens, QClaim(t) PROVE Next
  BY <1>2 DEF QClaim, Next, Claim
<1>3. ASSUME NEW t \in Tokens, enter(t) PROVE [Next]_vars
  BY <1>3 DEF enter, Next, Deliver
<1>4. ASSUME NEW t \in Tokens, QHandlerEnds(t) \/ QDeliver(t) PROVE Next
  BY <1>4 DEF QHandlerEnds, QDeliver, Next, Deliver
<1>5. ASSUME NEW m \in Msgs, AbandonedLeaseLapses(m) \/ HeldLeaseLapses(m) PROVE Next
  BY <1>5 DEF Next
<1>6. ASSUME NEW c \in Procs, QRecover(c) \/ Leave(c) PROVE Next
  BY <1>6 DEF QRecover, Recover, Next
<1>7. CASE UNCHANGED qvars
  BY <1>7 DEF qvars
<1>. QED BY <1>1, <1>2, <1>3, <1>4, <1>5, <1>6, <1>7 DEF QNext

---------------------------------------------------------------------------
(* What a step of the queue does to marks and to retry counts.             *)

\* The row of m after a step is marked alone only if it was, under the same
\* lease.
KeepsMark(m) ==
  row'[m].state = "leased" /\ row'[m].last_error = "alone" =>
    /\ row[m].state = "leased" /\ row[m].last_error = "alone"
    /\ row'[m].lease_token = row[m].lease_token

\* A retry is charged outside the settlement of the delivery that holds the
\* row only for a stop of a delivery marked alone.
ChargedIfAlone(m) == ChargedByRecovery(m) => row[m].last_error = "alone"

Quiet == \A m \in Msgs : KeepsMark(m) /\ ChargedIfAlone(m)

\* A step that leaves the table alone is quiet.
LEMMA SameRowsQuiet ==
  ASSUME IInv, row' = row
  PROVE  Quiet
  BY DEF Quiet, KeepsMark, ChargedIfAlone, ChargedByRecovery, IInv, TypeOK, Row

\* Settling a delivery is quiet: its own row leaves the lease, dead letters
\* may be trimmed.
LEMMA SettleQuiet ==
  ASSUME IInv, NEW t \in Tokens, Live(t), Holds(t), NEW r, r.state # "leased",
         NEW T \in SUBSET Msgs,
         \A n \in T : (IF n = lease[t].msg THEN r ELSE row[n]).state = "dead",
         row' = [n \in Msgs |-> IF n \in T THEN Absent
                                ELSE IF n = lease[t].msg THEN r ELSE row[n]],
         lease' = [lease EXCEPT ![t] = NoLease]
  PROVE  Quiet
<1>1. lease[t].msg \in Msgs /\ row[lease[t].msg].lease_token = t /\ lease'[t] = NoLease
  BY HeldRow DEF Holds, IInv, TypeOK
<1>2. \A m \in Msgs : \/ row'[m] = row[m]
                      \/ m = lease[t].msg /\ row'[m].state # "leased"
                      \/ row[m].state = "dead" /\ row'[m].state = "absent"
  BY DEF Absent
<1>3. \A m \in Msgs : row[m].retry_count \in Nat
  BY SizesAssumption DEF IInv, TypeOK, Row
<1>. QED BY <1>1, <1>2, <1>3 DEF Quiet, KeepsMark, ChargedIfAlone, ChargedByRecovery

\* Every step of a delivery but entering the quarantine is quiet.
LEMMA DeliverQuiet ==
  ASSUME IInv, NEW t \in Tokens, QDeliver(t)
  PROVE  Quiet
<1> USE DEF Discard
<1>0. TypeOK
  BY DEF IInv
<1>1. CASE row' = row
  BY <1>1, SameRowsQuiet
<1>2. CASE renew_lease(t)
  <2>1. \A m \in Msgs : /\ row'[m].last_error = row[m].last_error /\ row'[m].state = row[m].state
                        /\ row'[m].lease_token = row[m].lease_token
                        /\ row'[m].retry_count = row[m].retry_count
                        /\ row[m].retry_count \in Nat
    BY <1>2, SizesAssumption DEF renew_lease, IInv, TypeOK, Row
  <2>. QED BY <2>1 DEF Quiet, KeepsMark, ChargedIfAlone, ChargedByRecovery
<1>3. ASSUME NEW r, r.state # "leased", Live(t), Holds(t),
             StoreAndTrim([row EXCEPT ![lease[t].msg] = r]), Discard(t)
      PROVE  Quiet
  <2>1. lease[t].msg \in Msgs
    BY <1>3, HeldRow
  <2>2. PICK T \in SUBSET Msgs :
          /\ \A n \in T : (IF n = lease[t].msg THEN r ELSE row[n]).state = "dead"
          /\ row' = [n \in Msgs |-> IF n \in T THEN Absent
                                    ELSE IF n = lease[t].msg THEN r ELSE row[n]]
          /\ trimmed' = trimmed \cup T
    BY <1>0, <1>3, <2>1, StoreOne
  <2>. QED BY <1>3, <2>2, SettleQuiet
<1>4. CASE process(t) /\ row' # row
  BY <1>3, <1>4 DEF process, DeadRow
<1>5. CASE release_for_retry(t) /\ row' # row
  BY <1>3, <1>5 DEF release_for_retry, ReleasedRow, DeadRow, ReadyRow
<1>6. CASE release_dropped_lease(t) /\ row' # row
  BY <1>3, <1>6 DEF release_dropped_lease, ReleasedRow, DeadRow, ReadyRow
<1>7. CASE acknowledge(t) /\ row' # row
  <2>1. lease[t].msg \in Msgs /\ Live(t) /\ Holds(t)
    BY <1>7, HeldRow DEF acknowledge
  <2> DEFINE r == Absent
             T == {}
  <2>2. row' = [n \in Msgs |-> IF n \in T THEN Absent ELSE IF n = lease[t].msg THEN r ELSE row[n]]
    BY <1>7, <2>1 DEF acknowledge, IInv, TypeOK
  <2>3. r.state # "leased" /\ T \in SUBSET Msgs
    BY DEF Absent
  <2>4. lease' = [lease EXCEPT ![t] = NoLease]
    BY <1>7, <2>1 DEF acknowledge
  <2>5. \A n \in T : (IF n = lease[t].msg THEN r ELSE row[n]).state = "dead"
    OBVIOUS
  <2> HIDE DEF r, T
  <2>. QED BY <2>1, <2>2, <2>3, <2>4, <2>5, SettleQuiet
<1>8. SettleFails(t) \/ DropReleaseFails(t) => row' = row
  BY DEF SettleFails, DropReleaseFails
<1>. QED BY <1>1, <1>2, <1>4, <1>5, <1>6, <1>7, <1>8 DEF QDeliver

\* A claim is quiet: it takes ready messages only, which are not marked.
LEMMA ClaimQuiet ==
  ASSUME IInv, NEW c \in Procs, NEW t \in Tokens, NEW m \in Msgs, Claimable(m),
         row' = [row EXCEPT ![m] = ClaimedRow(c, t, m)]
  PROVE  Quiet
<1>1. row[m].state = "ready" /\ row[m].last_error # "alone"
  BY QuarantineAssumption DEF Claimable, IInv, NoInheritedAloneMark
<1>2. /\ row'[m].last_error # "alone" /\ \A n \in Msgs : n # m => row'[n] = row[n]
  BY <1>1 DEF ClaimedRow, LeasedRow, IInv, TypeOK
<1>3. \A n \in Msgs : row[n].retry_count \in Nat
  BY SizesAssumption DEF IInv, TypeOK, Row
<1>. QED BY <1>1, <1>2, <1>3 DEF Quiet, KeepsMark, ChargedIfAlone, ChargedByRecovery

\* Enqueueing and the lapse of a lease are quiet.
LEMMA EnqueueLapseQuiet ==
  ASSUME IInv, enqueue \/ \E m \in Msgs : AbandonedLeaseLapses(m) \/ HeldLeaseLapses(m)
  PROVE  Quiet
<1>1. row \in [Msgs -> Row] /\ sent \in 0..MaxMsgs /\ \A n \in Msgs : row[n].retry_count \in Nat
  BY SizesAssumption DEF IInv, TypeOK, Row
<1>2. CASE enqueue
  <2>1. sent + 1 \in Msgs /\ row[sent + 1].state = "absent"
    BY <1>1, <1>2, SizesAssumption DEF enqueue, Msgs, IInv, RowsSent
  <2>2. /\ row'[sent + 1].state = "ready"
        /\ \A n \in Msgs : n # sent + 1 => row'[n] = row[n]
    BY <1>1, <1>2, <2>1 DEF enqueue, ReadyRow
  <2>. QED BY <1>1, <2>1, <2>2 DEF Quiet, KeepsMark, ChargedIfAlone, ChargedByRecovery
<1>3. ASSUME NEW m \in Msgs, AbandonedLeaseLapses(m) \/ HeldLeaseLapses(m) PROVE Quiet
  <2>1. \A n \in Msgs : /\ row'[n].last_error = row[n].last_error /\ row'[n].state = row[n].state
                        /\ row'[n].lease_token = row[n].lease_token
                        /\ row'[n].retry_count = row[n].retry_count
    BY <1>1, <1>3 DEF AbandonedLeaseLapses, HeldLeaseLapses, Row
  <2>. QED BY <1>1, <2>1 DEF Quiet, KeepsMark, ChargedIfAlone, ChargedByRecovery
<1>. QED BY <1>2, <1>3

\* Every step of a recovery is quiet: its transaction counts a stop only for a
\* message marked alone, and marks what it requeues as recovered.
LEMMA RecoverQuiet ==
  ASSUME IInv, NEW c \in Procs, Recover(c)
  PROVE  Quiet
<1>1. row \in [Msgs -> Row] /\ \A n \in Msgs : row[n].retry_count \in Nat
  BY SizesAssumption DEF IInv, TypeOK, Row
<1>2. CASE BeginRecovery(c)
  <2>1. \A n \in Msgs : /\ row'[n].last_error = row[n].last_error /\ row'[n].state = row[n].state
                        /\ row'[n].lease_token = row[n].lease_token
                        /\ row'[n].retry_count = row[n].retry_count
    BY <1>1, <1>2 DEF BeginRecovery, Row
  <2>. QED BY <1>1, <2>1 DEF Quiet, KeepsMark, ChargedIfAlone, ChargedByRecovery
<1>3. ASSUME NEW t \in Tokens, CommitRecovery(c, t) PROVE Quiet
  <2> DEFINE f == [n \in Msgs |-> IF n \in Expired THEN RecoveredRow(c, t, n) ELSE row[n]]
             T == Trimmed(f)
  <2>1. row' = [n \in Msgs |-> IF n \in T THEN Absent ELSE f[n]]
    BY <1>3 DEF CommitRecovery, StoreAndTrim
  <2>2. T \subseteq Msgs /\ \A n \in T : f[n].state = "dead"
    BY TrimmedDead
  <2>3. \A n \in Expired :
          /\ f[n].state = "leased" => f[n].last_error = "recovered"
          /\ f[n].retry_count > row[n].retry_count => row[n].last_error = "alone"
    BY <1>1, QuarantineAssumption
    DEF Expired, RecoveredRow, StopCounts, Exhausted, LeasedRow, DeadRow
  <2>4. \A n \in Msgs \ Expired : f[n] = row[n]
    OBVIOUS
  <2> HIDE DEF f, T
  <2>5. \A n \in T : row'[n].state = "absent" /\ row'[n].retry_count = 0
    BY <2>1, <2>2 DEF Absent
  <2>6. \A n \in Msgs : n \notin T => row'[n] = f[n]
    BY <2>1
  <2>. QED BY <1>1, <2>3, <2>4, <2>5, <2>6
       DEF Quiet, KeepsMark, ChargedIfAlone, ChargedByRecovery
<1>4. CASE ReleaseRecovered(c)
  <2>1. \A n \in Msgs : row'[n] = row[n] \/ /\ row'[n].state = "ready"
                                            /\ row'[n].retry_count = row[n].retry_count
    BY <1>1, <1>4 DEF ReleaseRecovered, ReadyRow
  <2>. QED BY <1>1, <2>1 DEF Quiet, KeepsMark, ChargedIfAlone, ChargedByRecovery
<1>5. CASE settle(c) \/ AbandonRecovery(c)
  BY <1>5, SameRowsQuiet DEF settle, AbandonRecovery
<1>. QED BY <1>2, <1>3, <1>4, <1>5 DEF Recover

\* Every step of a process's life cycle is quiet.
LEMMA LeaveQuiet ==
  ASSUME IInv, NEW c \in Procs, Leave(c)
  PROVE  Quiet
<1>1. row \in [Msgs -> Row] /\ \A n \in Msgs : row[n].retry_count \in Nat
  BY SizesAssumption DEF IInv, TypeOK, Row
<1>2. CASE unregister_consumer(c)
  <2>1. \A n \in Msgs : row'[n] = row[n] \/ /\ row'[n].state = "ready"
                                            /\ row'[n].retry_count = row[n].retry_count
    BY <1>1, <1>2 DEF unregister_consumer, ReadyRow
  <2>. QED BY <1>1, <2>1 DEF Quiet, KeepsMark, ChargedIfAlone, ChargedByRecovery
<1>3. CASE Start(c)
  <2>1. \A n \in Msgs : /\ row'[n].last_error = row[n].last_error /\ row'[n].state = row[n].state
                        /\ row'[n].lease_token = row[n].lease_token
                        /\ row'[n].retry_count = row[n].retry_count
    BY <1>1, <1>3 DEF Start, Row
  <2>. QED BY <1>1, <2>1 DEF Quiet, KeepsMark, ChargedIfAlone, ChargedByRecovery
<1>4. CASE Shutdown(c) \/ consumer_has_pending(c) \/ Crash(c) \/ Exit(c)
  BY <1>4, SameRowsQuiet DEF Shutdown, consumer_has_pending, Crash, Exit, Stop
<1>. QED BY <1>2, <1>3, <1>4 DEF Leave

---------------------------------------------------------------------------
(* Marks and passes.                                                       *)

\* A quiet step that takes no pass away preserves MarkedByPass.
LEMMA QuietKeepsPasses ==
  ASSUME QInv, Quiet, PassTypeOK',
         \A u \in Tokens : \/ pass[u] \in {"alone", "done"} => pass'[u] \in {"alone", "done"}
                           \/ Fresh(u)
  PROVE  MarkedByPass' /\ PassTypeOK'
  BY DEF QInv, IInv, RowShape, MarkedByPass, Quiet, KeepsMark, Fresh

\* Entering the quarantine preserves MarkedByPass: only a delivery that runs
\* alone is marked.
LEMMA EnterMarks ==
  ASSUME QInv, NEW t \in Tokens, enter(t)
  PROVE  MarkedByPass' /\ PassTypeOK' /\ \A m \in Msgs : ChargedIfAlone(m)
<1>0. IInv /\ Live(t) /\ pass[t] = "none" /\ pass \in [Tokens -> {"none", "shared", "alone", "done"}]
  BY DEF enter, QInv, PassTypeOK
<1>1. CASE pass' = [pass EXCEPT ![t] = "shared"] /\ UNCHANGED vars
  <2>1. Quiet
    BY <1>0, <1>1, SameRowsQuiet DEF vars
  <2>2. PassTypeOK' /\ \A u \in Tokens : pass[u] \in {"alone", "done"} => pass'[u] = pass[u]
    BY <1>0, <1>1 DEF PassTypeOK
  <2>. QED BY <2>1, <2>2, QuietKeepsPasses DEF Quiet
<1>2. CASE pass' = [pass EXCEPT ![t] = "alone"] /\ mark(t)
  <2>1. PassTypeOK' /\ pass'[t] = "alone" /\ \A u \in Tokens : u # t => pass'[u] = pass[u]
    BY <1>0, <1>2 DEF PassTypeOK
  <2>2. CASE row' = row
    <3>1. Quiet
      BY <1>0, <2>2, SameRowsQuiet
    <3>. QED BY <1>0, <2>1, <3>1, QuietKeepsPasses DEF Quiet
  <2>3. CASE row' # row
    <3>1. Holds(t) /\ row' = [row EXCEPT ![lease[t].msg].last_error = "alone"]
      BY <1>2, <2>3 DEF mark
    <3>2. lease[t].msg \in Msgs /\ row[lease[t].msg].lease_token = t
      BY <1>0, <3>1, HeldRow DEF Holds
    <3>3. \A n \in Msgs : /\ n # lease[t].msg => row'[n] = row[n]
                          /\ row'[n].state = row[n].state
                          /\ row'[n].lease_token = row[n].lease_token
                          /\ row'[n].retry_count = row[n].retry_count
                          /\ row[n].retry_count \in Nat
      BY <1>0, <3>1, <3>2, SizesAssumption DEF IInv, TypeOK, Row
    <3>4. MarkedByPass'
      BY <1>0, <2>1, <3>2, <3>3 DEF QInv, MarkedByPass, IInv, RowShape
    <3>5. \A m \in Msgs : ChargedIfAlone(m)
      BY <3>3 DEF ChargedIfAlone, ChargedByRecovery
    <3>. QED BY <2>1, <3>4, <3>5
  <2>. QED BY <2>2, <2>3
<1>. QED BY <1>1, <1>2 DEF enter

\* Every step of the event worker preserves MarkedByPass, and charges a
\* message outside its own settlement only if it was marked alone.
LEMMA QStep ==
  ASSUME QInv, [QNext]_qvars
  PROVE  MarkedByPass' /\ PassTypeOK' /\ \A m \in Msgs : ChargedIfAlone(m)
<1>0. IInv /\ pass \in [Tokens -> {"none", "shared", "alone", "done"}]
  BY DEF QInv, PassTypeOK
<1>1. ASSUME Quiet, UNCHANGED pass
      PROVE  MarkedByPass' /\ PassTypeOK' /\ \A m \in Msgs : ChargedIfAlone(m)
  BY <1>0, <1>1, QuietKeepsPasses DEF Quiet, PassTypeOK
<1>2. ASSUME NEW t \in Tokens, Quiet, Fresh(t), NewPass(t)
      PROVE  MarkedByPass' /\ PassTypeOK' /\ \A m \in Msgs : ChargedIfAlone(m)
  <2>1. PassTypeOK' /\ \A u \in Tokens : u # t => pass'[u] = pass[u]
    BY <1>0, <1>2 DEF NewPass, PassTypeOK
  <2>. QED BY <1>2, <2>1, QuietKeepsPasses DEF Quiet
<1>3. CASE enqueue /\ UNCHANGED pass
  BY <1>0, <1>1, <1>3, EnqueueLapseQuiet
<1>4. ASSUME NEW t \in Tokens, QClaim(t)
      PROVE  MarkedByPass' /\ PassTypeOK' /\ \A m \in Msgs : ChargedIfAlone(m)
  BY <1>0, <1>2, <1>4, ClaimQuiet DEF QClaim, claim_id, claim_cancelled
<1>5. ASSUME NEW t \in Tokens, QHandlerEnds(t)
      PROVE  MarkedByPass' /\ PassTypeOK' /\ \A m \in Msgs : ChargedIfAlone(m)
  <2>1. Quiet
    BY <1>0, <1>5, SameRowsQuiet DEF QHandlerEnds, HandlerReturns, DropLease
  <2>2. /\ PassTypeOK'
        /\ \A u \in Tokens : pass[u] \in {"alone", "done"} => pass'[u] \in {"alone", "done"}
    BY <1>0, <1>5 DEF QHandlerEnds, DropPass, PassTypeOK
  <2>. QED BY <2>1, <2>2, QuietKeepsPasses DEF Quiet
<1>6. ASSUME NEW t \in Tokens, QDeliver(t)
      PROVE  MarkedByPass' /\ PassTypeOK' /\ \A m \in Msgs : ChargedIfAlone(m)
  <2>1. Quiet
    BY <1>0, <1>6, DeliverQuiet
  <2>. QED BY <1>1, <1>6, <2>1 DEF QDeliver
<1>7. ASSUME NEW m \in Msgs, AbandonedLeaseLapses(m) \/ HeldLeaseLapses(m), UNCHANGED pass
      PROVE  MarkedByPass' /\ PassTypeOK' /\ \A n \in Msgs : ChargedIfAlone(n)
  BY <1>0, <1>1, <1>7, EnqueueLapseQuiet
<1>8. ASSUME NEW c \in Procs, QRecover(c)
      PROVE  MarkedByPass' /\ PassTypeOK' /\ \A m \in Msgs : ChargedIfAlone(m)
  <2>1. Quiet
    BY <1>0, <1>8, RecoverQuiet DEF QRecover, Recover
  <2>. QED BY <1>1, <1>2, <1>8, <2>1 DEF QRecover, CommitRecovery
<1>9. ASSUME NEW c \in Procs, Leave(c), UNCHANGED pass
      PROVE  MarkedByPass' /\ PassTypeOK' /\ \A m \in Msgs : ChargedIfAlone(m)
  BY <1>0, <1>1, <1>9, LeaveQuiet
<1>10. CASE UNCHANGED qvars
  BY <1>0, <1>1, <1>10, SameRowsQuiet DEF qvars, vars
<1>. QED BY <1>3, <1>4, <1>5, <1>6, <1>7, <1>8, <1>9, <1>10, EnterMarks DEF QNext

---------------------------------------------------------------------------
(* The theorems.                                                           *)

\* The event worker uses the queue as its specification says: each of its
\* behaviours is one of the queue.
THEOREM ImplementsQueue == QSpec => Spec
<1>1. QInit => Init
  BY DEF QInit
<1>. QED BY <1>1, QueueStep, PTL DEF QSpec, Spec

\* So the event queue has the queue's safety properties, and a row marked alone
\* is leased to a delivery that had its process to itself.
THEOREM QuarantineInvariant == QSpec => []QInv
<1>1. QInit => QInv
  BY InitInv DEF QInit, Init, QInv, PassTypeOK, MarkedByPass, Absent
<1>2. QInv /\ [QNext]_qvars => QInv'
  BY QStep, QueueStep, NextInv DEF QInv
<1>. QED BY <1>1, <1>2, PTL DEF QSpec

\* A recovery charges no bystander of a stop.
THEOREM BystandersNeverCharged == QSpec => BystanderNeverCharged
<1> DEFINE A == \A m \in Msgs : ChargedByRecovery(m) => pass[row[m].lease_token] \in {"alone", "done"}
<1>1. QInv /\ [QNext]_qvars => [A]_qvars
  <2> SUFFICES ASSUME QInv, [QNext]_qvars PROVE A
    OBVIOUS
  <2>1. \A m \in Msgs : ChargedByRecovery(m) => row[m].last_error = "alone"
    BY QStep DEF ChargedIfAlone
  <2>2. \A m \in Msgs : ChargedByRecovery(m) => row[m].state = "leased"
    BY DEF ChargedByRecovery
  <2> HIDE DEF QInv
  <2>3. MarkedByPass
    BY DEF QInv
  <2>. QED BY <2>1, <2>2, <2>3 DEF MarkedByPass
<1> HIDE DEF A
<1>2. QSpec => [][A]_qvars
  BY <1>1, QuarantineInvariant, PTL DEF QSpec
<1>. QED BY <1>2 DEF BystanderNeverCharged, A

---------------------------------------------------------------------------
(* Recovered messages are settled before they are delivered again.         *)

\* m cannot be delivered, and no recovery will release it before its settle has
\* seen it: m is out of the queue, or leased without a handle, and a recovery
\* under its token has m in its batch and has yet to call settle.
OutOfReach(m) ==
  \/ row[m].state \in {"dead", "absent"}
  \/ /\ row[m].state = "leased" /\ ~Live(row[m].lease_token)
     /\ \A c \in Procs : recov[c].token = row[m].lease_token =>
          recov[c].pc = "held" /\ recov[c].decoded /\ m \in recov[c].batch

KeptBack == \A m \in unsettled : m <= sent /\ OutOfReach(m)

\* The race of the shutdown sequence does not happen in the step: a process
\* that unregisters owns no message whose recovery has not been settled.
KeepsRecovered ==
  \A c \in Procs : unregister_consumer(c) => \A m \in unsettled : ~Owns(c, m)

\* What a step may do to m that keeps it out of reach, given that it was:
\* remove it, leave its lease alone, or change a row in a state that excludes
\* that m was waiting for its settle.
Harmless(m) ==
  \/ row'[m].state \in {"dead", "absent"}
  \/ row'[m].state = row[m].state /\ row'[m].lease_token = row[m].lease_token
  \/ row[m].state = "ready" \/ m > sent
  \/ /\ row[m].state = "leased"
     /\ \/ Live(row[m].lease_token)
        \/ \E c \in Procs : row[m].lease_token = recov[c].token /\ recov[c].pc # "held"

\* A step that is harmless to what waits for a settle, gives no used token a
\* handle and moves no held recovery on keeps it out of reach.
LEMMA HarmlessStep ==
  ASSUME IInv, IInv', KeptBack, unsettled' \subseteq unsettled, sent <= sent',
         \A m \in unsettled : Harmless(m),
         \A t \in Tokens : lease[t] = NoLease => lease'[t] = NoLease \/ Fresh(t),
         \A c \in Procs : \/ recov'[c] = recov[c]
                          \/ recov'[c].token = NoToken
                          \/ recov'[c].token = recov[c].token /\ recov[c].pc # "held"
  PROVE  KeptBack'
<1> SUFFICES ASSUME NEW m \in unsettled' PROVE m <= sent' /\ OutOfReach(m)'
  BY DEF KeptBack
<1>1. m \in unsettled /\ m \in Msgs /\ sent \in Nat /\ sent' \in Nat /\ m \in Nat
  BY SizesAssumption DEF IInv, TypeOK, Msgs
<1>2. m <= sent /\ OutOfReach(m) /\ Harmless(m)
  BY <1>1 DEF KeptBack
<1>3. m <= sent'
  BY <1>1, <1>2
<1>4. CASE row[m].state \in {"dead", "absent"}
  BY <1>1, <1>2, <1>3, <1>4 DEF Harmless, OutOfReach
<1>5. CASE row[m].state = "leased"
  <2>1. row[m].lease_token \in Tokens /\ ~Live(row[m].lease_token) /\ row[m].lease_token # NoToken
    BY <1>1, <1>2, <1>5, NullsAssumption DEF IInv, RowShape, OutOfReach
  <2>2. \/ row'[m].state \in {"dead", "absent"}
        \/ row'[m].state = "leased" /\ row'[m].lease_token = row[m].lease_token
    BY <1>1, <1>2, <1>5, <2>1 DEF Harmless, OutOfReach
  <2>3. lease'[row[m].lease_token] = NoLease
    BY <1>1, <2>1 DEF Live, Fresh
  <2>4. \A c \in Procs : recov'[c].token = row[m].lease_token => recov'[c] = recov[c]
    BY <1>2, <1>5, <2>1 DEF OutOfReach
  <2>. QED BY <1>2, <1>3, <1>5, <2>2, <2>3, <2>4 DEF OutOfReach, Live
<1>. QED BY <1>2, <1>4, <1>5 DEF OutOfReach

\* Producing keeps what waits for a settle out of reach.
LEMMA ProduceKeeps ==
  ASSUME IInv, IInv', KeptBack, Produce
  PROVE  KeptBack'
<1>1. /\ row \in [Msgs -> Row] /\ sent \in Nat /\ \A m \in unsettled : m \in Msgs /\ m \in Nat
      /\ TypeOK
  BY SizesAssumption DEF IInv, TypeOK, Msgs
<1>2. unsettled' = unsettled /\ lease' = lease /\ recov' = recov /\ sent <= sent'
  BY <1>1 DEF Produce, enqueue, move_to_dead_letter_queue, dequeue, history
<1>3. CASE enqueue
  <2>1. \A m \in unsettled : Harmless(m)
    BY <1>1, <1>3 DEF enqueue, Harmless
  <2>. QED BY <1>2, <2>1, HarmlessStep
<1>4. CASE move_to_dead_letter_queue
  <2> DEFINE k == sent + 1
             r == DeadRow(0, "reason")
  <2>1. k \in Msgs /\ r.state = "dead"
    BY <1>1, <1>4, SizesAssumption DEF move_to_dead_letter_queue, Msgs, TypeOK, DeadRow
  <2>2. TypeOK /\ StoreAndTrim([row EXCEPT ![k] = r])
    BY <1>1, <1>4 DEF move_to_dead_letter_queue
  <2> HIDE DEF k, r
  <2>3. PICK T \in SUBSET Msgs :
          /\ \A n \in T : (IF n = k THEN r ELSE row[n]).state = "dead"
          /\ row' = [n \in Msgs |-> IF n \in T THEN Absent ELSE IF n = k THEN r ELSE row[n]]
          /\ trimmed' = trimmed \cup T
    BY <2>1, <2>2, StoreOne
  <2>4. \A m \in unsettled : Harmless(m)
    BY <1>1, <2>1, <2>3 DEF Harmless, Absent
  <2>. QED BY <1>2, <2>4, HarmlessStep
<1>5. ASSUME NEW n \in Msgs, dequeue(n) PROVE KeptBack'
  <2>1. \A m \in unsettled : Harmless(m)
    BY <1>1, <1>5 DEF dequeue, Harmless, Absent
  <2>. QED BY <1>2, <2>1, HarmlessStep
<1>. QED BY <1>3, <1>4, <1>5 DEF Produce

\* A claim takes ready messages only, under a fresh token.
LEMMA ClaimKeeps ==
  ASSUME IInv, IInv', KeptBack, Claim
  PROVE  KeptBack'
<1>1. PICK c \in Procs, t \in Tokens, m \in Msgs : claim_id(c, t, m) \/ claim_cancelled(c, t, m)
  BY DEF Claim
<1>2. /\ Fresh(t) /\ row[m].state = "ready" /\ row' = [row EXCEPT ![m] = ClaimedRow(c, t, m)]
      /\ unsettled' = unsettled /\ sent' = sent /\ recov' = recov
      /\ lease' = lease \/ lease' = [lease EXCEPT ![t] = ClaimedHandle(c, t, m)]
  BY <1>1, QuarantineAssumption DEF claim_id, claim_cancelled, Claimable, history
<1>3. /\ row \in [Msgs -> Row] /\ lease \in [Tokens -> Handle \cup {NoLease}]
      /\ sent \in Nat /\ unsettled \subseteq Msgs
  BY SizesAssumption DEF IInv, TypeOK, Msgs
<1>4. \A n \in unsettled : Harmless(n)
  BY <1>2, <1>3 DEF Harmless
<1>5. \A u \in Tokens : lease[u] = NoLease => lease'[u] = NoLease \/ Fresh(u)
  BY <1>2, <1>3
<1>. QED BY <1>2, <1>3, <1>4, <1>5, HarmlessStep

\* A delivery changes only the row it holds.
LEMMA DeliverKeeps ==
  ASSUME IInv, IInv', KeptBack, NEW t \in Tokens, Deliver(t)
  PROVE  KeptBack'
<1>1. /\ row \in [Msgs -> Row] /\ lease \in [Tokens -> Handle \cup {NoLease}]
      /\ sent \in Nat /\ unsettled \subseteq Msgs /\ TypeOK
  BY SizesAssumption DEF IInv, TypeOK, Msgs
<1>2. /\ unsettled' = unsettled /\ sent' = sent /\ recov' = recov /\ Live(t)
  BY DEF Deliver, process, renew_lease, HandlerReturns, DropLease, acknowledge,
         release_for_retry, SettleFails, release_dropped_lease, DropReleaseFails, mark, history
<1>3. \A u \in Tokens : lease[u] = NoLease => lease'[u] = NoLease
  <2>1. \A u \in Tokens : u # t => lease'[u] = lease[u]
    BY <1>1
    DEF Deliver, process, renew_lease, HandlerReturns, DropLease, acknowledge, SetPhase, Discard,
        release_for_retry, SettleFails, release_dropped_lease, DropReleaseFails, mark
  <2>. QED BY <1>2, <2>1 DEF Live
<1> DEFINE k == lease[t].msg
<1>4. ASSUME NEW r, Holds(t), StoreAndTrim([row EXCEPT ![k] = r])
      PROVE  \A m \in unsettled : Harmless(m)
  <2>1. k \in Msgs /\ row[k].lease_token = t /\ row[k].state = "leased"
    BY <1>2, <1>4, HeldRow DEF Holds
  <2> HIDE DEF k
  <2>2. PICK T \in SUBSET Msgs :
          /\ \A n \in T : (IF n = k THEN r ELSE row[n]).state = "dead"
          /\ row' = [n \in Msgs |-> IF n \in T THEN Absent ELSE IF n = k THEN r ELSE row[n]]
          /\ trimmed' = trimmed \cup T
    BY <1>1, <1>4, <2>1, StoreOne
  <2>. QED BY <1>1, <1>2, <2>1, <2>2 DEF Harmless, Absent
<1>5. ASSUME row' = row PROVE \A m \in unsettled : Harmless(m)
  BY <1>5 DEF Harmless
<1>6. CASE renew_lease(t) \/ mark(t) \/ acknowledge(t)
  <2>1. \/ row' = row
        \/ Holds(t) /\ \A n \in Msgs : n # k => row'[n] = row[n]
    BY <1>1, <1>6 DEF renew_lease, mark, acknowledge
  <2>2. Holds(t) => row[k].lease_token = t /\ row[k].state = "leased"
    BY DEF Holds
  <2>3. \A m \in unsettled : Harmless(m)
    BY <1>1, <1>2, <1>5, <2>1, <2>2 DEF Harmless
  <2>. QED BY <1>1, <1>2, <1>3, <2>3, HarmlessStep
<1>7. CASE process(t) \/ release_for_retry(t) \/ release_dropped_lease(t)
  <2>1. row' = row \/ \E r : Holds(t) /\ StoreAndTrim([row EXCEPT ![k] = r])
    BY <1>7 DEF process, release_for_retry, release_dropped_lease
  <2>2. \A m \in unsettled : Harmless(m)
    BY <1>4, <1>5, <2>1
  <2>. QED BY <1>1, <1>2, <1>3, <2>2, HarmlessStep
<1>8. CASE HandlerReturns(t) \/ DropLease(t) \/ SettleFails(t) \/ DropReleaseFails(t)
  <2>1. row' = row
    BY <1>8 DEF HandlerReturns, DropLease, SettleFails, DropReleaseFails, history
  <2>. QED BY <1>1, <1>2, <1>3, <1>5, <2>1, HarmlessStep
<1>. QED BY <1>6, <1>7, <1>8 DEF Deliver

\* A lapse leaves the lease's token alone.
LEMMA LapseKeeps ==
  ASSUME IInv, IInv', KeptBack, NEW n \in Msgs, AbandonedLeaseLapses(n) \/ HeldLeaseLapses(n)
  PROVE  KeptBack'
<1>1. /\ row \in [Msgs -> Row] /\ lease \in [Tokens -> Handle \cup {NoLease}]
      /\ sent \in Nat /\ unsettled \subseteq Msgs
  BY SizesAssumption DEF IInv, TypeOK, Msgs
<1>2. unsettled' = unsettled /\ sent' = sent /\ recov' = recov
  BY DEF AbandonedLeaseLapses, HeldLeaseLapses, history
<1>3. \A m \in unsettled : Harmless(m)
  BY <1>1 DEF AbandonedLeaseLapses, HeldLeaseLapses, Harmless, Row
<1>4. \A u \in Tokens : lease[u] = NoLease => lease'[u] = NoLease
  BY <1>1 DEF AbandonedLeaseLapses, HeldLeaseLapses, Live
<1>. QED BY <1>1, <1>2, <1>3, <1>4, HarmlessStep

\* A recovery leases what it requeues to a token of its own, settles it while
\* it holds it, and releases afterwards only what it has settled.
LEMMA RecoverKeeps ==
  ASSUME IInv, IInv', KeptBack, BadFormat = {}, NEW c \in Procs, Recover(c)
  PROVE  KeptBack'
<1>1. /\ row \in [Msgs -> Row] /\ lease \in [Tokens -> Handle \cup {NoLease}]
      /\ recov \in [Procs -> Recovery]
      /\ sent \in Nat /\ unsettled \subseteq Msgs
  BY SizesAssumption DEF IInv, TypeOK, Msgs
<1>2. sent' = sent /\ lease' = lease
  BY DEF Recover, BeginRecovery, CommitRecovery, settle, ReleaseRecovered, AbandonRecovery
<1>3. CASE BeginRecovery(c)
  <2>1. unsettled' = unsettled /\ \A m \in unsettled : Harmless(m)
    BY <1>1, <1>3 DEF BeginRecovery, Harmless, Row, history
  <2>2. \A d \in Procs : \/ recov'[d] = recov[d]
                         \/ recov'[d].token = recov[d].token /\ recov[d].pc # "held"
    BY <1>1, <1>3 DEF BeginRecovery, Recovery
  <2>. QED BY <1>1, <1>2, <2>1, <2>2, HarmlessStep
<1>4. CASE ReleaseRecovered(c)
  <2>1. unsettled' = unsettled /\ \A m \in unsettled : Harmless(m)
    BY <1>1, <1>4 DEF ReleaseRecovered, Harmless, history
  <2>2. \A d \in Procs : recov'[d] = recov[d] \/ recov'[d].token = NoToken
    BY <1>1, <1>4 DEF ReleaseRecovered, NoRecovery
  <2>. QED BY <1>1, <1>2, <2>1, <2>2, HarmlessStep
<1>5. CASE AbandonRecovery(c)
  <2>1. unsettled' = unsettled /\ \A m \in unsettled : Harmless(m)
    BY <1>1, <1>5 DEF AbandonRecovery, Harmless, history
  <2>2. \A d \in Procs : recov'[d] = recov[d] \/ recov'[d].token = NoToken
    BY <1>1, <1>5 DEF AbandonRecovery, NoRecovery
  <2>. QED BY <1>1, <1>2, <2>1, <2>2, HarmlessStep
<1>6. CASE settle(c)
  <2>1. row' = row /\ \A d \in Procs : d # c => recov'[d] = recov[d]
    BY <1>1, <1>6 DEF settle
  <2>2. recov'[c].token = recov[c].token
    BY <1>1, <1>6 DEF settle, Recovery
  <2>3. unsettled' \subseteq unsettled /\ (recov[c].decoded => unsettled' = unsettled \ recov[c].batch)
    BY <1>6 DEF settle
  <2>4. ASSUME NEW m \in unsettled' PROVE m <= sent' /\ OutOfReach(m)'
    <3>1. m <= sent /\ OutOfReach(m)
      BY <2>3 DEF KeptBack
    <3>2. CASE row[m].state = "leased"
      <4>1. recov[c].token # row[m].lease_token
        BY <2>3, <3>1, <3>2 DEF OutOfReach
      <4>. QED BY <1>2, <2>1, <2>2, <3>1, <3>2, <4>1 DEF OutOfReach, Live
    <3>. QED BY <1>2, <2>1, <3>1, <3>2 DEF OutOfReach
  <2>. QED BY <2>4 DEF KeptBack
<1>7. ASSUME NEW t \in Tokens, CommitRecovery(c, t) PROVE KeptBack'
  <2> DEFINE f == [n \in Msgs |-> IF n \in Expired THEN RecoveredRow(c, t, n) ELSE row[n]]
             T == Trimmed(f)
             R == {n \in Expired : ~Exhausted(n)}
  <2>1. row' = [n \in Msgs |-> IF n \in T THEN Absent ELSE f[n]]
    BY <1>7 DEF CommitRecovery, StoreAndTrim
  <2>2. T \subseteq Msgs /\ \A n \in T : f[n].state = "dead"
    BY TrimmedDead
  <2>3. /\ \A n \in Expired \ R : f[n].state = "dead"
        /\ \A n \in R : f[n].state = "leased" /\ f[n].lease_token = t
        /\ \A n \in Msgs \ Expired : f[n] = row[n]
    BY DEF Expired, RecoveredRow, DeadRow, LeasedRow
  <2>4. unsettled' = unsettled \cup R /\ Fresh(t) /\ \A d \in Procs : d # c => recov'[d] = recov[d]
    BY <1>1, <1>7 DEF CommitRecovery
  <2>5. recov'[c] = IF Expired = {} THEN NoRecovery
                    ELSE [pc |-> "held", token |-> t, batch |-> R,
                          decoded |-> Expired \cap BadFormat = {}]
    BY <1>1, <1>7 DEF CommitRecovery
  <2>6. R \subseteq Expired /\ Expired \subseteq Msgs /\ \A n \in Expired : row[n].state = "leased"
    BY DEF Expired
  <2> HIDE DEF f, T, R
  <2>7. /\ recov'[c].token # NoToken => recov'[c].token = t /\ recov'[c].pc = "held"
                                        /\ recov'[c].decoded /\ recov'[c].batch = R
        /\ R # {} => recov'[c].token = t
        /\ recov'[c].token \in {t, NoToken}
    <3>1. CASE Expired = {}
      BY <2>5, <2>6, <3>1 DEF NoRecovery
    <3>2. CASE Expired # {}
      <4>1. Expired \cap BadFormat = {}
        OBVIOUS
      <4>2. recov'[c] = [pc |-> "held", token |-> t, batch |-> R, decoded |-> TRUE]
        BY <2>5, <3>2, <4>1
      <4>. QED BY <4>2
    <3>. QED BY <3>1, <3>2
  <2>8. \A n \in Msgs : row'[n].state \in {"dead", "absent"} \/ (n \notin T /\ row'[n] = f[n])
    BY <2>1, <2>2 DEF Absent
  <2>9. \A d \in Procs : recov[d].token # t
    BY <2>4 DEF Fresh
  <2>10. ASSUME NEW m \in R PROVE m <= sent' /\ OutOfReach(m)'
    <3>1. m \in Msgs /\ m <= sent
      <4>1. m \in Msgs /\ row[m].state = "leased"
        BY <2>6
      <4>2. m \in Nat /\ ~(m > sent)
        BY <4>1, SizesAssumption DEF IInv, RowsSent, Msgs
      <4>. QED BY <1>1, <4>1, <4>2
    <3>2. lease'[t] = NoLease /\ t # NoToken
      BY <1>2, <2>4, NullsAssumption DEF Fresh
    <3>3. \A d \in Procs : recov'[d].token = t => d = c
      BY <2>4, <2>9
    <3>. QED BY <1>2, <2>3, <2>7, <2>8, <3>1, <3>2, <3>3 DEF OutOfReach, Live
  <2>11. ASSUME NEW m \in unsettled, m \notin R PROVE m <= sent' /\ OutOfReach(m)'
    <3>1. m \in Msgs /\ m <= sent /\ OutOfReach(m)
      BY <1>1 DEF KeptBack
    <3>2. CASE m \in Expired
      BY <1>2, <2>3, <2>8, <3>1, <3>2, <2>11 DEF OutOfReach
    <3>3. CASE m \notin Expired
      <4>1. row'[m].state \in {"dead", "absent"} \/ row'[m] = row[m]
        BY <2>3, <2>8, <3>1, <3>3
      <4>2. row[m].state = "leased" => row[m].lease_token \notin {t, NoToken}
        BY <2>4, <3>1, NullsAssumption DEF Fresh, IInv, RowShape
      <4>. QED BY <1>2, <2>4, <2>7, <3>1, <4>1, <4>2 DEF OutOfReach, Live
    <3>. QED BY <3>2, <3>3
  <2>. QED BY <2>4, <2>10, <2>11 DEF KeptBack
<1>. QED BY <1>3, <1>4, <1>5, <1>6, <1>7 DEF Recover

\* A process's life cycle releases only what its unregistering owns.
LEMMA LeaveKeeps ==
  ASSUME IInv, IInv', KeptBack, KeepsRecovered, NEW c \in Procs, Leave(c)
  PROVE  KeptBack'
<1>1. /\ row \in [Msgs -> Row] /\ lease \in [Tokens -> Handle \cup {NoLease}]
      /\ recov \in [Procs -> Recovery]
      /\ sent \in Nat /\ unsettled \subseteq Msgs
  BY SizesAssumption DEF IInv, TypeOK, Msgs
<1>2. unsettled' = unsettled /\ sent' = sent
  BY DEF Leave, Shutdown, consumer_has_pending, unregister_consumer, Crash, Exit, Stop, Start, history
<1>3. \A u \in Tokens : lease[u] = NoLease => lease'[u] = NoLease
  BY <1>1 DEF Leave, Shutdown, consumer_has_pending, unregister_consumer, Crash, Exit, Stop, Start
<1>4. \A d \in Procs : recov'[d] = recov[d] \/ recov'[d].token = NoToken
  BY <1>1 DEF Leave, Shutdown, consumer_has_pending, unregister_consumer, Crash, Exit, Stop, Start,
              NoRecovery
<1>5. CASE unregister_consumer(c)
  <2>1. \A m \in unsettled : ~Owns(c, m)
    BY <1>5 DEF KeepsRecovered
  <2>2. \A m \in unsettled : Harmless(m)
    BY <1>1, <1>5, <2>1 DEF unregister_consumer, Harmless
  <2>. QED BY <1>1, <1>2, <1>3, <1>4, <2>2, HarmlessStep
<1>6. CASE ~unregister_consumer(c)
  <2>1. \A m \in unsettled : row'[m].state = row[m].state /\ row'[m].lease_token = row[m].lease_token
    BY <1>1, <1>6 DEF Leave, Shutdown, consumer_has_pending, Crash, Exit, Stop, Start, Row
  <2>. QED BY <1>1, <1>2, <1>3, <1>4, <2>1, HarmlessStep DEF Harmless
<1>. QED BY <1>5, <1>6

\* Every step of the queue without the shutdown's race keeps what waits for a
\* settle out of reach.
LEMMA KeptBackStep ==
  ASSUME IInv, KeptBack, BadFormat = {}, [Next]_vars, KeepsRecovered
  PROVE  KeptBack'
<1>1. IInv'
  BY NextInv
<1>2. CASE UNCHANGED vars
  BY <1>2 DEF vars, KeptBack, OutOfReach, Live
<1>. QED BY <1>1, <1>2, ProduceKeeps, ClaimKeeps, DeliverKeeps, LapseKeeps, RecoverKeeps,
            LeaveKeeps DEF Next

\* recover_orphaned_items_then keeps its promise, for any number of processes,
\* crashes, lapses and recoveries of recoveries, in every behaviour in which no
\* process unregisters while it owns messages of a recovery under way, and when
\* every message can be decoded: settle sees a requeued message before the
\* message can be claimed again.
THEOREM SettledFirst ==
  ASSUME BadFormat = {}
  PROVE  QSpec /\ [][KeepsRecovered]_qvars => []SettledBeforeRedelivery
<1>1. QInit => KeptBack
  BY DEF QInit, Init, KeptBack
<1>2. QInv /\ KeptBack /\ [QNext]_qvars /\ [KeepsRecovered]_qvars => KeptBack'
  <2>1. QInv /\ KeptBack /\ [QNext]_qvars /\ KeepsRecovered => KeptBack'
    BY QueueStep, KeptBackStep DEF QInv
  <2>2. KeptBack /\ UNCHANGED qvars => KeptBack'
    BY DEF qvars, vars, KeptBack, OutOfReach, Live
  <2>. QED BY <2>1, <2>2
<1>3. QInv /\ KeptBack => SettledBeforeRedelivery
  <2> SUFFICES ASSUME QInv, KeptBack, NEW m \in unsettled
               PROVE  ~Claimable(m) /\ ~\E t \in Tokens : Live(t) /\ lease[t].msg = m /\ Holds(t)
    BY DEF SettledBeforeRedelivery
  <2>1. OutOfReach(m)
    BY DEF KeptBack
  <2>2. ~Claimable(m)
    BY <2>1, QuarantineAssumption DEF OutOfReach, Claimable
  <2>3. ASSUME NEW t \in Tokens, Live(t), lease[t].msg = m, Holds(t) PROVE FALSE
    BY <2>1, <2>3 DEF OutOfReach, Holds
  <2>. QED BY <2>2, <2>3
<1>. QED BY <1>1, <1>2, <1>3, QuarantineInvariant, PTL DEF QSpec

\* A process that is never told to shut down never unregisters, so where workers
\* only crash the promise holds without a condition on the behaviour.
NeverLeaves == \A c \in Procs : proc[c] \in {"up", "gone"}

COROLLARY SettledFirstNoShutdown ==
  ASSUME BadFormat = {}, Leaving = {}
  PROVE  QSpec => []SettledBeforeRedelivery
<1>1. QInit => NeverLeaves
  BY DEF QInit, Init, NeverLeaves
<1>2. QInv /\ NeverLeaves /\ [QNext]_qvars => NeverLeaves' /\ KeepsRecovered
  <2> SUFFICES ASSUME QInv, NeverLeaves, [QNext]_qvars PROVE NeverLeaves' /\ KeepsRecovered
    OBVIOUS
  <2>1. proc \in [Procs -> {"up", "draining", "idle", "left", "gone"}] /\ [Next]_vars
    BY QueueStep DEF QInv, IInv, TypeOK
  <2>2. KeepsRecovered
    BY DEF NeverLeaves, KeepsRecovered, unregister_consumer
  <2>3. \A c \in Procs : ~Shutdown(c) /\ ~consumer_has_pending(c) /\ ~unregister_consumer(c) /\ ~Exit(c)
    BY DEF NeverLeaves, Shutdown, consumer_has_pending, unregister_consumer, Exit
  <2>4. CASE proc' = proc
    BY <2>2, <2>4 DEF NeverLeaves
  <2>5. ASSUME NEW c \in Procs, Crash(c) \/ Start(c) PROVE NeverLeaves'
    BY <2>1, <2>5 DEF NeverLeaves, Crash, Stop, Start
  <2>6. UNCHANGED vars \/ Produce \/ (\E t \in Tokens : Deliver(t))
        \/ (\E m \in Msgs : AbandonedLeaseLapses(m) \/ HeldLeaseLapses(m)) => proc' = proc
    BY DEF vars, Produce, enqueue, move_to_dead_letter_queue, dequeue, Deliver, process, renew_lease,
           HandlerReturns, DropLease, acknowledge, release_for_retry, SettleFails,
           release_dropped_lease, DropReleaseFails, mark, AbandonedLeaseLapses, HeldLeaseLapses
  <2>7. Claim \/ (\E c \in Procs : Recover(c)) => proc' = proc
    BY DEF Claim, claim_id, claim_cancelled, Recover, BeginRecovery, CommitRecovery, settle,
           ReleaseRecovered, AbandonRecovery
  <2>. QED BY <2>1, <2>2, <2>3, <2>4, <2>5, <2>6, <2>7 DEF Next, Leave
<1>3. QSpec => [][KeepsRecovered]_qvars
  BY <1>1, <1>2, QuarantineInvariant, PTL DEF QSpec
<1>. QED BY <1>3, SettledFirst, PTL
============================================================================
