------------------------- MODULE SqliteQueueProofs -------------------------
(* Safety of the SQLite queue for every number of messages, processes,     *)
(* retries and faults, with and without crash quarantine.                  *)
EXTENDS SqliteQueue, TLAPS

---------------------------------------------------------------------------
(* The inductive invariant.                                                *)

\* Only a leased row names an owner and a token, or can be lapsed.
RowShape ==
  \A m \in Msgs :
    IF row[m].state = "leased"
    THEN row[m].lease_token \in Tokens
    ELSE row[m].lease_token = NoToken /\ row[m].lease_owner = NoProc /\ ~row[m].lapsed

\* Rows are inserted in order.
RowsSent == \A m \in Msgs : m > sent => row[m].state = "absent"

\* A handle's token leases no row but the handle's, and no handle outlives its
\* process.
HandleShape ==
  \A t \in Tokens : Live(t) =>
    /\ proc[lease[t].cons] # "gone"
    /\ lease[t].phase = "ok" => lease[t].msg \in handled
    /\ \A m \in Msgs : row[m].lease_token = t =>
         m = lease[t].msg /\ row[m].lease_owner = lease[t].cons

\* A lease can only be taken from a delivery that is overdue.
LapsedOverdue ==
  \A t \in Tokens : Live(t) =>
    \A m \in Msgs : row[m].lease_token = t /\ row[m].lapsed => lease[t].overdue

\* A recovery's token has no handle, and the rows it leases are marked.
RecoveryShape ==
  \A c \in Procs : recov[c].token # NoToken =>
    /\ ~Live(recov[c].token)
    /\ \A m \in Msgs : row[m].lease_token = recov[c].token => row[m].last_error = "recovered"

\* After consumer_has_pending said no, a consumer comes to own rows only
\* through a recovery that was still under way.
IdleShape ==
  \A c \in Procs, m \in Msgs : proc[c] = "idle" /\ Owns(c, m) =>
    ~Live(row[m].lease_token) /\ row[m].last_error = "recovered"

IInv ==
  /\ TypeOK /\ RowShape /\ RowsSent /\ HandleShape /\ LapsedOverdue
  /\ RecoveryShape /\ IdleShape
  /\ RetryLeft /\ NothingLost /\ HolderUnlessLapsed /\ LastAttemptAccurate
  /\ NoInheritedAloneMark
---------------------------------------------------------------------------
(* Steps that several actions share.                                       *)

\* Only dead letters are trimmed.
LEMMA TrimmedDead ==
  ASSUME NEW f
  PROVE  Trimmed(f) \subseteq Msgs /\ \A m \in Trimmed(f) : f[m].state = "dead"
  BY DEF Trimmed

\* Init establishes the invariant.
LEMMA InitInv == Init => IInv
<1> SUFFICES ASSUME Init PROVE IInv
  OBVIOUS
<1> USE SizesAssumption, NullsAssumption DEF Init, Msgs
<1>1. TypeOK
  BY DEF TypeOK, Row, Recovery, Marks, Absent, NoRecovery
<1>2. RowShape /\ RowsSent /\ RetryLeft /\ NothingLost /\ NoInheritedAloneMark
  BY DEF RowShape, RowsSent, RetryLeft, NothingLost, NoInheritedAloneMark, Absent
<1>3. HandleShape /\ LapsedOverdue /\ RecoveryShape /\ IdleShape
  BY DEF HandleShape, LapsedOverdue, RecoveryShape, IdleShape, Live, Owns, Absent, NoRecovery
<1>4. HolderUnlessLapsed /\ LastAttemptAccurate
  BY DEF HolderUnlessLapsed, LastAttemptAccurate, Live
<1>. QED BY <1>1, <1>2, <1>3, <1>4 DEF IInv

\* A stuttering step preserves the invariant.
LEMMA Stutter == IInv /\ UNCHANGED vars => IInv'
  BY DEF vars, IInv, TypeOK, RowShape, RowsSent, HandleShape, LapsedOverdue, RecoveryShape,
     IdleShape, RetryLeft, NothingLost, HolderUnlessLapsed, LastAttemptAccurate,
     NoInheritedAloneMark, Live, Holds, Owns

\* A delivery moves on without touching the table.
LEMMA PhaseStep ==
  ASSUME IInv, NEW t \in Tokens, Live(t), NEW ph \in Phases, SetPhase(t, ph),
         handled \subseteq handled', handled' \subseteq Msgs,
         ph = "ok" => lease[t].msg \in handled', faults' \in 0..MaxFaults,
         UNCHANGED <<row, sent, recov, proc, registered, taken, trimmed, unsettled>>
  PROVE  IInv'
<1> USE NoLeaseAssumption DEF SetPhase, Live
<1>0. lease[t] \in Handle
  BY DEF IInv, TypeOK
<1>1. lease' \in [Tokens -> Handle \cup {NoLease}]
  BY <1>0 DEF IInv, TypeOK, Handle, Phases
<1>2. \A u \in Tokens : /\ lease'[u] # NoLease <=> lease[u] # NoLease
                        /\ lease[u] # NoLease =>
                             /\ lease'[u].msg = lease[u].msg /\ lease'[u].cons = lease[u].cons
                             /\ lease'[u].last = lease[u].last
                             /\ lease'[u].overdue = lease[u].overdue
                             /\ lease'[u].phase = (IF u = t THEN ph ELSE lease[u].phase)
  BY <1>0, <1>1 DEF IInv, TypeOK, Handle
<1>3. TypeOK'
  BY <1>1 DEF IInv, TypeOK
<1>4. RowShape' /\ RowsSent' /\ RetryLeft' /\ NothingLost' /\ NoInheritedAloneMark'
  BY DEF IInv, RowShape, RowsSent, RetryLeft, NothingLost, NoInheritedAloneMark
<1>5. HandleShape' /\ LapsedOverdue'
  BY <1>2 DEF IInv, HandleShape, LapsedOverdue
<1>6. RecoveryShape'
  BY <1>2 DEF IInv, TypeOK, Recovery, RecoveryShape
<1>7. IdleShape'
  BY <1>2 DEF IInv, IdleShape, Owns, RowShape
<1>8. HolderUnlessLapsed' /\ LastAttemptAccurate'
  BY <1>2 DEF IInv, HolderUnlessLapsed, LastAttemptAccurate, Holds
<1>. QED BY <1>3, <1>4, <1>5, <1>6, <1>7, <1>8 DEF IInv

\* A delivery that holds its lease settles it: its row becomes r, which nobody
\* leases, some dead letters T are trimmed, and the handle is gone.
LEMMA SettleStep ==
  ASSUME IInv, NEW t \in Tokens, Live(t), Holds(t), NEW r \in Row,
         r.state # "leased", r.lease_token = NoToken, r.lease_owner = NoProc, ~r.lapsed,
         r.state = "ready" => r.retry_count < MaxRetries /\ r.last_error # "alone",
         r.state = "absent" => lease[t].msg \in handled,
         NEW T \in SUBSET Msgs,
         \A n \in T : (IF n = lease[t].msg THEN r ELSE row[n]).state = "dead",
         row' = [n \in Msgs |-> IF n \in T THEN Absent
                                ELSE IF n = lease[t].msg THEN r ELSE row[n]],
         trimmed' = trimmed \cup T, Discard(t),
         UNCHANGED <<sent, recov, proc, registered, faults, handled, taken, unsettled>>
  PROVE  IInv'
<1> DEFINE m == lease[t].msg
<1> USE NoLeaseAssumption, NullsAssumption DEF Discard, Live
<1>0. m \in Msgs /\ row[m].state = "leased" /\ row[m].lease_token = t
  BY DEF IInv, TypeOK, Handle, Holds
<1>1. Absent \in Row
  BY SizesAssumption DEF Absent, Row, Marks
<1>2. TypeOK'
  BY <1>1 DEF IInv, TypeOK
<1>3. \A n \in Msgs : \/ n # m /\ row'[n] = row[n]
                      \/ /\ row'[n].state # "leased" /\ row'[n].lease_token = NoToken
                         /\ row'[n].lease_owner = NoProc /\ ~row'[n].lapsed
                         /\ row'[n].state = "ready" =>
                              row'[n].retry_count < MaxRetries /\ row'[n].last_error # "alone"
                         /\ row'[n].state = "absent" => n \in handled' \cup trimmed'
                         /\ row[n].state # "absent"
  BY <1>0 DEF Absent
<1>4. \A u \in Tokens : IF u = t THEN lease'[u] = NoLease ELSE lease'[u] = lease[u]
  BY DEF IInv, TypeOK
<1>5. \A u \in Tokens : u # t /\ lease[u] # NoLease /\ row[lease[u].msg].lease_token = u
                        => row'[lease[u].msg] = row[lease[u].msg]
  BY <1>0 DEF IInv, TypeOK, Handle, RowShape, Absent
<1>6. RowShape' /\ RetryLeft' /\ NoInheritedAloneMark'
  BY <1>3 DEF IInv, RowShape, RetryLeft, NoInheritedAloneMark
<1>7. RowsSent'
  BY <1>3 DEF IInv, RowsSent
<1>12. NothingLost'
  <2>1. sent \in 0..MaxMsgs /\ \A n \in 1..sent : n \in Msgs
    BY SizesAssumption DEF IInv, TypeOK, Msgs
  <2>. QED BY <1>3, <2>1 DEF IInv, NothingLost
<1>8. HandleShape' /\ LapsedOverdue'
  BY <1>3, <1>4, <1>0 DEF IInv, HandleShape, LapsedOverdue, TypeOK, Handle
<1>9. RecoveryShape'
  BY <1>3, <1>4, <1>0 DEF IInv, RecoveryShape, TypeOK, Recovery
<1>10. IdleShape'
  BY <1>3, <1>4, <1>0 DEF IInv, IdleShape, Owns, RowShape
<1>11. HolderUnlessLapsed' /\ LastAttemptAccurate'
  BY <1>3, <1>4, <1>5, <1>0 DEF IInv, HolderUnlessLapsed, LastAttemptAccurate, Holds, TypeOK, Handle
<1>. QED BY <1>2, <1>6, <1>7, <1>8, <1>9, <1>10, <1>11, <1>12 DEF IInv

---------------------------------------------------------------------------
(* The steps of a delivery.                                                *)

\* StoreAndTrim writes the new row of one message and trims dead letters.
LEMMA StoreOne ==
  ASSUME TypeOK, NEW m \in Msgs, NEW r, StoreAndTrim([row EXCEPT ![m] = r])
  PROVE  \E T \in SUBSET Msgs :
           /\ \A n \in T : (IF n = m THEN r ELSE row[n]).state = "dead"
           /\ row' = [n \in Msgs |-> IF n \in T THEN Absent ELSE IF n = m THEN r ELSE row[n]]
           /\ trimmed' = trimmed \cup T
<1> DEFINE f == [row EXCEPT ![m] = r]
           T == Trimmed(f)
<1>1. \A n \in Msgs : f[n] = IF n = m THEN r ELSE row[n]
  BY DEF TypeOK
<1>2. T \subseteq Msgs /\ \A n \in T : f[n].state = "dead"
  BY TrimmedDead
<1>3. /\ row' = [n \in Msgs |-> IF n \in T THEN Absent ELSE f[n]]
      /\ trimmed' = trimmed \cup T
  BY DEF StoreAndTrim
<1> HIDE DEF f, T
<1>4. row' = [n \in Msgs |-> IF n \in T THEN Absent ELSE IF n = m THEN r ELSE row[n]]
  BY <1>1, <1>3
<1>. QED BY <1>1, <1>2, <1>3, <1>4

\* A counted or uncounted release leaves a ready row with a retry left or a
\* dead letter.
LEMMA ReleasedRowShape ==
  ASSUME NEW q \in Row, q.retry_count < MaxRetries, NEW b \in BOOLEAN
  PROVE  LET r == ReleasedRow(q, b) IN
         /\ r \in Row /\ r.state \in {"ready", "dead"}
         /\ r.lease_token = NoToken /\ r.lease_owner = NoProc /\ ~r.lapsed
         /\ r.state = "ready" => r.retry_count < MaxRetries /\ r.last_error # "alone"
  BY SizesAssumption DEF ReleasedRow, Row, Marks, ReadyRow, DeadRow

\* The row of a delivery that holds its lease exists and has a retry left.
LEMMA HeldRow ==
  ASSUME IInv, NEW t \in Tokens, Live(t), Holds(t)
  PROVE  /\ lease[t].msg \in Msgs /\ row[lease[t].msg] \in Row
         /\ row[lease[t].msg].retry_count < MaxRetries
  BY NoLeaseAssumption DEF IInv, TypeOK, Handle, Holds, Live, RetryLeft

\* Starting a delivery preserves the invariant, whether the handler starts, the
\* message is dead-lettered as undecodable or the lease is dropped.
LEMMA ProcessInv ==
  ASSUME IInv, NEW t \in Tokens, process(t)
  PROVE  IInv'
<1> DEFINE m == lease[t].msg
           r == DeadRow(row[m].retry_count, "reason")
<1>0. Live(t) /\ faults' \in 0..MaxFaults /\ handled \subseteq Msgs /\ TypeOK
  BY DEF process, IInv, TypeOK
<1>1. CASE SetPhase(t, "running") /\ UNCHANGED <<row, trimmed>>
  BY <1>0, <1>1, PhaseStep DEF process, Phases
<1>2. CASE SetPhase(t, "dropped") /\ UNCHANGED <<row, trimmed>>
  BY <1>0, <1>2, PhaseStep DEF process, Phases
<1>3. CASE Holds(t) /\ StoreAndTrim([row EXCEPT ![m] = r]) /\ Discard(t)
  <2>1. m \in Msgs /\ row[m] \in Row
    BY <1>0, <1>3, HeldRow
  <2>2. /\ r \in Row /\ r.state = "dead" /\ r.lease_token = NoToken
        /\ r.lease_owner = NoProc /\ ~r.lapsed
    BY <2>1 DEF Row, DeadRow, Marks
  <2>3. UNCHANGED <<sent, recov, proc, registered, faults, handled, taken, unsettled>>
    BY DEF process
  <2> HIDE DEF r
  <2>4. PICK T \in SUBSET Msgs :
          /\ \A n \in T : (IF n = m THEN r ELSE row[n]).state = "dead"
          /\ row' = [n \in Msgs |-> IF n \in T THEN Absent ELSE IF n = m THEN r ELSE row[n]]
          /\ trimmed' = trimmed \cup T
    BY <1>0, <1>3, <2>1, StoreOne
  <2>. QED BY <1>0, <1>3, <2>2, <2>3, <2>4, SettleStep
<1>. QED BY <1>1, <1>2, <1>3 DEF process

\* The handler's outcome preserves the invariant.
LEMMA HandlerReturnsInv ==
  ASSUME IInv, NEW t \in Tokens, HandlerReturns(t)
  PROVE  IInv'
<1>0. Live(t) /\ lease[t].msg \in Msgs /\ handled \subseteq Msgs
  BY NoLeaseAssumption DEF HandlerReturns, Live, IInv, TypeOK, Handle
<1>1. faults' \in 0..MaxFaults
  BY SizesAssumption DEF HandlerReturns, Fault, IInv, TypeOK
<1>2. CASE SetPhase(t, "ok") /\ handled' = handled \cup {lease[t].msg}
  BY <1>0, <1>1, <1>2, PhaseStep DEF HandlerReturns, Phases
<1>3. CASE SetPhase(t, "failed") /\ UNCHANGED handled
  BY <1>0, <1>1, <1>3, PhaseStep DEF HandlerReturns, Phases
<1>4. CASE SetPhase(t, "deferred") /\ UNCHANGED handled
  BY <1>0, <1>1, <1>4, PhaseStep DEF HandlerReturns, Phases
<1>. QED BY <1>2, <1>3, <1>4 DEF HandlerReturns

\* Dropping a lease, or failing to settle it, preserves the invariant.
LEMMA DropLeaseInv ==
  ASSUME IInv, NEW t \in Tokens, DropLease(t) \/ SettleFails(t)
  PROVE  IInv'
<1>1. /\ Live(t) /\ SetPhase(t, "dropped") /\ faults' \in 0..MaxFaults
      /\ UNCHANGED <<row, sent, recov, proc, registered, history>>
  BY SizesAssumption DEF DropLease, SettleFails, Fault, IInv, TypeOK
<1>2. handled \subseteq Msgs
  BY DEF IInv, TypeOK
<1>. QED BY <1>1, <1>2, PhaseStep DEF Phases, history

\* Acknowledging preserves the invariant: only a message its handler finished
\* is deleted, and only by the token that holds it.
LEMMA AcknowledgeInv ==
  ASSUME IInv, NEW t \in Tokens, acknowledge(t)
  PROVE  IInv'
<1>0. Live(t) /\ lease[t].phase = "ok" /\ faults' \in 0..MaxFaults /\ handled \subseteq Msgs
  BY DEF acknowledge, IInv, TypeOK
<1>1. CASE Holds(t)
  <2>1. lease[t].msg \in handled
    BY <1>0 DEF IInv, HandleShape
  <2>2. /\ Absent \in Row /\ Absent.state = "absent" /\ Absent.lease_token = NoToken
        /\ Absent.lease_owner = NoProc /\ ~Absent.lapsed
    BY SizesAssumption DEF Absent, Row, Marks
  <2>3. lease[t].msg \in Msgs
    BY <1>0, <1>1, HeldRow
  <2> DEFINE T == {}
             r == Absent
  <2>4. row' = [n \in Msgs |-> IF n \in T THEN Absent
                               ELSE IF n = lease[t].msg THEN r ELSE row[n]]
    BY <1>1, <2>3 DEF acknowledge, IInv, TypeOK
  <2>5. /\ Discard(t) /\ trimmed' = trimmed \cup T
        /\ UNCHANGED <<sent, recov, proc, registered, faults, handled, taken, unsettled>>
    BY <1>1 DEF acknowledge, history
  <2>6. T \in SUBSET Msgs /\ \A n \in T : (IF n = lease[t].msg THEN r ELSE row[n]).state = "dead"
    OBVIOUS
  <2>7. /\ r \in Row /\ r.state = "absent" /\ r.lease_token = NoToken
        /\ r.lease_owner = NoProc /\ ~r.lapsed
    BY <2>2
  <2> HIDE DEF T, r
  <2>. QED BY <1>0, <1>1, <2>1, <2>4, <2>5, <2>6, <2>7, SettleStep
<1>2. CASE ~Holds(t)
  BY <1>0, <1>2, PhaseStep DEF acknowledge, Phases, history
<1>. QED BY <1>1, <1>2

\* Releasing a failed delivery preserves the invariant.
LEMMA ReleaseForRetryInv ==
  ASSUME IInv, NEW t \in Tokens, release_for_retry(t)
  PROVE  IInv'
<1> DEFINE m == lease[t].msg
           r == ReleasedRow(row[m], lease[t].phase = "failed")
<1>0. Live(t) /\ faults' \in 0..MaxFaults /\ handled \subseteq Msgs /\ TypeOK
  BY DEF release_for_retry, IInv, TypeOK
<1>1. CASE Holds(t)
  <2>1. m \in Msgs /\ row[m] \in Row /\ row[m].retry_count < MaxRetries
    BY <1>0, <1>1, HeldRow
  <2>2. /\ r \in Row /\ r.state \in {"ready", "dead"}
        /\ r.lease_token = NoToken /\ r.lease_owner = NoProc /\ ~r.lapsed
        /\ r.state = "ready" => r.retry_count < MaxRetries /\ r.last_error # "alone"
    BY <2>1, ReleasedRowShape
  <2>3. /\ StoreAndTrim([row EXCEPT ![m] = r]) /\ Discard(t)
        /\ UNCHANGED <<sent, recov, proc, registered, faults, handled, taken, unsettled>>
    BY <1>1 DEF release_for_retry
  <2> HIDE DEF r
  <2>4. PICK T \in SUBSET Msgs :
          /\ \A n \in T : (IF n = m THEN r ELSE row[n]).state = "dead"
          /\ row' = [n \in Msgs |-> IF n \in T THEN Absent ELSE IF n = m THEN r ELSE row[n]]
          /\ trimmed' = trimmed \cup T
    BY <1>0, <2>1, <2>3, StoreOne
  <2>. QED BY <1>0, <1>1, <2>2, <2>3, <2>4, SettleStep
<1>2. CASE ~Holds(t)
  BY <1>0, <1>2, PhaseStep DEF release_for_retry, Phases
<1>. QED BY <1>1, <1>2

\* A handle disappears and the table stays as it is.
LEMMA DiscardStep ==
  ASSUME IInv, NEW S \in SUBSET Tokens,
         lease' = [t \in Tokens |-> IF t \in S THEN NoLease ELSE lease[t]],
         faults' \in 0..MaxFaults,
         UNCHANGED <<row, sent, recov, proc, registered, history>>
  PROVE  IInv'
<1> USE DEF history, Live
<1>1. TypeOK'
  BY DEF IInv, TypeOK
<1>2. RowShape' /\ RowsSent' /\ RetryLeft' /\ NothingLost' /\ NoInheritedAloneMark'
  BY DEF IInv, RowShape, RowsSent, RetryLeft, NothingLost, NoInheritedAloneMark
<1>3. HandleShape' /\ LapsedOverdue'
  BY DEF IInv, HandleShape, LapsedOverdue
<1>4. RecoveryShape' /\ IdleShape'
  BY DEF IInv, TypeOK, Recovery, RecoveryShape, IdleShape, Owns, RowShape
<1>5. HolderUnlessLapsed' /\ LastAttemptAccurate'
  BY DEF IInv, HolderUnlessLapsed, LastAttemptAccurate, Holds
<1>. QED BY <1>1, <1>2, <1>3, <1>4, <1>5 DEF IInv

\* The release that Drop spawns preserves the invariant, done or failed.
LEMMA ReleaseDroppedInv ==
  ASSUME IInv, NEW t \in Tokens, release_dropped_lease(t) \/ DropReleaseFails(t)
  PROVE  IInv'
<1> DEFINE m == lease[t].msg
           r == ReleasedRow(row[m], TRUE)
<1>0. Live(t) /\ Discard(t) /\ TypeOK
  BY DEF release_dropped_lease, DropReleaseFails, IInv
<1>1. CASE release_dropped_lease(t) /\ Holds(t)
  <2>1. m \in Msgs /\ row[m] \in Row /\ row[m].retry_count < MaxRetries
    BY <1>0, <1>1, HeldRow
  <2>2. /\ r \in Row /\ r.state \in {"ready", "dead"}
        /\ r.lease_token = NoToken /\ r.lease_owner = NoProc /\ ~r.lapsed
        /\ r.state = "ready" => r.retry_count < MaxRetries /\ r.last_error # "alone"
    BY <2>1, ReleasedRowShape
  <2>3. /\ StoreAndTrim([row EXCEPT ![m] = r])
        /\ UNCHANGED <<sent, recov, proc, registered, faults, handled, taken, unsettled>>
    BY <1>1 DEF release_dropped_lease
  <2> HIDE DEF r
  <2>4. PICK T \in SUBSET Msgs :
          /\ \A n \in T : (IF n = m THEN r ELSE row[n]).state = "dead"
          /\ row' = [n \in Msgs |-> IF n \in T THEN Absent ELSE IF n = m THEN r ELSE row[n]]
          /\ trimmed' = trimmed \cup T
    BY <1>0, <2>1, <2>3, StoreOne
  <2>. QED BY <1>0, <1>1, <2>2, <2>3, <2>4, SettleStep
<1>2. CASE DropReleaseFails(t) \/ (release_dropped_lease(t) /\ ~Holds(t))
  <2>1. /\ faults' \in 0..MaxFaults
        /\ UNCHANGED <<row, sent, recov, proc, registered, history>>
    BY <1>2, SizesAssumption DEF DropReleaseFails, release_dropped_lease, Fault, history, IInv, TypeOK
  <2>2. lease' = [u \in Tokens |-> IF u \in {t} THEN NoLease ELSE lease[u]]
    BY <1>0 DEF Discard, TypeOK
  <2> HIDE DEF m, r
  <2>. QED BY <2>1, <2>2, DiscardStep
<1>. QED BY <1>1, <1>2

\* Renewing, or marking a delivery as processing alone, changes only the
\* delivery's own row, which stays leased.
LEMMA TouchStep ==
  ASSUME IInv, NEW t \in Tokens, Live(t), Holds(t), NEW r \in Row,
         r.state = "leased", r.retry_count = row[lease[t].msg].retry_count,
         r.lease_owner = row[lease[t].msg].lease_owner, r.lease_token = t,
         r.lapsed => row[lease[t].msg].lapsed,
         row' = [row EXCEPT ![lease[t].msg] = r],
         UNCHANGED <<sent, lease, recov, proc, registered, faults, history>>
  PROVE  IInv'
<1> DEFINE m == lease[t].msg
<1> USE DEF history, Live
<1>0. m \in Msgs /\ row[m].state = "leased" /\ row[m].lease_token = t
  BY NoLeaseAssumption DEF IInv, TypeOK, Handle, Holds
<1>1. \A n \in Msgs : row'[n] = IF n = m THEN r ELSE row[n]
  BY DEF IInv, TypeOK
<1>2. TypeOK'
  BY DEF IInv, TypeOK
<1>3. RowShape' /\ RowsSent' /\ RetryLeft' /\ NoInheritedAloneMark'
  BY <1>0, <1>1 DEF IInv, RowShape, RowsSent, RetryLeft, NoInheritedAloneMark
<1>4. NothingLost'
  <2>1. sent \in 0..MaxMsgs /\ \A n \in 1..sent : n \in Msgs
    BY SizesAssumption DEF IInv, TypeOK, Msgs
  <2>. QED BY <1>0, <1>1, <2>1 DEF IInv, NothingLost
<1>5. HandleShape' /\ LapsedOverdue'
  BY <1>0, <1>1 DEF IInv, HandleShape, LapsedOverdue
<1>6. RecoveryShape'
  BY <1>0, <1>1 DEF IInv, RecoveryShape
<1>7. IdleShape'
  BY <1>0, <1>1 DEF IInv, IdleShape, Owns
<1>8. HolderUnlessLapsed' /\ LastAttemptAccurate'
  BY <1>0, <1>1, NoLeaseAssumption DEF IInv, HolderUnlessLapsed, LastAttemptAccurate, Holds, TypeOK, Handle
<1>. QED BY <1>2, <1>3, <1>4, <1>5, <1>6, <1>7, <1>8 DEF IInv

\* Renewing a lease and marking a sole delivery preserve the invariant.
LEMMA RenewOrMarkInv ==
  ASSUME IInv, NEW t \in Tokens, renew_lease(t) \/ mark(t)
  PROVE  IInv'
<1> DEFINE m == lease[t].msg
<1>1. CASE renew_lease(t)
  <2> DEFINE r == [row[m] EXCEPT !.lapsed = FALSE]
  <2>1. m \in Msgs /\ row[m] \in Row /\ Live(t) /\ Holds(t)
    BY <1>1, HeldRow DEF renew_lease
  <2>2. /\ r \in Row /\ r.state = "leased" /\ r.retry_count = row[m].retry_count
        /\ r.lease_owner = row[m].lease_owner /\ r.lease_token = t /\ ~r.lapsed
    BY <2>1 DEF Row, Holds
  <2>3. /\ row' = [row EXCEPT ![m] = r]
        /\ UNCHANGED <<sent, lease, recov, proc, registered, faults, history>>
    BY <1>1 DEF renew_lease
  <2> HIDE DEF r
  <2>. QED BY <2>1, <2>2, <2>3, TouchStep
<1>2. CASE mark(t) /\ Holds(t) /\ row' # row
  <2> DEFINE r == [row[m] EXCEPT !.last_error = "alone"]
  <2>1. m \in Msgs /\ row[m] \in Row /\ Live(t) /\ Holds(t)
    BY <1>2, HeldRow DEF mark
  <2>2. /\ r \in Row /\ r.state = "leased" /\ r.retry_count = row[m].retry_count
        /\ r.lease_owner = row[m].lease_owner /\ r.lease_token = t /\ r.lapsed = row[m].lapsed
    BY <2>1 DEF Row, Holds, Marks
  <2>3. /\ row' = [row EXCEPT ![m] = r]
        /\ UNCHANGED <<sent, lease, recov, proc, registered, faults, history>>
    BY <1>2 DEF mark
  <2> HIDE DEF r
  <2>. QED BY <2>1, <2>2, <2>3, TouchStep
<1>3. CASE mark(t) /\ row' = row
  <2> DEFINE S == {}
  <2>1. /\ UNCHANGED <<row, sent, lease, recov, proc, registered, history>>
        /\ faults' \in 0..MaxFaults
    BY <1>3, SizesAssumption DEF mark, Fault, IInv, TypeOK
  <2>2. lease' = [u \in Tokens |-> IF u \in S THEN NoLease ELSE lease[u]]
    BY <2>1 DEF IInv, TypeOK
  <2>3. S \in SUBSET Tokens
    OBVIOUS
  <2> HIDE DEF S
  <2>. QED BY <2>1, <2>2, <2>3, DiscardStep
<1>4. mark(t) /\ row' # row => Holds(t)
  BY DEF mark
<1>. QED BY <1>1, <1>2, <1>3, <1>4

\* Every step of a delivery preserves the invariant.
LEMMA DeliverInv ==
  ASSUME IInv, NEW t \in Tokens, Deliver(t)
  PROVE  IInv'
  BY ProcessInv, RenewOrMarkInv, HandlerReturnsInv, DropLeaseInv, AcknowledgeInv,
     ReleaseForRetryInv, ReleaseDroppedInv DEF Deliver

---------------------------------------------------------------------------
(* Producing and claiming.                                                 *)

\* Rows nobody leases are written, removed or trimmed; no handle is involved.
LEMMA UnleasedRowsStep ==
  ASSUME IInv, row' \in [Msgs -> Row], sent' \in 0..MaxMsgs, sent <= sent',
         \A n \in Msgs : n > sent' => row'[n].state = "absent",
         \A n \in Msgs : \/ row'[n] = row[n]
                         \/ /\ row[n].state # "leased" /\ row'[n].state # "leased"
                            /\ row'[n].lease_token = NoToken /\ row'[n].lease_owner = NoProc
                            /\ ~row'[n].lapsed
                            /\ row'[n].state = "ready" =>
                                 row'[n].retry_count < MaxRetries /\ row'[n].last_error # "alone",
         \A n \in 1..sent' : row'[n].state = "absent" =>
                               n \in handled \cup taken' \cup trimmed',
         taken' \subseteq Msgs, trimmed' \subseteq Msgs,
         UNCHANGED <<lease, recov, proc, registered, faults, handled, unsettled>>
  PROVE  IInv'
<1> USE NullsAssumption DEF Live
<1>1. TypeOK'
  BY DEF IInv, TypeOK
<1>2. RowShape' /\ RowsSent' /\ RetryLeft' /\ NoInheritedAloneMark' /\ NothingLost'
  BY DEF IInv, RowShape, RowsSent, RetryLeft, NoInheritedAloneMark, NothingLost
<1>3. HandleShape' /\ LapsedOverdue'
  BY DEF IInv, HandleShape, LapsedOverdue
<1>4. RecoveryShape' /\ IdleShape'
  BY DEF IInv, RecoveryShape, IdleShape, Owns
<1>5. HolderUnlessLapsed' /\ LastAttemptAccurate'
  BY NoLeaseAssumption DEF IInv, HolderUnlessLapsed, LastAttemptAccurate, Holds, TypeOK, Handle
<1>. QED BY <1>1, <1>2, <1>3, <1>4, <1>5 DEF IInv

\* Enqueueing preserves the invariant.
LEMMA EnqueueInv ==
  ASSUME IInv, enqueue
  PROVE  IInv'
<1> DEFINE r == ReadyRow(0, "none")
<1>0. /\ sent + 1 \in Msgs /\ sent' = sent + 1 /\ sent \in Nat /\ row \in [Msgs -> Row]
      /\ \A n \in Msgs : n \in Nat
  BY SizesAssumption DEF enqueue, IInv, TypeOK, Msgs
<1>1. /\ r \in Row /\ r.state = "ready" /\ r.lease_token = NoToken /\ r.lease_owner = NoProc
      /\ ~r.lapsed /\ r.retry_count < MaxRetries /\ r.last_error # "alone"
  BY SizesAssumption DEF ReadyRow, Row, Marks
<1>2. row' = [row EXCEPT ![sent + 1] = r]
  BY DEF enqueue
<1> HIDE DEF r
<1>3. /\ row' \in [Msgs -> Row]
      /\ \A n \in Msgs : row'[n] = IF n = sent + 1 THEN r ELSE row[n]
  BY <1>0, <1>1, <1>2
<1>4. row[sent + 1].state = "absent" /\ \A n \in Msgs : n > sent' => row'[n].state = "absent"
  BY <1>0, <1>3 DEF IInv, RowsSent
<1>5. \A n \in 1..sent' : row'[n].state = "absent" => n \in handled \cup taken' \cup trimmed'
  <2>1. \A n \in 1..sent' : n \in Msgs /\ (n \in 1..sent \/ n = sent + 1)
    BY <1>0, SizesAssumption DEF Msgs
  <2>. QED BY <1>1, <1>3, <2>1 DEF IInv, NothingLost, enqueue, history
<1>6. /\ sent' \in 0..MaxMsgs /\ sent <= sent' /\ taken' \subseteq Msgs /\ trimmed' \subseteq Msgs
      /\ UNCHANGED <<lease, recov, proc, registered, faults, handled, unsettled>>
  BY <1>0 DEF enqueue, history, IInv, TypeOK, Msgs
<1>. QED BY <1>1, <1>3, <1>4, <1>5, <1>6, UnleasedRowsStep

\* Storing a dead letter, with its trim, preserves the invariant.
LEMMA MoveToDeadLetterInv ==
  ASSUME IInv, move_to_dead_letter_queue
  PROVE  IInv'
<1> DEFINE r == DeadRow(0, "reason")
           k == sent + 1
<1>0. /\ k \in Msgs /\ sent' = k /\ sent \in Nat /\ row \in [Msgs -> Row] /\ TypeOK
      /\ \A n \in Msgs : n \in Nat
  BY SizesAssumption DEF move_to_dead_letter_queue, IInv, TypeOK, Msgs
<1>1. /\ r \in Row /\ r.state = "dead" /\ r.lease_token = NoToken /\ r.lease_owner = NoProc
      /\ ~r.lapsed
  BY SizesAssumption DEF DeadRow, Row, Marks
<1>2. /\ Absent \in Row /\ Absent.state = "absent" /\ Absent.lease_token = NoToken
      /\ Absent.lease_owner = NoProc /\ ~Absent.lapsed
  BY SizesAssumption DEF Absent, Row, Marks
<1>3. StoreAndTrim([row EXCEPT ![k] = r])
  BY DEF move_to_dead_letter_queue
<1> HIDE DEF r
<1>4. PICK T \in SUBSET Msgs :
        /\ \A n \in T : (IF n = k THEN r ELSE row[n]).state = "dead"
        /\ row' = [n \in Msgs |-> IF n \in T THEN Absent ELSE IF n = k THEN r ELSE row[n]]
        /\ trimmed' = trimmed \cup T
  BY <1>0, <1>3, StoreOne
<1>5. row' \in [Msgs -> Row]
  BY <1>0, <1>1, <1>2, <1>4
<1>6. row[k].state = "absent"
  BY <1>0 DEF IInv, RowsSent
<1>7. \A n \in Msgs : n > sent' => row'[n].state = "absent"
  BY <1>0, <1>2, <1>4 DEF IInv, RowsSent
<1>8. \A n \in 1..sent' : row'[n].state = "absent" => n \in handled \cup taken' \cup trimmed'
  <2>1. \A n \in 1..sent' : n \in Msgs /\ (n \in 1..sent \/ n = k)
    BY <1>0, SizesAssumption DEF Msgs
  <2>. QED BY <1>1, <1>4, <2>1 DEF IInv, NothingLost, move_to_dead_letter_queue
<1>9. /\ sent' \in 0..MaxMsgs /\ sent <= sent' /\ taken' \subseteq Msgs /\ trimmed' \subseteq Msgs
      /\ UNCHANGED <<lease, recov, proc, registered, faults, handled, unsettled>>
  BY <1>0, <1>4 DEF move_to_dead_letter_queue, TypeOK, Msgs
<1>10. \A n \in Msgs : \/ row'[n] = row[n]
                       \/ /\ row[n].state # "leased" /\ row'[n].state \in {"dead", "absent"}
                          /\ row'[n].lease_token = NoToken /\ row'[n].lease_owner = NoProc
                          /\ ~row'[n].lapsed
  BY <1>1, <1>2, <1>4, <1>6
<1>. QED BY <1>5, <1>7, <1>8, <1>9, <1>10, UnleasedRowsStep

\* The destructive dequeue preserves the invariant.
LEMMA DequeueInv ==
  ASSUME IInv, NEW m \in Msgs, dequeue(m)
  PROVE  IInv'
<1>0. /\ Absent \in Row /\ Absent.state = "absent" /\ Absent.lease_token = NoToken
      /\ Absent.lease_owner = NoProc /\ ~Absent.lapsed
  BY SizesAssumption DEF Absent, Row, Marks
<1>1. /\ row' \in [Msgs -> Row] /\ row[m].state = "ready"
      /\ \A n \in Msgs : row'[n] = IF n = m THEN Absent ELSE row[n]
  BY <1>0 DEF dequeue, IInv, TypeOK
<1>2. /\ sent' = sent /\ sent \in 0..MaxMsgs /\ taken' = taken \cup {m} /\ trimmed' = trimmed
      /\ taken' \subseteq Msgs /\ trimmed' \subseteq Msgs /\ sent <= sent'
      /\ UNCHANGED <<lease, recov, proc, registered, faults, handled, unsettled>>
  BY DEF dequeue, IInv, TypeOK
<1>3. \A n \in Msgs : n > sent' => row'[n].state = "absent"
  BY <1>0, <1>1, <1>2 DEF IInv, RowsSent
<1>4. \A n \in 1..sent' : row'[n].state = "absent" => n \in handled \cup taken' \cup trimmed'
  <2>1. \A n \in 1..sent' : n \in Msgs
    BY <1>2, SizesAssumption DEF Msgs
  <2>. QED BY <1>1, <1>2, <2>1 DEF IInv, NothingLost
<1>. QED BY <1>0, <1>1, <1>2, <1>3, <1>4, UnleasedRowsStep

\* The row a claim writes.
LEMMA ClaimedRowShape ==
  ASSUME IInv, NEW c \in Procs, NEW t \in Tokens, NEW m \in Msgs, Claimable(m)
  PROVE  LET r == ClaimedRow(c, t, m) IN
         /\ r \in Row /\ r.state = "leased" /\ r.lease_owner = c /\ r.lease_token = t
         /\ ~r.lapsed /\ r.retry_count < MaxRetries
<1>1. row[m] \in Row /\ row[m].retry_count < MaxRetries
  BY DEF IInv, TypeOK, RetryLeft, Claimable, Expired
<1>2. row[m].state = "leased" => row[m].retry_count + 1 < MaxRetries
  BY DEF Claimable
<1>. QED BY <1>1, <1>2, SizesAssumption DEF ClaimedRow, LeasedRow, Row, Marks

\* A claim: the row of m is leased to c under the fresh token t, with a handle
\* or, if the claim was cancelled, without one.
LEMMA ClaimStep ==
  ASSUME IInv, NEW c \in Procs, NEW t \in Tokens, NEW m \in Msgs,
         proc[c] = "up", Fresh(t), Claimable(m), NEW r \in Row,
         r.state = "leased", r.lease_owner = c, r.lease_token = t, ~r.lapsed,
         r.retry_count < MaxRetries,
         row' = [row EXCEPT ![m] = r],
         NEW h \in Handle \cup {NoLease},
         h # NoLease => /\ h.msg = m /\ h.cons = c /\ h.phase = "claimed" /\ h.overdue = FALSE
                        /\ h.last = (r.retry_count + 1 >= MaxRetries),
         lease' = [lease EXCEPT ![t] = h],
         proc' \in [Procs -> {"up", "draining", "idle", "left", "gone"}],
         \A d \in Procs : proc'[d] = proc[d] \/ (d = c /\ proc'[d] = "draining"),
         h # NoLease => proc' = proc,
         registered' \subseteq Procs \cup {Former}, faults' \in 0..MaxFaults,
         UNCHANGED <<sent, recov, history>>
  PROVE  IInv'
<1> USE DEF history, Live
<1>0. /\ \A n \in Msgs : row'[n] = IF n = m THEN r ELSE row[n]
      /\ \A u \in Tokens : lease'[u] = IF u = t THEN h ELSE lease[u]
  BY DEF IInv, TypeOK
<1>1. /\ lease[t] = NoLease /\ \A n \in Msgs : row[n].lease_token # t
      /\ \A d \in Procs : recov[d].token # t
  BY DEF Fresh
<1>2. row[m].state # "absent"
  BY DEF Claimable, Expired
<1>3. \A u \in Tokens : lease[u] # NoLease /\ row[m].lease_token = u => lease[u].overdue
  BY NullsAssumption DEF Claimable, Expired, IInv, RowShape, LapsedOverdue
<1>4. TypeOK'
  BY DEF IInv, TypeOK
<1>5. RowShape' /\ RowsSent' /\ RetryLeft' /\ NoInheritedAloneMark'
  BY <1>0, <1>2 DEF IInv, RowShape, RowsSent, RetryLeft, NoInheritedAloneMark
<1>6. NothingLost'
  <2>1. sent \in 0..MaxMsgs /\ \A n \in 1..sent : n \in Msgs
    BY SizesAssumption DEF IInv, TypeOK, Msgs
  <2>. QED BY <1>0, <2>1 DEF IInv, NothingLost
<1>7. HandleShape'
  BY <1>0, <1>1, NoLeaseAssumption DEF IInv, HandleShape, TypeOK, Handle
<1>8. LapsedOverdue'
  BY <1>0, <1>1 DEF IInv, LapsedOverdue
<1>9. RecoveryShape'
  BY <1>0, <1>1 DEF IInv, RecoveryShape, TypeOK, Recovery
<1>10. IdleShape'
  <2> SUFFICES ASSUME NEW d \in Procs, NEW n \in Msgs, proc'[d] = "idle", Owns(d, n)'
               PROVE  ~(Live(row[n].lease_token))' /\ row'[n].last_error = "recovered"
    BY DEF IdleShape
  <2>1. d # c /\ proc[d] = "idle" /\ n # m /\ Owns(d, n) /\ row'[n] = row[n]
    BY <1>0 DEF Owns
  <2>2. ~Live(row[n].lease_token) /\ row[n].last_error = "recovered"
    BY <2>1 DEF IInv, IdleShape
  <2>3. row[n].lease_token \in Tokens /\ row[n].lease_token # t
    BY <1>1, <2>1 DEF Owns, IInv, RowShape
  <2>. QED BY <1>0, <2>1, <2>2, <2>3
<1>11. HolderUnlessLapsed'
  BY <1>0, <1>1, <1>3, NoLeaseAssumption DEF IInv, HolderUnlessLapsed, Holds, TypeOK, Handle
<1>12. LastAttemptAccurate'
  BY <1>0, <1>1, NoLeaseAssumption DEF IInv, LastAttemptAccurate, Holds, TypeOK, Handle
<1>. QED BY <1>4, <1>5, <1>6, <1>7, <1>8, <1>9, <1>10, <1>11, <1>12 DEF IInv

\* A claim preserves the invariant: the token is fresh, and a takeover needs a
\* lapsed lease.
LEMMA ClaimIdInv ==
  ASSUME IInv, NEW c \in Procs, NEW t \in Tokens, NEW m \in Msgs, claim_id(c, t, m)
  PROVE  IInv'
<1> DEFINE r == ClaimedRow(c, t, m)
           h == ClaimedHandle(c, t, m)
<1>1. /\ proc[c] = "up" /\ Fresh(t) /\ Claimable(m) /\ row' = [row EXCEPT ![m] = r]
      /\ lease' = [lease EXCEPT ![t] = h] /\ UNCHANGED <<sent, recov, proc, faults, history>>
  BY DEF claim_id
<1>2. /\ r \in Row /\ r.state = "leased" /\ r.lease_owner = c /\ r.lease_token = t
      /\ ~r.lapsed /\ r.retry_count < MaxRetries
  BY <1>1, ClaimedRowShape
<1>3. /\ h.msg = m /\ h.cons = c /\ h.phase = "claimed" /\ h.overdue = FALSE
      /\ h.last = (r.retry_count + 1 >= MaxRetries) /\ h \in Handle
  BY <1>2 DEF ClaimedHandle, Handle, Phases
<1>4. registered' \subseteq Procs \cup {Former} /\ faults' \in 0..MaxFaults
      /\ proc' \in [Procs -> {"up", "draining", "idle", "left", "gone"}] /\ proc' = proc
  BY <1>1 DEF claim_id, Register, IInv, TypeOK
<1> HIDE DEF r, h
<1>. QED BY <1>1, <1>2, <1>3, <1>4, ClaimStep

\* So does a claim whose handle is lost.
LEMMA ClaimCancelledInv ==
  ASSUME IInv, NEW c \in Procs, NEW t \in Tokens, NEW m \in Msgs, claim_cancelled(c, t, m)
  PROVE  IInv'
<1> DEFINE r == ClaimedRow(c, t, m)
<1>1. /\ proc[c] = "up" /\ Fresh(t) /\ Claimable(m) /\ row' = [row EXCEPT ![m] = r]
      /\ UNCHANGED <<sent, recov, history>>
  BY DEF claim_cancelled
<1>2. /\ r \in Row /\ r.state = "leased" /\ r.lease_owner = c /\ r.lease_token = t
      /\ ~r.lapsed /\ r.retry_count < MaxRetries
  BY <1>1, ClaimedRowShape
<1>3. lease' = [lease EXCEPT ![t] = NoLease]
  BY DEF claim_cancelled, Fresh, IInv, TypeOK
<1>4. registered' \subseteq Procs \cup {Former} /\ faults' \in 0..MaxFaults
  BY SizesAssumption DEF claim_cancelled, Register, Fault, IInv, TypeOK
<1>5. /\ proc' \in [Procs -> {"up", "draining", "idle", "left", "gone"}]
      /\ \A d \in Procs : proc'[d] = proc[d] \/ (d = c /\ proc'[d] = "draining")
  BY DEF claim_cancelled, IInv, TypeOK
<1> HIDE DEF r
<1>. QED BY <1>1, <1>2, <1>3, <1>4, <1>5, ClaimStep

---------------------------------------------------------------------------
(* Lapse and recovery.                                                     *)

\* The lapse of a lease preserves the invariant.
LEMMA LapseInv ==
  ASSUME IInv, NEW m \in Msgs, AbandonedLeaseLapses(m) \/ HeldLeaseLapses(m)
  PROVE  IInv'
<1> DEFINE t == row[m].lease_token
           r == [row[m] EXCEPT !.lapsed = TRUE]
<1> USE DEF history, Live
<1>0. /\ row[m].state = "leased" /\ row[m] \in Row /\ t \in Tokens
      /\ row' = [row EXCEPT ![m] = r]
      /\ UNCHANGED <<sent, recov, proc, registered, history>>
  BY DEF AbandonedLeaseLapses, HeldLeaseLapses, IInv, TypeOK, RowShape
<1>1. /\ r \in Row /\ r.state = "leased" /\ r.lapsed /\ r.lease_token = t
      /\ r.lease_owner = row[m].lease_owner /\ r.retry_count = row[m].retry_count
      /\ r.last_error = row[m].last_error
  BY <1>0 DEF Row
<1>2. faults' \in 0..MaxFaults
  BY SizesAssumption DEF AbandonedLeaseLapses, HeldLeaseLapses, Fault, IInv, TypeOK
<1>3. \/ lease' = lease /\ lease[t] = NoLease
      \/ lease' = [lease EXCEPT ![t].overdue = TRUE] /\ lease[t] # NoLease
  BY DEF AbandonedLeaseLapses, HeldLeaseLapses
<1> DEFINE h == [lease[t] EXCEPT !.overdue = TRUE]
<1>4. /\ lease' \in [Tokens -> Handle \cup {NoLease}]
      /\ \A u \in Tokens : lease'[u] = IF u = t /\ lease[u] # NoLease THEN h ELSE lease[u]
      /\ lease[t] # NoLease =>
           /\ h \in Handle /\ h.msg = lease[t].msg /\ h.cons = lease[t].cons
           /\ h.last = lease[t].last /\ h.phase = lease[t].phase /\ h.overdue
  <2>1. lease[t] # NoLease =>
           /\ h \in Handle /\ h.msg = lease[t].msg /\ h.cons = lease[t].cons
           /\ h.last = lease[t].last /\ h.phase = lease[t].phase /\ h.overdue
    BY <1>0 DEF IInv, TypeOK, Handle
  <2>2. (lease' = lease /\ lease[t] = NoLease) \/ lease' = [lease EXCEPT ![t] = h]
    BY <1>3
  <2> HIDE DEF h
  <2>. QED BY <1>0, <1>3, <2>1, <2>2 DEF IInv, TypeOK
<1> HIDE DEF h
<1>5. \A u \in Tokens :
        /\ lease'[u] = NoLease <=> lease[u] = NoLease
        /\ lease[u] # NoLease =>
             /\ lease'[u].msg = lease[u].msg /\ lease'[u].cons = lease[u].cons
             /\ lease'[u].last = lease[u].last /\ lease'[u].phase = lease[u].phase
             /\ lease[u].overdue => lease'[u].overdue
             /\ u = t => lease'[u].overdue
  BY <1>0, <1>4, NoLeaseAssumption
<1>6. row' \in [Msgs -> Row] /\ \A n \in Msgs : row'[n] = IF n = m THEN r ELSE row[n]
  BY <1>0, <1>1 DEF IInv, TypeOK
<1> HIDE DEF r
<1>7. TypeOK'
  BY <1>0, <1>2, <1>4, <1>6 DEF IInv, TypeOK
<1>8. RowShape' /\ RowsSent' /\ RetryLeft' /\ NoInheritedAloneMark'
  BY <1>0, <1>1, <1>6 DEF IInv, RowShape, RowsSent, RetryLeft, NoInheritedAloneMark
<1>9. NothingLost'
  <2>1. sent \in 0..MaxMsgs /\ \A n \in 1..sent : n \in Msgs
    BY SizesAssumption DEF IInv, TypeOK, Msgs
  <2>. QED BY <1>0, <1>1, <1>6, <2>1 DEF IInv, NothingLost
<1>10. HandleShape' /\ LapsedOverdue'
  BY <1>0, <1>1, <1>5, <1>6 DEF IInv, HandleShape, LapsedOverdue
<1>11. RecoveryShape'
  BY <1>0, <1>1, <1>5, <1>6 DEF IInv, RecoveryShape, TypeOK, Recovery
<1>12. IdleShape'
  BY <1>0, <1>1, <1>5, <1>6 DEF IInv, IdleShape, Owns, RowShape
<1>13. HolderUnlessLapsed' /\ LastAttemptAccurate'
  BY <1>0, <1>1, <1>5, <1>6, NoLeaseAssumption
  DEF IInv, HolderUnlessLapsed, LastAttemptAccurate, Holds, TypeOK, Handle
<1>. QED BY <1>7, <1>8, <1>9, <1>10, <1>11, <1>12, <1>13 DEF IInv

\* Only recoveries change, and none gets a new token.
LEMMA RecoveryOnlyStep ==
  ASSUME IInv, recov' \in [Procs -> Recovery],
         \A c \in Procs : recov'[c].token = recov[c].token \/ recov'[c].token = NoToken,
         unsettled' \subseteq Msgs, faults' \in 0..MaxFaults,
         UNCHANGED <<row, sent, lease, proc, registered, handled, taken, trimmed>>
  PROVE  IInv'
<1> USE DEF Live
<1>1. TypeOK'
  BY DEF IInv, TypeOK
<1>2. RowShape' /\ RowsSent' /\ RetryLeft' /\ NothingLost' /\ NoInheritedAloneMark'
  BY DEF IInv, RowShape, RowsSent, RetryLeft, NothingLost, NoInheritedAloneMark
<1>3. HandleShape' /\ LapsedOverdue' /\ IdleShape'
  BY DEF IInv, HandleShape, LapsedOverdue, IdleShape, Owns
<1>4. RecoveryShape'
  BY DEF IInv, RecoveryShape
<1>5. HolderUnlessLapsed' /\ LastAttemptAccurate'
  BY DEF IInv, HolderUnlessLapsed, LastAttemptAccurate, Holds
<1>. QED BY <1>1, <1>2, <1>3, <1>4, <1>5 DEF IInv

\* The idle recovery is a recovery without a token.
LEMMA NoRecoveryType == NoRecovery \in Recovery /\ NoRecovery.token = NoToken
  BY DEF NoRecovery, Recovery

\* Settling and abandoning a recovery preserve the invariant.
LEMMA SettleAbandonInv ==
  ASSUME IInv, NEW c \in Procs, settle(c) \/ AbandonRecovery(c)
  PROVE  IInv'
<1>1. recov \in [Procs -> Recovery] /\ recov[c] \in Recovery
  BY DEF IInv, TypeOK
<1>2. CASE settle(c)
  <2> DEFINE q == [recov[c] EXCEPT !.pc = "settled"]
  <2>1. q \in Recovery /\ q.token = recov[c].token
    BY <1>1 DEF Recovery
  <2>2. recov' = [recov EXCEPT ![c] = q]
    BY <1>2 DEF settle
  <2> HIDE DEF q
  <2>3. /\ recov' \in [Procs -> Recovery]
        /\ \A d \in Procs : recov'[d].token = recov[d].token \/ recov'[d].token = NoToken
    BY <1>1, <2>1, <2>2
  <2>4. /\ unsettled' \subseteq Msgs /\ faults' \in 0..MaxFaults
        /\ UNCHANGED <<row, sent, lease, proc, registered, handled, taken, trimmed>>
    BY <1>2 DEF settle, IInv, TypeOK
  <2>. QED BY <2>3, <2>4, RecoveryOnlyStep
<1>3. CASE AbandonRecovery(c)
  <2>1. /\ recov' \in [Procs -> Recovery]
        /\ \A d \in Procs : recov'[d].token = recov[d].token \/ recov'[d].token = NoToken
    BY <1>1, <1>3, NoRecoveryType DEF AbandonRecovery
  <2>2. /\ unsettled' \subseteq Msgs /\ faults' \in 0..MaxFaults
        /\ UNCHANGED <<row, sent, lease, proc, registered, handled, taken, trimmed>>
    BY <1>3, SizesAssumption DEF AbandonRecovery, Fault, history, IInv, TypeOK
  <2>. QED BY <2>1, <2>2, RecoveryOnlyStep
<1>. QED BY <1>2, <1>3

\* Expiring the leases of gone processes preserves the invariant: they have no
\* handle left.
LEMMA BeginRecoveryInv ==
  ASSUME IInv, NEW c \in Procs, BeginRecovery(c)
  PROVE  IInv'
<1> DEFINE gone == {d \in registered : CrashQuarantine /\ Gone(d)}
           late(n) == row[n].state = "leased" /\ row[n].lease_owner \in gone
           q == [recov[c] EXCEPT !.pc = "begun"]
<1> USE DEF history, Live
<1>0. row \in [Msgs -> Row] /\ recov \in [Procs -> Recovery] /\ recov[c] \in Recovery
  BY DEF IInv, TypeOK
<1>1. /\ row' = [n \in Msgs |-> IF late(n) THEN [row[n] EXCEPT !.lapsed = TRUE] ELSE row[n]]
      /\ recov' = [recov EXCEPT ![c] = q] /\ registered' = registered \ gone
      /\ UNCHANGED <<sent, lease, proc, faults, history>>
  BY DEF BeginRecovery
<1>2. q \in Recovery /\ q.token = recov[c].token
  BY <1>0 DEF Recovery
<1> HIDE DEF q
<1>3. /\ recov' \in [Procs -> Recovery]
      /\ \A d \in Procs : recov'[d].token = recov[d].token
  BY <1>0, <1>1, <1>2
<1>4. \A u \in Tokens, n \in Msgs : lease[u] # NoLease /\ row[n].lease_token = u => ~late(n)
  BY NoLeaseAssumption, NullsAssumption DEF IInv, TypeOK, Handle, HandleShape, Gone
<1>5. \A n \in Msgs :
        /\ row'[n] \in Row
        /\ row'[n].state = row[n].state /\ row'[n].retry_count = row[n].retry_count
        /\ row'[n].last_error = row[n].last_error /\ row'[n].lease_owner = row[n].lease_owner
        /\ row'[n].lease_token = row[n].lease_token
        /\ row'[n].lapsed # row[n].lapsed => late(n)
  BY <1>0, <1>1 DEF Row
<1>6. row' \in [Msgs -> Row] /\ (\A n \in Msgs : late(n) => row[n].state = "leased")
  BY <1>1, <1>5
<1> HIDE DEF late
<1>7. TypeOK'
  BY <1>1, <1>3, <1>6 DEF IInv, TypeOK
<1>8. RowShape' /\ RowsSent' /\ RetryLeft' /\ NoInheritedAloneMark'
  BY <1>1, <1>5, <1>6 DEF IInv, RowShape, RowsSent, RetryLeft, NoInheritedAloneMark
<1>9. NothingLost'
  <2>1. sent \in 0..MaxMsgs /\ \A n \in 1..sent : n \in Msgs
    BY SizesAssumption DEF IInv, TypeOK, Msgs
  <2>. QED BY <1>1, <1>5, <2>1 DEF IInv, NothingLost
<1>10. HandleShape' /\ LapsedOverdue'
  BY <1>1, <1>4, <1>5 DEF IInv, HandleShape, LapsedOverdue
<1>11. RecoveryShape' /\ IdleShape'
  BY <1>1, <1>3, <1>5 DEF IInv, RecoveryShape, IdleShape, Owns
<1>12. HolderUnlessLapsed' /\ LastAttemptAccurate'
  BY <1>1, <1>5, NoLeaseAssumption DEF IInv, HolderUnlessLapsed, LastAttemptAccurate, Holds, TypeOK, Handle
<1>. QED BY <1>7, <1>8, <1>9, <1>10, <1>11, <1>12 DEF IInv

\* The row a recovery writes.
LEMMA RecoveredRowShape ==
  ASSUME IInv, NEW c \in Procs, NEW t \in Tokens, NEW m \in Expired
  PROVE  LET r == RecoveredRow(c, t, m) IN
         /\ r \in Row /\ ~r.lapsed
         /\ \/ /\ r.state = "leased" /\ r.lease_owner = c /\ r.lease_token = t
               /\ r.retry_count < MaxRetries /\ r.last_error = "recovered"
            \/ r.state = "dead" /\ r.lease_owner = NoProc /\ r.lease_token = NoToken
<1>1. m \in Msgs /\ row[m] \in Row /\ row[m].retry_count < MaxRetries
  BY DEF IInv, TypeOK, RetryLeft, Expired
<1>2. CASE Exhausted(m)
  BY <1>1, <1>2, SizesAssumption DEF RecoveredRow, Exhausted, DeadRow, Row, Marks
<1>3. CASE ~Exhausted(m)
  BY <1>1, <1>3, SizesAssumption DEF RecoveredRow, Exhausted, LeasedRow, Row, Marks
<1>. QED BY <1>2, <1>3

\* The recovery's transaction preserves the invariant: it takes lapsed leases
\* only, so no delivery that is not overdue loses its message.
LEMMA CommitRecoveryInv ==
  ASSUME IInv, NEW c \in Procs, NEW t \in Tokens, CommitRecovery(c, t)
  PROVE  IInv'
<1> DEFINE f == [n \in Msgs |-> IF n \in Expired THEN RecoveredRow(c, t, n) ELSE row[n]]
           T == Trimmed(f)
<1> USE DEF Live
<1>0. /\ row \in [Msgs -> Row] /\ recov \in [Procs -> Recovery] /\ Expired \subseteq Msgs
      /\ Absent \in Row /\ Absent.state = "absent" /\ Absent.lease_token = NoToken
      /\ Absent.lease_owner = NoProc /\ ~Absent.lapsed
  BY SizesAssumption DEF IInv, TypeOK, Expired, Absent, Row, Marks
<1>1. /\ row' = [n \in Msgs |-> IF n \in T THEN Absent ELSE f[n]]
      /\ trimmed' = trimmed \cup T
      /\ UNCHANGED <<sent, lease, proc, registered, faults, handled, taken>>
  BY DEF CommitRecovery, StoreAndTrim
<1>2. T \subseteq Msgs /\ \A n \in T : f[n].state = "dead"
  BY TrimmedDead
<1>3. \A n \in Expired :
        /\ f[n] \in Row /\ ~f[n].lapsed
        /\ \/ /\ f[n].state = "leased" /\ f[n].lease_owner = c /\ f[n].lease_token = t
              /\ f[n].retry_count < MaxRetries /\ f[n].last_error = "recovered"
           \/ f[n].state = "dead" /\ f[n].lease_owner = NoProc /\ f[n].lease_token = NoToken
  BY <1>0, RecoveredRowShape
<1>4. \A n \in Msgs : n \notin Expired => f[n] = row[n]
  OBVIOUS
<1> HIDE DEF f, T
<1>5. /\ lease[t] = NoLease /\ \A n \in Msgs : row[n].lease_token # t
      /\ \A d \in Procs : recov[d].token # t
  BY DEF CommitRecovery, Fresh
<1>6. \A n \in Msgs :
        /\ row'[n] \in Row
        /\ \/ n \notin Expired /\ row'[n] = row[n]
           \/ /\ row'[n].state = "leased" /\ row'[n].lease_owner = c /\ row'[n].lease_token = t
              /\ row'[n].retry_count < MaxRetries /\ row'[n].last_error = "recovered"
              /\ ~row'[n].lapsed /\ n \in Expired
           \/ /\ row'[n].state \in {"dead", "absent"} /\ row'[n].lease_token = NoToken
              /\ row'[n].lease_owner = NoProc /\ ~row'[n].lapsed
              /\ row'[n].state = "absent" => n \in trimmed'
              /\ n \in Expired \/ row[n].state = "dead"
  BY <1>0, <1>1, <1>2, <1>3, <1>4
<1>7. /\ recov' \in [Procs -> Recovery]
      /\ \A d \in Procs : recov'[d].token \in {recov[d].token, NoToken, t}
  <2> DEFINE q == [pc |-> "held", token |-> t, batch |-> {m \in Expired : ~Exhausted(m)},
                   decoded |-> Expired \cap BadFormat = {}]
  <2>1. q \in Recovery /\ q.token = t
    BY <1>0 DEF Recovery
  <2>2. recov' = [recov EXCEPT ![c] = NoRecovery] \/ recov' = [recov EXCEPT ![c] = q]
    BY DEF CommitRecovery
  <2> HIDE DEF q
  <2>. QED BY <1>0, <2>1, <2>2, NoRecoveryType
<1>8. row' \in [Msgs -> Row] /\ trimmed' \subseteq Msgs /\ unsettled' \subseteq Msgs
  BY <1>0, <1>1, <1>2, <1>6 DEF CommitRecovery, IInv, TypeOK
<1>9. \A n \in Expired : n \in Msgs /\ row[n].state = "leased" /\ row[n].lapsed
  BY DEF Expired
<1>10. TypeOK'
  BY <1>1, <1>7, <1>8 DEF IInv, TypeOK
<1>11. RowShape' /\ RowsSent' /\ RetryLeft' /\ NoInheritedAloneMark'
  BY <1>1, <1>6, <1>9 DEF IInv, RowShape, RowsSent, RetryLeft, NoInheritedAloneMark
<1>12. NothingLost'
  <2>1. sent \in 0..MaxMsgs /\ \A n \in 1..sent : n \in Msgs
    BY SizesAssumption DEF IInv, TypeOK, Msgs
  <2>. QED BY <1>1, <1>6, <2>1 DEF IInv, NothingLost
<1>13. HandleShape' /\ LapsedOverdue'
  BY <1>1, <1>5, <1>6, NullsAssumption DEF IInv, HandleShape, LapsedOverdue
<1>14. RecoveryShape'
  BY <1>1, <1>5, <1>6, <1>7, NullsAssumption DEF IInv, RecoveryShape
<1>15. IdleShape'
  BY <1>1, <1>5, <1>6 DEF IInv, IdleShape, Owns
<1>16. \A u \in Tokens : lease[u] # NoLease /\ ~lease[u].overdue =>
         row'[lease[u].msg] = row[lease[u].msg]
  BY <1>6, <1>9, NoLeaseAssumption
  DEF IInv, TypeOK, Handle, HolderUnlessLapsed, Holds, LapsedOverdue
<1>17. HolderUnlessLapsed'
  BY <1>1, <1>16 DEF IInv, HolderUnlessLapsed, Holds
<1>18. LastAttemptAccurate'
  BY <1>1, <1>5, <1>6, NoLeaseAssumption, NullsAssumption
  DEF IInv, LastAttemptAccurate, Holds, TypeOK, Handle
<1>. QED BY <1>10, <1>11, <1>12, <1>13, <1>14, <1>15, <1>17, <1>18 DEF IInv

\* Rows that no delivery holds become ready again, keeping their count, and
\* processes do at most leave.
LEMMA ReadyAgainStep ==
  ASSUME IInv, NEW R \in SUBSET Msgs,
         \A m \in R : /\ row[m].state = "leased" /\ row[m].last_error = "recovered"
                      /\ ~Live(row[m].lease_token),
         row' = [m \in Msgs |-> IF m \in R THEN ReadyRow(row[m].retry_count, row[m].last_error)
                                ELSE row[m]],
         recov' \in [Procs -> Recovery],
         \A c \in Procs : recov'[c].token = recov[c].token \/ recov'[c].token = NoToken,
         proc' \in [Procs -> {"up", "draining", "idle", "left", "gone"}],
         \A c \in Procs : proc'[c] = proc[c] \/ proc'[c] = "left",
         UNCHANGED <<sent, lease, registered, faults, history>>
  PROVE  IInv'
<1> USE DEF history, Live
<1>0. row \in [Msgs -> Row]
  BY DEF IInv, TypeOK
<1>1. \A n \in Msgs :
        /\ row'[n] \in Row
        /\ \/ n \notin R /\ row'[n] = row[n]
           \/ /\ n \in R /\ row'[n].state = "ready" /\ row'[n].lease_token = NoToken
              /\ row'[n].lease_owner = NoProc /\ ~row'[n].lapsed
              /\ row'[n].retry_count = row[n].retry_count /\ row'[n].last_error = "recovered"
  BY <1>0 DEF ReadyRow, Row, Marks
<1>2. TypeOK'
  BY <1>1 DEF IInv, TypeOK
<1>3. RowShape' /\ RowsSent' /\ RetryLeft' /\ NoInheritedAloneMark'
  BY <1>1 DEF IInv, RowShape, RowsSent, RetryLeft, NoInheritedAloneMark
<1>4. NothingLost'
  <2>1. sent \in 0..MaxMsgs /\ \A n \in 1..sent : n \in Msgs
    BY SizesAssumption DEF IInv, TypeOK, Msgs
  <2>. QED BY <1>1, <2>1 DEF IInv, NothingLost
<1>5. HandleShape' /\ LapsedOverdue'
  BY <1>1, NoLeaseAssumption, NullsAssumption DEF IInv, HandleShape, LapsedOverdue, TypeOK, Handle
<1>6. RecoveryShape'
  BY <1>1, NullsAssumption DEF IInv, RecoveryShape
<1>7. IdleShape'
  BY <1>1 DEF IInv, IdleShape, Owns
<1>8. HolderUnlessLapsed' /\ LastAttemptAccurate'
  BY <1>1, NoLeaseAssumption, NullsAssumption
  DEF IInv, HolderUnlessLapsed, LastAttemptAccurate, Holds, TypeOK, Handle
<1>. QED BY <1>2, <1>3, <1>4, <1>5, <1>6, <1>7, <1>8 DEF IInv

\* The recovery's release preserves the invariant: the rows it makes ready are
\* its own, so no delivery holds them and none is marked alone.
LEMMA ReleaseRecoveredInv ==
  ASSUME IInv, NEW c \in Procs, ReleaseRecovered(c)
  PROVE  IInv'
<1> DEFINE R == {m \in Msgs : row[m].state = "leased" /\ row[m].lease_token = recov[c].token}
<1>1. row' = [m \in Msgs |-> IF m \in R THEN ReadyRow(row[m].retry_count, row[m].last_error)
                             ELSE row[m]]
  BY DEF ReleaseRecovered
<1>2. \A m \in R : /\ row[m].state = "leased" /\ row[m].last_error = "recovered"
                   /\ ~Live(row[m].lease_token)
  BY NullsAssumption DEF IInv, RowShape, RecoveryShape
<1>3. /\ recov' \in [Procs -> Recovery]
      /\ \A d \in Procs : recov'[d].token = recov[d].token \/ recov'[d].token = NoToken
  BY NoRecoveryType DEF ReleaseRecovered, IInv, TypeOK
<1>4. /\ proc' = proc /\ UNCHANGED <<sent, lease, registered, faults, history>>
      /\ proc \in [Procs -> {"up", "draining", "idle", "left", "gone"}]
  BY DEF ReleaseRecovered, IInv, TypeOK
<1>. QED BY <1>1, <1>2, <1>3, <1>4, ReadyAgainStep

\* Every step of a recovery preserves the invariant.
LEMMA RecoverInv ==
  ASSUME IInv, NEW c \in Procs, Recover(c)
  PROVE  IInv'
  BY BeginRecoveryInv, CommitRecoveryInv, SettleAbandonInv, ReleaseRecoveredInv DEF Recover

---------------------------------------------------------------------------
(* Shutdown, stop and restart.                                             *)

\* unregister_consumer preserves the invariant: by IdleShape what the consumer
\* owns by now was leased by its own late recovery.
LEMMA UnregisterInv ==
  ASSUME IInv, NEW c \in Procs, unregister_consumer(c)
  PROVE  IInv'
<1> DEFINE R == {m \in Msgs : Owns(c, m)}
<1>1. row' = [m \in Msgs |-> IF m \in R THEN ReadyRow(row[m].retry_count, row[m].last_error)
                             ELSE row[m]]
  BY DEF unregister_consumer
<1>2. \A m \in R : /\ row[m].state = "leased" /\ row[m].last_error = "recovered"
                   /\ ~Live(row[m].lease_token)
  BY DEF unregister_consumer, IInv, IdleShape, Owns
<1>3. /\ recov' = recov /\ UNCHANGED <<sent, lease, registered, faults, history>>
      /\ recov \in [Procs -> Recovery]
      /\ proc' \in [Procs -> {"up", "draining", "idle", "left", "gone"}]
      /\ \A d \in Procs : proc'[d] = proc[d] \/ proc'[d] = "left"
  BY DEF unregister_consumer, IInv, TypeOK
<1>. QED BY <1>1, <1>2, <1>3, ReadyAgainStep

\* Shutdown and the idle check preserve the invariant: when the check passes
\* the consumer owns nothing.
LEMMA DrainInv ==
  ASSUME IInv, NEW c \in Procs, Shutdown(c) \/ consumer_has_pending(c)
  PROVE  IInv'
<1> USE DEF history, Live
<1>1. UNCHANGED <<row, sent, lease, recov, registered, history>>
  BY DEF Shutdown, consumer_has_pending
<1>2. faults' \in 0..MaxFaults
  BY SizesAssumption DEF Shutdown, consumer_has_pending, Fault, IInv, TypeOK
<1>3. /\ proc' \in [Procs -> {"up", "draining", "idle", "left", "gone"}]
      /\ \A d \in Procs : \/ proc'[d] = proc[d]
                          \/ proc'[d] = "draining"
                          \/ proc'[d] = "idle" /\ \A m \in Msgs : ~Owns(d, m)
  BY DEF Shutdown, consumer_has_pending, IInv, TypeOK
<1>4. TypeOK'
  BY <1>1, <1>2, <1>3 DEF IInv, TypeOK
<1>5. RowShape' /\ RowsSent' /\ RetryLeft' /\ NothingLost' /\ NoInheritedAloneMark'
  BY <1>1 DEF IInv, RowShape, RowsSent, RetryLeft, NothingLost, NoInheritedAloneMark
<1>6. HandleShape' /\ LapsedOverdue' /\ RecoveryShape'
  BY <1>1, <1>3, NoLeaseAssumption
  DEF IInv, HandleShape, LapsedOverdue, RecoveryShape, TypeOK, Handle
<1>7. IdleShape'
  BY <1>1, <1>3 DEF IInv, IdleShape, Owns
<1>8. HolderUnlessLapsed' /\ LastAttemptAccurate'
  BY <1>1 DEF IInv, HolderUnlessLapsed, LastAttemptAccurate, Holds
<1>. QED BY <1>4, <1>5, <1>6, <1>7, <1>8 DEF IInv

\* The end of a process, by a crash or an exit, preserves the invariant: its
\* handles end with it.
LEMMA StopInv ==
  ASSUME IInv, NEW c \in Procs, Crash(c) \/ Exit(c)
  PROVE  IInv'
<1> USE DEF history, Live
<1>1. Stop(c) /\ UNCHANGED <<row, sent, registered, history>>
  BY DEF Crash, Exit, Stop
<1>2. faults' \in 0..MaxFaults
  BY SizesAssumption DEF Crash, Exit, Fault, IInv, TypeOK
<1>3. /\ lease' \in [Tokens -> Handle \cup {NoLease}]
      /\ \A u \in Tokens : \/ lease'[u] = NoLease
                           \/ lease[u] # NoLease /\ lease'[u] = lease[u] /\ lease[u].cons # c
  BY <1>1 DEF Stop, IInv, TypeOK
<1>4. /\ proc' \in [Procs -> {"up", "draining", "idle", "left", "gone"}]
      /\ \A d \in Procs : proc'[d] = IF d = c THEN "gone" ELSE proc[d]
  BY <1>1 DEF Stop, IInv, TypeOK
<1>5. /\ recov' \in [Procs -> Recovery]
      /\ \A d \in Procs : recov'[d].token = recov[d].token \/ recov'[d].token = NoToken
  BY <1>1, NoRecoveryType DEF Stop, IInv, TypeOK
<1>6. TypeOK'
  BY <1>1, <1>2, <1>3, <1>4, <1>5 DEF IInv, TypeOK
<1>7. RowShape' /\ RowsSent' /\ RetryLeft' /\ NothingLost' /\ NoInheritedAloneMark'
  BY <1>1 DEF IInv, RowShape, RowsSent, RetryLeft, NothingLost, NoInheritedAloneMark
<1>8. HandleShape' /\ LapsedOverdue'
  BY <1>1, <1>3, <1>4, NoLeaseAssumption DEF IInv, HandleShape, LapsedOverdue, TypeOK, Handle
<1>9. RecoveryShape'
  BY <1>1, <1>3, <1>5 DEF IInv, RecoveryShape, TypeOK, Recovery
<1>10. IdleShape'
  BY <1>1, <1>3, <1>4 DEF IInv, IdleShape, Owns, RowShape
<1>11. HolderUnlessLapsed' /\ LastAttemptAccurate'
  BY <1>1, <1>3 DEF IInv, HolderUnlessLapsed, LastAttemptAccurate, Holds
<1>. QED BY <1>6, <1>7, <1>8, <1>9, <1>10, <1>11 DEF IInv

\* A restart preserves the invariant: the rows it renames to Former belong to
\* a process that has no handle left.
LEMMA StartInv ==
  ASSUME IInv, NEW c \in Procs, Start(c)
  PROVE  IInv'
<1> USE DEF history, Live
<1>0. row \in [Msgs -> Row]
  BY DEF IInv, TypeOK
<1>1. UNCHANGED <<sent, lease, recov, faults, history>>
  BY DEF Start
<1>2. /\ proc' \in [Procs -> {"up", "draining", "idle", "left", "gone"}]
      /\ \A d \in Procs : proc'[d] = IF d = c THEN "up" ELSE proc[d]
      /\ registered' \subseteq Procs \cup {Former}
  BY DEF Start, IInv, TypeOK
<1>3. \A u \in Tokens : lease[u] # NoLease => lease[u] \in Handle /\ lease[u].cons # c
  BY DEF Start, IInv, HandleShape, TypeOK
<1>4. \A n \in Msgs :
        /\ row'[n] \in Row
        /\ row'[n].state = row[n].state /\ row'[n].retry_count = row[n].retry_count
        /\ row'[n].last_error = row[n].last_error /\ row'[n].lapsed = row[n].lapsed
        /\ row'[n].lease_token = row[n].lease_token
        /\ \/ row'[n].lease_owner = row[n].lease_owner
           \/ /\ row'[n].lease_owner = Former /\ row[n].lease_owner = c
              /\ row[n].state = "leased"
  BY <1>0 DEF Start, Owns, Row
<1>5. row' \in [Msgs -> Row]
  BY <1>4 DEF Start
<1>6. TypeOK'
  BY <1>1, <1>2, <1>5 DEF IInv, TypeOK
<1>7. RowShape' /\ RowsSent' /\ RetryLeft' /\ NoInheritedAloneMark'
  BY <1>1, <1>4 DEF IInv, RowShape, RowsSent, RetryLeft, NoInheritedAloneMark
<1>8. NothingLost'
  <2>1. sent \in 0..MaxMsgs /\ \A n \in 1..sent : n \in Msgs
    BY SizesAssumption DEF IInv, TypeOK, Msgs
  <2>. QED BY <1>1, <1>4, <2>1 DEF IInv, NothingLost
<1>9. HandleShape' /\ LapsedOverdue'
  BY <1>1, <1>2, <1>3, <1>4 DEF IInv, HandleShape, LapsedOverdue, Handle
<1>10. RecoveryShape'
  BY <1>1, <1>4 DEF IInv, RecoveryShape
<1>11. IdleShape'
  BY <1>1, <1>2, <1>4, NullsAssumption DEF IInv, IdleShape, Owns
<1>12. HolderUnlessLapsed' /\ LastAttemptAccurate'
  BY <1>1, <1>3, <1>4 DEF IInv, HolderUnlessLapsed, LastAttemptAccurate, Holds, Handle
<1>. QED BY <1>6, <1>7, <1>8, <1>9, <1>10, <1>11, <1>12 DEF IInv

\* Every step of a process's life cycle preserves the invariant.
LEMMA LeaveInv ==
  ASSUME IInv, NEW c \in Procs, Leave(c)
  PROVE  IInv'
  BY DrainInv, UnregisterInv, StopInv, StartInv DEF Leave

---------------------------------------------------------------------------
(* The theorems.                                                           *)

\* Every step preserves the invariant.
LEMMA NextInv == IInv /\ [Next]_vars => IInv'
<1> SUFFICES ASSUME IInv, [Next]_vars PROVE IInv'
  OBVIOUS
<1>1. CASE Produce
  BY <1>1, EnqueueInv, MoveToDeadLetterInv, DequeueInv DEF Produce
<1>2. CASE Claim
  BY <1>2, ClaimIdInv, ClaimCancelledInv DEF Claim
<1>3. CASE \E t \in Tokens : Deliver(t)
  BY <1>3, DeliverInv
<1>4. CASE \E m \in Msgs : AbandonedLeaseLapses(m) \/ HeldLeaseLapses(m)
  BY <1>4, LapseInv
<1>5. CASE \E c \in Procs : Recover(c) \/ Leave(c)
  BY <1>5, RecoverInv, LeaveInv
<1>6. CASE UNCHANGED vars
  BY <1>6, Stutter
<1>. QED BY <1>1, <1>2, <1>3, <1>4, <1>5, <1>6 DEF Next

\* The inductive invariant holds in every reachable state.
THEOREM InductiveInvariant == Spec => []IInv
  BY InitInv, NextInv, PTL DEF Spec

\* The table, the handles and the recoveries have their types.
THEOREM TypeCorrect == Spec => []TypeOK
<1>1. IInv => TypeOK
  BY DEF IInv
<1>. QED BY <1>1, InductiveInvariant, PTL

\* MAX_PROCESSING_RETRIES holds on every path that counts a retry.
THEOREM RetryBound == Spec => []RetryLeft
<1>1. IInv => RetryLeft
  BY DEF IInv
<1>. QED BY <1>1, InductiveInvariant, PTL

\* No message is lost: acknowledged after success, dequeued or trimmed are the
\* only ways out of the table.
THEOREM AtLeastOnce == Spec => []NothingLost
<1>1. IInv => NothingLost
  BY DEF IInv
<1>. QED BY <1>1, InductiveInvariant, PTL

\* A delivery keeps its message until its lease lapses.
THEOREM ExclusiveUntilLapse == Spec => []HolderUnlessLapsed
<1>1. IInv => HolderUnlessLapsed
  BY DEF IInv
<1>. QED BY <1>1, InductiveInvariant, PTL

\* last_attempt is right for as long as the delivery can settle.
THEOREM LastAttemptRight == Spec => []LastAttemptAccurate
<1>1. IInv => LastAttemptAccurate
  BY DEF IInv
<1>. QED BY <1>1, InductiveInvariant, PTL

\* A message ready for delivery is never marked as processing alone.
THEOREM NoMarkInherited == Spec => []NoInheritedAloneMark
<1>1. IInv => NoInheritedAloneMark
  BY DEF IInv
<1>. QED BY <1>1, InductiveInvariant, PTL
============================================================================
