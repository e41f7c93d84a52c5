------------------------ MODULE TaskLifecycleProofs ------------------------
(* Safety of the task table for every number of tasks, workers, processors, *)
(* retries and faults, with and without the Redis lease.                    *)
EXTENDS TaskLifecycle, FiniteSetTheorems, TLAPS

---------------------------------------------------------------------------
(* The inductive invariant.                                                *)

\* Rows are inserted in order.
RowsInOrder ==
  \A t \in Tasks : IF t <= created THEN row[t].status # "absent"
                                   ELSE row[t].status = "absent" /\ row[t].parent = 0

\* A successor follows a failure or a timeout.  It has its predecessor's attempt
\* number only if a shutdown wrote the failure, and the next number otherwise.
ChildShape ==
  \A c \in Tasks : row[c].parent # 0 =>
    /\ row[row[c].parent].status \in {"failed", "timed_out"}
    /\ \/ row[c].attempt = row[row[c].parent].attempt + 1
       \/ row[c].attempt = row[row[c].parent].attempt /\ row[row[c].parent].by = "shutdown"

\* Phases of a delivery whose claim succeeded.
Exec == {"running", "ended", "retry"}

\* What a delivery's phase says of its task's row: claimed once it executes, and
\* failed by this kind of writer once it may retry.
SlotShape ==
  \A d \in Slots :
    /\ slot[d].pc = "idle" <=> slot[d].task = 0
    /\ slot[d].pc = "ended" => slot[d].out \in Outcomes
    /\ slot[d].pc \in Exec => row[slot[d].task].status \notin {"absent", "queued"}
    /\ slot[d].pc = "retry" => /\ row[slot[d].task].status \in {"failed", "timed_out"}
                               /\ row[slot[d].task].by = "worker"

\* The reaper owes a retry of what it failed itself.
OwedShape ==
  \A w \in Workers : owed[w] # 0 =>
    row[owed[w]].status = "failed" /\ row[owed[w]].by = "reaper"

TableInv == RowsInOrder /\ ChildShape /\ OneSuccessor

IInv == TypeOK /\ TableInv /\ SlotShape /\ OwedShape /\ ExecutedOnce

---------------------------------------------------------------------------
(* What a step may do to the table.                                        *)

\* Row t keeps all but its owner and heartbeat.
SameRow(t) ==
  /\ row'[t].status = row[t].status /\ row'[t].by = row[t].by
  /\ row'[t].attempt = row[t].attempt /\ row'[t].infra = row[t].infra
  /\ row'[t].parent = row[t].parent

OnlyRow(t) == \A u \in Tasks \ {t} : SameRow(u)

QuietStep == created' = created /\ \A t \in Tasks : SameRow(t)

\* Row t reaches status s, written by b.
StatusStep(t, s, b) ==
  /\ created' = created /\ OnlyRow(t)
  /\ row'[t].status = s /\ row'[t].by = b
  /\ row'[t].attempt = row[t].attempt /\ row'[t].infra = row[t].infra
  /\ row'[t].parent = row[t].parent

NewStep(a, i, p) ==
  /\ created < MaxTasks /\ created' = created + 1
  /\ row'[created + 1] = NewRow("queued", a, i, p)

RunStep(t) == row[t].status = "queued" /\ StatusStep(t, "running", row[t].by)

EndStep(t) == Active(t) /\ \E s \in Terminal, b \in Writers : StatusStep(t, s, b)

RootStep == NewStep(0, 0, 0) /\ OnlyRow(created + 1)

RetryStep(t) ==
  /\ row[t].status \in {"failed", "timed_out"} /\ row[t].by # "shutdown"
  /\ row[t].attempt < MaxAttempts /\ ~Duplicate(t, row[t].attempt + 1)
  /\ NewStep(row[t].attempt + 1, 0, t) /\ OnlyRow(created + 1)

InterruptStep(t) ==
  /\ Active(t) /\ row[t].infra < MaxInfra
  /\ NewStep(row[t].attempt, row[t].infra + 1, t)
  /\ \A u \in Tasks \ {t, created + 1} : SameRow(u)
  /\ row'[t].status = "failed" /\ row'[t].by = "shutdown"
  /\ row'[t].attempt = row[t].attempt /\ row'[t].infra = row[t].infra
  /\ row'[t].parent = row[t].parent

TableStep ==
  \/ QuietStep \/ RootStep
  \/ \E t \in Tasks : RunStep(t) \/ EndStep(t) \/ RetryStep(t) \/ InterruptStep(t)

\* What an attempt that ended keeps, and that no attempt is queued again.
Lasting ==
  \A t \in Tasks :
    /\ row[t].status \in Terminal => row'[t].status = row[t].status /\ row'[t].by = row[t].by
    /\ row[t].status \notin {"absent", "queued"} => row'[t].status \notin {"absent", "queued"}

\* The fields of a row have their types.
LEMMA RowFields ==
  ASSUME TypeOK, NEW t \in Tasks
  PROVE  /\ row[t].status \in Statuses /\ row[t].attempt \in 0..MaxAttempts
         /\ row[t].infra \in 0..MaxInfra /\ row[t].by \in Writers
         /\ row[t].parent = 0 \/ row[t].parent \in Tasks
<1>1. row[t] \in Row
  BY DEF TypeOK
<1>2. row[t].parent \in 0..MaxTasks
  BY <1>1 DEF Row
<1>. QED BY <1>1, <1>2, SizesAssumption DEF Row, Tasks

\* ChildShape from its instances.
LEMMA ChildCase ==
  ASSUME TypeOK',
         \A c, p \in Tasks : row'[c].parent = p =>
            /\ row'[p].status \in {"failed", "timed_out"}
            /\ \/ row'[c].attempt = row'[p].attempt + 1
               \/ row'[c].attempt = row'[p].attempt /\ row'[p].by = "shutdown"
  PROVE  ChildShape'
<1>1. \A c \in Tasks : row'[c].parent = 0 \/ row'[c].parent \in Tasks
  BY SizesAssumption DEF TypeOK, Row, Tasks
<1>. QED BY <1>1 DEF ChildShape

\* Every such step preserves what the table promises.
LEMMA TableStepInv ==
  ASSUME TypeOK, TypeOK', TableInv, TableStep
  PROVE  TableInv' /\ Lasting
<1> USE SizesAssumption
<1>0. created \in 0..MaxTasks /\ created' \in 0..MaxTasks /\ 0 \notin Tasks
  BY DEF TypeOK, Tasks
<1>a. \A c \in Tasks : /\ row[c].parent = 0 \/ row[c].parent \in Tasks
                       /\ row[c].attempt \in Nat /\ row[c].status \in Statuses
  BY RowFields DEF Tasks
<1>b. \A c, p \in Tasks : row[c].parent = p =>
            /\ row[p].status \in {"failed", "timed_out"}
            /\ \/ row[c].attempt = row[p].attempt + 1
               \/ row[c].attempt = row[p].attempt /\ row[p].by = "shutdown"
  BY <1>0 DEF TableInv, ChildShape
<1>1. CASE QuietStep
  <2>1. RowsInOrder' /\ OneSuccessor' /\ Lasting
    BY <1>0, <1>1 DEF QuietStep, SameRow, TableInv, RowsInOrder, OneSuccessor, Lasting
  <2>2. ChildShape'
    BY <1>1, <1>b, ChildCase DEF QuietStep, SameRow
  <2>. QED BY <2>1, <2>2 DEF TableInv
<1>2. ASSUME NEW a, NEW i, NEW p, NewStep(a, i, p), OnlyRow(created + 1)
      PROVE  /\ RowsInOrder' /\ Lasting /\ created + 1 \in Tasks
             /\ row'[created + 1].status = "queued" /\ row'[created + 1].attempt = a
             /\ row'[created + 1].parent = p /\ row[created + 1].status = "absent"
  <2>1. created + 1 \in Tasks
    BY <1>0, <1>2 DEF NewStep, Tasks
  <2>2. /\ row'[created + 1].status = "queued" /\ row'[created + 1].attempt = a
        /\ row'[created + 1].parent = p
    BY <1>2 DEF NewStep, NewRow
  <2>3. row[created + 1].status = "absent"
    BY <1>0, <2>1 DEF TableInv, RowsInOrder
  <2>4. RowsInOrder'
    BY <1>0, <1>2, <2>1, <2>2 DEF NewStep, OnlyRow, SameRow, TableInv, RowsInOrder, Tasks
  <2>5. Lasting
    BY <1>2, <2>3 DEF OnlyRow, SameRow, Lasting, Terminal
  <2>. QED BY <2>1, <2>2, <2>3, <2>4, <2>5
<1>3. CASE RootStep
  <2>1. OneSuccessor'
    BY <1>0, <1>2, <1>3 DEF RootStep, OnlyRow, SameRow, TableInv, OneSuccessor
  <2>2. ChildShape'
    BY <1>0, <1>2, <1>3, <1>b, ChildCase DEF RootStep, OnlyRow, SameRow
  <2>. QED BY <1>2, <1>3, <2>1, <2>2 DEF TableInv, RootStep
<1>4. ASSUME NEW t \in Tasks, NEW s, NEW b, Active(t), StatusStep(t, s, b),
             s \in Terminal \cup {"running"}
      PROVE  TableInv' /\ Lasting
  <2>1. RowsInOrder'
    BY <1>4 DEF StatusStep, OnlyRow, SameRow, Active, TableInv, RowsInOrder, Terminal
  <2>2. Lasting
    BY <1>4 DEF StatusStep, OnlyRow, SameRow, Active, Lasting, Terminal
  <2>3. \A c \in Tasks : /\ row'[c].parent = row[c].parent /\ row'[c].attempt = row[c].attempt
                         /\ c # t => row'[c].status = row[c].status /\ row'[c].by = row[c].by
    BY <1>4 DEF StatusStep, OnlyRow, SameRow
  <2>4. OneSuccessor'
    BY <2>3 DEF TableInv, OneSuccessor
  <2>5. \A c \in Tasks : row[c].parent # t
    BY <1>b, <1>4 DEF Active
  <2>6. ChildShape'
    BY <1>b, <2>3, <2>5, ChildCase
  <2>. QED BY <2>1, <2>2, <2>4, <2>6 DEF TableInv
<1>5. ASSUME NEW t \in Tasks, RetryStep(t) PROVE TableInv' /\ Lasting
  <2>1. \A c \in Tasks : row[c].parent # t
    BY <1>b, <1>5 DEF RetryStep, Duplicate
  <2>2. OneSuccessor'
    BY <1>2, <1>5, <2>1 DEF RetryStep, OnlyRow, SameRow, TableInv, OneSuccessor
  <2>3. ChildShape'
    BY <1>2, <1>5, <1>b, ChildCase DEF RetryStep, OnlyRow, SameRow
  <2>. QED BY <1>2, <1>5, <2>2, <2>3 DEF TableInv, RetryStep
<1>6. ASSUME NEW t \in Tasks, InterruptStep(t) PROVE TableInv' /\ Lasting
  <2>1. created + 1 \in Tasks
    BY <1>0, <1>6 DEF InterruptStep, NewStep, Tasks
  <2>2. /\ row'[created + 1].status = "queued" /\ row'[created + 1].attempt = row[t].attempt
        /\ row'[created + 1].parent = t /\ created' = created + 1
    BY <1>6 DEF InterruptStep, NewStep, NewRow
  <2>3. row[created + 1].status = "absent" /\ t # created + 1
    BY <1>0, <1>6, <2>1 DEF InterruptStep, Active, TableInv, RowsInOrder
  <2>4. RowsInOrder'
    BY <1>0, <1>6, <2>1, <2>2, <2>3 DEF InterruptStep, Active, SameRow, TableInv, RowsInOrder, Tasks
  <2>5. Lasting
    BY <1>6, <2>3 DEF InterruptStep, Active, SameRow, Lasting, Terminal
  <2>6. \A c \in Tasks : row[c].parent # t
    BY <1>b, <1>6 DEF InterruptStep, Active
  <2>7. \A c \in Tasks : c # created + 1 => row'[c].parent = row[c].parent /\ row'[c].attempt = row[c].attempt
    BY <1>6 DEF InterruptStep, SameRow
  <2>8. OneSuccessor'
    BY <2>2, <2>6, <2>7 DEF TableInv, OneSuccessor
  <2>9. \A c \in Tasks \ {t, created + 1} : row'[c].status = row[c].status /\ row'[c].by = row[c].by
    BY <1>6 DEF InterruptStep, SameRow
  <2>10. row'[t].status = "failed" /\ row'[t].by = "shutdown" /\ row'[t].attempt = row[t].attempt
    BY <1>6 DEF InterruptStep
  <2>11. ChildShape'
    BY <1>b, <2>2, <2>3, <2>6, <2>7, <2>9, <2>10, ChildCase
  <2>. QED BY <2>4, <2>5, <2>8, <2>11 DEF TableInv
<1>7. ASSUME NEW t \in Tasks, RunStep(t) \/ EndStep(t) PROVE TableInv' /\ Lasting
  BY <1>4, <1>7 DEF RunStep, EndStep, Active
<1>. QED BY <1>1, <1>3, <1>5, <1>6, <1>7 DEF TableStep

---------------------------------------------------------------------------
(* The statements that write the table.                                    *)

LEMMA EndedRow ==
  ASSUME TypeOK, NEW t \in Tasks, Active(t), NEW s \in Terminal, NEW b \in Writers,
         row' = Ended(row, t, s, b), created' = created
  PROVE  row' \in [Tasks -> Row] /\ TableStep /\ row'[t].status = s /\ row'[t].by = b
<1>1. row' = [row EXCEPT ![t] = [row[t] EXCEPT !.status = s, !.by = b]]
  BY DEF Ended
<1>2. row[t] \in Row /\ row \in [Tasks -> Row]
  BY DEF TypeOK
<1>3. row' \in [Tasks -> Row]
  BY <1>1, <1>2 DEF Row, Statuses
<1>4. StatusStep(t, s, b)
  BY <1>1, <1>2 DEF StatusStep, OnlyRow, SameRow, Row
<1>. QED BY <1>3, <1>4 DEF TableStep, EndStep, StatusStep

LEMMA ClaimedRow ==
  ASSUME TypeOK, NEW t \in Tasks, NEW w \in Workers, row[t].status = "queued",
         row' = Claimed(t, w), created' = created
  PROVE  row' \in [Tasks -> Row] /\ TableStep /\ row'[t].status = "running"
<1>1. row' = [row EXCEPT ![t] = [row[t] EXCEPT !.status = "running", !.owner = w, !.stale = FALSE]]
  BY DEF Claimed
<1>2. row[t] \in Row /\ row \in [Tasks -> Row]
  BY DEF TypeOK
<1>3. row' \in [Tasks -> Row]
  BY <1>1, <1>2 DEF Row, Statuses
<1>4. StatusStep(t, "running", row[t].by)
  BY <1>1, <1>2 DEF StatusStep, OnlyRow, SameRow, Row
<1>. QED BY <1>3, <1>4 DEF TableStep, RunStep, StatusStep

LEMMA ReleasedRow ==
  ASSUME TypeOK, NEW t \in Tasks, NEW w, row' = Released(t, w), created' = created
  PROVE  row' \in [Tasks -> Row] /\ TableStep
<1>2. row[t] \in Row /\ row \in [Tasks -> Row]
  BY DEF TypeOK
<1>3. row' \in [Tasks -> Row] /\ QuietStep
  BY <1>2 DEF Released, Row, QuietStep, SameRow
<1>. QED BY <1>3 DEF TableStep

\* A new row beside a table f whose rows are typed.
LEMMA InsertedRow ==
  ASSUME TypeOK, NEW f \in [Tasks -> Row], NEW a \in 0..MaxAttempts, NEW i \in 0..MaxInfra,
         NEW p \in 0..MaxTasks, Insert(f, a, i, p)
  PROVE  /\ row' \in [Tasks -> Row] /\ created' \in 0..MaxTasks /\ NewStep(a, i, p)
         /\ \A u \in Tasks \ {created + 1} : row'[u] = f[u]
         /\ created + 1 \in Tasks
<1>1. created + 1 \in Tasks /\ created' \in 0..MaxTasks
  BY SizesAssumption DEF TypeOK, Insert, Tasks
<1>2. NewRow("queued", a, i, p) \in Row
  BY DEF NewRow, Row, Statuses, Writers
<1>. QED BY <1>1, <1>2 DEF Insert, NewStep

LEMMA RetriedRow ==
  ASSUME TypeOK, NEW t \in Tasks, row[t].status \in {"failed", "timed_out"},
         row[t].by # "shutdown", row[t].attempt < MaxAttempts,
         ~Duplicate(t, row[t].attempt + 1), Insert(row, row[t].attempt + 1, 0, t)
  PROVE  /\ row' \in [Tasks -> Row] /\ created' \in 0..MaxTasks /\ TableStep
         /\ created + 1 \in Tasks
<1>1. row[t].attempt + 1 \in 0..MaxAttempts /\ 0 \in 0..MaxInfra /\ t \in 0..MaxTasks
  BY RowFields, SizesAssumption DEF Tasks
<1>2. row \in [Tasks -> Row]
  BY DEF TypeOK
<1>3. /\ row' \in [Tasks -> Row] /\ created' \in 0..MaxTasks /\ NewStep(row[t].attempt + 1, 0, t)
      /\ \A u \in Tasks \ {created + 1} : row'[u] = row[u]
      /\ created + 1 \in Tasks
  BY <1>1, <1>2, InsertedRow
<1>. QED BY <1>3 DEF TableStep, RetryStep, OnlyRow, SameRow

LEMMA InterruptedRow ==
  ASSUME TypeOK, TableInv, NEW t \in Tasks, FinalizedWithRetry(t)
  PROVE  row' \in [Tasks -> Row] /\ created' \in 0..MaxTasks /\ TableStep
<1> DEFINE done == Ended(row, t, "failed", "shutdown")
<1>1. ~Duplicate(t, row[t].attempt)
  <2> SUFFICES ASSUME NEW c \in Tasks, row[c].parent = t PROVE FALSE
    BY DEF Duplicate
  <2>1. row[c].parent # 0
    BY DEF Tasks
  <2>2. row[t].status \in {"failed", "timed_out"}
    BY <2>1 DEF TableInv, ChildShape
  <2>. QED BY <2>2 DEF FinalizedWithRetry, Active
<1>2. Insert(done, row[t].attempt, row[t].infra + 1, t)
  BY <1>1 DEF FinalizedWithRetry
<1>3. /\ row[t].attempt \in 0..MaxAttempts /\ row[t].infra + 1 \in 0..MaxInfra
      /\ t \in 0..MaxTasks
  BY RowFields, SizesAssumption DEF FinalizedWithRetry, InfraLeft, Tasks
<1>4. row[t] \in Row /\ row \in [Tasks -> Row]
  BY DEF TypeOK
<1>5. done = [row EXCEPT ![t] = [row[t] EXCEPT !.status = "failed", !.by = "shutdown"]]
  BY DEF Ended
<1> HIDE DEF done
<1>6. done \in [Tasks -> Row]
  <2>1. [row[t] EXCEPT !.status = "failed", !.by = "shutdown"] \in Row
    BY <1>4 DEF Row, Statuses, Terminal, Writers
  <2>. QED BY <1>4, <1>5, <2>1
<1>7. /\ row' \in [Tasks -> Row] /\ created' \in 0..MaxTasks
      /\ NewStep(row[t].attempt, row[t].infra + 1, t)
      /\ \A u \in Tasks \ {created + 1} : row'[u] = done[u]
  BY <1>2, <1>3, <1>6, InsertedRow
<1>8. t # created + 1
  BY DEF FinalizedWithRetry, Active, TableInv, RowsInOrder, TypeOK
<1>9. InterruptStep(t)
  BY <1>4, <1>5, <1>7, <1>8 DEF InterruptStep, FinalizedWithRetry, InfraLeft, SameRow, Row
<1>. QED BY <1>7, <1>9 DEF TableStep

\* An untouched table.
LEMMA SameTable ==
  ASSUME TypeOK, row' = row, created' = created
  PROVE  row' \in [Tasks -> Row] /\ created' \in 0..MaxTasks /\ TableStep
  BY DEF TypeOK, TableStep, QuietStep, SameRow

---------------------------------------------------------------------------
(* The deliveries.                                                         *)

\* TypeOK without the table.
WorkOK ==
  /\ call \in [Tasks -> {"none", "enqueue", "compensate"}]
  /\ msgs \in [Tasks -> Nat]
  /\ tried \in [Tasks -> {"no", "delivered", "given_up"}]
  /\ slot \in [Slots -> Slot]
  /\ registered \in [Workers -> SUBSET Tasks]
  /\ key \in [Tasks -> Slots \cup {NoKey, Orphan}]
  /\ pending \in [Workers -> SUBSET Tasks]
  /\ reap \in [Workers -> SUBSET Tasks]
  /\ owed \in [Workers -> 0..MaxTasks]
  /\ life \in [Workers -> {"up", "draining", "finalizing"}]
  /\ fin \in [Workers -> SUBSET Tasks]
  /\ faults \in 0..MaxFaults

\* Delivery d does not come to execute, to end or to retry.
Calm(d) ==
  /\ slot'[d].pc = "idle" <=> slot'[d].task = 0
  /\ slot'[d].pc \in Exec => /\ slot'[d].pc = slot[d].pc /\ slot'[d].task = slot[d].task
                             /\ slot'[d].out = slot[d].out

AllCalm == \A d \in Slots : Calm(d)

\* The reapers owe nothing new but what they failed.
OwedCalm ==
  \A w \in Workers : \/ owed'[w] \in {0, owed[w]}
                     \/ row'[owed'[w]].status = "failed" /\ row'[owed'[w]].by = "reaper"

\* A delivery at work has a task.
LEMMA SlotTask ==
  ASSUME IInv, NEW d \in Slots
  PROVE  /\ slot[d] \in Slot /\ d[1] \in Workers
         /\ slot[d].pc # "idle" => slot[d].task \in Tasks
<1>1. slot[d] \in Slot
  BY DEF IInv, TypeOK
<1>2. slot[d].pc # "idle" => slot[d].task # 0
  BY DEF IInv, SlotShape
<1>3. slot[d].task \in 0..MaxTasks
  BY <1>1 DEF Slot
<1>. QED BY <1>1, <1>2, <1>3, SizesAssumption DEF Slots, Tasks

\* The reaper's debt is a task.
LEMMA OwedTask ==
  ASSUME IInv, NEW w \in Workers, owed[w] # 0
  PROVE  owed[w] \in Tasks
<1>1. owed[w] \in 0..MaxTasks
  BY DEF IInv, TypeOK
<1>. QED BY <1>1, SizesAssumption DEF Tasks

LEMMA OwedKept ==
  ASSUME IInv, Lasting, OwedCalm
  PROVE  OwedShape'
<1> SUFFICES ASSUME NEW w \in Workers, owed'[w] # 0
             PROVE  row'[owed'[w]].status = "failed" /\ row'[owed'[w]].by = "reaper"
  BY DEF OwedShape
<1> SUFFICES ASSUME owed'[w] = owed[w]
             PROVE  row'[owed'[w]].status = "failed" /\ row'[owed'[w]].by = "reaper"
  BY DEF OwedCalm
<1>1. owed'[w] = owed[w] /\ owed[w] # 0
  OBVIOUS
<1>2. owed[w] \in Tasks /\ row[owed[w]].status = "failed" /\ row[owed[w]].by = "reaper"
  BY <1>1, OwedTask DEF IInv, OwedShape
<1>. QED BY <1>1, <1>2 DEF Lasting, Terminal

\* A calm delivery keeps what its phase says.
LEMMA SlotsKept ==
  ASSUME IInv, Lasting, NEW d \in Slots, Calm(d)
  PROVE  /\ slot'[d].pc = "idle" <=> slot'[d].task = 0
         /\ slot'[d].pc = "ended" => slot'[d].out \in Outcomes
         /\ slot'[d].pc \in Exec => row'[slot'[d].task].status \notin {"absent", "queued"}
         /\ slot'[d].pc = "retry" => /\ row'[slot'[d].task].status \in {"failed", "timed_out"}
                                     /\ row'[slot'[d].task].by = "worker"
<1>1. CASE slot'[d].pc \in Exec
  <2>1. slot'[d].pc = slot[d].pc /\ slot'[d].task = slot[d].task /\ slot'[d].out = slot[d].out
    BY <1>1 DEF Calm
  <2>2. slot[d].task \in Tasks
    BY <1>1, <2>1, SlotTask DEF Exec
  <2>3. /\ slot[d].pc = "ended" => slot[d].out \in Outcomes
        /\ slot[d].pc \in Exec => row[slot[d].task].status \notin {"absent", "queued"}
        /\ slot[d].pc = "retry" => /\ row[slot[d].task].status \in {"failed", "timed_out"}
                                   /\ row[slot[d].task].by = "worker"
    BY DEF IInv, SlotShape
  <2>. QED BY <1>1, <2>1, <2>2, <2>3 DEF Calm, Lasting, Terminal, Exec
<1>2. CASE slot'[d].pc \notin Exec
  BY <1>2 DEF Calm, Exec
<1>. QED BY <1>1, <1>2

\* A step whose deliveries are calm.
LEMMA CalmStep ==
  ASSUME IInv, row' \in [Tasks -> Row], created' \in 0..MaxTasks, TableStep, WorkOK',
         AllCalm, OwedCalm
  PROVE  IInv' /\ TableStep
<1>1. TypeOK'
  BY DEF TypeOK, WorkOK
<1>2. TableInv' /\ Lasting
  BY <1>1, TableStepInv DEF IInv
<1>3. OwedShape'
  BY <1>2, OwedKept
<1>4. SlotShape'
  BY <1>2, SlotsKept DEF SlotShape, AllCalm
<1>5. ExecutedOnce'
  BY DEF IInv, ExecutedOnce, AllCalm, Calm, Exec
<1>. QED BY <1>1, <1>2, <1>3, <1>4, <1>5 DEF IInv

\* A delivery that goes on to a phase without duties.
LEMMA GoesCalm ==
  ASSUME IInv, NEW d \in Slots, slot[d].pc # "idle", NEW p \in Phases \ (Exec \cup {"idle"}),
         NEW o \in {"none", "fenced", "unfenced"} \cup Outcomes,
         slot' = [slot EXCEPT ![d].pc = p, ![d].out = o] \/ Goes(d, p)
  PROVE  slot' \in [Slots -> Slot] /\ AllCalm
<1>1. slot[d] \in Slot /\ slot \in [Slots -> Slot]
  BY DEF IInv, TypeOK
<1>2. \E q \in {"none", "fenced", "unfenced"} \cup Outcomes :
         slot' = [slot EXCEPT ![d] = [slot[d] EXCEPT !.pc = p, !.out = q]]
  <2>1. CASE slot' = [slot EXCEPT ![d].pc = p, ![d].out = o]
    BY <2>1
  <2>2. CASE Goes(d, p)
    BY <1>1, <2>2 DEF Goes, Slot
  <2>. QED BY <2>1, <2>2
<1>3. PICK q \in {"none", "fenced", "unfenced"} \cup Outcomes :
         slot' = [slot EXCEPT ![d] = [slot[d] EXCEPT !.pc = p, !.out = q]]
  BY <1>2
<1>4. slot' \in [Slots -> Slot]
  <2>1. [slot[d] EXCEPT !.pc = p, !.out = q] \in Slot
    BY <1>1 DEF Slot
  <2>. QED BY <1>1, <1>3, <2>1
<1>5. slot'[d].pc = p /\ slot'[d].task = slot[d].task /\ \A e \in Slots \ {d} : slot'[e] = slot[e]
  BY <1>1, <1>3 DEF Slot
<1>6. \A e \in Slots : slot[e].pc = "idle" <=> slot[e].task = 0
  BY DEF IInv, SlotShape
<1>. QED BY <1>4, <1>5, <1>6 DEF AllCalm, Calm, Exec

\* A delivery that ends.
LEMMA LeaveCalm ==
  ASSUME IInv, NEW d \in Slots, NEW m \in [Tasks -> Nat], Leave(d, m)
  PROVE  /\ slot' \in [Slots -> Slot] /\ AllCalm /\ msgs' \in [Tasks -> Nat]
         /\ key' \in [Tasks -> Slots \cup {NoKey, Orphan}]
<1>1. IdleSlot \in Slot /\ IdleSlot.pc = "idle" /\ IdleSlot.task = 0
  BY SizesAssumption DEF IdleSlot, Slot, Phases
<1>2. slot \in [Slots -> Slot] /\ key \in [Tasks -> Slots \cup {NoKey, Orphan}]
  BY DEF IInv, TypeOK
<1>3. slot' = [slot EXCEPT ![d] = IdleSlot]
  BY DEF Leave
<1>4. \A e \in Slots : slot[e].pc = "idle" <=> slot[e].task = 0
  BY DEF IInv, SlotShape
<1>5. AllCalm
  BY <1>1, <1>2, <1>3, <1>4 DEF AllCalm, Calm, Exec
<1>6. key' \in [Tasks -> Slots \cup {NoKey, Orphan}]
  BY <1>2 DEF Leave
<1>. QED BY <1>1, <1>2, <1>3, <1>5, <1>6 DEF Leave

LEMMA BackType ==
  ASSUME IInv, NEW d \in Slots, slot[d].pc # "idle"
  PROVE  Back(d) \in [Tasks -> Nat] /\ msgs \in [Tasks -> Nat]
<1>1. msgs \in [Tasks -> Nat] /\ slot[d].task \in Tasks
  BY SlotTask DEF IInv, TypeOK
<1>2. msgs[slot[d].task] + 1 \in Nat
  BY <1>1
<1>. QED BY <1>1, <1>2 DEF Back

LEMMA FaultType ==
  ASSUME IInv, NoFault \/ Fault
  PROVE  faults' \in 0..MaxFaults
  BY SizesAssumption DEF IInv, TypeOK, NoFault, Fault

LEMMA SameSlots ==
  ASSUME IInv, slot' = slot
  PROVE  slot' \in [Slots -> Slot] /\ AllCalm
  BY DEF IInv, TypeOK, SlotShape, AllCalm, Calm

---------------------------------------------------------------------------
(* One lemma per action, in the order of the specification.                *)

LEMMA StartInv ==
  ASSUME IInv, start
  PROVE  IInv' /\ TableStep
<1>1. row \in [Tasks -> Row] /\ 0 \in 0..MaxAttempts /\ 0 \in 0..MaxInfra /\ 0 \in 0..MaxTasks
  BY SizesAssumption DEF IInv, TypeOK
<1>2. /\ row' \in [Tasks -> Row] /\ created' \in 0..MaxTasks /\ NewStep(0, 0, 0)
      /\ \A u \in Tasks \ {created + 1} : row'[u] = row[u]
      /\ created + 1 \in Tasks
  BY <1>1, InsertedRow DEF start, IInv
<1>3. TableStep
  BY <1>2 DEF TableStep, RootStep, OnlyRow, SameRow
<1>4. WorkOK'
  BY <1>2, FaultType DEF IInv, TypeOK, WorkOK, start, workerVars
<1>5. AllCalm /\ OwedCalm
  BY SameSlots DEF start, workerVars, OwedCalm
<1>. QED BY <1>2, <1>3, <1>4, <1>5, CalmStep

LEMMA EnqueueInv ==
  ASSUME IInv, NEW t \in Tasks, enqueue(t)
  PROVE  IInv' /\ TableStep
<1>1. WorkOK'
  BY FaultType DEF IInv, TypeOK, WorkOK, enqueue, workerVars
<1>2. AllCalm /\ OwedCalm
  BY SameSlots DEF enqueue, workerVars, OwedCalm
<1>3. row' \in [Tasks -> Row] /\ created' \in 0..MaxTasks /\ TableStep
  BY SameTable DEF IInv, enqueue
<1>. QED BY <1>1, <1>2, <1>3, CalmStep

LEMMA FailIfQueuedInv ==
  ASSUME IInv, NEW t \in Tasks, fail_if_queued(t)
  PROVE  IInv' /\ TableStep
<1>1. WorkOK'
  BY FaultType DEF IInv, TypeOK, WorkOK, fail_if_queued, workerVars
<1>2. AllCalm /\ OwedCalm
  BY SameSlots DEF fail_if_queued, workerVars, OwedCalm
<1>3. "failed" \in Terminal /\ "other" \in Writers
  BY DEF Terminal, Writers
<1>4. row' \in [Tasks -> Row] /\ TableStep
  BY <1>3, SameTable, EndedRow DEF IInv, fail_if_queued, Active
<1>5. created' \in 0..MaxTasks
  BY DEF IInv, TypeOK, fail_if_queued
<1>. QED BY <1>1, <1>2, <1>4, <1>5, CalmStep

LEMMA CancelInv ==
  ASSUME IInv, NEW t \in Tasks, cancel(t)
  PROVE  IInv' /\ TableStep
<1>1. WorkOK'
  BY DEF IInv, TypeOK, WorkOK, cancel, workerVars
<1>2. AllCalm /\ OwedCalm
  BY SameSlots DEF cancel, workerVars, OwedCalm
<1>3. "cancelled" \in Terminal /\ "user" \in Writers
  BY DEF Terminal, Writers
<1>4. row' \in [Tasks -> Row] /\ TableStep
  BY <1>3, EndedRow DEF IInv, cancel
<1>5. created' \in 0..MaxTasks
  BY DEF IInv, TypeOK, cancel
<1>. QED BY <1>1, <1>2, <1>4, <1>5, CalmStep

LEMMA DeliverInv ==
  ASSUME IInv, NEW d \in Slots, NEW t \in Tasks, deliver(d, t)
  PROVE  IInv' /\ TableStep
<1> DEFINE s == [task |-> t, pc |-> "claimed", held |-> TRUE, out |-> "none"]
<1>1. s \in Slot /\ s.pc \notin Exec \cup {"idle"} /\ s.task # 0
  BY DEF Slot, Phases, Tasks, Exec
<1>2. slot' = [slot EXCEPT ![d] = s]
  BY DEF deliver
<1> HIDE DEF s
<1>3. slot' \in [Slots -> Slot]
  BY <1>1, <1>2 DEF IInv, TypeOK
<1>4. AllCalm
  BY <1>1, <1>2 DEF IInv, TypeOK, SlotShape, AllCalm, Calm
<1>5. WorkOK'
  BY <1>3 DEF IInv, TypeOK, WorkOK, deliver, workerVars
<1>6. row' \in [Tasks -> Row] /\ created' \in 0..MaxTasks /\ TableStep /\ OwedCalm
  BY SameTable DEF IInv, deliver, workerVars, OwedCalm
<1>. QED BY <1>4, <1>5, <1>6, CalmStep

\* What the actions of a delivery that leave the table alone share.
LEMMA QuietDelivery ==
  ASSUME IInv, NEW d \in Slots,
         slot' \in [Slots -> Slot], AllCalm, msgs' \in [Tasks -> Nat],
         key' \in [Tasks -> Slots \cup {NoKey, Orphan}],
         registered' \in [Workers -> SUBSET Tasks], NoFault \/ Fault,
         UNCHANGED <<row, created, call, tried, workerVars>>
  PROVE  IInv' /\ TableStep
<1>1. WorkOK'
  BY FaultType DEF IInv, TypeOK, WorkOK, workerVars
<1>2. row' \in [Tasks -> Row] /\ created' \in 0..MaxTasks /\ TableStep /\ OwedCalm
  BY SameTable DEF IInv, workerVars, OwedCalm
<1>. QED BY <1>1, <1>2, CalmStep

\* A delivery that ends or goes on calmly.
Passes(d) ==
  \/ Ack(d) \/ Defer(d)
  \/ \E p \in Phases \ (Exec \cup {"idle"}) : Goes(d, p) /\ UNCHANGED <<msgs, key>>

LEMMA PassesCalm ==
  ASSUME IInv, NEW d \in Slots, slot[d].pc # "idle", Passes(d)
  PROVE  /\ slot' \in [Slots -> Slot] /\ AllCalm /\ msgs' \in [Tasks -> Nat]
         /\ key' \in [Tasks -> Slots \cup {NoKey, Orphan}]
<1>1. CASE Ack(d) \/ Defer(d)
  BY <1>1, LeaveCalm, BackType DEF Ack, Defer
<1>2. ASSUME NEW p \in Phases \ (Exec \cup {"idle"}), Goes(d, p), UNCHANGED <<msgs, key>>
      PROVE  /\ slot' \in [Slots -> Slot] /\ AllCalm /\ msgs' \in [Tasks -> Nat]
             /\ key' \in [Tasks -> Slots \cup {NoKey, Orphan}]
  BY <1>2, GoesCalm DEF IInv, TypeOK
<1>. QED BY <1>1, <1>2 DEF Passes

LEMMA LoadInv ==
  ASSUME IInv, NEW d \in Slots, load_task_for_execution(d)
  PROVE  IInv' /\ TableStep
<1>1. Passes(d) /\ slot[d].pc # "idle"
  BY DEF load_task_for_execution, Passes, Phases, Exec
<1>2. registered' \in [Workers -> SUBSET Tasks]
  BY DEF load_task_for_execution, IInv, TypeOK
<1>3. (NoFault \/ Fault) /\ UNCHANGED <<row, created, call, tried, workerVars>>
  BY DEF load_task_for_execution
<1>. QED BY <1>1, <1>2, <1>3, PassesCalm, QuietDelivery

LEMMA ShouldExecuteInv ==
  ASSUME IInv, NEW d \in Slots, task_message_should_execute(d)
  PROVE  IInv' /\ TableStep
<1>1. Passes(d) /\ slot[d].pc # "idle" /\ slot[d].task \in Tasks
  BY SlotTask DEF task_message_should_execute, Passes
<1>2. WorkOK' /\ AllCalm
  BY <1>1, PassesCalm, FaultType DEF IInv, TypeOK, WorkOK, task_message_should_execute, workerVars
<1>3. row' \in [Tasks -> Row] /\ TableStep
  BY <1>1, SameTable, ReleasedRow DEF IInv, task_message_should_execute
<1>4. created' \in 0..MaxTasks /\ OwedCalm
  BY DEF IInv, TypeOK, task_message_should_execute, OwedCalm, workerVars
<1>. QED BY <1>2, <1>3, <1>4, CalmStep

LEMMA RegisterInv ==
  ASSUME IInv, NEW d \in Slots, try_register_task(d)
  PROVE  IInv' /\ TableStep
<1>1. Passes(d) /\ slot[d].pc # "idle" /\ slot[d].task \in Tasks /\ d[1] \in Workers
  BY SlotTask DEF try_register_task, Passes, Phases, Exec
<1>2. registered' \in [Workers -> SUBSET Tasks]
  BY <1>1 DEF try_register_task, IInv, TypeOK
<1>3. NoFault /\ UNCHANGED <<row, created, call, tried, workerVars>>
  BY DEF try_register_task, NoFault
<1>. QED BY <1>1, <1>2, <1>3, PassesCalm, QuietDelivery

LEMMA UnregisterType ==
  ASSUME IInv, NEW w \in Workers, NEW t, unregister_task(w, t)
  PROVE  registered' \in [Workers -> SUBSET Tasks]
  BY DEF IInv, TypeOK, unregister_task

LEMMA AcquireInv ==
  ASSUME IInv, NEW d \in Slots, try_acquire(d)
  PROVE  IInv' /\ TableStep
<1>1. slot[d].pc # "idle" /\ slot[d].task \in Tasks /\ d[1] \in Workers
  BY SlotTask DEF try_acquire
<1>2. registered' \in [Workers -> SUBSET Tasks]
  BY <1>1, UnregisterType DEF try_acquire, IInv, TypeOK
<1>3. (NoFault \/ Fault) /\ UNCHANGED <<row, created, call, tried, workerVars>>
  BY DEF try_acquire
<1>4. /\ slot' \in [Slots -> Slot] /\ AllCalm /\ msgs' \in [Tasks -> Nat]
      /\ key' \in [Tasks -> Slots \cup {NoKey, Orphan}]
  <2>1. CASE Goes(d, "leased") /\ UNCHANGED msgs /\ (UNCHANGED key \/ key' = [key EXCEPT ![slot[d].task] = d])
    <3>1. "leased" \in Phases \ (Exec \cup {"idle"})
      BY DEF Phases, Exec
    <3>2. slot' \in [Slots -> Slot] /\ AllCalm
      BY <1>1, <2>1, <3>1, GoesCalm
    <3>. QED BY <1>1, <2>1, <3>2 DEF IInv, TypeOK
  <2>2. CASE Ack(d)
    BY <1>1, <2>2, LeaveCalm, BackType DEF Ack
  <2>3. CASE /\ slot' = [slot EXCEPT ![d] = IdleSlot] /\ msgs' = Back(d)
             /\ \E k \in {key[slot[d].task], Orphan} :
                  key' = IF key[slot[d].task] = NoKey THEN [key EXCEPT ![slot[d].task] = k] ELSE key
    <3>1. IdleSlot \in Slot /\ IdleSlot.pc = "idle" /\ IdleSlot.task = 0
      BY SizesAssumption DEF IdleSlot, Slot, Phases
    <3>2. slot' \in [Slots -> Slot] /\ AllCalm
      BY <2>3, <3>1 DEF IInv, TypeOK, SlotShape, AllCalm, Calm, Exec
    <3>3. key' \in [Tasks -> Slots \cup {NoKey, Orphan}]
      BY <1>1, <2>3 DEF IInv, TypeOK
    <3>. QED BY <1>1, <2>3, <3>2, <3>3, BackType
  <2>. QED BY <2>1, <2>2, <2>3 DEF try_acquire
<1>. QED BY <1>2, <1>3, <1>4, QuietDelivery

\* The claim: the row was queued, so no other delivery executes the task.
LEMMA ClaimStarts ==
  ASSUME IInv, NEW d \in Slots, slot[d].pc = "leased", row[slot[d].task].status = "queued",
         row' = Claimed(slot[d].task, d[1]), Goes(d, "running"),
         UNCHANGED <<created, call, msgs, tried, registered, key, workerVars, faults>>
  PROVE  IInv' /\ TableStep
<1> DEFINE t == slot[d].task
<1>1. t \in Tasks /\ d[1] \in Workers /\ slot[d] \in Slot /\ slot \in [Slots -> Slot]
  BY SlotTask DEF IInv, TypeOK
<1>2. row' \in [Tasks -> Row] /\ TableStep /\ row'[t].status = "running"
  BY <1>1, ClaimedRow DEF IInv
<1>3. slot' = [slot EXCEPT ![d] = [slot[d] EXCEPT !.pc = "running"]]
  BY DEF Goes
<1>4. slot' \in [Slots -> Slot]
  <2>1. [slot[d] EXCEPT !.pc = "running"] \in Slot
    BY <1>1 DEF Slot, Phases
  <2>. QED BY <1>1, <1>3, <2>1
<1>5. slot'[d].pc = "running" /\ slot'[d].task = t /\ \A e \in Slots \ {d} : slot'[e] = slot[e]
  BY <1>1, <1>3 DEF Slot
<1>6. TypeOK'
  BY <1>2, <1>4 DEF IInv, TypeOK, workerVars
<1>7. TableInv' /\ Lasting
  BY <1>2, <1>6, TableStepInv DEF IInv
<1>8. OwedShape'
  BY <1>7, OwedKept DEF OwedCalm, workerVars
<1>9. SlotShape'
  <2>1. \A e \in Slots \ {d} : Calm(e)
    BY <1>5 DEF IInv, SlotShape, Calm
  <2>2. t # 0
    BY <1>1 DEF Tasks
  <2>. QED BY <1>2, <1>5, <1>7, <2>1, <2>2, SlotsKept DEF SlotShape, Exec
<1>10. ExecutedOnce'
  <2>1. \A e \in Slots : slot[e].pc \in {"running", "ended", "retry"} => slot[e].task # t
    BY DEF IInv, SlotShape, Exec
  <2>. QED BY <1>5, <2>1 DEF IInv, ExecutedOnce
<1>. QED BY <1>2, <1>6, <1>7, <1>8, <1>9, <1>10 DEF IInv

LEMMA ClaimInv ==
  ASSUME IInv, NEW d \in Slots, claim_task_for_execution(d)
  PROVE  IInv' /\ TableStep
<1> DEFINE t == slot[d].task
<1>1. slot[d].pc # "idle" /\ t \in Tasks /\ d[1] \in Workers
  BY SlotTask DEF claim_task_for_execution
<1>2. CASE NoFault /\ Claimable(t) /\ row' = Claimed(t, d[1]) /\ Goes(d, "running")
           /\ UNCHANGED <<msgs, key, registered>>
  <2>1. UNCHANGED <<created, call, msgs, tried, registered, key, workerVars, faults>>
    BY <1>2 DEF claim_task_for_execution, NoFault
  <2>. QED BY <1>2, <2>1, ClaimStarts DEF claim_task_for_execution, Claimable
<1>3. CASE \E p \in {"returned", "refused"} : (NoFault \/ Fault) /\ Goes(d, p)
             /\ UNCHANGED <<row, msgs, key, registered>>
  <2>1. Passes(d)
    BY <1>3 DEF Passes, Phases, Exec
  <2>2. UNCHANGED <<row, created, call, tried, workerVars>> /\ registered' \in [Workers -> SUBSET Tasks]
    BY <1>3 DEF claim_task_for_execution, IInv, TypeOK
  <2>. QED BY <1>1, <1>3, <2>1, <2>2, PassesCalm, QuietDelivery
<1>4. CASE /\ Fault
           /\ row' \in {row} \cup (IF Claimable(t) THEN {Claimed(t, d[1])} ELSE {})
           /\ Defer(d) /\ unregister_task(d[1], t)
  <2>1. Passes(d)
    BY <1>4 DEF Passes
  <2>2. WorkOK' /\ AllCalm /\ created' \in 0..MaxTasks /\ OwedCalm
    BY <1>1, <1>4, <2>1, PassesCalm, FaultType, UnregisterType
       DEF claim_task_for_execution, IInv, TypeOK, WorkOK, workerVars, OwedCalm
  <2>3. row' \in [Tasks -> Row] /\ TableStep
    BY <1>1, <1>4, SameTable, ClaimedRow DEF IInv, Claimable, claim_task_for_execution
  <2>. QED BY <2>2, <2>3, CalmStep
<1>. QED BY <1>2, <1>3, <1>4 DEF claim_task_for_execution

\* A write that ends an active row leaves a typed table.
LEMMA EndedIfActiveRow ==
  ASSUME IInv, NEW t \in Tasks, NEW b \in Writers,
         row' = EndedIfActive(t, "failed", b), created' = created
  PROVE  row' \in [Tasks -> Row] /\ TableStep
<1>1. "failed" \in Terminal
  BY DEF Terminal
<1>. QED BY <1>1, SameTable, EndedRow DEF IInv, EndedIfActive

LEMMA RefusedInv ==
  ASSUME IInv, NEW d \in Slots, fail_refused_task(d)
  PROVE  IInv' /\ TableStep
<1>1. slot[d].pc # "idle" /\ slot[d].task \in Tasks
  BY SlotTask DEF fail_refused_task
<1>2. Passes(d)
  BY DEF fail_refused_task, Passes, Phases, Exec
<1>3. WorkOK' /\ AllCalm /\ created' \in 0..MaxTasks /\ OwedCalm
  BY <1>1, <1>2, PassesCalm, FaultType
     DEF fail_refused_task, IInv, TypeOK, WorkOK, workerVars, OwedCalm
<1>4. row' \in [Tasks -> Row] /\ TableStep
  BY <1>1, SameTable, EndedIfActiveRow DEF IInv, fail_refused_task, Writers
<1>. QED BY <1>3, <1>4, CalmStep

\* Delivery d goes on executing, with what its new phase says of the row.
LEMMA ExecStep ==
  ASSUME IInv, NEW d \in Slots, slot[d].pc \in Exec,
         NEW p \in Phases \ {"idle"}, NEW o \in Outcomes,
         slot' = [slot EXCEPT ![d].pc = p, ![d].out = o] \/ (Goes(d, p) /\ slot[d].out = o),
         row' \in [Tasks -> Row], TableStep,
         p = "retry" => /\ row'[slot[d].task].status \in {"failed", "timed_out"}
                        /\ row'[slot[d].task].by = "worker",
         faults' \in 0..MaxFaults,
         UNCHANGED <<created, call, msgs, tried, registered, key, workerVars>>
  PROVE  IInv' /\ TableStep
<1> DEFINE t == slot[d].task
<1>1. t \in Tasks /\ slot[d] \in Slot /\ slot \in [Slots -> Slot] /\ t # 0
  BY SlotTask DEF IInv, TypeOK, Exec, Tasks
<1>2. slot' = [slot EXCEPT ![d] = [slot[d] EXCEPT !.pc = p, !.out = o]]
  BY <1>1 DEF Goes, Slot
<1>3. slot' \in [Slots -> Slot]
  <2>1. [slot[d] EXCEPT !.pc = p, !.out = o] \in Slot
    BY <1>1 DEF Slot
  <2>. QED BY <1>1, <1>2, <2>1
<1>4. /\ slot'[d].pc = p /\ slot'[d].task = t /\ slot'[d].out = o
      /\ \A e \in Slots \ {d} : slot'[e] = slot[e]
  BY <1>1, <1>2 DEF Slot
<1>5. TypeOK'
  BY <1>3 DEF IInv, TypeOK, workerVars
<1>6. TableInv' /\ Lasting
  BY <1>5, TableStepInv DEF IInv
<1>7. OwedShape'
  BY <1>6, OwedKept DEF OwedCalm, workerVars
<1>8. SlotShape'
  <2>1. \A e \in Slots \ {d} : Calm(e)
    BY <1>4 DEF IInv, SlotShape, Calm
  <2>2. row'[t].status \notin {"absent", "queued"}
    BY <1>1, <1>6 DEF IInv, SlotShape, Lasting
  <2>. QED BY <1>1, <1>4, <1>6, <2>1, <2>2, SlotsKept DEF SlotShape, Exec
<1>9. ExecutedOnce'
  BY <1>4 DEF IInv, ExecutedOnce, Exec
<1>. QED BY <1>5, <1>6, <1>7, <1>8, <1>9 DEF IInv

LEMMA ProcessInv ==
  ASSUME IInv, NEW d \in Slots, NEW out \in Outcomes, process_code_task(d, out)
  PROVE  IInv' /\ TableStep
<1>1. slot[d].pc \in Exec /\ "ended" \in Phases \ {"idle"}
  BY DEF process_code_task, Exec, Phases
<1>2. row' \in [Tasks -> Row] /\ TableStep /\ faults' \in 0..MaxFaults
  BY SameTable DEF process_code_task, IInv, TypeOK
<1>3. slot' = [slot EXCEPT ![d].pc = "ended", ![d].out = out]
  BY DEF process_code_task
<1>4. UNCHANGED <<created, call, msgs, tried, registered, key, workerVars>>
  BY DEF process_code_task
<1>. QED BY <1>1, <1>2, <1>3, <1>4, ExecStep

LEMMA PersistInv ==
  ASSUME IInv, NEW d \in Slots, persist_terminal_task(d)
  PROVE  IInv' /\ TableStep
<1> DEFINE t == slot[d].task
           o == slot[d].out
           fits == Active(t) /\ row[t].owner = d[1]
           done == Ended(row, t, StatusOf(o), "worker")
<1>1. slot[d].pc = "ended" /\ slot[d].pc \in Exec /\ t \in Tasks /\ o \in Outcomes
  BY SlotTask DEF persist_terminal_task, Exec, IInv, SlotShape
<1>2. StatusOf(o) \in Terminal /\ "worker" \in Writers
  BY <1>1, OutcomesAssumption DEF StatusOf, Terminal, Writers
<1>3. faults' \in 0..MaxFaults /\ UNCHANGED <<created, call, msgs, tried, registered, key, workerVars>>
  BY FaultType DEF persist_terminal_task
<1>4. ASSUME fits, row' = done
      PROVE  row' \in [Tasks -> Row] /\ TableStep /\ row'[t].status = StatusOf(o) /\ row'[t].by = "worker"
  BY <1>1, <1>2, <1>3, <1>4, EndedRow DEF IInv
<1>5. ASSUME row' = row
      PROVE  row' \in [Tasks -> Row] /\ TableStep
  BY <1>3, <1>5, SameTable DEF IInv
<1>6. ASSUME NEW q \in BOOLEAN, AfterPersist(d, q), row' \in [Tasks -> Row], TableStep,
             q => (row'[t].status = StatusOf(o) /\ row'[t].by = "worker") \/ o = "cancelled"
      PROVE  IInv' /\ TableStep
  <2>1. PICK p \in {"retry", "returned"} :
           /\ Goes(d, p)
           /\ p = "retry" => q /\ o \in {"failed", "timed_out"}
    BY <1>6 DEF AfterPersist
  <2>2. p = "retry" => row'[t].status \in {"failed", "timed_out"} /\ row'[t].by = "worker"
    BY <1>6, <2>1 DEF StatusOf
  <2>3. p \in Phases \ {"idle"} /\ Goes(d, p)
    BY <2>1 DEF Phases
  <2>. QED BY <1>1, <1>3, <1>6, <2>2, <2>3, ExecStep
<1>7. CASE NoFault /\ fits /\ row' = done /\ AfterPersist(d, TRUE)
  BY <1>4, <1>6, <1>7
<1>8. CASE NoFault /\ ~fits /\ UNCHANGED row /\ AfterPersist(d, OursAlready(t, o))
  BY <1>5, <1>6, <1>8 DEF OursAlready
<1>9. CASE Fault /\ UNCHANGED row /\ AfterPersist(d, FALSE)
  BY <1>5, <1>6, <1>9
<1>10. CASE Fault /\ fits /\ row' = done /\ UNCHANGED slot
  <2>1. Goes(d, slot[d].pc) /\ slot[d].pc \in Phases \ {"idle"} /\ slot[d].pc # "retry"
    BY <1>1, <1>10, SlotTask DEF Goes, Slot, IInv, TypeOK, Phases
  <2>. QED BY <1>1, <1>3, <1>4, <1>10, <2>1, ExecStep
<1>11. CASE Fault /\ fits /\ row' = done /\ AfterPersist(d, FALSE)
  BY <1>4, <1>6, <1>11
<1>. QED BY <1>7, <1>8, <1>9, <1>10, <1>11 DEF persist_terminal_task

\* A retry of the ended task t, wanted by worker w.
LEMMA RetryInserted ==
  ASSUME IInv, NEW t \in Tasks, NEW w \in Workers, row[t].status \in {"failed", "timed_out"},
         row[t].by # "shutdown", row[t].attempt < MaxAttempts, InsertRetry(t, w)
  PROVE  /\ row' \in [Tasks -> Row] /\ created' \in 0..MaxTasks /\ TableStep
         /\ pending' \in [Workers -> SUBSET Tasks]
<1>1. CASE Duplicate(t, row[t].attempt + 1)
  BY <1>1, SameTable DEF InsertRetry, IInv, TypeOK
<1>2. CASE ~Duplicate(t, row[t].attempt + 1)
  <2>1. /\ row' \in [Tasks -> Row] /\ created' \in 0..MaxTasks /\ TableStep /\ created + 1 \in Tasks
    BY <1>2, RetriedRow DEF InsertRetry, IInv
  <2>2. pending' = [pending EXCEPT ![w] = @ \cup {created + 1}]
    BY <1>2 DEF InsertRetry
  <2>. QED BY <2>1, <2>2 DEF IInv, TypeOK
<1>. QED BY <1>1, <1>2

LEMMA MaybeRetryInv ==
  ASSUME IInv, NEW d \in Slots, maybe_retry_task(d)
  PROVE  IInv' /\ TableStep
<1> DEFINE t == slot[d].task
<1>1. slot[d].pc # "idle" /\ t \in Tasks /\ d[1] \in Workers
  BY SlotTask DEF maybe_retry_task
<1>2. row[t].status \in {"failed", "timed_out"} /\ row[t].by # "shutdown"
  BY DEF maybe_retry_task, IInv, SlotShape
<1>3. Passes(d)
  BY DEF maybe_retry_task, Passes, Phases, Exec
<1>4. /\ row' \in [Tasks -> Row] /\ created' \in 0..MaxTasks /\ TableStep
      /\ pending' \in [Workers -> SUBSET Tasks]
  <2>1. CASE Retryable(t) /\ InsertRetry(t, d[1])
    BY <1>1, <1>2, <2>1, RetryInserted DEF Retryable
  <2>2. CASE UNCHANGED <<row, created, pending>>
    BY <2>2, SameTable DEF IInv, TypeOK
  <2>3. CASE /\ Retryable(t) /\ ~Duplicate(t, row[t].attempt + 1)
             /\ Insert(row, row[t].attempt + 1, 0, t) /\ UNCHANGED pending
    BY <1>1, <1>2, <2>3, RetriedRow DEF Retryable, IInv, TypeOK
  <2>. QED BY <2>1, <2>2, <2>3 DEF maybe_retry_task
<1>5. WorkOK' /\ AllCalm /\ OwedCalm
  BY <1>1, <1>3, <1>4, PassesCalm, FaultType DEF maybe_retry_task, IInv, TypeOK, WorkOK, OwedCalm
<1>. QED BY <1>4, <1>5, CalmStep

LEMMA EnqueueRetryInv ==
  ASSUME IInv, NEW w \in Workers, NEW t \in Tasks, enqueue_retry(w, t)
  PROVE  IInv' /\ TableStep
<1>1. WorkOK'
  BY FaultType DEF enqueue_retry, IInv, TypeOK, WorkOK
<1>2. AllCalm /\ OwedCalm
  BY SameSlots DEF enqueue_retry, OwedCalm
<1>3. row' \in [Tasks -> Row] /\ created' \in 0..MaxTasks /\ TableStep
  BY SameTable DEF IInv, enqueue_retry
<1>. QED BY <1>1, <1>2, <1>3, CalmStep

LEMMA LeaseLostInv ==
  ASSUME IInv, NEW d \in Slots, lease_lost(d)
  PROVE  IInv' /\ TableStep
<1>1. slot[d].pc # "idle" /\ d[1] \in Workers /\ Passes(d)
  BY SlotTask DEF lease_lost, Owning, Passes
<1>2. NoFault /\ UNCHANGED <<row, created, call, tried, workerVars>>
  BY DEF lease_lost, NoFault
<1>. QED BY <1>1, <1>2, PassesCalm, UnregisterType, QuietDelivery DEF lease_lost

LEMMA UnregisterInv ==
  ASSUME IInv, NEW d \in Slots, unregister(d)
  PROVE  IInv' /\ TableStep
<1>1. slot[d].pc # "idle" /\ slot[d].task \in Tasks /\ d[1] \in Workers /\ Passes(d)
  BY SlotTask DEF unregister, Passes, Phases, Exec
<1>2. tried' \in [Tasks -> {"no", "delivered", "given_up"}]
  BY <1>1 DEF unregister, IInv, TypeOK
<1>3. WorkOK' /\ AllCalm /\ OwedCalm
  BY <1>1, <1>2, PassesCalm, UnregisterType, FaultType
     DEF unregister, IInv, TypeOK, WorkOK, OwedCalm, workerVars
<1>4. row' \in [Tasks -> Row] /\ created' \in 0..MaxTasks /\ TableStep
  BY SameTable DEF IInv, unregister
<1>. QED BY <1>3, <1>4, CalmStep

LEMMA DurableInv ==
  ASSUME IInv, NEW d \in Slots, terminal_is_durable(d)
  PROVE  IInv' /\ TableStep
<1>1. slot[d].pc # "idle" /\ Passes(d)
  BY DEF terminal_is_durable, Passes, Phases, Exec
<1>2. registered' \in [Workers -> SUBSET Tasks]
  BY DEF terminal_is_durable, IInv, TypeOK
<1>3. (NoFault \/ Fault) /\ UNCHANGED <<row, created, call, tried, workerVars>>
  BY DEF terminal_is_durable
<1>. QED BY <1>1, <1>2, <1>3, PassesCalm, QuietDelivery

LEMMA ReleaseInv ==
  ASSUME IInv, NEW d \in Slots, release_worker(d)
  PROVE  IInv' /\ TableStep
<1>1. slot[d].pc # "idle" /\ slot[d].task \in Tasks /\ Passes(d)
  BY SlotTask DEF release_worker, Passes
<1>2. WorkOK' /\ AllCalm /\ OwedCalm /\ created' \in 0..MaxTasks
  BY <1>1, PassesCalm, FaultType DEF IInv, TypeOK, WorkOK, release_worker, workerVars, OwedCalm
<1>3. row' \in [Tasks -> Row] /\ TableStep
  BY <1>1, SameTable, ReleasedRow DEF IInv, release_worker
<1>. QED BY <1>2, <1>3, CalmStep

LEMMA PanicInv ==
  ASSUME IInv, NEW d \in Slots, panic(d)
  PROVE  IInv' /\ TableStep
<1>1. slot[d].pc # "idle" /\ d[1] \in Workers /\ Passes(d)
  BY SlotTask DEF panic, Owning, Passes, Phases, Exec
<1>2. Fault /\ UNCHANGED <<row, created, call, tried, workerVars>>
  BY DEF panic
<1>. QED BY <1>1, <1>2, PassesCalm, UnregisterType, QuietDelivery DEF panic

LEMMA PanicFenceInv ==
  ASSUME IInv, NEW d \in Slots, panic_fence(d)
  PROVE  IInv' /\ TableStep
<1>1. slot[d].pc # "idle"
  BY DEF panic_fence
<1>2. registered' \in [Workers -> SUBSET Tasks]
  BY DEF panic_fence, IInv, TypeOK
<1>3. (NoFault \/ Fault) /\ UNCHANGED <<row, created, call, tried, workerVars>>
  BY DEF panic_fence
<1>4. /\ slot' \in [Slots -> Slot] /\ AllCalm /\ msgs' \in [Tasks -> Nat]
      /\ key' \in [Tasks -> Slots \cup {NoKey, Orphan}]
  <2>1. CASE Passes(d)
    BY <1>1, <2>1, PassesCalm
  <2>2. ASSUME NEW f \in {"fenced", "unfenced"},
               slot' = [slot EXCEPT ![d].pc = "failing", ![d].out = f], UNCHANGED <<msgs, key>>
        PROVE  /\ slot' \in [Slots -> Slot] /\ AllCalm /\ msgs' \in [Tasks -> Nat]
               /\ key' \in [Tasks -> Slots \cup {NoKey, Orphan}]
    <3>1. "failing" \in Phases \ (Exec \cup {"idle"})
      BY DEF Phases, Exec
    <3>2. slot' \in [Slots -> Slot] /\ AllCalm
      BY <1>1, <2>2, <3>1, GoesCalm
    <3>. QED BY <2>2, <3>2 DEF IInv, TypeOK
  <2>. QED BY <2>1, <2>2 DEF panic_fence, Passes
<1>. QED BY <1>2, <1>3, <1>4, QuietDelivery

LEMMA PanicFailInv ==
  ASSUME IInv, NEW d \in Slots, panic_fail(d)
  PROVE  IInv' /\ TableStep
<1>1. slot[d].pc # "idle" /\ slot[d].task \in Tasks /\ Passes(d)
  BY SlotTask DEF panic_fail, Passes
<1>2. WorkOK' /\ AllCalm /\ OwedCalm /\ created' \in 0..MaxTasks
  BY <1>1, PassesCalm, FaultType DEF IInv, TypeOK, WorkOK, panic_fail, workerVars, OwedCalm
<1>3. "failed" \in Terminal /\ "other" \in Writers
  BY DEF Terminal, Writers
<1>4. row' \in [Tasks -> Row] /\ TableStep
  BY <1>1, <1>3, SameTable, EndedRow DEF IInv, panic_fail
<1>. QED BY <1>2, <1>4, CalmStep

LEMMA LapseInv ==
  ASSUME IInv, NEW d \in Slots, queue_lease_lapses(d)
  PROVE  IInv' /\ TableStep
<1>1. slot[d] \in Slot /\ slot \in [Slots -> Slot]
  BY DEF IInv, TypeOK
<1>2. slot' = [slot EXCEPT ![d] = [slot[d] EXCEPT !.held = FALSE]]
  BY DEF queue_lease_lapses
<1>3. slot' \in [Slots -> Slot]
  <2>1. [slot[d] EXCEPT !.held = FALSE] \in Slot
    BY <1>1 DEF Slot
  <2>. QED BY <1>1, <1>2, <2>1
<1>4. AllCalm
  <2>1. \A e \in Slots : /\ slot'[e].pc = slot[e].pc /\ slot'[e].task = slot[e].task
                         /\ slot'[e].out = slot[e].out
    BY <1>1, <1>2 DEF Slot
  <2>. QED BY <2>1 DEF AllCalm, Calm, IInv, SlotShape
<1>5. msgs' \in [Tasks -> Nat]
  <2>1. msgs \in [Tasks -> Nat] /\ msgs' = [msgs EXCEPT ![slot[d].task] = @ + 1]
    BY DEF queue_lease_lapses, IInv, TypeOK
  <2>2. \A t \in Tasks : msgs'[t] \in Nat
    BY <2>1
  <2>. QED BY <2>1, <2>2
<1>6. /\ key' \in [Tasks -> Slots \cup {NoKey, Orphan}]
      /\ registered' \in [Workers -> SUBSET Tasks]
      /\ Fault /\ UNCHANGED <<row, created, call, tried, workerVars>>
  BY DEF queue_lease_lapses, IInv, TypeOK
<1>. QED BY <1>3, <1>4, <1>5, <1>6, QuietDelivery

LEMMA DeadLetterInv ==
  ASSUME IInv, NEW t \in Tasks, reconcile_dead_lettered_task(t)
  PROVE  IInv' /\ TableStep
<1>1. msgs' \in [Tasks -> Nat]
  BY DEF reconcile_dead_lettered_task, IInv, TypeOK
<1>2. WorkOK' /\ OwedCalm /\ created' \in 0..MaxTasks
  BY <1>1, FaultType DEF IInv, TypeOK, WorkOK, reconcile_dead_lettered_task, workerVars, OwedCalm
<1>3. AllCalm
  BY SameSlots DEF reconcile_dead_lettered_task
<1>4. row' \in [Tasks -> Row] /\ TableStep
  BY SameTable, EndedIfActiveRow DEF IInv, reconcile_dead_lettered_task, Writers
<1>. QED BY <1>2, <1>3, <1>4, CalmStep

LEMMA KeyExpiresInv ==
  ASSUME IInv, NEW t \in Tasks, key_expires(t)
  PROVE  IInv' /\ TableStep
<1>1. WorkOK'
  BY FaultType DEF IInv, TypeOK, WorkOK, key_expires, workerVars
<1>2. AllCalm /\ OwedCalm
  BY SameSlots DEF key_expires, workerVars, OwedCalm
<1>3. row' \in [Tasks -> Row] /\ created' \in 0..MaxTasks /\ TableStep
  BY SameTable DEF IInv, key_expires
<1>. QED BY <1>1, <1>2, <1>3, CalmStep

LEMMA HeartbeatInv ==
  ASSUME IInv, NEW w \in Workers, heartbeat(w)
  PROVE  IInv' /\ TableStep
<1>1. WorkOK' /\ created' \in 0..MaxTasks
  BY DEF IInv, TypeOK, WorkOK, heartbeat, workerVars
<1>2. AllCalm /\ OwedCalm
  BY SameSlots DEF heartbeat, workerVars, OwedCalm
<1>3. \A t \in Tasks : row[t] \in Row
  BY DEF IInv, TypeOK
<1>4. row' \in [Tasks -> Row] /\ QuietStep
  BY <1>3 DEF heartbeat, Row, QuietStep, SameRow
<1>. QED BY <1>1, <1>2, <1>4, CalmStep DEF TableStep

LEMMA StaleInv ==
  ASSUME IInv, NEW t \in Tasks, heartbeat_stale(t)
  PROVE  IInv' /\ TableStep
<1>1. WorkOK' /\ created' \in 0..MaxTasks
  BY FaultType DEF IInv, TypeOK, WorkOK, heartbeat_stale, workerVars
<1>2. AllCalm /\ OwedCalm
  BY SameSlots DEF heartbeat_stale, workerVars, OwedCalm
<1>3. row[t] \in Row /\ row \in [Tasks -> Row]
  BY DEF IInv, TypeOK
<1>4. row' \in [Tasks -> Row] /\ QuietStep
  BY <1>3 DEF heartbeat_stale, Row, QuietStep, SameRow
<1>. QED BY <1>1, <1>2, <1>4, CalmStep DEF TableStep

LEMMA FindZombiesInv ==
  ASSUME IInv, NEW w \in Workers, find_zombie_tasks(w)
  PROVE  IInv' /\ TableStep
<1>1. WorkOK'
  BY DEF IInv, TypeOK, WorkOK, find_zombie_tasks, Zombies
<1>2. AllCalm /\ OwedCalm
  BY SameSlots DEF find_zombie_tasks, OwedCalm
<1>3. row' \in [Tasks -> Row] /\ created' \in 0..MaxTasks /\ TableStep
  BY SameTable DEF IInv, find_zombie_tasks
<1>. QED BY <1>1, <1>2, <1>3, CalmStep

LEMMA ReapInv ==
  ASSUME IInv, NEW w \in Workers, NEW t \in Tasks, reap_zombie_task(w, t)
  PROVE  IInv' /\ TableStep
<1>0. t \in 0..MaxTasks /\ 0 \in 0..MaxTasks
  BY SizesAssumption DEF Tasks
<1>1. owed' \in [Workers -> 0..MaxTasks]
  BY <1>0 DEF reap_zombie_task, IInv, TypeOK
<1>2. WorkOK' /\ created' \in 0..MaxTasks
  BY <1>1, FaultType DEF IInv, TypeOK, WorkOK, reap_zombie_task
<1>3. AllCalm
  BY SameSlots DEF reap_zombie_task
<1>4. row' \in [Tasks -> Row] /\ TableStep
  BY SameTable, EndedIfActiveRow DEF IInv, reap_zombie_task, Writers
<1>5. OwedCalm
  <2>1. CASE Active(t) /\ row' = EndedIfActive(t, "failed", "reaper") /\ owed' = [owed EXCEPT ![w] = t]
    <3>1. row'[t].status = "failed" /\ row'[t].by = "reaper"
      BY <2>1, EndedRow DEF EndedIfActive, IInv, Terminal, Writers, reap_zombie_task
    <3>. QED BY <2>1, <3>1 DEF OwedCalm, IInv, TypeOK
  <2>2. CASE owed' = owed \/ owed' = [owed EXCEPT ![w] = 0]
    BY <2>2 DEF OwedCalm, IInv, TypeOK
  <2>. QED BY <2>1, <2>2 DEF reap_zombie_task
<1>. QED BY <1>2, <1>3, <1>4, <1>5, CalmStep

LEMMA ZombieRetryInv ==
  ASSUME IInv, NEW w \in Workers, maybe_retry_zombie_task(w)
  PROVE  IInv' /\ TableStep
<1> DEFINE t == owed[w]
<1>1. t \in Tasks /\ row[t].status = "failed" /\ row[t].by = "reaper"
  BY OwedTask DEF maybe_retry_zombie_task, IInv, OwedShape
<1>2. /\ row' \in [Tasks -> Row] /\ created' \in 0..MaxTasks /\ TableStep
      /\ pending' \in [Workers -> SUBSET Tasks]
  <2>1. CASE row[t].attempt < MaxAttempts /\ InsertRetry(t, w)
    BY <1>1, <2>1, RetryInserted
  <2>2. CASE UNCHANGED <<row, created, pending>>
    BY <2>2, SameTable DEF IInv, TypeOK
  <2>. QED BY <2>1, <2>2 DEF maybe_retry_zombie_task
<1>3. 0 \in 0..MaxTasks
  BY SizesAssumption
<1>4. WorkOK'
  BY <1>2, <1>3, FaultType DEF maybe_retry_zombie_task, IInv, TypeOK, WorkOK
<1>5. AllCalm /\ OwedCalm
  BY SameSlots DEF maybe_retry_zombie_task, OwedCalm, IInv, TypeOK
<1>. QED BY <1>2, <1>4, <1>5, CalmStep

LEMMA ReconcileInv ==
  ASSUME IInv, NEW w \in Workers, NEW t \in Tasks, reconcile_queued_task(w, t)
  PROVE  IInv' /\ TableStep
<1>1. WorkOK'
  BY DEF IInv, TypeOK, WorkOK, reconcile_queued_task, workerVars
<1>2. AllCalm /\ OwedCalm
  BY SameSlots DEF reconcile_queued_task, workerVars, OwedCalm
<1>3. row' \in [Tasks -> Row] /\ created' \in 0..MaxTasks /\ TableStep
  BY SameTable DEF IInv, reconcile_queued_task
<1>. QED BY <1>1, <1>2, <1>3, CalmStep

LEMMA ShutdownInv ==
  ASSUME IInv, NEW w \in Workers, initiate_shutdown(w) \/ drain_timeout(w)
  PROVE  IInv' /\ TableStep
<1>1. WorkOK'
  BY FaultType DEF IInv, TypeOK, WorkOK, initiate_shutdown, drain_timeout
<1>2. AllCalm /\ OwedCalm
  BY SameSlots DEF initiate_shutdown, drain_timeout, OwedCalm
<1>3. row' \in [Tasks -> Row] /\ created' \in 0..MaxTasks /\ TableStep
  BY SameTable DEF IInv, initiate_shutdown, drain_timeout
<1>. QED BY <1>1, <1>2, <1>3, CalmStep

LEMMA FinalizeInv ==
  ASSUME IInv, NEW w \in Workers, NEW t \in Tasks, finalize_interrupted_task(w, t)
  PROVE  IInv' /\ TableStep
<1>1. msgs' \in [Tasks -> Nat]
  BY DEF finalize_interrupted_task, IInv, TypeOK
<1>2. fin' \in [Workers -> SUBSET Tasks]
  BY DEF finalize_interrupted_task, IInv, TypeOK
<1>3. WorkOK'
  BY <1>1, <1>2, FaultType, UnregisterType DEF finalize_interrupted_task, IInv, TypeOK, WorkOK
<1>4. AllCalm /\ OwedCalm
  BY SameSlots DEF finalize_interrupted_task, OwedCalm
<1>5. row' \in [Tasks -> Row] /\ created' \in 0..MaxTasks /\ TableStep
  <2>1. CASE FinalizedWithRetry(t)
    BY <2>1, InterruptedRow DEF IInv
  <2>2. CASE Active(t) /\ row' = Ended(row, t, "failed", "other") /\ UNCHANGED created
    BY <2>2, EndedRow DEF IInv, TypeOK, Terminal, Writers
  <2>3. CASE UNCHANGED <<row, created>>
    BY <2>3, SameTable DEF IInv
  <2>. QED BY <2>1, <2>2, <2>3 DEF finalize_interrupted_task
<1>. QED BY <1>3, <1>4, <1>5, CalmStep

\* A process holds finitely many deliveries.
LEMMA HeldFinite ==
  ASSUME NEW D \in SUBSET Slots
  PROVE  Cardinality(D) \in Nat
<1>1. IsFiniteSet(Slots)
  BY ProcessesAssumption, FS_Product DEF Slots
<1>. QED BY <1>1, FS_Subset, FS_CardinalityType

LEMMA StopInv ==
  ASSUME IInv, NEW w \in Workers, Stop(w), NoFault \/ Fault
  PROVE  IInv' /\ TableStep
<1> DEFINE mine == {d \in Slots : d[1] = w}
<1>0. IdleSlot \in Slot /\ IdleSlot.pc = "idle" /\ IdleSlot.task = 0 /\ 0 \in 0..MaxTasks
  BY SizesAssumption DEF IdleSlot, Slot, Phases
<1>1. slot' = [d \in Slots |-> IF d \in mine THEN IdleSlot ELSE slot[d]]
  BY DEF Stop
<1>2. slot' \in [Slots -> Slot] /\ AllCalm
  BY <1>0, <1>1 DEF IInv, TypeOK, SlotShape, AllCalm, Calm, Exec
<1>3. msgs' \in [Tasks -> Nat]
  <2>1. \A t \in Tasks : Cardinality({d \in mine : slot[d].task = t /\ slot[d].held}) \in Nat
    BY HeldFinite
  <2>. QED BY <2>1 DEF Stop, IInv, TypeOK
<1>4. key' \in [Tasks -> Slots \cup {NoKey, Orphan}]
  BY DEF Stop, IInv, TypeOK
<1>5. WorkOK' /\ created' \in 0..MaxTasks
  BY <1>0, <1>2, <1>3, <1>4, FaultType DEF Stop, IInv, TypeOK, WorkOK
<1>6. OwedCalm
  BY DEF Stop, IInv, TypeOK, OwedCalm
<1>7. \A t \in Tasks : row[t] \in Row
  BY DEF IInv, TypeOK
<1>8. row' \in [Tasks -> Row] /\ QuietStep
  BY <1>7 DEF Stop, Row, QuietStep, SameRow
<1>. QED BY <1>2, <1>5, <1>6, <1>8, CalmStep DEF TableStep

---------------------------------------------------------------------------
(* The theorems.                                                           *)

LEMMA InitInv == Init => IInv
<1> SUFFICES ASSUME Init PROVE IInv
  OBVIOUS
<1>1. NewRow("absent", 0, 0, 0) \in Row
  BY SizesAssumption DEF NewRow, Row, Statuses, Writers
<1>2. IdleSlot \in Slot /\ IdleSlot.pc = "idle" /\ IdleSlot.task = 0
  BY SizesAssumption DEF IdleSlot, Slot, Phases
<1>3. TypeOK
  BY <1>1, <1>2, SizesAssumption DEF Init, TypeOK
<1>4. TableInv
  BY DEF Init, TableInv, RowsInOrder, ChildShape, OneSuccessor, NewRow, Tasks
<1>5. SlotShape /\ OwedShape /\ ExecutedOnce
  BY <1>2 DEF Init, SlotShape, OwedShape, ExecutedOnce, Exec
<1>. QED BY <1>3, <1>4, <1>5 DEF IInv

LEMMA StutterInv == IInv /\ UNCHANGED vars => IInv' /\ TableStep
<1> SUFFICES ASSUME IInv, UNCHANGED vars PROVE IInv' /\ TableStep
  OBVIOUS
<1>1. WorkOK' /\ AllCalm /\ OwedCalm
  BY SameSlots DEF vars, IInv, TypeOK, WorkOK, OwedCalm
<1>2. row' \in [Tasks -> Row] /\ created' \in 0..MaxTasks /\ TableStep
  BY SameTable DEF vars, IInv
<1>. QED BY <1>1, <1>2, CalmStep

\* Every step of the system preserves the invariant and is one of the table's.
LEMMA NextInv == IInv /\ [Next]_vars => IInv' /\ TableStep
<1> SUFFICES ASSUME IInv, [Next]_vars PROVE IInv' /\ TableStep
  OBVIOUS
<1>1. CASE Client
  BY <1>1, StartInv, EnqueueInv, FailIfQueuedInv, CancelInv DEF Client
<1>2. ASSUME NEW d \in Slots, Delivery(d) PROVE IInv' /\ TableStep
  <2>1. CASE BeforeClaim(d)
    BY <2>1, LoadInv, ShouldExecuteInv, RegisterInv, AcquireInv, ClaimInv, RefusedInv DEF BeforeClaim
  <2>2. CASE Executing(d)
    BY <2>2, ProcessInv, PersistInv, MaybeRetryInv DEF Executing
  <2>3. CASE AfterEnd(d)
    BY <2>3, LeaseLostInv, UnregisterInv, DurableInv, ReleaseInv, PanicFenceInv, PanicFailInv
       DEF AfterEnd
  <2>. QED BY <1>2, <2>1, <2>2, <2>3 DEF Delivery
<1>3. ASSUME NEW d \in Slots, NEW t \in Tasks, deliver(d, t) PROVE IInv' /\ TableStep
  BY <1>3, DeliverInv
<1>4. ASSUME NEW w \in Workers, Background(w) PROVE IInv' /\ TableStep
  BY <1>4, EnqueueRetryInv, ReapInv, ReconcileInv, FinalizeInv, HeartbeatInv, FindZombiesInv,
     ZombieRetryInv DEF Background
<1>5. ASSUME NEW w \in Workers, Shutdown(w) PROVE IInv' /\ TableStep
  BY <1>5, ShutdownInv, StopInv DEF Shutdown, exit, crash
<1>6. CASE Environment
  BY <1>6, LapseInv, PanicInv, DeadLetterInv, KeyExpiresInv, StaleInv DEF Environment
<1>7. CASE UNCHANGED vars
  BY <1>7, StutterInv
<1>. QED BY <1>1, <1>2, <1>3, <1>4, <1>5, <1>6, <1>7 DEF Next

\* No statement of the workers, the reaper, the reconcilers, the shutdown or the
\* API breaks the inductive invariant.
THEOREM Invariance == Spec => []IInv
  BY InitInv, NextInv, PTL DEF Spec

\* The tables, deliveries and timers keep their types: no attempt exceeds the
\* task's retries and no lineage MAX_INFRA_RETRY_GENERATIONS, for any budget.
THEOREM TypeCorrect == Spec => []TypeOK
<1>1. IInv => TypeOK
  BY DEF IInv
<1>. QED BY <1>1, Invariance, PTL

\* The worker, the reaper and the shutdown never create two successors of one
\* attempt, with any number of workers, duplicate messages and faults.
THEOREM SuccessorUnique == Spec => []OneSuccessor
<1>1. IInv => OneSuccessor
  BY DEF IInv, TableInv
<1>. QED BY <1>1, Invariance, PTL

\* claim_for_worker alone makes the execution of a row exclusive: it holds
\* without the Redis lease and however many messages of the task there are.
THEOREM ExecutionExclusive == Spec => []ExecutedOnce
<1>1. IInv => ExecutedOnce
  BY DEF IInv
<1>. QED BY <1>1, Invariance, PTL

---------------------------------------------------------------------------
(* The table implements TaskLineage.                                       *)

\* A row as TaskLineage sees it.
Seen(r) == [status |-> r.status, attempt |-> r.attempt, infra |-> r.infra, parent |-> r.parent]

SeenTable == [t \in Tasks |-> Seen(row[t])]

LEMMA LineageInitial == Init => Lineage!LineageInit
<1> SUFFICES ASSUME Init PROVE Lineage!LineageInit
  OBVIOUS
<1>1. \A t \in Tasks : Seen(row[t]) = [status |-> "absent", attempt |-> 0, infra |-> 0, parent |-> 0]
  BY DEF Init, NewRow, Seen
<1>. QED BY <1>1 DEF Init, Lineage!LineageInit, Lineage!Attempt, Lineage!Tasks, Tasks, Seen

\* Every table step is a step of TaskLineage or leaves it unchanged.
LEMMA LineageStep ==
  ASSUME TypeOK, TypeOK', TableInv, TableStep
  PROVE  [Lineage!LineageNext]_<<SeenTable, created>>
<1>0. /\ Tasks = 1..MaxTasks /\ Lineage!Tasks = Tasks
      /\ \A t \in Tasks : SameRow(t) => Seen(row'[t]) = Seen(row[t])
  BY DEF Tasks, SameRow, Seen, Lineage!Tasks
<1>1. /\ SeenTable = [u \in Tasks |-> Seen(row[u])] /\ SeenTable' = [u \in Tasks |-> Seen(row'[u])]
      /\ \A u \in Tasks : /\ SeenTable[u].status = row[u].status
                          /\ SeenTable[u].attempt = row[u].attempt
                          /\ SeenTable[u].infra = row[u].infra
                          /\ SeenTable[u].parent = row[u].parent
  BY DEF SeenTable, Seen
<1>2. \A s, a, i, p : Lineage!Attempt(s, a, i, p) =
                      [status |-> s, attempt |-> a, infra |-> i, parent |-> p]
  BY DEF Lineage!Attempt
<1>3. \A s, a, i, p : Seen(NewRow(s, a, i, p)) = Lineage!Attempt(s, a, i, p)
  BY <1>2 DEF Seen, NewRow
<1>4. CASE QuietStep
  BY <1>0, <1>1, <1>4 DEF QuietStep
<1>5. ASSUME NEW c \in Tasks, NEW v, NEW f, f = [u \in Tasks |-> f[u]], Seen(row'[c]) = v,
             \A u \in Tasks \ {c} : Seen(row'[u]) = f[u]
      PROVE  SeenTable' = [f EXCEPT ![c] = v]
  <2>1. [f EXCEPT ![c] = v] = [u \in Tasks |-> IF u = c THEN v ELSE f[u]]
    BY <1>5
  <2>. QED BY <1>1, <1>5, <2>1
<1>6. SeenTable = [u \in Tasks |-> SeenTable[u]] /\ \A u \in Tasks : SeenTable[u] = Seen(row[u])
  BY <1>1
<1>7. ASSUME NEW a, NEW i, NEW p, NewStep(a, i, p)
      PROVE  /\ created + 1 \in Tasks
             /\ Seen(row'[created + 1]) = Lineage!Attempt("queued", a, i, p)
  BY <1>0, <1>3, <1>7, SizesAssumption DEF NewStep, TypeOK
<1>8. ASSUME NEW a, NEW i, NEW p, NewStep(a, i, p), OnlyRow(created + 1)
      PROVE  Lineage!Create(SeenTable, a, i, p)
  <2> DEFINE v == Lineage!Attempt("queued", a, i, p)
  <2> HIDE DEF v
  <2>0. created + 1 \in Tasks /\ Seen(row'[created + 1]) = v
    BY <1>7, <1>8 DEF v
  <2>1. \A u \in Tasks \ {created + 1} : Seen(row'[u]) = SeenTable[u]
    BY <1>0, <1>6, <1>8 DEF OnlyRow
  <2>2. SeenTable' = [SeenTable EXCEPT ![created + 1] = v]
    BY <1>5, <1>6, <2>0, <2>1
  <2>3. SeenTable' = [SeenTable EXCEPT ![created + 1] = Lineage!Attempt("queued", a, i, p)]
    BY <2>2 DEF v
  <2>. QED BY <1>8, <2>3 DEF NewStep, Lineage!Create, SeenTable, Seen
<1>9. CASE RootStep
  <2>1. Lineage!Start
    BY <1>8, <1>9 DEF RootStep, Lineage!Start, SeenTable, Seen
  <2>. QED BY <2>1 DEF Lineage!LineageNext
<1>10. ASSUME NEW t \in Tasks, NEW s, NEW b, StatusStep(t, s, b)
       PROVE  SeenTable' = [SeenTable EXCEPT ![t].status = s] /\ created' = created
  <2>1. Seen(row'[t]) = [SeenTable[t] EXCEPT !.status = s]
    BY <1>10, <1>6 DEF StatusStep, Seen
  <2>2. SeenTable' = [SeenTable EXCEPT ![t] = [SeenTable[t] EXCEPT !.status = s]]
    <3> DEFINE v == [SeenTable[t] EXCEPT !.status = s]
    <3> HIDE DEF v
    <3>1. Seen(row'[t]) = v
      BY <2>1 DEF v
    <3>2. \A u \in Tasks \ {t} : Seen(row'[u]) = SeenTable[u]
      BY <1>0, <1>6, <1>10 DEF StatusStep, OnlyRow
    <3>3. SeenTable' = [SeenTable EXCEPT ![t] = v]
      BY <1>5, <1>6, <3>1, <3>2
    <3>. QED BY <3>3 DEF v
  <2>. QED BY <1>10, <2>2 DEF StatusStep
<1>11. ASSUME NEW t \in Tasks, RunStep(t)
       PROVE  Lineage!LineageNext
  <2>1. Lineage!Run(t)
    BY <1>1, <1>10, <1>11 DEF RunStep, Lineage!Run, SeenTable, Seen
  <2>. QED BY <1>0, <2>1 DEF Lineage!LineageNext
<1>12. ASSUME NEW t \in Tasks, EndStep(t)
       PROVE  Lineage!LineageNext
  <2>1. PICK s \in Terminal, b \in Writers : StatusStep(t, s, b)
    BY <1>12 DEF EndStep
  <2>2. s \in Lineage!Terminal
    BY <2>1 DEF Terminal, Lineage!Terminal
  <2>3. Lineage!Finish(t, s)
    BY <1>1, <1>10, <1>12, <2>1 DEF EndStep, Active, Lineage!Finish, SeenTable, Seen
  <2>. QED BY <1>0, <2>2, <2>3 DEF Lineage!LineageNext
<1>13. ASSUME NEW t \in Tasks, \A c \in Tasks : row[c].parent # t
       PROVE  Lineage!Successors(t) = {}
  BY <1>0, <1>1, <1>13 DEF Lineage!Successors, SeenTable, Seen
<1>14. \A c, t \in Tasks : row[c].parent = t =>
            /\ row[t].status \in {"failed", "timed_out"}
            /\ \/ row[c].attempt = row[t].attempt + 1
               \/ row[c].attempt = row[t].attempt /\ row[t].by = "shutdown"
  BY <1>0 DEF TableInv, ChildShape
<1>15. ASSUME NEW t \in Tasks, RetryStep(t)
       PROVE  Lineage!LineageNext
  <2>1. Lineage!Successors(t) = {}
    BY <1>13, <1>14, <1>15 DEF RetryStep, Duplicate
  <2>2. Lineage!Create(SeenTable, row[t].attempt + 1, 0, t)
    BY <1>8, <1>15 DEF RetryStep
  <2>3. Lineage!Retry(t)
    BY <1>1, <1>15, <2>1, <2>2 DEF RetryStep, Lineage!Retry, SeenTable, Seen
  <2>. QED BY <1>0, <2>3 DEF Lineage!LineageNext
<1>16. ASSUME NEW t \in Tasks, InterruptStep(t)
       PROVE  Lineage!LineageNext
  <2>1. Lineage!Successors(t) = {}
    BY <1>13, <1>14, <1>16 DEF InterruptStep, Active
  <2> DEFINE f == [SeenTable EXCEPT ![t].status = "failed"]
  <2>2. f = [SeenTable EXCEPT ![t] = [SeenTable[t] EXCEPT !.status = "failed"]]
    OBVIOUS
  <2> HIDE DEF f
  <2>3. t # created + 1
    BY <1>16 DEF InterruptStep, Active, TableInv, RowsInOrder, TypeOK
  <2>4. Seen(row'[t]) = [SeenTable[t] EXCEPT !.status = "failed"]
    BY <1>6, <1>16 DEF InterruptStep, Seen
  <2>5. f = [u \in Tasks |-> f[u]]
    BY <1>6, <2>2
  <2>6. \A u \in Tasks \ {created + 1} : Seen(row'[u]) = f[u]
    BY <1>0, <1>6, <1>16, <2>2, <2>4 DEF InterruptStep
  <2>7. SeenTable' = [f EXCEPT ![created + 1] =
                        Lineage!Attempt("queued", row[t].attempt, row[t].infra + 1, t)]
    BY <1>5, <1>7, <1>16, <2>5, <2>6 DEF InterruptStep
  <2>8. Lineage!Interrupt(t)
    BY <1>1, <1>16, <2>1, <2>7
       DEF f, InterruptStep, NewStep, Active, Lineage!Interrupt, Lineage!Create, SeenTable, Seen
  <2>. QED BY <1>0, <2>8 DEF Lineage!LineageNext
<1>. QED
  BY <1>4, <1>9, <1>11, <1>12, <1>15, <1>16 DEF TableStep

\* The task table implements TaskLineage, whichever of the deliveries, the
\* reaper, the reconcilers, the shutdown and the user's calls write it.
THEOREM TableImplementsLineage == Spec => ImplementsLineage
<1>1. IInv /\ IInv' /\ [Next]_vars => [Lineage!LineageNext]_<<SeenTable, created>>
  BY NextInv, LineageStep DEF IInv
<1>. QED BY <1>1, LineageInitial, Invariance, PTL DEF Spec, ImplementsLineage, Lineage!LineageSpec, SeenTable, Seen
============================================================================
