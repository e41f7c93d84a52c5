---------------------------- MODULE TaskLineage ----------------------------
(***************************************************************************)
(* What the task table promises, whoever writes it.  A task is an attempt: *)
(* it is queued, may run once, and reaches one terminal status it keeps.   *)
(* An attempt that failed or timed out has at most one successor: a retry, *)
(* which counts against the task's own budget, or an infrastructure retry  *)
(* when a worker's shutdown interrupted it, which does not but is bounded  *)
(* as well.  A completed or cancelled attempt has none.                    *)
(***************************************************************************)
EXTENDS Naturals

CONSTANTS
  MaxTasks,     \* bound on task rows
  MaxAttempts,  \* RetryConfig::max_retries of every task
  MaxInfra      \* MAX_INFRA_RETRY_GENERATIONS

VARIABLES
  lineage,   \* each attempt: status, counters, the attempt it succeeds
  created    \* number of attempts created

Tasks == 1..MaxTasks
Terminal == {"completed", "failed", "cancelled", "timed_out"}

Attempt(s, a, i, p) == [status |-> s, attempt |-> a, infra |-> i, parent |-> p]

LineageInit ==
  /\ lineage = [t \in Tasks |-> Attempt("absent", 0, 0, 0)]
  /\ created = 0

Successors(p) == {c \in Tasks : lineage[c].parent = p}

\* The next free row becomes a queued attempt in table f.
Create(f, a, i, p) ==
  /\ created < MaxTasks
  /\ created' = created + 1
  /\ lineage' = [f EXCEPT ![created + 1] = Attempt("queued", a, i, p)]

Start == Create(lineage, 0, 0, 0)

Run(t) ==
  /\ lineage[t].status = "queued"
  /\ lineage' = [lineage EXCEPT ![t].status = "running"]
  /\ UNCHANGED created

Finish(t, s) ==
  /\ lineage[t].status \in {"queued", "running"}
  /\ lineage' = [lineage EXCEPT ![t].status = s]
  /\ UNCHANGED created

Retry(t) ==
  /\ lineage[t].status \in {"failed", "timed_out"}
  /\ Successors(t) = {}
  /\ lineage[t].attempt < MaxAttempts
  /\ Create(lineage, lineage[t].attempt + 1, 0, t)

Interrupt(t) ==
  /\ lineage[t].status \in {"queued", "running"}
  /\ Successors(t) = {}
  /\ lineage[t].infra < MaxInfra
  /\ Create([lineage EXCEPT ![t].status = "failed"],
            lineage[t].attempt, lineage[t].infra + 1, t)

LineageNext ==
  \/ Start
  \/ \E t \in Tasks :
       \/ Run(t) \/ Retry(t) \/ Interrupt(t)
       \/ \E s \in Terminal : Finish(t, s)

LineageSpec == LineageInit /\ [][LineageNext]_<<lineage, created>>
============================================================================
