---------------------------- MODULE StreamsQueue ----------------------------
(***************************************************************************)
(* The Redis Streams work queue (crates/hot/src/queue/streams.rs) as the   *)
(* worker processes of a cluster use it: one stream, one consumer group,   *)
(* one consumer name per process, a prefetch buffer and an in-flight set   *)
(* per process, infrastructure retries as fresh copies of an entry.        *)
(*                                                                         *)
(* Every Redis command and every Lua script is one atomic step.  Stream    *)
(* ids are numbered in order.  Time is abstract: any pending entry may     *)
(* pass the orphan idle time, and entries grow older than the startup      *)
(* window in the order of their ids.  A command that times out, and its    *)
(* connection dropping, are the same step with the reply lost.             *)
(***************************************************************************)
EXTENDS Integers, FiniteSets, FiniteSetsExt

CONSTANTS
  MaxIds,        \* stream entries ever added
  MaxSends,      \* of these, messages enqueued; the rest are infrastructure retries
  Procs,         \* worker processes
  MaxRetries,    \* MAX_PROCESSING_RETRIES
  Batch,         \* read_batch_size
  MaxLen,        \* STREAM_MAXLEN
  HardMaxLen,    \* STREAM_HARD_MAXLEN
  MaxFaults,     \* bound on stops, shutdowns, lost replies and missed keepalives
  BadPayload,    \* messages whose payload does not deserialize
  Leaving,       \* processes that are told to shut down; the others only crash
  Window,        \* a startup window is configured (with_startup_window)
  Former,        \* the consumer name of any process that was replaced
  NoProc

ASSUME StreamSizes ==
  /\ MaxIds \in Nat /\ MaxSends \in 0..MaxIds /\ MaxFaults \in Nat
  /\ MaxRetries \in Nat \ {0} /\ Batch \in Nat \ {0}
  /\ MaxLen \in Nat \ {0} /\ HardMaxLen \in Nat /\ HardMaxLen >= MaxLen /\ Window \in BOOLEAN
ASSUME StreamNulls == Former \notin Procs /\ NoProc \notin Procs \cup {Former}

Ids == 1..MaxIds

VARIABLES
  \* Redis
  entry,      \* what each id was added with: the enqueued message it is a copy
              \* of (named by that message's first id) and prior_deliveries
  last,       \* the newest id
  present,    \* ids in the stream
  cursor,     \* the group's last-delivered-id
  pel,        \* the consumer each id is pending for
  idle,       \* pending ids past the orphan idle time
  attempts,   \* <stream>:attempts:<id>
  delayed,    \* the delayed set: <<id of the deferred entry, carried count>>
  dlq,        \* dead letters copied from each id
  \* the processes
  proc,       \* life cycle
  target,     \* the cutoff a fast-forward is about to set
  deliv,      \* deliveries in a process: buffered, leased, running
  in_flight,  \* the in_flight set of each process
  pass,       \* processes told to shut down in the middle of a janitor pass
  \* environment
  old,        \* ids up to this one are older than the startup window
  faults,
  \* history
  done,       \* messages whose successful handler acknowledged them
  discarded,  \* messages trimmed, purged or skipped before that
  released,   \* messages whose pending entry unregister_consumer deleted
  starts      \* handler starts on each id while it is pending

redis == <<entry, last, present, cursor, pel, idle, attempts, delayed, dlq>>
history == <<done, discarded, released>>
vars == <<redis, proc, target, deliv, in_flight, pass, old, faults, history, starts>>

---------------------------------------------------------------------------
Phases == {"buffered", "claimed", "running", "burying"}

\* n is what record_attempt returned, 0 before.  Two deliveries of one process
\* that agree in everything are one.
Delivery(p, i, ph, n) == [proc |-> p, id |-> i, phase |-> ph, n |-> n]

Running == {"up", "draining", "checked"}

Root(i) == entry[i].root
Undelivered(i) == i \in present /\ i > cursor
Pending(i) == pel[i] # NoProc
Owned(c) == {i \in Ids : pel[i] = c}
Buffer(p) == {d \in deliv : d.proc = p /\ d.phase = "buffered"}
Gone(c) == c = Former \/ (c \in Procs /\ proc[c] = "gone")

\* One more fault is possible.  Every fault action conjoins it.
Fault == faults < MaxFaults /\ faults' = faults + 1

\* An id is left for a new entry once every delayed retry has had its own.
IdLeft == last + Cardinality(delayed) < MaxIds

\* The first k of a set of ids.
First(S, k) == {i \in S : Cardinality({j \in S : j < i}) < k}

\* XTRIM with `~' removes whole nodes only, so any prefix of what it may.
XTrim(s, removable) == {s \ {i \in removable : i <= k} : k \in {0} \cup removable}

\* What exceeds a length, the oldest first.
Excess(s, len) == First(s, Cardinality(s) - len)

\* Mutant of trim_stream_lua: XADD MAXLEN ~, as before the pending floor.
TrimToMaxLen(s, P) == XTrim(s, Excess(s, MaxLen))

\* The streams a trim of s may leave, with P pending: over MaxLen it removes
\* what is older than the oldest pending entry, pending entries only past
\* HardMaxLen; with nothing pending it goes down to MaxLen.
trim_stream_lua(s, P) ==
  IF Cardinality(s) <= MaxLen THEN {s}
  ELSE IF P = {} THEN XTrim(s, Excess(s, MaxLen))
  ELSE UNION {IF Cardinality(f) > HardMaxLen THEN XTrim(f, Excess(f, HardMaxLen)) ELSE {f} :
                f \in XTrim(s, {i \in s : i < Min(P)})}

\* Messages of the undelivered entries of a stream that a trim or a purge drops.
Skipped(kept) == {Root(i) : i \in {j \in present : j > cursor /\ j \notin kept}}

\* XADD of one entry, then the trim, with P pending afterwards.
XAdd(r, n, P) ==
  /\ last' = last + 1
  /\ entry' = [entry EXCEPT ![last + 1] = [root |-> r, prior |-> n]]
  /\ \E s \in trim_stream_lua(present \cup {last + 1}, P) :
       /\ present' = s
       /\ discarded' = discarded \cup Skipped(s)
                       \cup (IF last + 1 \in s THEN {} ELSE {r})

\* XCLAIM and XAUTOCLAIM of ids S for consumer p: entries deleted from the
\* stream leave the pending list instead.
XClaim(S, p) ==
  /\ pel' = [i \in Ids |-> IF i \notin S THEN pel[i]
                           ELSE IF i \in present THEN p ELSE NoProc]
  /\ idle' = idle \ S
  /\ discarded' = discarded \cup {Root(i) : i \in S \ present}

\* XACK of id i and the DEL of its attempts.
XAck(i) ==
  /\ pel' = [pel EXCEPT ![i] = NoProc]
  /\ idle' = idle \ {i}
  /\ attempts' = [attempts EXCEPT ![i] = 0]
  /\ starts' = [starts EXCEPT ![i] = 0]

\* Mutant of Finish: the in-flight marker is left behind.
FinishMarked(d) == deliv' = deliv \ {d} /\ UNCHANGED in_flight

\* The delivery ends and its in-flight marker goes.
Finish(d) ==
  /\ deliv' = deliv \ {d}
  /\ in_flight' = [in_flight EXCEPT ![d.proc] = @ \ {d.id}]

---------------------------------------------------------------------------
Init ==
  /\ entry = [i \in Ids |-> [root |-> i, prior |-> 0]]
  /\ last = 0 /\ present = {} /\ cursor = 0
  /\ pel = [i \in Ids |-> NoProc] /\ idle = {}
  /\ attempts = [i \in Ids |-> 0]
  /\ delayed = {} /\ dlq = [i \in Ids |-> 0]
  /\ proc = [p \in Procs |-> "recover"]
  /\ target = [p \in Procs |-> 0]
  /\ deliv = {} /\ in_flight = [p \in Procs |-> {}] /\ pass = {}
  /\ old = 0 /\ faults = 0
  /\ done = {} /\ discarded = {} /\ released = {}
  /\ starts = [i \in Ids |-> 0]

---------------------------------------------------------------------------
(* Producing, and reading into the prefetch buffer.                        *)

PendingIds == {i \in Ids : Pending(i)}

\* A resent enqueue (cmd_resending_once) is two enqueues.
enqueue ==
  /\ Cardinality({i \in 1..last : Root(i) = i}) < MaxSends /\ IdLeft
  /\ XAdd(last + 1, 0, PendingIds)
  /\ UNCHANGED <<cursor, pel, idle, attempts, delayed, dlq, proc, target, deliv,
                 in_flight, pass, old, faults, done, released, starts>>

\* Mutant of promote_due_delayed: the fields are deleted before they are read,
\* and an entry without a payload is not added.
PromoteEmptied(p) ==
  /\ proc[p] = "up"
  /\ \E d \in delayed : delayed' = delayed \ {d}
  /\ UNCHANGED <<entry, last, present, cursor, pel, idle, attempts, dlq, proc, target, deliv,
                 in_flight, pass, old, faults, history, starts>>

\* A due retry goes back into the stream with the count it carries.  Several
\* due at once are several steps.
promote_due_delayed(p) ==
  /\ proc[p] = "up"
  /\ \E d \in delayed :
       /\ delayed' = delayed \ {d}
       /\ XAdd(Root(d[1]), d[2], PendingIds)
  /\ UNCHANGED <<cursor, pel, idle, attempts, dlq, proc, target, deliv, in_flight,
                 pass, old, faults, done, released, starts>>

\* The reply reaches the buffer, or is lost: a timeout, or a claim dropped
\* with its read under way by the shutdown.
Buffered(p, S) ==
  \/ deliv' = deliv \cup {Delivery(p, i, "buffered", 0) : i \in S} /\ UNCHANGED <<faults, proc, pass>>
  \/ Fault /\ UNCHANGED <<deliv, proc, pass>>
  \/ /\ p \in Leaving /\ Fault /\ proc' = [proc EXCEPT ![p] = "draining"]
     /\ pass' \in {pass, pass \cup {p}} /\ UNCHANGED deliv

\* Mutant of NotInFlight: the refill reads the whole pending list again.
AllOwned(p) == Owned(p)

NotInFlight(p) == Owned(p) \ in_flight[p]

\* read_own_pending: redeliver own entries nobody here is processing, and
\* reset the idle clock of the others it lists.
read_own_pending(p) ==
  LET again == First(NotInFlight(p), Batch)
      live  == First(Owned(p), Batch + Cardinality(in_flight[p])) \cap in_flight[p]
  IN  /\ NotInFlight(p) # {}
      /\ XClaim(again \cup live, p)
      /\ Buffered(p, again \cap present)
      /\ UNCHANGED <<entry, last, present, cursor, attempts, delayed, dlq>>

\* read_fresh: entries after the cursor.  One pending for another consumer
\* changes hands.
read_fresh(p) ==
  LET fresh == First({i \in present : i > cursor}, Batch)
  IN  /\ NotInFlight(p) = {} /\ fresh # {}
      /\ pel' = [i \in Ids |-> IF i \in fresh THEN p ELSE pel[i]]
      /\ idle' = idle \ fresh
      /\ cursor' = Max(fresh)
      /\ Buffered(p, fresh)
      /\ UNCHANGED <<entry, last, present, attempts, delayed, dlq, discarded>>

\* Under the refill lock and with the buffer empty: own entries first, fresh
\* ones when there are none.
refill_prefetch(p) ==
  /\ proc[p] = "up" /\ Buffer(p) = {}
  /\ read_own_pending(p) \/ read_fresh(p)
  /\ UNCHANGED <<target, in_flight, old, done, released, starts>>

---------------------------------------------------------------------------
(* A delivery: claim_with, process_one and Drop.                           *)

\* The lease exists and its entry is in flight, under the buffer lock.
pop_prefetched(p, i) ==
  /\ proc[p] = "up"
  /\ \E d \in Buffer(p) :
       /\ d.id = i /\ \A e \in Buffer(p) : e.id >= i
       /\ deliv' = (deliv \ {d}) \cup {[d EXCEPT !.phase = "claimed"]}
  /\ in_flight' = [in_flight EXCEPT ![p] = @ \cup {i}]
  /\ UNCHANGED <<redis, proc, target, pass, old, faults, history, starts>>

\* Mutant of exceeded_processing_retries: off by one.
ExceededLate(n, prior) == n + prior > MaxRetries + 1

exceeded_processing_retries(n, prior) == n + prior > MaxRetries

\* record_attempt counts the start; the entry is buried or its handler runs.
record_attempt(d) ==
  LET n == attempts[d.id] + 1
      buried == exceeded_processing_retries(n, entry[d.id].prior) \/ Root(d.id) \in BadPayload
  IN  /\ d.phase = "claimed" /\ proc[d.proc] \in Running
      /\ attempts' = [attempts EXCEPT ![d.id] = n]
      /\ deliv' = (deliv \ {d}) \cup
                  {[d EXCEPT !.phase = IF buried THEN "burying" ELSE "running", !.n = n]}
      /\ starts' = IF ~buried /\ Pending(d.id) THEN [starts EXCEPT ![d.id] = @ + 1] ELSE starts
      /\ UNCHANGED <<entry, last, present, cursor, pel, idle, delayed, dlq, proc,
                     target, in_flight, pass, old, faults, history>>

\* Copy and XACK in one script, rolled back unless the XACK removed the entry.
move_msg_to_dlq(d) ==
  /\ d.phase = "burying" /\ proc[d.proc] \in Running
  /\ Finish(d)
  /\ IF Pending(d.id) THEN dlq' = [dlq EXCEPT ![d.id] = @ + 1] /\ XAck(d.id)
                      ELSE UNCHANGED <<dlq, pel, idle, attempts, starts>>
  /\ UNCHANGED <<entry, last, present, cursor, delayed, proc, target, pass, old,
                 faults, history>>

\* The handler succeeds and its XACK removes the entry, whoever owns it by now,
\* or nothing.
ack_processed(d) ==
  /\ d.phase = "running" /\ proc[d.proc] \in Running
  /\ Finish(d) /\ XAck(d.id)
  /\ done' = IF Pending(d.id) THEN done \cup {Root(d.id)} ELSE done
  /\ UNCHANGED <<entry, last, present, cursor, delayed, dlq, proc, target, pass, old,
                 faults, discarded, released>>

\* What the copy carries: the count so far, with this entry's starts if the
\* error opted in (PRESERVE_DELIVERY_COUNT_TOKEN).
Carried(d, counted) == entry[d.id].prior + (IF counted THEN d.n ELSE 0)

\* Mutant of requeue_msg_for_infrastructure_retry: the copy is made although
\* the XACK removed nothing.
RequeueUnacked(d) ==
  /\ d.phase = "running" /\ proc[d.proc] \in Running /\ IdLeft
  /\ Finish(d)
  /\ \E counted \in BOOLEAN :
       \/ /\ delayed' = delayed \cup {<<d.id, Carried(d, counted)>>}
          /\ UNCHANGED <<entry, last, present, discarded>>
       \/ /\ XAdd(Root(d.id), Carried(d, counted), PendingIds \ {d.id})
          /\ UNCHANGED delayed
  /\ XAck(d.id)
  /\ UNCHANGED <<cursor, dlq, proc, target, pass, old, faults, done, released>>

\* An infrastructure error: with a backoff a copy waits in the delayed set,
\* without one it is added at once.  Nothing happens unless the XACK removed
\* the pending entry.
requeue_msg_for_infrastructure_retry(d) ==
  /\ d.phase = "running" /\ proc[d.proc] \in Running /\ IdLeft
  /\ Finish(d)
  /\ IF ~Pending(d.id)
     THEN UNCHANGED <<entry, last, present, pel, idle, attempts, delayed, discarded, starts>>
     ELSE /\ \E counted \in BOOLEAN :
               \/ /\ delayed' = delayed \cup {<<d.id, Carried(d, counted)>>}
                  /\ UNCHANGED <<entry, last, present, discarded>>
               \/ /\ XAdd(Root(d.id), Carried(d, counted), PendingIds \ {d.id})
                  /\ UNCHANGED delayed
          /\ XAck(d.id)
  /\ UNCHANGED <<cursor, dlq, proc, target, pass, old, faults, done, released>>

\* The delivery ends without a settlement and its entry stays pending: the
\* handler failed, panicked or was cancelled, the lease was dropped, or the
\* start could not be counted.
DeliveryFails(d) ==
  /\ d.phase # "buffered" /\ proc[d.proc] \in Running
  /\ IF d.phase = "running" \/ proc[d.proc] # "up" THEN UNCHANGED faults ELSE Fault
  /\ Finish(d)
  /\ UNCHANGED <<redis, proc, target, pass, old, history, starts>>

\* The keepalive resets the idle clock of an entry its consumer still owns,
\* unless the entry is gone from the stream.
touch_pending_entry(d) ==
  /\ d.phase = "running" /\ proc[d.proc] \in Running
  /\ pel[d.id] = d.proc /\ d.id \in present
  /\ idle' = idle \ {d.id}
  /\ UNCHANGED <<entry, last, present, cursor, pel, attempts, delayed, dlq, proc, target,
                 deliv, in_flight, pass, old, faults, history, starts>>

---------------------------------------------------------------------------
(* Time, the janitor and the trim.                                         *)

KeptAlive(i) == \E d \in deliv : d.id = i /\ d.proc = pel[i] /\ d.phase \in {"running", "burying"}

\* A pending entry nobody keeps alive passes the orphan idle time: its consumer
\* is gone, or the entry waits in a buffer or for an executor.
OrphanIdles(i) ==
  /\ Pending(i) /\ i \notin idle /\ ~KeptAlive(i)
  /\ idle' = idle \cup {i}
  /\ UNCHANGED <<entry, last, present, cursor, pel, attempts, delayed, dlq, proc, target,
                 deliv, in_flight, pass, old, faults, history, starts>>

KeepaliveMissed(i) ==
  /\ Pending(i) /\ i \notin idle /\ KeptAlive(i) /\ Fault
  /\ idle' = idle \cup {i}
  /\ UNCHANGED <<entry, last, present, cursor, pel, attempts, delayed, dlq, proc, target,
                 deliv, in_flight, pass, old, history, starts>>

\* The oldest entry inside the startup window leaves it.
EntryAges ==
  /\ old < last /\ old' = old + 1
  /\ UNCHANGED <<redis, proc, target, deliv, in_flight, pass, faults, history, starts>>

\* Without a window a startup ends with the recovery.
Recovered == IF Window THEN "ff" ELSE "up"

\* Mutant of recover_orphaned_items: a reclaim forgets the starts so far.
ReclaimForgets(p) ==
  /\ XClaim(idle, p)
  /\ \/ proc[p] = "up" /\ UNCHANGED <<proc, pass>>
     \/ proc[p] = "recover" /\ proc' = [proc EXCEPT ![p] = Recovered] /\ UNCHANGED pass
     \/ p \in pass /\ pass' = pass \ {p} /\ UNCHANGED proc
  /\ attempts' = [i \in Ids |-> IF i \in idle THEN 0 ELSE attempts[i]]
  /\ UNCHANGED <<entry, last, present, cursor, delayed, dlq, target, deliv, in_flight,
                 old, faults, done, released, starts>>

\* XAUTOCLAIM into this consumer: on a janitor tick, at startup, and in a pass
\* that was under way when the shutdown came.
recover_orphaned_items(p) ==
  /\ XClaim(idle, p)
  /\ \/ proc[p] = "up" /\ UNCHANGED <<proc, pass>>
     \/ proc[p] = "recover" /\ proc' = [proc EXCEPT ![p] = Recovered] /\ UNCHANGED pass
     \/ p \in pass /\ pass' = pass \ {p} /\ UNCHANGED proc
  /\ UNCHANGED <<entry, last, present, cursor, attempts, delayed, dlq, target, deliv,
                 in_flight, old, faults, done, released, starts>>

\* The entries of a consumer that has been gone for long move here, then the
\* consumer is deleted with nothing pending.
cleanup_stale_consumers(p) ==
  /\ proc[p] = "up"
  /\ \E c \in Procs \cup {Former} : Gone(c) /\ Owned(c) # {} /\ XClaim(Owned(c), p)
  /\ UNCHANGED <<entry, last, present, cursor, attempts, delayed, dlq, proc, target, deliv,
                 in_flight, pass, old, faults, done, released, starts>>

\* The janitor's trim: below the oldest pending entry, or by age when nothing
\* is pending.
trim_stream(p) ==
  /\ proc[p] = "up"
  /\ \E s \in XTrim(present, {i \in present : IF PendingIds # {} THEN i < Min(PendingIds)
                                                               ELSE i <= old}) :
       /\ s # present
       /\ present' = s /\ discarded' = discarded \cup Skipped(s)
  /\ UNCHANGED <<entry, last, cursor, pel, idle, attempts, delayed, dlq, proc, target, deliv,
                 in_flight, pass, old, faults, done, released, starts>>

---------------------------------------------------------------------------
(* Startup: recovery, fast-forward, purge; each is tried once.             *)

Startup == <<"recover", "ff", "setid", "purge", "purge_del", "up">>

\* When a step of the startup fails or times out the next one follows.
StartupStepSkipped(p) ==
  /\ \E k \in 1..5 :
       /\ proc[p] = Startup[k] /\ Fault
       /\ proc' = [proc EXCEPT ![p] = CASE k = 1 -> Recovered [] k = 2 -> "purge"
                                         [] OTHER -> Startup[k + 1]]
  /\ UNCHANGED <<redis, target, deliv, in_flight, pass, old, history, starts>>

\* fast_forward_if_stale reads the group's position and compares its age with
\* the window.  A position just outside the window counts as inside (slack).
FastForwardReads(p) ==
  /\ proc[p] = "ff"
  /\ \/ /\ cursor <= old
        /\ proc' = [proc EXCEPT ![p] = "setid"]
        /\ target' = [target EXCEPT ![p] = old]
     \/ /\ cursor >= old
        /\ proc' = [proc EXCEPT ![p] = "purge"] /\ UNCHANGED target
  /\ UNCHANGED <<redis, deliv, in_flight, pass, old, faults, history, starts>>

\* XGROUP SETID, wherever the group is by now.
fast_forward_if_stale(p) ==
  /\ proc[p] = "setid"
  /\ cursor' = target[p]
  /\ discarded' = discarded \cup {Root(i) : i \in {j \in present : cursor < j /\ j <= target[p]}}
  /\ target' = [target EXCEPT ![p] = 0]
  /\ proc' = [proc EXCEPT ![p] = "purge"]
  /\ UNCHANGED <<entry, last, present, pel, idle, attempts, delayed, dlq, deliv,
                 in_flight, pass, old, faults, done, released, starts>>

\* purge_old_pending, first phase: XACK what is pending and older than the
\* window, whoever processes it.
PurgePending(p) ==
  LET purged == {i \in PendingIds : i <= old} IN
  /\ proc[p] = "purge"
  /\ pel' = [i \in Ids |-> IF i \in purged THEN NoProc ELSE pel[i]]
  /\ idle' = idle \ purged
  /\ discarded' = discarded \cup {Root(i) : i \in purged}
  /\ starts' = [i \in Ids |-> IF i \in purged THEN 0 ELSE starts[i]]
  /\ target' = [target EXCEPT ![p] = old]
  /\ proc' = [proc EXCEPT ![p] = "purge_del"]
  /\ UNCHANGED <<entry, last, present, cursor, attempts, delayed, dlq, deliv, in_flight,
                 pass, old, faults, done, released>>

\* Second phase: XDEL the old entries of the stream.
purge_old_pending(p) ==
  LET kept == {i \in present : i > target[p]} IN
  /\ proc[p] = "purge_del"
  /\ present' = kept /\ discarded' = discarded \cup Skipped(kept)
  /\ proc' = [proc EXCEPT ![p] = "up"]
  /\ target' = [target EXCEPT ![p] = 0]
  /\ UNCHANGED <<entry, last, cursor, pel, idle, attempts, delayed, dlq, deliv,
                 in_flight, pass, old, faults, done, released, starts>>

---------------------------------------------------------------------------
(* Shutdown and stop.                                                      *)

\* The claimers stop; a janitor pass under way goes on to its end.
Shutdown(p) ==
  /\ proc[p] = "up" /\ p \in Leaving /\ Fault
  /\ proc' = [proc EXCEPT ![p] = "draining"]
  /\ pass' \in {pass, pass \cup {p}}
  /\ UNCHANGED <<redis, target, deliv, in_flight, old, history, starts>>

\* unregister_idle_consumer asks first, once the executors are drained or
\* aborted.
consumer_has_pending(p) ==
  /\ proc[p] = "draining" /\ Owned(p) = {}
  /\ \A d \in deliv : d.proc = p => d.phase = "buffered"
  /\ proc' = [proc EXCEPT ![p] = "checked"]
  /\ UNCHANGED <<redis, target, deliv, in_flight, pass, old, faults, history, starts>>

\* The process ends.
Stop(p) ==
  /\ proc' = [proc EXCEPT ![p] = "gone"]
  /\ deliv' = {d \in deliv : d.proc # p}
  /\ in_flight' = [in_flight EXCEPT ![p] = {}]
  /\ pass' = pass \ {p}
  /\ target' = [target EXCEPT ![p] = 0]

\* XGROUP DELCONSUMER deletes the consumer with whatever it owns by now.
unregister_consumer(p) ==
  /\ proc[p] = "checked" /\ Stop(p)
  /\ pel' = [i \in Ids |-> IF pel[i] = p THEN NoProc ELSE pel[i]]
  /\ idle' = idle \ Owned(p)
  /\ starts' = [i \in Ids |-> IF pel[i] = p THEN 0 ELSE starts[i]]
  /\ released' = released \cup {Root(i) : i \in Owned(p)}
  /\ UNCHANGED <<entry, last, present, cursor, attempts, delayed, dlq, old, faults,
                 done, discarded>>

Crash(p) ==
  /\ proc[p] \notin {"gone", "draining", "checked"} /\ Fault /\ Stop(p)
  /\ UNCHANGED <<redis, old, history, starts>>

\* Shutdown has deadlines: the process ends with or without unregistering.
Exit(p) ==
  /\ proc[p] \in {"draining", "checked"} /\ Stop(p)
  /\ UNCHANGED <<redis, old, faults, history, starts>>

\* A new process has a new consumer name.  It is called p again, and the name
\* of the process that is gone becomes Former.
Start(p) ==
  /\ proc[p] = "gone"
  /\ proc' = [proc EXCEPT ![p] = "recover"]
  /\ pel' = [i \in Ids |-> IF pel[i] = p THEN Former ELSE pel[i]]
  /\ UNCHANGED <<entry, last, present, cursor, idle, attempts, delayed, dlq, target,
                 deliv, in_flight, pass, old, faults, history, starts>>

---------------------------------------------------------------------------
HandlerEnds(d) ==
  ack_processed(d) \/ requeue_msg_for_infrastructure_retry(d) \/ DeliveryFails(d)

Deliver(d) ==
  record_attempt(d) \/ move_msg_to_dlq(d) \/ HandlerEnds(d) \/ touch_pending_entry(d)

Claim(p) == refill_prefetch(p) \/ (\E i \in Ids : pop_prefetched(p, i)) \/ promote_due_delayed(p)

Janitor(p) == recover_orphaned_items(p) \/ cleanup_stale_consumers(p) \/ trim_stream(p)

StartStep(p) ==
  \/ StartupStepSkipped(p) \/ FastForwardReads(p) \/ fast_forward_if_stale(p)
  \/ PurgePending(p) \/ purge_old_pending(p)

Leave(p) ==
  \/ Shutdown(p) \/ consumer_has_pending(p) \/ unregister_consumer(p)
  \/ Crash(p) \/ Exit(p) \/ Start(p)

Next ==
  \/ enqueue \/ EntryAges
  \/ \E d \in deliv : Deliver(d)
  \/ \E i \in Ids : OrphanIdles(i) \/ KeepaliveMissed(i)
  \/ \E p \in Procs : Claim(p) \/ Janitor(p) \/ StartStep(p) \/ Leave(p)

Spec == Init /\ [][Next]_vars

\* Claimers poll, executors run the leases they receive, handlers end (every
\* run has a budget), time passes, the janitor of a running process ticks every
\* minute and a stopped worker is replaced.
Fairness ==
  /\ \A p \in Procs :
       /\ WF_vars(refill_prefetch(p)) /\ WF_vars(\E i \in Ids : pop_prefetched(p, i))
       /\ WF_vars(promote_due_delayed(p)) /\ WF_vars(recover_orphaned_items(p))
       /\ WF_vars(StartStep(p)) /\ WF_vars(Exit(p)) /\ WF_vars(Start(p))
  /\ \A p \in Procs, i \in Ids :
       /\ WF_vars(\E d \in deliv : d.proc = p /\ d.id = i /\ record_attempt(d))
       /\ WF_vars(\E d \in deliv : d.proc = p /\ d.id = i /\ move_msg_to_dlq(d))
       /\ WF_vars(\E d \in deliv : d.proc = p /\ d.id = i /\ HandlerEnds(d))
  /\ \A i \in Ids : WF_vars(OrphanIdles(i))

FairSpec == Spec /\ Fairness

---------------------------------------------------------------------------
(* Properties.                                                             *)

\* The types of the stream, the group, the deliveries and the histories.
TypeOK ==
  /\ entry \in [Ids -> [root : Ids, prior : 0..MaxRetries]]
  /\ last \in 0..MaxIds /\ cursor \in 0..MaxIds /\ old \in 0..MaxIds
  /\ present \subseteq 1..last
  /\ pel \in [Ids -> Procs \cup {Former, NoProc}]
  /\ idle \subseteq PendingIds
  /\ attempts \in [Ids -> Nat] /\ dlq \in [Ids -> Nat] /\ starts \in [Ids -> Nat]
  /\ delayed \subseteq Ids \X (0..MaxRetries)
  /\ proc \in [Procs -> {Startup[k] : k \in 1..6} \cup {"draining", "checked", "gone"}]
  /\ target \in [Procs -> 0..MaxIds]
  /\ deliv \subseteq [proc : Procs, id : Ids, phase : Phases, n : Nat]
  /\ in_flight \in [Procs -> SUBSET Ids] /\ pass \subseteq Procs
  /\ faults \in 0..MaxFaults
  /\ done \cup discarded \cup released \subseteq Ids

Sent == {Root(i) : i \in 1..last}

\* Where message r is: its copies, its dead letters, its other ends.
Places(r) ==
  {<<"live", i>> : i \in {j \in 1..last : Root(j) = r /\ (Undelivered(j) \/ Pending(j))}}
  \cup {<<"delayed", d>> : d \in {e \in delayed : Root(e[1]) = r}}
  \cup {x \in {"dead"} \X (1..last) \X (1..MaxIds) : Root(x[2]) = r /\ x[3] <= dlq[x[2]]}
  \cup {<<e>> : e \in {f \in {"done", "discarded", "released"} :
                         r \in CASE f = "done" -> done [] f = "discarded" -> discarded
                                 [] OTHER -> released}}

\* Every enqueued message is in exactly one place: waiting, pending or delayed
\* as one copy, acknowledged by a handler that finished it, dead-lettered once,
\* or given up by a trim, a purge, the group's fast-forward or the deletion of
\* the consumer that a janitor pass reclaimed it for after the shutdown's check.
\* Requeues by two deliveries of one entry, reclaims, stale settlements and lost
\* replies neither lose nor double it.
Conserved ==
  \A r \in Sent : Cardinality(Places(r)) = 1

\* MAX_PROCESSING_RETRIES bounds the handler starts of an entry and of the
\* counted copies before it, across reclaims, crashes and stale deliveries of
\* other processes.
StartsBounded ==
  \A i \in 1..last : entry[i].prior + starts[i] <= MaxRetries

\* Within one process an entry is delivered once at a time: a refill never
\* buffers what the process has buffered, leased or running already
\* (refill_lock, in_flight).
OneDeliveryPerProcess ==
  \A d, e \in deliv :
    d.proc = e.proc /\ d.id = e.id => d = e

\* Trimming leaves an entry a consumer has pending in the stream until the
\* stream is longer than STREAM_HARD_MAXLEN.
PendingSpared ==
  [][\A i \in present \ present' :
       pel'[i] # NoProc => Cardinality(present') >= HardMaxLen]_vars

\* Every enqueued message is eventually acknowledged, dead-lettered or given up.
EventuallySettled ==
  \A r \in Ids : (r <= last /\ Root(r) = r) ~>
    (r \in done \cup discarded \cup released \/ \E i \in Ids : Root(i) = r /\ dlq[i] > 0)
============================================================================
