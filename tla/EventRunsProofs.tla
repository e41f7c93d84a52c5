-------------------------- MODULE EventRunsProofs --------------------------
(* The run rows of an event's handlers: ends are final, a run is retried   *)
(* once, a finished run is not repeated, a settled event leaves no run open*)
(* but those the history accounts for.                                     *)
EXTENDS EventRuns, FiniteSetTheorems, TLAPS

NoSched == <<0, NoRun>>
Statuses == {"none"} \cup Open \cup Finished

\* A message that may be claimed has a delivery left; the copies of an entry
\* keep its base below the limit.
CountsLeft ==
  \A e \in Events : /\ msg[e].base < MaxDeliveries
                    /\ At(e) = "queued" => msg[e].count < MaxDeliveries
                    /\ e > events => msg[e] = NoMsg

\* A delivery knows the message it still owns; a lost one never comes back.
JobShape ==
  \A w \in Workers :
    /\ job[w].phase = "idle" => job[w] = Idle
    /\ Busy(w) => /\ Event(w) \in Events
                  /\ job[w].msg.count >= 1 /\ job[w].msg.base < MaxDeliveries
                  /\ job[w].msg.copy <= msg[Event(w)].copy
                  /\ Own(w) => msg[Event(w)] = job[w].msg
    /\ IF job[w].phase = "running" THEN job[w].run \in job[w].todo ELSE job[w].run = NoRun
    /\ job[w].phase = "claimed" => job[w].todo = {}

\* The runs that had ended at the claim are still ended; a first delivery has none.
EndedShape ==
  \A w \in Workers :
    Busy(w) => /\ \A h \in job[w].ended : row[Event(w)][h] \in Finished
               /\ ~job[w].msg.redelivered => job[w].ended = {}
               /\ job[w].todo \cap job[w].ended = {}

\* Nothing is known of event e's runs yet.
Blank(e) == /\ \A h \in Handlers : row[e][h] = "none"
            /\ \A l \in late : l.run[1] # e

\* Until its first delivery has read the rows, an event has none.
FirstDelivery ==
  \A e \in Events : ~msg[e].redelivered =>
    /\ At(e) \in {"absent", "queued"} => Blank(e) /\ \A w \in Workers : Event(w) # e
    /\ At(e) = "taken" => \A w \in Workers : Event(w) = e =>
         owner[e] = w /\ (job[w].phase = "claimed" => Blank(e))

\* A pending retry has an attempt left.
RetryAllowed ==
  \A e \in Events, h \in Handlers : row[e][h] = "retry" => event[e].attempt < MaxAttempts

\* The run whose retry is being queued has failed.
SchedShape == sched # NoSched => row[sched[1]][sched[2]] \in {"retry", "failed"}

\* A run with a retry is not due for another, but for one left unmarked.
Retried ==
  \A e \in 2..events : event[e].of \in Runs \ unmarked =>
    event[e].of = sched \/ row[event[e].of[1]][event[e].of[2]] = "failed"

RetriesDiffer ==
  \A d, e \in 2..events :
    event[d].of \in Runs \ unmarked /\ event[d].of = event[e].of => d = e

\* On Redis a delivery whose entry is with somebody else runs nothing more.
FenceHolds ==
  \A w \in Workers :
    redis /\ Busy(w) /\ Reaches(w) /\ ~Own(w) => job[w].claim # "held" /\ job[w].phase # "running"

\* Somebody will get to run h of event e: a delivery that has it to do, a result
\* on its way, or the delivery that has or will have the message.
Carried(e, h) == \E w \in Workers : Event(w) = e /\ h \in job[w].todo
Awaited(e, h) == \E l \in late : l.run = <<e, h>>
Pending(e, h) ==
  \/ At(e) \in {"queued", "left", "lapsed"}
  \/ \E w \in Workers : /\ Event(w) = e /\ Busy(w) /\ Own(w)
                        /\ \/ job[w].phase = "claimed"
                           \/ job[w].phase = "read" /\ h \in Unrun(w)

Accounted(e, h) == <<e, h>> \in lost \/ Carried(e, h) \/ Awaited(e, h) \/ Pending(e, h)

OpenAccounted == \A e \in Events, h \in Handlers : row[e][h] \in Open => Accounted(e, h)

\* What the rows, the events and the scheduler's bookkeeping agree on.
Booked == RetryAllowed /\ SchedShape /\ Retried /\ RetriesDiffer

IInv == /\ TypeOK /\ CountsLeft /\ JobShape /\ EndedShape /\ FirstDelivery
        /\ Booked /\ FenceHolds /\ OpenAccounted

---------------------------------------------------------------------------
(* Types.                                                                  *)

Jobs == [event : 0..MaxEvents, phase : {"idle", "claimed", "read", "ready", "running"},
         msg : Messages, view : [Handlers -> Statuses], todo : SUBSET Handlers,
         run : Handlers \cup {NoRun}, started : BOOLEAN,
         claim : {"held", "unconfirmed", "lost"}, ended : SUBSET Handlers]

Table == [Events -> [Handlers -> Statuses]]

LEMMA Types ==
  ASSUME TypeOK
  PROVE  /\ job \in [Workers -> Jobs] /\ msg \in [Events -> Messages] /\ row \in Table
         /\ late \subseteq [worker : Workers, run : Runs, out : Outcomes]
         /\ \A w \in Workers : job[w] \in Jobs
         /\ \A e \in Events : msg[e] \in Messages /\ row[e] \in [Handlers -> Statuses]
         /\ \A e \in Events, h \in Handlers : row[e][h] \in Statuses
  BY DEF TypeOK, Jobs, Table, Statuses

LEMMA IdleType == Idle \in Jobs /\ NoMsg \in Messages /\ Queued \in Messages
<1>0. NoMsg \in Messages
  BY RunSizes DEF NoMsg, Messages
<1>1. Queued \in Messages
  BY <1>0 DEF Messages, Queued
<1>2. NoView \in [Handlers -> Statuses]
  BY DEF NoView, Statuses
<1>. QED BY <1>0, <1>1, <1>2, RunSizes DEF Idle, Jobs

LEMMA NoRunFacts == NoRun \notin Handlers /\ NoSched \notin Runs /\ 0 \notin Events
  BY RunNulls DEF NoSched, Runs, Events

---------------------------------------------------------------------------
(* Rows.                                                                   *)

\* What any statement may make of the status s of a run of event e.
Advance(e, s, t) ==
  \/ t = s
  \/ s \in {"none"} \cup Open /\ t \in Open \cup Outcomes
  \/ s = "running" /\ t = "retry" /\ event[e].attempt < MaxAttempts
  \/ s = "retry" /\ t = "failed"

RowsAdvance == \A e \in Events, h \in Handlers : Advance(e, row[e][h], row'[e][h])

\* No run of event e starts or is reopened.
Closes(e) == \A h \in Handlers : \/ row'[e][h] = row[e][h]
                                 \/ row[e][h] # "none" /\ row'[e][h] \notin Open

\* The statements that only advance rows keep the books.
LEMMA RowsBook ==
  ASSUME TypeOK, Booked, RowsAdvance, UNCHANGED <<events, event, sched, unmarked>>
  PROVE  Booked'
<1>1. RetryAllowed'
  BY Types DEF Booked, RetryAllowed, RowsAdvance, Advance, Open, Outcomes
<1>2. SchedShape'
  <2>1. CASE sched # NoSched
    <3>1. sched[1] \in Events /\ sched[2] \in Handlers
      BY <2>1 DEF TypeOK, NoSched, Runs
    <3>. QED BY <2>1, <3>1 DEF Booked, SchedShape, RowsAdvance, Advance, Open, Outcomes
  <2>. QED BY <2>1 DEF SchedShape
<1>3. Retried'
  <2> SUFFICES ASSUME NEW e \in 2..events, event[e].of \in Runs \ unmarked, event[e].of # sched
               PROVE  row'[event[e].of[1]][event[e].of[2]] = "failed"
    BY DEF Retried
  <2>1. event[e].of[1] \in Events /\ event[e].of[2] \in Handlers
    BY DEF Runs
  <2>2. row[event[e].of[1]][event[e].of[2]] = "failed"
    BY DEF Booked, Retried
  <2>. QED BY <2>1, <2>2 DEF RowsAdvance, Advance, Open, Outcomes
<1>4. RetriesDiffer'
  BY DEF Booked, RetriesDiffer
<1>. QED BY <1>1, <1>2, <1>3, <1>4 DEF Booked

\* Deliveries that go on keep what had ended.
LEMMA EndedKept ==
  ASSUME TypeOK, EndedShape, RowsAdvance,
         \A v \in Workers : \/ job'[v].phase = "idle"
                            \/ /\ Busy(v) /\ Event(v) \in Events
                               /\ job'[v].event = job[v].event /\ job'[v].msg = job[v].msg
                               /\ job'[v].ended = job[v].ended
                               /\ job'[v].todo \cap job[v].ended = {}
  PROVE  EndedShape'
<1> SUFFICES ASSUME NEW v \in Workers, job'[v].phase # "idle"
             PROVE  /\ \A h \in job'[v].ended : row'[job'[v].event][h] \in Finished
                    /\ ~job'[v].msg.redelivered => job'[v].ended = {}
                    /\ job'[v].todo \cap job'[v].ended = {}
  BY DEF EndedShape, Busy, Event
<1>1. job[v].ended \subseteq Handlers
  BY Types DEF Jobs
<1>2. \A h \in job[v].ended : row[Event(v)][h] \in Finished
  BY DEF EndedShape
<1>3. \A h \in job[v].ended : row'[Event(v)][h] \in Finished
  BY <1>1, <1>2 DEF RowsAdvance, Advance, Open, Outcomes, Finished
<1>. QED BY <1>3 DEF EndedShape, Event

\* What accounts for a run still does after a step that is not about it.
LEMMA AccountKept ==
  ASSUME NEW f \in Events, NEW h \in Handlers, Accounted(f, h),
         \A v \in Workers : Event(v) = f => job'[v] = job[v],
         msg'[f] = msg[f], owner'[f] = owner[f], lost \subseteq lost',
         \A l \in late : l.run = <<f, h>> => l \in late' \/ <<f, h>> \in lost'
  PROVE  Accounted(f, h)'
<1>1. CASE <<f, h>> \in lost
  BY <1>1 DEF Accounted
<1>2. CASE Carried(f, h)
  BY <1>2 DEF Accounted, Carried, Event
<1>3. CASE Awaited(f, h)
  BY <1>3 DEF Accounted, Awaited
<1>4. CASE Pending(f, h)
  BY <1>4 DEF Accounted, Pending, Event, At, Busy, Own, Unrun
<1>. QED BY <1>1, <1>2, <1>3, <1>4 DEF Accounted

---------------------------------------------------------------------------
(* Three kinds of steps: a delivery goes on, a message is released, or no  *)
(* delivery and no message changes.                                        *)

\* The delivery of e in worker w goes on; the message is not touched.
WorkStep(w, e) ==
  /\ UNCHANGED <<redis, events, event, msg, owner, sched, unmarked>>
  /\ \A v \in Workers \ {w} : job'[v] = job[v]
  /\ job'[w].phase # "idle"
  /\ job'[w].event = e /\ job'[w].msg = job[w].msg /\ job'[w].ended = job[w].ended
  /\ job'[w].todo \cap job[w].ended = {}
  /\ IF job'[w].phase = "running" THEN job'[w].run \in job'[w].todo ELSE job'[w].run = NoRun
  /\ job'[w].phase = "claimed" =>
       job[w].phase = "claimed" /\ job'[w].todo = {} /\ row' = row /\ late' = late
  /\ redis /\ Reaches(w) /\ ~Own(w) => job'[w].claim # "held" /\ job'[w].phase # "running"
  /\ \A f \in Events \ {e} : Closes(f)
  /\ \A l \in late' : l \in late \/ l.run[1] = e
  /\ late \subseteq late' /\ lost \subseteq lost'

LEMMA WorkInv ==
  ASSUME IInv, TypeOK', NEW w \in Workers, NEW e \in Events, Event(w) = e, Busy(w),
         RowsAdvance, WorkStep(w, e),
         \A h \in Handlers : row'[e][h] \in Open => Accounted(e, h)'
  PROVE  IInv'
<1> USE DEF IInv
<1>1. CountsLeft'
  BY DEF WorkStep, CountsLeft, At
<1>2. JobShape'
  <2> SUFFICES ASSUME NEW v \in Workers
               PROVE  /\ job'[v].phase = "idle" => job'[v] = Idle
                      /\ job'[v].phase # "idle" =>
                           /\ job'[v].event \in Events
                           /\ job'[v].msg.count >= 1 /\ job'[v].msg.base < MaxDeliveries
                           /\ job'[v].msg.copy <= msg[job'[v].event].copy
                           /\ msg[job'[v].event].at = "taken" /\ owner[job'[v].event] = v =>
                                msg[job'[v].event] = job'[v].msg
                      /\ IF job'[v].phase = "running" THEN job'[v].run \in job'[v].todo
                                                      ELSE job'[v].run = NoRun
                      /\ job'[v].phase = "claimed" => job'[v].todo = {}
    BY DEF JobShape, Busy, Event, Own, At, WorkStep
  <2>1. CASE v = w
    BY <2>1 DEF JobShape, Busy, Event, Own, At, WorkStep
  <2>2. CASE v # w
    BY <2>2 DEF JobShape, Busy, Event, Own, At, WorkStep
  <2>. QED BY <2>1, <2>2
<1>3. EndedShape'
  <2>1. \A v \in Workers : \/ job'[v].phase = "idle"
                           \/ /\ Busy(v) /\ Event(v) \in Events
                              /\ job'[v].event = job[v].event /\ job'[v].msg = job[v].msg
                              /\ job'[v].ended = job[v].ended
                              /\ job'[v].todo \cap job[v].ended = {}
    BY DEF WorkStep, JobShape, Busy, Event, EndedShape
  <2>. QED BY <2>1, EndedKept
<1>4. FirstDelivery'
  <2> SUFFICES ASSUME NEW f \in Events, ~msg[f].redelivered
               PROVE  /\ msg[f].at \in {"absent", "queued"} =>
                           Blank(f)' /\ \A v \in Workers : job'[v].event # f
                      /\ msg[f].at = "taken" => \A v \in Workers : job'[v].event = f =>
                           owner[f] = v /\ (job'[v].phase = "claimed" => Blank(f)')
    BY DEF FirstDelivery, WorkStep, At, Event
  <2>1. \A v \in Workers : job'[v].event = job[v].event
    BY DEF WorkStep, Event
  <2>2. CASE f # e
    <3>1. Blank(f) => Blank(f)'
      BY <2>2 DEF WorkStep, Blank, Closes
    <3>2. \A v \in Workers : job[v].event = f => job'[v] = job[v]
      BY <2>2 DEF WorkStep, Event
    <3>. QED BY <2>1, <3>1, <3>2 DEF FirstDelivery, At, Event
  <2>3. CASE f = e
    <3>1. msg[f].at \notin {"absent", "queued"}
      BY <2>3 DEF FirstDelivery, At
    <3>2. msg[f].at = "taken" => \A v \in Workers : job[v].event = f => v = w
      BY <2>3 DEF FirstDelivery, At, Event
    <3>3. job'[w].phase = "claimed" /\ Blank(f) => Blank(f)'
      BY DEF WorkStep, Blank
    <3>. QED BY <2>1, <2>3, <3>1, <3>2, <3>3 DEF FirstDelivery, At, Event, WorkStep
  <2>. QED BY <2>2, <2>3
<1>5. Booked'
  BY RowsBook DEF WorkStep
<1>6. FenceHolds'
  <2> SUFFICES ASSUME NEW v \in Workers, redis, job'[v].phase # "idle", Reaches(v)', ~Own(v)'
               PROVE  job'[v].claim # "held" /\ job'[v].phase # "running"
    BY DEF FenceHolds, WorkStep, Busy
  <2>1. Busy(v) /\ Reaches(v) /\ ~Own(v)
    BY DEF WorkStep, Busy, Reaches, Own, Event, At
  <2>2. CASE v = w
    BY <2>1, <2>2 DEF WorkStep
  <2>3. CASE v # w
    BY <2>1, <2>3 DEF WorkStep, FenceHolds
  <2>. QED BY <2>2, <2>3
<1>7. OpenAccounted'
  <2> SUFFICES ASSUME NEW f \in Events, NEW h \in Handlers, row'[f][h] \in Open, f # e
               PROVE  Accounted(f, h)'
    BY DEF OpenAccounted
  <2>1. row[f][h] \in Open
    BY DEF WorkStep, Closes
  <2>2. Accounted(f, h)
    BY <2>1 DEF OpenAccounted
  <2>3. \A v \in Workers : Event(v) = f => job'[v] = job[v]
    BY DEF WorkStep, Event
  <2>. QED BY <2>2, <2>3, AccountKept DEF WorkStep
<1>. QED BY <1>1, <1>2, <1>3, <1>4, <1>5, <1>6, <1>7

\* The message of e leaves its worker: it is settled, put back or abandoned.
Freed(e) ==
  /\ At(e) # "absent" /\ msg'[e].at \notin {"absent", "taken"}
  /\ msg'[e].base < MaxDeliveries /\ msg'[e].copy >= msg[e].copy
  /\ msg'[e].at = "queued" => msg'[e].count < MaxDeliveries /\ msg'[e].redelivered
  /\ redis /\ msg'[e].copy = msg[e].copy /\ msg'[e].at \in {"queued", "left", "lapsed"} =>
       /\ At(e) \in {"queued", "taken", "left", "lapsed"}
       /\ \A v \in Workers : Event(v) = e /\ Busy(v) /\ Own(v) /\ job'[v] = job[v] =>
                               job[v].claim # "held" /\ job[v].phase # "running"

\* Deliveries of e end, with or without the message.
ReleaseStep(e) ==
  /\ UNCHANGED <<redis, events, event, sched, unmarked>>
  /\ \A v \in Workers : job'[v] = job[v] \/ (job'[v] = Idle /\ Event(v) = e)
  /\ \A f \in Events \ {e} : msg'[f] = msg[f] /\ owner'[f] = owner[f] /\ Closes(f)
  /\ \/ Freed(e)
     \/ /\ msg'[e] = msg[e] /\ owner'[e] = owner[e]
        /\ Closes(e) \/ \E w \in Workers : Event(w) = e /\ ~Own(w)
  /\ late' \subseteq late /\ lost \subseteq lost' /\ \A l \in late \ late' : l.run \in lost'

LEMMA ReleaseInv ==
  ASSUME IInv, TypeOK', NEW e \in Events, RowsAdvance, ReleaseStep(e),
         \A h \in Handlers : row'[e][h] \in Open => Accounted(e, h)'
  PROVE  IInv'
<1> USE DEF IInv
<1>1. CountsLeft'
  <2> SUFFICES ASSUME NEW f \in Events
               PROVE  /\ msg'[f].base < MaxDeliveries
                      /\ msg'[f].at = "queued" => msg'[f].count < MaxDeliveries
                      /\ f > events => msg'[f] = NoMsg
    BY DEF CountsLeft, At, ReleaseStep
  <2>1. CASE msg'[f] = msg[f]
    BY <2>1 DEF CountsLeft, At
  <2>2. CASE msg'[f] # msg[f]
    BY <2>2 DEF CountsLeft, At, ReleaseStep, Freed, NoMsg
  <2>. QED BY <2>1, <2>2
<1>0. \A v \in Workers : job'[v].phase # "idle" => job'[v] = job[v]
  BY DEF ReleaseStep, Idle
<1>00. \A v \in Workers : job'[v] = job[v] \/ job'[v] = Idle
  BY DEF ReleaseStep
<1>2. JobShape'
  <2> SUFFICES ASSUME NEW v \in Workers
               PROVE  /\ job'[v].phase = "idle" => job'[v] = Idle
                      /\ job'[v].phase # "idle" =>
                           /\ job'[v].event \in Events
                           /\ job'[v].msg.count >= 1 /\ job'[v].msg.base < MaxDeliveries
                           /\ job'[v].msg.copy <= msg'[job'[v].event].copy
                           /\ msg'[job'[v].event].at = "taken" /\ owner'[job'[v].event] = v =>
                                msg'[job'[v].event] = job'[v].msg
                      /\ IF job'[v].phase = "running" THEN job'[v].run \in job'[v].todo
                                                      ELSE job'[v].run = NoRun
                      /\ job'[v].phase = "claimed" => job'[v].todo = {}
    BY DEF JobShape, Busy, Event, Own, At
  <2>1. CASE job'[v] = Idle
    BY <2>1 DEF Idle
  <2>2. CASE job'[v] = job[v] /\ Busy(v)
    <3>1. Event(v) \in Events /\ job[v].msg.copy <= msg[Event(v)].copy
      BY <2>2 DEF JobShape
    <3>2. /\ msg'[Event(v)].copy \in Nat /\ msg[Event(v)].copy \in Nat /\ job[v].msg.copy \in Nat
          /\ msg'[Event(v)].copy >= msg[Event(v)].copy
      <4>1. msg'[Event(v)] \in Messages /\ msg[Event(v)] \in Messages
        BY <3>1 DEF TypeOK
      <4>2. job[v].msg \in Messages
        BY Types DEF Jobs
      <4>3. msg'[Event(v)] = msg[Event(v)] \/ Freed(Event(v))
        BY <3>1 DEF ReleaseStep
      <4>. QED BY <4>1, <4>2, <4>3 DEF Messages, Freed
    <3>3. job[v].msg.copy <= msg'[Event(v)].copy
      BY <3>1, <3>2
    <3>4. msg'[Event(v)].at = "taken" => msg'[Event(v)] = msg[Event(v)] /\ owner'[Event(v)] = owner[Event(v)]
      BY <3>1 DEF ReleaseStep, Freed
    <3>. QED BY <2>2, <3>1, <3>3, <3>4 DEF JobShape, Busy, Event, Own, At
  <2>3. CASE job'[v] = job[v] /\ ~Busy(v)
    BY <2>3 DEF JobShape, Busy
  <2>. QED BY <1>00, <2>1, <2>2, <2>3
<1>3. EndedShape'
  <2>1. \A v \in Workers : \/ job'[v].phase = "idle"
                           \/ /\ Busy(v) /\ Event(v) \in Events
                              /\ job'[v].event = job[v].event /\ job'[v].msg = job[v].msg
                              /\ job'[v].ended = job[v].ended
                              /\ job'[v].todo \cap job[v].ended = {}
    BY <1>0 DEF JobShape, Busy, EndedShape
  <2>. QED BY <2>1, EndedKept
<1>4. FirstDelivery'
  <2> SUFFICES ASSUME NEW f \in Events, ~msg'[f].redelivered
               PROVE  /\ msg'[f].at \in {"absent", "queued"} =>
                           Blank(f)' /\ \A v \in Workers : job'[v].event # f
                      /\ msg'[f].at = "taken" => \A v \in Workers : job'[v].event = f =>
                           owner'[f] = v /\ (job'[v].phase = "claimed" => Blank(f)')
    BY DEF FirstDelivery, At, Event
  <2>1. \A v \in Workers : job'[v].event = f => job'[v] = job[v]
    BY <1>00, NoRunFacts DEF Idle
  <2>2. CASE msg'[f] = msg[f] /\ owner'[f] = owner[f] /\ Closes(f)
    <3>1. Blank(f) => Blank(f)'
      BY <2>2 DEF ReleaseStep, Blank, Closes
    <3>. QED BY <2>1, <2>2, <3>1 DEF FirstDelivery, At, Event
  <2>3. CASE f = e /\ Freed(e)
    BY <2>3 DEF Freed
  <2>4. CASE f = e /\ msg'[e] = msg[e] /\ owner'[e] = owner[e] /\ \E w \in Workers : Event(w) = e /\ ~Own(w)
    BY <2>4 DEF FirstDelivery, At, Event, Own
  <2>. QED BY <2>2, <2>3, <2>4 DEF ReleaseStep
<1>5. Booked'
  BY RowsBook DEF ReleaseStep
<1>6. FenceHolds'
  <2> SUFFICES ASSUME NEW v \in Workers, redis, job'[v].phase # "idle", Reaches(v)', ~Own(v)'
               PROVE  job'[v].claim # "held" /\ job'[v].phase # "running"
    BY DEF FenceHolds, ReleaseStep, Busy
  <2>1. Busy(v) /\ job'[v] = job[v] /\ Event(v) \in Events
    BY <1>0 DEF Busy, JobShape
  <2>2. CASE msg'[Event(v)] = msg[Event(v)] /\ owner'[Event(v)] = owner[Event(v)]
    BY <2>1, <2>2 DEF FenceHolds, Reaches, Own, Event, At, ReleaseStep
  <2>3. CASE Event(v) = e /\ Freed(e)
    <3>1. /\ msg'[e].at \in {"queued", "taken", "left", "lapsed"}
          /\ msg'[e].copy = job[v].msg.copy
      BY <2>1, <2>3 DEF Reaches, At, Event, ReleaseStep
    <3>2. msg[e].copy \in Nat /\ msg'[e].copy \in Nat
      BY DEF TypeOK, Messages
    <3>3. msg'[e].copy = msg[e].copy
      BY <2>1, <2>3, <3>1, <3>2 DEF Freed, JobShape
    <3>4. CASE Own(v)
      BY <2>1, <2>3, <3>1, <3>3, <3>4 DEF Freed
    <3>5. CASE ~Own(v)
      <4>1. Reaches(v)
        BY <2>1, <2>3, <3>1, <3>3 DEF Reaches, At, Event, Freed
      <4>. QED BY <2>1, <3>5, <4>1 DEF FenceHolds
    <3>. QED BY <3>4, <3>5
  <2>. QED BY <2>1, <2>2, <2>3 DEF ReleaseStep
<1>7. OpenAccounted'
  <2> SUFFICES ASSUME NEW f \in Events, NEW h \in Handlers, row'[f][h] \in Open, f # e
               PROVE  Accounted(f, h)'
    BY DEF OpenAccounted
  <2>1. row[f][h] \in Open
    BY DEF ReleaseStep, Closes
  <2>2. Accounted(f, h)
    BY <2>1 DEF OpenAccounted
  <2>3. \A v \in Workers : Event(v) = f => job'[v] = job[v]
    BY DEF ReleaseStep
  <2>4. \A l \in late : l.run = <<f, h>> => l \in late' \/ <<f, h>> \in lost'
    BY DEF ReleaseStep
  <2>. QED BY <2>2, <2>3, <2>4, AccountKept DEF ReleaseStep
<1>. QED BY <1>1, <1>2, <1>3, <1>4, <1>5, <1>6, <1>7

\* Rows advance, but no delivery and no message changes.
QuietStep ==
  /\ UNCHANGED <<redis, events, event, msg, owner, job>>
  /\ \A f \in Events : Closes(f)
  /\ late' \subseteq late /\ lost \subseteq lost'
  /\ \A f \in Events, h \in Handlers : row'[f][h] \in Open =>
       \A l \in late \ late' : l.run # <<f, h>> \/ l.run \in lost'

LEMMA QuietInv ==
  ASSUME IInv, TypeOK', RowsAdvance, QuietStep, Booked'
  PROVE  IInv'
<1> USE DEF IInv
<1>1. CountsLeft' /\ JobShape' /\ FenceHolds'
  BY DEF QuietStep, CountsLeft, JobShape, FenceHolds, Busy, Event, Own, At, Reaches
<1>2. EndedShape'
  <2>1. \A v \in Workers : \/ job'[v].phase = "idle"
                           \/ /\ Busy(v) /\ Event(v) \in Events
                              /\ job'[v].event = job[v].event /\ job'[v].msg = job[v].msg
                              /\ job'[v].ended = job[v].ended
                              /\ job'[v].todo \cap job[v].ended = {}
    BY DEF QuietStep, JobShape, Busy, EndedShape
  <2>. QED BY <2>1, EndedKept
<1>3. FirstDelivery'
  <2>1. \A f \in Events : Blank(f) => Blank(f)'
    BY DEF QuietStep, Blank, Closes
  <2>. QED BY <2>1 DEF QuietStep, FirstDelivery, At, Event
<1>4. OpenAccounted'
  <2> SUFFICES ASSUME NEW f \in Events, NEW h \in Handlers, row'[f][h] \in Open
               PROVE  Accounted(f, h)'
    BY DEF OpenAccounted
  <2>1. row[f][h] \in Open
    BY DEF QuietStep, Closes
  <2>2. Accounted(f, h)
    BY <2>1 DEF OpenAccounted
  <2>3. \A l \in late : l.run = <<f, h>> => l \in late' \/ <<f, h>> \in lost'
    BY DEF QuietStep
  <2>. QED BY <2>2, <2>3, AccountKept DEF QuietStep
<1>. QED BY <1>1, <1>2, <1>3, <1>4

---------------------------------------------------------------------------
(* Helpers for the actions.                                                *)

LEMMA TypeStep ==
  ASSUME TypeOK, row' \in Table, job' \in [Workers -> Jobs], msg' \in [Events -> Messages],
         owner' \in [Events -> Workers \cup {NoWorker}],
         late' \subseteq [worker : Workers, run : Runs, out : Outcomes],
         faults' \in 0..MaxFaults, lost' \subseteq Runs, interrupted' \subseteq Runs,
         UNCHANGED <<redis, deployed, events, event, sched, unmarked>>
  PROVE  TypeOK'
  BY DEF TypeOK, Table, Jobs, Statuses

LEMMA FaultType ==
  ASSUME TypeOK, Fault \/ UNCHANGED faults
  PROVE  faults' \in 0..MaxFaults
  BY RunSizes DEF TypeOK, Fault

LEMMA BusyJob ==
  ASSUME IInv, NEW w \in Workers, job[w].phase # "idle"
  PROVE  /\ Busy(w) /\ Event(w) \in Events /\ job[w] \in Jobs
         /\ \A h \in job[w].todo : h \in Handlers /\ <<Event(w), h>> \in Runs
         /\ job[w].phase = "running" => job[w].run \in job[w].todo
         /\ job[w].phase # "running" => job[w].run = NoRun
         /\ Own(w) => Reaches(w)
<1>1. Busy(w) /\ Event(w) \in Events /\ job[w] \in Jobs
  BY Types DEF IInv, JobShape, Busy
<1>2. job[w].todo \subseteq Handlers
  BY <1>1 DEF Jobs
<1>3. Own(w) => Reaches(w)
  BY <1>1 DEF Own, Reaches, IInv, JobShape
<1>. QED BY <1>1, <1>2, <1>3 DEF IInv, JobShape, Runs

LEMMA OneRow ==
  ASSUME TypeOK, NEW e \in Events, NEW h \in Handlers, NEW t \in Statuses,
         row' = [row EXCEPT ![e][h] = t]
  PROVE  /\ row' \in Table /\ row'[e][h] = t
         /\ \A g \in Handlers \ {h} : row'[e][g] = row[e][g]
         /\ \A f \in Events \ {e} : row'[f] = row[f] /\ Closes(f)
         /\ Advance(e, row[e][h], t) => RowsAdvance
<1>1. row \in Table /\ row[e] \in [Handlers -> Statuses]
  BY Types
<1>2. [row[e] EXCEPT ![h] = t] \in [Handlers -> Statuses] /\ row' = [row EXCEPT ![e] = [row[e] EXCEPT ![h] = t]]
  BY <1>1
<1>3. /\ row' \in Table /\ row'[e][h] = t
      /\ \A g \in Handlers \ {h} : row'[e][g] = row[e][g]
      /\ \A f \in Events \ {e} : row'[f] = row[f]
  BY <1>1, <1>2 DEF Table
<1>. QED BY <1>3 DEF Closes, RowsAdvance, Advance

LEMMA EventRows ==
  ASSUME TypeOK, NEW e \in Events, NEW F \in [Handlers -> Statuses], row' = WithRows(e, F)
  PROVE  /\ row' \in Table /\ \A h \in Handlers : row'[e][h] = F[h]
         /\ \A f \in Events \ {e} : row'[f] = row[f] /\ Closes(f)
         /\ (\A h \in Handlers : Advance(e, row[e][h], F[h])) => RowsAdvance
<1>1. row \in Table
  BY Types
<1>2. /\ row' \in Table /\ \A h \in Handlers : row'[e][h] = F[h]
      /\ \A f \in Events \ {e} : row'[f] = row[f]
  BY <1>1 DEF Table, WithRows
<1>. QED BY <1>2 DEF Closes, RowsAdvance, Advance

LEMMA OneJob ==
  ASSUME TypeOK, NEW w \in Workers, NEW j \in Jobs, job' = [job EXCEPT ![w] = j]
  PROVE  job' \in [Workers -> Jobs] /\ job'[w] = j /\ \A v \in Workers \ {w} : job'[v] = job[v]
  BY Types

LEMMA SameRows ==
  ASSUME TypeOK, UNCHANGED row
  PROVE  row' \in Table /\ RowsAdvance /\ \A f \in Events : Closes(f)
  BY Types DEF RowsAdvance, Advance, Closes

\* The part of worker w in accounting for run h of event e.
Mine(w, e, h) ==
  /\ Event(w) = e
  /\ \/ h \in job[w].todo
     \/ /\ Busy(w) /\ Own(w)
        /\ job[w].phase = "claimed" \/ (job[w].phase = "read" /\ h \in Unrun(w))

LEMMA AccountStep ==
  ASSUME NEW w \in Workers, NEW e \in Events, NEW h \in Handlers, Accounted(e, h),
         \A v \in Workers \ {w} : job'[v] = job[v],
         msg'[e] = msg[e], owner'[e] = owner[e], lost \subseteq lost',
         \A l \in late : l.run = <<e, h>> => l \in late' \/ <<e, h>> \in lost',
         Mine(w, e, h) => Accounted(e, h)'
  PROVE  Accounted(e, h)'
<1>1. CASE <<e, h>> \in lost
  BY <1>1 DEF Accounted
<1>2. CASE Carried(e, h)
  BY <1>2 DEF Accounted, Carried, Event, Mine
<1>3. CASE Awaited(e, h)
  BY <1>3 DEF Accounted, Awaited
<1>4. CASE Pending(e, h)
  BY <1>4 DEF Accounted, Pending, Event, At, Busy, Own, Unrun, Mine
<1>. QED BY <1>1, <1>2, <1>3, <1>4 DEF Accounted

---------------------------------------------------------------------------
(* A delivery goes on.                                                     *)

LEMMA ReadInv ==
  ASSUME IInv, NEW w \in Workers, earlier_deliveries(w)
  PROVE  IInv' /\ RowsAdvance
<1> DEFINE view == IF job[w].msg.redelivered THEN row[Event(w)] ELSE NoView
           todo == {h \in HandlersOf(Event(w)) : Executes(view[h])}
<1>1. job[w].phase = "claimed" /\ TypeOK
  BY DEF earlier_deliveries, IInv
<1>2. PICK e \in Events : e = Event(w)
  BY <1>1, BusyJob
<1>3. view \in [Handlers -> Statuses] /\ todo \subseteq Handlers
  BY <1>1, <1>2, Types DEF NoView, Statuses, HandlersOf, TypeOK
<1> DEFINE j == [job[w] EXCEPT !.phase = "read", !.view = view, !.todo = todo]
<1>4. job' = [job EXCEPT ![w] = j]
  BY DEF earlier_deliveries
<1> HIDE DEF view, todo
<1>4a. j \in Jobs
  BY <1>1, <1>3, BusyJob DEF Jobs
<1>4b. /\ j.event = job[w].event /\ j.phase = "read" /\ j.msg = job[w].msg
      /\ j.ended = job[w].ended /\ j.claim = job[w].claim /\ j.run = job[w].run
      /\ j.todo = todo /\ j.view = view
  BY <1>1, BusyJob DEF Jobs
<1> HIDE DEF j
<1>5. job' \in [Workers -> Jobs]
  BY <1>1, <1>4, <1>4a, OneJob
<1>6. /\ job'[w].event = e /\ job'[w].phase = "read" /\ job'[w].msg = job[w].msg
      /\ job'[w].ended = job[w].ended /\ job'[w].claim = job[w].claim
      /\ job'[w].run = NoRun /\ job'[w].todo = todo /\ job'[w].view = view
      /\ \A v \in Workers \ {w} : job'[v] = job[v]
  BY <1>1, <1>2, <1>4, <1>4a, <1>4b, OneJob, BusyJob DEF Event
<1>7. UNCHANGED <<redis, deployed, events, event, msg, owner, row, late, sched, faults, interrupted, unmarked, lost>>
  BY DEF earlier_deliveries, queue, history
<1>8. TypeOK'
  BY <1>1, <1>5, <1>7, TypeStep, Types DEF TypeOK
<1>9. todo \cap job[w].ended = {}
  <2>1. Busy(w)
    BY <1>1 DEF Busy
  <2>. QED BY <1>2, <2>1 DEF IInv, EndedShape, todo, view, Executes
<1>10. WorkStep(w, e)
  <2>1. redis /\ Reaches(w) /\ ~Own(w) => job'[w].claim # "held"
    BY <1>1, <1>6 DEF IInv, FenceHolds, Busy
  <2>. QED BY <1>6, <1>7, <1>9, <2>1, SameRows, <1>1 DEF WorkStep
<1>11. ASSUME NEW h \in Handlers, row'[e][h] \in Open PROVE Accounted(e, h)'
  <2>1. Accounted(e, h)
    BY <1>7, <1>11 DEF IInv, OpenAccounted
  <2>2. ASSUME Mine(w, e, h) PROVE Accounted(e, h)'
    <3>1. Own(w) /\ Busy(w) /\ job[w].msg = msg[e]
      BY <1>1, <1>2, <2>2 DEF Mine, IInv, JobShape
    <3>2. job[w].msg.redelivered
      <4>1. ~Blank(e)
        BY <1>7, <1>11 DEF Blank, Open
      <4>. QED BY <1>1, <1>2, <3>1, <4>1 DEF IInv, FirstDelivery, At, Own
    <3>3. view[h] \in Open
      BY <1>2, <1>7, <1>11, <3>2 DEF view
    <3>4. CASE h \in todo
      BY <1>6, <3>4 DEF Accounted, Carried, Event
    <3>5. CASE h \notin todo
      BY <1>2, <1>6, <1>7, <3>1, <3>3, <3>5 DEF Accounted, Pending, Event, At, Own, Busy, Unrun
    <3>. QED BY <3>4, <3>5
  <2>. QED BY <1>6, <1>7, <2>1, <2>2, AccountStep
<1>12. RowsAdvance
  BY <1>1, <1>7, SameRows
<1>13. Busy(w)
  BY <1>1 DEF Busy
<1>. QED BY <1>2, <1>8, <1>10, <1>11, <1>12, <1>13, WorkInv

LEMMA AdmitInv ==
  ASSUME IInv, NEW w \in Workers, Admit(w)
  PROVE  IInv' /\ RowsAdvance
<1>1. job[w].phase = "read" /\ TypeOK
  BY DEF Admit, IInv
<1>2. PICK e \in Events : e = Event(w)
  BY <1>1, BusyJob
<1> DEFINE j == [job[w] EXCEPT !.phase = "ready"]
<1>4. job' = [job EXCEPT ![w] = j]
  BY DEF Admit
<1>4a. j \in Jobs
  BY <1>1, BusyJob DEF Jobs
<1>4b. /\ j.event = job[w].event /\ j.phase = "ready" /\ j.msg = job[w].msg
      /\ j.ended = job[w].ended /\ j.claim = job[w].claim /\ j.run = job[w].run
      /\ j.todo = job[w].todo
  BY <1>1, BusyJob DEF Jobs
<1> HIDE DEF j
<1>5. job' \in [Workers -> Jobs]
  BY <1>1, <1>4, <1>4a, OneJob
<1>6. /\ job'[w].event = e /\ job'[w].phase = "ready" /\ job'[w].msg = job[w].msg
      /\ job'[w].ended = job[w].ended /\ job'[w].claim = job[w].claim
      /\ job'[w].run = NoRun /\ job'[w].todo = job[w].todo
      /\ \A v \in Workers \ {w} : job'[v] = job[v]
  BY <1>1, <1>2, <1>4, <1>4a, <1>4b, OneJob, BusyJob DEF Event
<1>7. UNCHANGED <<redis, deployed, events, event, msg, owner, late, sched, faults, interrupted, unmarked, lost>>
  BY DEF Admit, queue, history
<1>8. \A h \in Handlers : /\ Opened(w, h, row[e][h]) \in Statuses
                          /\ Advance(e, row[e][h], Opened(w, h, row[e][h]))
  BY <1>1, Types DEF Opened, fail_unrun_earlier_deliveries, Advance, Statuses, Open, Finished, Outcomes
<1>9. /\ row' \in Table /\ \A h \in Handlers : row'[e][h] = Opened(w, h, row[e][h])
      /\ \A f \in Events \ {e} : row'[f] = row[f] /\ Closes(f)
      /\ RowsAdvance
  <2> DEFINE F == [h \in Handlers |-> Opened(w, h, row[e][h])]
  <2>1. row' = WithRows(e, F)
    BY <1>2 DEF Admit
  <2>2. F \in [Handlers -> Statuses] /\ \A h \in Handlers : Advance(e, row[e][h], F[h])
    BY <1>8
  <2>3. \A h \in Handlers : F[h] = Opened(w, h, row[e][h])
    OBVIOUS
  <2> HIDE DEF F
  <2>. QED BY <1>1, <2>1, <2>2, <2>3, EventRows
<1>10. TypeOK'
  BY <1>1, <1>5, <1>7, <1>9, TypeStep, Types DEF TypeOK
<1>11. WorkStep(w, e)
  <2>1. redis /\ Reaches(w) /\ ~Own(w) => job'[w].claim # "held"
    BY <1>1, <1>6 DEF IInv, FenceHolds, Busy
  <2>2. job'[w].todo \cap job[w].ended = {}
    BY <1>1, <1>6 DEF IInv, EndedShape, Busy
  <2>. QED BY <1>1, <1>6, <1>7, <1>9, <2>1, <2>2 DEF WorkStep
<1>12. ASSUME NEW h \in Handlers, row'[e][h] \in Open PROVE Accounted(e, h)'
  <2>1. CASE h \in job[w].todo
    BY <1>6, <2>1 DEF Accounted, Carried, Event
  <2>2. CASE h \notin job[w].todo
    <3>1. row[e][h] \in Open /\ h \notin Unrun(w)
      BY <1>9, <1>12, <2>2 DEF Opened, fail_unrun_earlier_deliveries, Open
    <3>2. Accounted(e, h) /\ ~Mine(w, e, h)
      BY <1>1, <2>2, <3>1 DEF IInv, OpenAccounted, Mine
    <3>. QED BY <1>6, <1>7, <3>2, AccountStep
  <2>. QED BY <2>1, <2>2
<1>13. Busy(w)
  BY <1>1 DEF Busy
<1>. QED BY <1>2, <1>9, <1>10, <1>11, <1>12, <1>13, WorkInv

\* The later steps of a delivery only shorten what it has to do.
LEMMA GoesOn ==
  ASSUME IInv, NEW w \in Workers, NEW e \in Events, e = Event(w), Busy(w),
         NEW j \in Jobs, job' = [job EXCEPT ![w] = j],
         j.phase # "idle", j.event = e, j.msg = job[w].msg, j.ended = job[w].ended,
         j.todo \subseteq job[w].todo,
         IF j.phase = "running" THEN j.run \in j.todo ELSE j.run = NoRun,
         j.phase = "claimed" => job[w].phase = "claimed" /\ row' = row /\ late' = late,
         j.claim = "held" \/ j.phase = "running" =>
           job[w].claim = "held" \/ job[w].phase = "running" \/ Own(w),
         row' \in Table, RowsAdvance, \A f \in Events \ {e} : Closes(f),
         UNCHANGED <<redis, deployed, events, event, msg, owner, sched, unmarked, interrupted>>,
         faults' \in 0..MaxFaults,
         late \subseteq late', late' \subseteq [worker : Workers, run : Runs, out : Outcomes],
         \A l \in late' : l \in late \/ l.run[1] = e,
         lost \subseteq lost', lost' \subseteq Runs,
         \A h \in Handlers : row'[e][h] \in Open =>
           \/ <<e, h>> \in lost' \/ h \in j.todo \/ Awaited(e, h)'
           \/ row[e][h] \in Open /\ (Mine(w, e, h) => Accounted(e, h)')
  PROVE  IInv'
<1>1. job' \in [Workers -> Jobs] /\ job'[w] = j /\ \A v \in Workers \ {w} : job'[v] = job[v]
  BY OneJob DEF IInv
<1>2. TypeOK'
  BY <1>1, TypeStep, Types DEF IInv, TypeOK
<1>3. WorkStep(w, e)
  <2>1. redis /\ Reaches(w) /\ ~Own(w) => j.claim # "held" /\ j.phase # "running"
    BY DEF IInv, FenceHolds
  <2>2. j.todo \cap job[w].ended = {}
    BY DEF IInv, EndedShape
  <2>3. j.phase = "claimed" => j.todo = {}
    BY DEF IInv, JobShape
  <2>. QED BY <1>1, <2>1, <2>2, <2>3 DEF WorkStep
<1>4. ASSUME NEW h \in Handlers, row'[e][h] \in Open PROVE Accounted(e, h)'
  <2>1. CASE h \in j.todo
    BY <1>1, <2>1 DEF Accounted, Carried, Event
  <2>2. CASE row[e][h] \in Open /\ (Mine(w, e, h) => Accounted(e, h)')
    <3>1. Accounted(e, h)
      BY <2>2 DEF IInv, OpenAccounted
    <3>. QED BY <1>1, <2>2, <3>1, AccountStep
  <2>. QED BY <1>4, <2>1, <2>2 DEF Accounted
<1>. QED BY <1>2, <1>3, <1>4, WorkInv

LEMMA SetupFailsInv ==
  ASSUME IInv, NEW w \in Workers, NEW h \in Handlers, SetupFails(w, h)
  PROVE  IInv' /\ RowsAdvance
<1>1. job[w].phase = "ready" /\ job[w].claim = "held" /\ TypeOK
  BY DEF SetupFails, IInv
<1>2. PICK e \in Events : e = Event(w)
  BY <1>1, BusyJob
<1> DEFINE j == [job[w] EXCEPT !.started = TRUE, !.todo = @ \ {h}]
<1>3. job' = [job EXCEPT ![w] = j]
  BY DEF SetupFails
<1>4. j \in Jobs
  BY <1>1, BusyJob DEF Jobs
<1>5. /\ j.event = job[w].event /\ j.phase = "ready" /\ j.msg = job[w].msg
      /\ j.ended = job[w].ended /\ j.claim = job[w].claim /\ j.run = NoRun
      /\ j.todo = job[w].todo \ {h}
  BY <1>1, BusyJob DEF Jobs
<1> HIDE DEF j
<1>6. PICK t \in Statuses : t = (record_unstarted_run(row[e][h], "failed"))
  BY <1>1, Types DEF record_unstarted_run, Statuses, Finished, Outcomes, Open
<1>7. /\ row' = [row EXCEPT ![e][h] = t]
      /\ Advance(e, row[e][h], t) /\ t \notin Open
  BY <1>1, <1>2, <1>6, Types DEF SetupFails, record_unstarted_run, Statuses, Finished, Outcomes, Open, Advance
<1>8. /\ row' \in Table /\ row'[e][h] = t /\ \A g \in Handlers \ {h} : row'[e][g] = row[e][g]
      /\ \A f \in Events \ {e} : Closes(f)
      /\ RowsAdvance
  <2>1. TypeOK /\ row' = [row EXCEPT ![e][h] = t] /\ Advance(e, row[e][h], t)
    BY <1>1, <1>7
  <2>. QED BY <2>1, OneRow
<1>9. UNCHANGED <<redis, deployed, events, event, msg, owner, late, sched, faults, interrupted, unmarked, lost>>
  BY DEF SetupFails, queue, history
<1>10. \A g \in Handlers : row'[e][g] \in Open =>
         g \in j.todo \/ (row[e][g] \in Open /\ ~Mine(w, e, g))
  BY <1>1, <1>5, <1>7, <1>8 DEF Mine
<1>11. Busy(w) /\ j.event = e
  BY <1>1, <1>2, <1>5 DEF Busy, Event
<1>12. IInv'
  BY <1>1, <1>2, <1>3, <1>4, <1>5, <1>8, <1>9, <1>10, <1>11, GoesOn DEF TypeOK
<1>. QED BY <1>8, <1>12

LEMMA StartInv ==
  ASSUME IInv, NEW w \in Workers, NEW h \in Handlers, write_run_start(w, h)
  PROVE  IInv' /\ RowsAdvance
<1>1. job[w].phase = "ready" /\ job[w].claim = "held" /\ h \in job[w].todo /\ TypeOK
  BY DEF write_run_start, IInv
<1>2. PICK e \in Events : e = Event(w)
  BY <1>1, BusyJob
<1> DEFINE j == [job[w] EXCEPT !.phase = "running", !.run = h]
<1>3. job' = [job EXCEPT ![w] = j]
  BY DEF write_run_start
<1>4. j \in Jobs
  BY <1>1, BusyJob DEF Jobs
<1>5. /\ j.event = job[w].event /\ j.phase = "running" /\ j.msg = job[w].msg
      /\ j.ended = job[w].ended /\ j.claim = job[w].claim /\ j.run = h
      /\ j.todo = job[w].todo
  BY <1>1, BusyJob DEF Jobs
<1> HIDE DEF j
<1>6. PICK t \in Statuses : t = (IF row[e][h] = "none" THEN "running" ELSE row[e][h])
  BY <1>1, Types DEF Statuses, Finished, Outcomes, Open
<1>7. /\ row' = [row EXCEPT ![e][h] = t]
      /\ Advance(e, row[e][h], t)
  BY <1>1, <1>2, <1>6, Types DEF write_run_start, record_unstarted_run, Statuses, Finished, Outcomes, Open, Advance
<1>8. /\ row' \in Table /\ row'[e][h] = t /\ \A g \in Handlers \ {h} : row'[e][g] = row[e][g]
      /\ \A f \in Events \ {e} : Closes(f)
      /\ RowsAdvance
  <2>1. TypeOK /\ row' = [row EXCEPT ![e][h] = t] /\ Advance(e, row[e][h], t)
    BY <1>1, <1>7
  <2>. QED BY <2>1, OneRow
<1>9. UNCHANGED <<redis, deployed, events, event, msg, owner, late, sched, faults, interrupted, unmarked, lost>>
  BY DEF write_run_start, queue, history
<1>10. \A g \in Handlers : row'[e][g] \in Open =>
         g \in j.todo \/ (row[e][g] \in Open /\ ~Mine(w, e, g))
  BY <1>1, <1>5, <1>7, <1>8 DEF Mine
<1>11. Busy(w) /\ j.event = e
  BY <1>1, <1>2, <1>5 DEF Busy, Event
<1>12. IInv'
  BY <1>1, <1>2, <1>3, <1>4, <1>5, <1>8, <1>9, <1>10, <1>11, GoesOn DEF TypeOK
<1>. QED BY <1>8, <1>12

\* What a result makes of a row.
LEMMA RunEndRow ==
  ASSUME TypeOK, NEW e \in Events, NEW h \in Handlers, NEW out \in Outcomes
  PROVE  LET t == RunEnd(e, row[e][h], out)
         IN  /\ t \in Statuses /\ Advance(e, row[e][h], t)
             /\ t \in Open => t = "held" /\ row[e][h] = "held"
             /\ t = row[e][h] \/ (row[e][h] # "none" /\ t \notin Open)
<1>1. row[e][h] \in Statuses
  BY Types
<1>2. CASE row[e][h] # "running"
  <2>1. RunEnd(e, row[e][h], out) = row[e][h]
    BY <1>2 DEF RunEnd
  <2>. QED BY <1>1, <1>2, <2>1 DEF Advance, Open
<1>3. CASE row[e][h] = "running" /\ out = "failed" /\ event[e].attempt < MaxAttempts
  <2>1. RunEnd(e, row[e][h], out) = "retry"
    BY <1>3 DEF RunEnd
  <2>. QED BY <1>3, <2>1 DEF Advance, Open, Statuses, Finished, Outcomes
<1>4. CASE row[e][h] = "running" /\ ~(out = "failed" /\ event[e].attempt < MaxAttempts)
  <2>1. RunEnd(e, row[e][h], out) = out
    BY <1>4 DEF RunEnd
  <2>. QED BY <1>4, <2>1 DEF Advance, Open, Statuses, Finished, Outcomes
<1>. QED BY <1>2, <1>3, <1>4

\* The worker is through with its run, recorded or on its way.
LEMMA EndedInv ==
  ASSUME IInv, NEW w \in Workers, job[w].phase = "running",
         NEW c \in {"held", "unconfirmed", "lost"},
         c = "held" => job[w].claim = "held",
         job' = [job EXCEPT ![w] = [job[w] EXCEPT !.phase = "ready", !.run = NoRun, !.started = TRUE,
                                                  !.todo = @ \ {job[w].run}, !.claim = c]],
         NEW out \in Outcomes, Fault \/ UNCHANGED faults,
         UNCHANGED <<redis, deployed, events, event, msg, owner, sched, interrupted, unmarked>>,
         \/ /\ row' = [row EXCEPT ![Event(w)][job[w].run] = RunEnd(Event(w), @, "failed")]
            /\ late' = late \cup {Late(w, out)} /\ Missed(Event(w), job[w].run)
         \/ /\ row' = [row EXCEPT ![Event(w)][job[w].run] = RunEnd(Event(w), @, out)]
            /\ UNCHANGED late /\ Missed(Event(w), job[w].run)
         \/ late' = late \cup {Late(w, out)} /\ UNCHANGED <<row, lost>>
  PROVE  IInv' /\ RowsAdvance
<1>1. TypeOK /\ Busy(w) /\ faults' \in 0..MaxFaults
  BY FaultType DEF IInv, Busy
<1>2. PICK e \in Events : e = Event(w)
  BY BusyJob
<1>3. PICK h \in Handlers : h = job[w].run /\ h \in job[w].todo
  BY BusyJob
<1> DEFINE j == [job[w] EXCEPT !.phase = "ready", !.run = NoRun, !.started = TRUE,
                               !.todo = @ \ {job[w].run}, !.claim = c]
<1>4. j \in Jobs
  BY BusyJob DEF Jobs
<1>5. /\ j.event = e /\ j.phase = "ready" /\ j.msg = job[w].msg
      /\ j.ended = job[w].ended /\ j.claim = c /\ j.run = NoRun
      /\ j.todo = job[w].todo \ {h}
  BY <1>2, <1>3, BusyJob DEF Jobs, Event
<1>6. job' = [job EXCEPT ![w] = j]
  OBVIOUS
<1> HIDE DEF j
<1>7. /\ late \subseteq late' /\ late' \subseteq [worker : Workers, run : Runs, out : Outcomes]
      /\ \A l \in late' : l \in late \/ l.run[1] = e
  <2>1. Late(w, out) \in [worker : Workers, run : Runs, out : Outcomes] /\ Late(w, out).run = <<e, h>>
    BY <1>2, <1>3 DEF Late, Runs
  <2>. QED BY <1>1, <2>1, Types
<1>8. lost \subseteq lost' /\ lost' \subseteq Runs
  <2>1. <<e, h>> \in Runs
    BY DEF Runs
  <2>. QED BY <1>1, <1>2, <1>3, <2>1 DEF Missed, TypeOK
<1>9. /\ row' \in Table /\ RowsAdvance /\ \A f \in Events \ {e} : Closes(f)
      /\ \A g \in Handlers \ {h} : row'[e][g] = row[e][g]
      /\ row'[e][h] \in Open => <<e, h>> \in lost' \/ \E l \in late' : l.run = <<e, h>>
  <2>1. CASE UNCHANGED row /\ late' = late \cup {Late(w, out)}
    <3>1. Late(w, out).run = <<e, h>>
      BY <1>2, <1>3 DEF Late
    <3>. QED BY <1>1, <2>1, <3>1, SameRows
  <2>2. ASSUME NEW o \in Outcomes, row' = [row EXCEPT ![e][h] = RunEnd(e, row[e][h], o)],
               Missed(e, h)
        PROVE  <1>9
    <3> DEFINE t == RunEnd(e, row[e][h], o)
    <3>1. /\ t \in Statuses /\ Advance(e, row[e][h], t)
          /\ t \in Open => t = "held" /\ row[e][h] = "held"
      BY <1>1, RunEndRow
    <3>2. row' = [row EXCEPT ![e][h] = t]
      BY <2>2
    <3> HIDE DEF t
    <3>3. /\ row' \in Table /\ row'[e][h] = t /\ \A g \in Handlers \ {h} : row'[e][g] = row[e][g]
          /\ \A f \in Events \ {e} : Closes(f)
          /\ RowsAdvance
      BY <1>1, <3>1, <3>2, OneRow
    <3>. QED BY <2>2, <3>1, <3>3 DEF Missed
  <2>3. "failed" \in Outcomes
    BY DEF Outcomes
  <2>. QED BY <1>2, <1>3, <2>1, <2>2, <2>3
<1>10. \A g \in Handlers : row'[e][g] \in Open =>
         \/ <<e, g>> \in lost' \/ g \in j.todo \/ Awaited(e, g)'
         \/ row[e][g] \in Open /\ ~Mine(w, e, g)
  BY <1>5, <1>9 DEF Mine, Awaited
<1>11. IInv'
  BY <1>1, <1>2, <1>4, <1>5, <1>6, <1>7, <1>8, <1>9, <1>10, GoesOn
<1>. QED BY <1>9, <1>11

LEMMA RunEndsInv ==
  ASSUME IInv, NEW w \in Workers, NEW out \in Outcomes, RunEnds(w, out)
  PROVE  IInv' /\ RowsAdvance
<1>1. job[w].phase = "running" /\ job[w] \in Jobs
  BY BusyJob DEF RunEnds
<1>2. job' = [job EXCEPT ![w] = [job[w] EXCEPT !.phase = "ready", !.run = NoRun, !.started = TRUE,
                                               !.todo = @ \ {job[w].run}]]
  BY DEF RunEnds, Ended
<1>3. [job[w] EXCEPT !.phase = "ready", !.run = NoRun, !.started = TRUE, !.todo = @ \ {job[w].run}]
      = [job[w] EXCEPT !.phase = "ready", !.run = NoRun, !.started = TRUE,
                       !.todo = @ \ {job[w].run}, !.claim = job[w].claim]
  BY <1>1 DEF Jobs
<1>4. job[w].claim \in {"held", "unconfirmed", "lost"}
  BY <1>1 DEF Jobs
<1>. QED BY <1>1, <1>2, <1>3, <1>4, EndedInv DEF RunEnds, queue

LEMMA RunStoppedInv ==
  ASSUME IInv, NEW w \in Workers, NEW out \in Outcomes, NEW c \in {"held", "unconfirmed", "lost"},
         c = "held" => job[w].claim = "held", RunStopped(w, c, out)
  PROVE  IInv' /\ RowsAdvance
<1>1. job[w].phase = "running" /\ job[w] \in Jobs
  BY BusyJob DEF RunStopped
<1>2. job' = [job EXCEPT ![w] = [job[w] EXCEPT !.phase = "ready", !.run = NoRun, !.started = TRUE,
                                               !.todo = @ \ {job[w].run}, !.claim = c]]
  BY Types DEF RunStopped, Ended, IInv
<1>. QED BY <1>1, <1>2, EndedInv DEF RunStopped, queue

\* The worker only learns about its claim.
LEMMA ClaimNewsInv ==
  ASSUME IInv, NEW w \in Workers, ClaimUnconfirmed(w) \/ ClaimLost(w)
  PROVE  IInv' /\ RowsAdvance
<1>1. Busy(w) /\ job[w].phase # "idle" /\ TypeOK
  BY DEF ClaimUnconfirmed, ClaimLost, IInv, Busy
<1>2. PICK e \in Events : e = Event(w)
  BY <1>1, BusyJob
<1>3. /\ job[w].phase # "running"
      /\ \E c \in {"held", "unconfirmed", "lost"} :
           /\ job' = [job EXCEPT ![w] = [job[w] EXCEPT !.claim = c]]
           /\ c = "held" => Own(w)
  <2>1. CASE ClaimUnconfirmed(w)
    BY <2>1 DEF ClaimUnconfirmed
  <2>2. CASE ClaimLost(w)
    <3>1. job[w].phase # "running"
      BY <2>2 DEF ClaimLost, IInv, FenceHolds
    <3>. QED BY <2>2, <3>1 DEF ClaimLost
  <2>. QED BY <2>1, <2>2
<1>4. PICK c \in {"held", "unconfirmed", "lost"} :
           /\ job' = [job EXCEPT ![w] = [job[w] EXCEPT !.claim = c]]
           /\ c = "held" => Own(w)
  BY <1>3
<1> DEFINE j == [job[w] EXCEPT !.claim = c]
<1>5. j \in Jobs
  BY <1>1, BusyJob DEF Jobs
<1>6. /\ j.event = e /\ j.phase = job[w].phase /\ j.msg = job[w].msg /\ j.todo = job[w].todo
      /\ j.ended = job[w].ended /\ j.claim = c /\ j.run = NoRun /\ j.view = job[w].view
  BY <1>1, <1>2, <1>3, BusyJob DEF Jobs, Event
<1>7. job' = [job EXCEPT ![w] = j]
  BY <1>4
<1> HIDE DEF j
<1>8. /\ UNCHANGED <<redis, deployed, events, event, msg, owner, row, late, sched, interrupted, unmarked, lost>>
      /\ faults' \in 0..MaxFaults
  BY <1>1, FaultType DEF ClaimUnconfirmed, ClaimLost, queue, history
<1>9. row' \in Table /\ RowsAdvance /\ \A f \in Events : Closes(f)
  BY <1>1, <1>8, SameRows
<1>10. job'[w] = j
  BY <1>1, <1>5, <1>7, OneJob
<1>11. ASSUME NEW h \in Handlers, Mine(w, e, h) PROVE Accounted(e, h)'
  <2>1. CASE h \in job[w].todo
    BY <1>6, <1>10, <2>1 DEF Accounted, Carried, Event
  <2>2. CASE h \notin job[w].todo
    BY <1>2, <1>6, <1>8, <1>10, <1>11, <2>2
       DEF Mine, Accounted, Pending, Event, At, Own, Busy, Unrun
  <2>. QED BY <2>1, <2>2
<1>12. \A h \in Handlers : row'[e][h] \in Open =>
         row[e][h] \in Open /\ (Mine(w, e, h) => Accounted(e, h)')
  BY <1>8, <1>11
<1>13. IInv'
  BY <1>1, <1>2, <1>3, <1>4, <1>5, <1>6, <1>7, <1>8, <1>9, <1>12, GoesOn, Types DEF TypeOK
<1>. QED BY <1>9, <1>13

---------------------------------------------------------------------------
(* A delivery ends.                                                        *)

\* A settlement that reaches the message (r) makes it m; what it leaves open is
\* lost, or somebody else's.
LEMMA LeaveInv ==
  ASSUME IInv, NEW w \in Workers, NEW e \in Events, e = Event(w), Busy(w),
         NEW r \in BOOLEAN, NEW m, Leave(w, r, m),
         r => /\ m \in Messages /\ At(e) # "absent" /\ m.at \in {"queued", "done", "dead"}
              /\ m.base < MaxDeliveries /\ m.copy >= msg[e].copy
              /\ m.at = "queued" => m.count < MaxDeliveries /\ m.redelivered
              /\ m.at = "queued" /\ m.copy = msg[e].copy => Own(w),
         ~r => ~Own(w),
         row' \in Table, RowsAdvance, \A f \in Events \ {e} : Closes(f),
         UNCHANGED <<redis, deployed, events, event, late, sched, unmarked, interrupted>>,
         faults' \in 0..MaxFaults, lost \subseteq lost', lost' \subseteq Runs,
         r /\ m.at # "queued" => \A h \in Handlers : row'[e][h] \in Open =>
           <<e, h>> \in lost' \/ (row[e][h] \in Open /\ Own(w) /\ ~Mine(w, e, h)),
         ~r => \A h \in Handlers : row'[e][h] \in Open =>
           <<e, h>> \in lost' \/ (row[e][h] \in Open /\ h \notin job[w].todo)
  PROVE  IInv'
<1>0. TypeOK
  BY DEF IInv
<1>1. /\ job' \in [Workers -> Jobs] /\ job'[w] = Idle
      /\ \A v \in Workers \ {w} : job'[v] = job[v]
  BY <1>0, OneJob, IdleType DEF Leave
<1>2. /\ msg' \in [Events -> Messages] /\ owner' \in [Events -> Workers \cup {NoWorker}]
      /\ \A f \in Events \ {e} : msg'[f] = msg[f] /\ owner'[f] = owner[f]
      /\ r => msg'[e] = m
      /\ ~r => msg'[e] = msg[e] /\ owner'[e] = owner[e]
  BY <1>0 DEF Leave, TypeOK
<1>3. TypeOK'
  BY <1>0, <1>1, <1>2, TypeStep, Types DEF TypeOK
<1>4. r => Freed(e)
  <2>1. \A v \in Workers : Own(w) /\ Event(v) = e /\ Own(v) => v = w
    BY DEF Own
  <2>2. job[w] # Idle
    BY DEF Busy, Idle
  <2>3. Own(w) => At(e) = "taken"
    BY DEF Own
  <2>. QED BY <1>1, <1>2, <2>1, <2>2, <2>3 DEF Freed
<1>5. ReleaseStep(e)
  BY <1>1, <1>2, <1>4 DEF ReleaseStep
<1>6. ASSUME NEW h \in Handlers, row'[e][h] \in Open PROVE Accounted(e, h)'
  <2>1. CASE r /\ m.at = "queued"
    BY <1>2, <2>1 DEF Accounted, Pending, At
  <2>2. CASE r /\ m.at # "queued" /\ <<e, h>> \notin lost'
    <3>1. row[e][h] \in Open /\ Own(w) /\ ~Mine(w, e, h)
      BY <1>6, <2>2
    <3>2. Accounted(e, h) /\ <<e, h>> \notin lost
      BY <2>2, <3>1 DEF IInv, OpenAccounted
    <3>3. ~Pending(e, h)
      BY <3>1 DEF Pending, Own, Mine, At
    <3>4. CASE Carried(e, h)
      BY <1>1, <3>1, <3>4 DEF Accounted, Carried, Mine, Event
    <3>5. CASE Awaited(e, h)
      BY <3>5 DEF Accounted, Awaited
    <3>. QED BY <3>2, <3>3, <3>4, <3>5 DEF Accounted
  <2>3. CASE ~r /\ <<e, h>> \notin lost'
    <3>1. row[e][h] \in Open /\ ~Mine(w, e, h)
      BY <1>6, <2>3 DEF Mine
    <3>2. Accounted(e, h)
      BY <3>1 DEF IInv, OpenAccounted
    <3>. QED BY <1>1, <1>2, <2>3, <3>1, <3>2, AccountStep
  <2>. QED BY <2>1, <2>2, <2>3 DEF Accounted
<1>. QED BY <1>3, <1>5, <1>6, ReleaseInv

\* The queue's record of e, moved to another place.
LEMMA MovedMsg ==
  ASSUME IInv, NEW e \in Events, NEW a \in {"queued", "taken", "left", "lapsed"} \cup Settled
  PROVE  /\ [msg[e] EXCEPT !.at = a] \in Messages
         /\ [msg[e] EXCEPT !.at = a].at = a
         /\ [msg[e] EXCEPT !.at = a].base < MaxDeliveries
         /\ [msg[e] EXCEPT !.at = a].copy >= msg[e].copy
         /\ [msg[e] EXCEPT !.at = a].copy = msg[e].copy
         /\ [msg[e] EXCEPT !.at = a].redelivered = msg[e].redelivered
<1>1. msg[e] \in Messages /\ msg[e].base < MaxDeliveries
  BY Types DEF IInv, CountsLeft
<1>. QED BY <1>1 DEF Messages

LEMMA OpenRunsType ==
  ASSUME NEW e \in Events
  PROVE  /\ OpenRuns(e) \subseteq Runs
         /\ \A h \in Handlers : row[e][h] \in Open => <<e, h>> \in OpenRuns(e)
  BY DEF OpenRuns, Runs

LEMMA AckReached ==
  ASSUME IInv, NEW w \in Workers, Busy(w), NEW e \in Events, e = Event(w), Reaches(w)
  PROVE  At(e) # "absent"
  BY DEF Reaches, Own

LEMMA UnhandledInv ==
  ASSUME IInv, NEW w \in Workers, acknowledge_unhandled_event(w)
  PROVE  IInv' /\ RowsAdvance
<1>1. job[w].phase = "claimed" /\ TypeOK
  BY DEF acknowledge_unhandled_event, IInv
<1>2. PICK e \in Events : e = Event(w)
  BY <1>1, BusyJob
<1> DEFINE m == [msg[e] EXCEPT !.at = "done"]
<1>3. Leave(w, Reaches(w), m)
  BY <1>2 DEF acknowledge_unhandled_event, Ack
<1>4. /\ m \in Messages /\ m.at = "done" /\ m.base < MaxDeliveries /\ m.copy >= msg[e].copy
  BY MovedMsg DEF Settled
<1> HIDE DEF m
<1>5. /\ UNCHANGED <<redis, deployed, events, event, row, late, sched, faults, interrupted, unmarked>>
      /\ lost' = lost \cup OpenRuns(e)
  BY <1>2 DEF acknowledge_unhandled_event
<1>6. row' \in Table /\ RowsAdvance /\ \A f \in Events : Closes(f)
  BY <1>1, <1>5, SameRows
<1>7. \A h \in Handlers : row'[e][h] \in Open => <<e, h>> \in lost'
  BY <1>5, OpenRunsType
<1>8. lost \subseteq lost' /\ lost' \subseteq Runs /\ faults' \in 0..MaxFaults
  BY <1>1, <1>5, OpenRunsType DEF TypeOK
<1>9. Busy(w) /\ (Reaches(w) => At(e) # "absent") /\ (Own(w) => Reaches(w))
  BY <1>1, <1>2, BusyJob, AckReached
<1>10. Reaches(w) \in BOOLEAN
  BY DEF Reaches, Own
<1>11. IInv'
  BY <1>2, <1>3, <1>4, <1>5, <1>6, <1>7, <1>8, <1>9, <1>10, LeaveInv
<1>. QED BY <1>6, <1>11

\* An acknowledgement with nothing left to do.
LEMMA AckInv ==
  ASSUME IInv, NEW w \in Workers, NEW e \in Events, e = Event(w), Busy(w),
         job[w].todo = {}, job[w].phase # "claimed",
         Ack(w), lost' = lost \cup Overtaken(w), row' \in Table, RowsAdvance,
         \A f \in Events \ {e} : Closes(f),
         UNCHANGED <<redis, deployed, events, event, late, sched, faults, interrupted, unmarked>>,
         \A h \in Handlers : row'[e][h] \in Open =>
           row[e][h] \in Open /\ (job[w].phase = "read" => h \notin Unrun(w))
  PROVE  IInv'
<1>1. TypeOK
  BY DEF IInv
<1> DEFINE m == [msg[e] EXCEPT !.at = "done"]
<1>3. Leave(w, Reaches(w), m)
  BY DEF Ack
<1>4. /\ m \in Messages /\ m.at = "done" /\ m.base < MaxDeliveries /\ m.copy >= msg[e].copy
  BY MovedMsg DEF Settled
<1> HIDE DEF m
<1>5. lost \subseteq lost' /\ lost' \subseteq Runs /\ faults' \in 0..MaxFaults
  BY <1>1, OpenRunsType DEF TypeOK, Overtaken
<1>6. \A h \in Handlers : row'[e][h] \in Open =>
        /\ row[e][h] \in Open /\ h \notin job[w].todo /\ ~Mine(w, e, h)
        /\ Reaches(w) /\ ~Own(w) => <<e, h>> \in lost'
  BY OpenRunsType DEF Mine, Overtaken
<1>9. (Reaches(w) => At(e) # "absent") /\ (Own(w) => Reaches(w))
  BY BusyJob, AckReached DEF Busy
<1>10. Reaches(w) \in BOOLEAN
  BY DEF Reaches, Own
<1>. QED BY <1>3, <1>4, <1>5, <1>6, <1>9, <1>10, LeaveInv

LEMMA AckFinishedInv ==
  ASSUME IInv, NEW w \in Workers, AcknowledgeFinished(w)
  PROVE  IInv' /\ RowsAdvance
<1>1. job[w].phase = "read" /\ job[w].todo = {} /\ TypeOK
  BY DEF AcknowledgeFinished, IInv
<1>2. PICK e \in Events : e = Event(w)
  BY <1>1, BusyJob
<1> DEFINE F == [h \in Handlers |-> fail_unrun_earlier_deliveries(w, h, row[e][h])]
<1>3. row' = WithRows(e, F)
  BY <1>2 DEF AcknowledgeFinished
<1>4. /\ F \in [Handlers -> Statuses]
      /\ \A h \in Handlers : /\ Advance(e, row[e][h], F[h])
                             /\ F[h] \in Open => row[e][h] \in Open /\ h \notin Unrun(w)
  BY <1>1, Types DEF fail_unrun_earlier_deliveries, Statuses, Open, Finished, Outcomes, Advance
<1> HIDE DEF F
<1>5. /\ row' \in Table /\ \A h \in Handlers : row'[e][h] = F[h]
      /\ \A f \in Events \ {e} : row'[f] = row[f] /\ Closes(f)
      /\ RowsAdvance
  BY <1>1, <1>3, <1>4, EventRows
<1>6. Busy(w)
  BY <1>1 DEF Busy
<1>7. IInv'
  BY <1>1, <1>2, <1>4, <1>5, <1>6, AckInv DEF AcknowledgeFinished
<1>. QED BY <1>5, <1>7

\* The message of e is dead-lettered and what was open is failed, or lost.
LEMMA DeadLetterRows ==
  ASSUME TypeOK, NEW e \in Events, DeadLetter(e)
  PROVE  /\ row' \in Table /\ RowsAdvance
         /\ \A f \in Events \ {e} : Closes(f)
         /\ \A h \in Handlers : row'[e][h] \in Open => <<e, h>> \in lost'
         /\ lost \subseteq lost' /\ lost' \subseteq Runs /\ faults' \in 0..MaxFaults
<1>1. CASE row' = Buried(e) /\ UNCHANGED <<faults, lost>>
  <2> DEFINE F == [h \in Handlers |-> IF row[e][h] \in Open THEN "failed" ELSE row[e][h]]
  <2>1. row' = WithRows(e, F)
    BY <1>1 DEF Buried
  <2>2. /\ F \in [Handlers -> Statuses]
        /\ \A h \in Handlers : Advance(e, row[e][h], F[h]) /\ F[h] \notin Open
    BY Types DEF Statuses, Open, Finished, Outcomes, Advance
  <2> HIDE DEF F
  <2>3. /\ row' \in Table /\ \A h \in Handlers : row'[e][h] = F[h]
        /\ \A f \in Events \ {e} : row'[f] = row[f] /\ Closes(f)
        /\ RowsAdvance
    BY <2>1, <2>2, EventRows
  <2>. QED BY <1>1, <2>2, <2>3 DEF TypeOK
<1>2. CASE Fault /\ lost' = lost \cup OpenRuns(e) /\ UNCHANGED row
  <2>1. row' \in Table /\ RowsAdvance /\ \A f \in Events : Closes(f)
    BY <1>2, SameRows
  <2>2. lost' \subseteq Runs /\ \A h \in Handlers : row[e][h] \in Open => <<e, h>> \in lost'
    BY <1>2, OpenRunsType DEF TypeOK
  <2>. QED BY <1>2, <2>1, <2>2, FaultType
<1>. QED BY <1>1, <1>2 DEF DeadLetter

LEMMA ForgetType ==
  ASSUME IInv, NEW w \in Workers, Busy(w), NEW r \in BOOLEAN, Forget(w, r)
  PROVE  /\ lost \subseteq lost' /\ lost' \subseteq Runs
         /\ ~r => \A h \in job[w].todo : <<Event(w), h>> \in lost'
<1>1. \A h \in job[w].todo : <<Event(w), h>> \in Runs
  BY BusyJob DEF Busy
<1>. QED BY <1>1 DEF Forget, IInv, TypeOK

LEMMA RedeliverInv ==
  ASSUME IInv, NEW w \in Workers, Busy(w), Redeliver(w),
         UNCHANGED <<redis, deployed, events, event, late, sched, interrupted, unmarked>>
  PROVE  IInv' /\ RowsAdvance
<1>1. TypeOK
  BY DEF IInv
<1>2. PICK e \in Events : e = Event(w)
  BY BusyJob DEF Busy
<1>3. CASE ~Own(w)
  <2>1. Leave(w, FALSE, NoMsg) /\ Forget(w, FALSE) /\ UNCHANGED <<row, faults>>
    BY <1>3 DEF Redeliver
  <2>2. row' \in Table /\ RowsAdvance /\ \A f \in Events : Closes(f)
    BY <1>1, <2>1, SameRows
  <2>3. /\ lost \subseteq lost' /\ lost' \subseteq Runs /\ faults' \in 0..MaxFaults
        /\ \A h \in job[w].todo : <<e, h>> \in lost'
    BY <1>1, <1>2, <2>1, ForgetType DEF TypeOK
  <2>4. IInv'
    BY <1>2, <1>3, <2>1, <2>2, <2>3, LeaveInv
  <2>. QED BY <2>2, <2>4
<1>4. CASE Own(w) /\ LastAttempt(w)
  <2> DEFINE m == [msg[e] EXCEPT !.at = "dead"]
  <2>1. Leave(w, TRUE, m) /\ DeadLetter(e)
    BY <1>2, <1>4 DEF Redeliver
  <2>2. m \in Messages /\ m.at = "dead" /\ m.base < MaxDeliveries /\ m.copy >= msg[e].copy
    BY MovedMsg DEF Settled
  <2> HIDE DEF m
  <2>3. At(e) # "absent"
    BY <1>2, <1>4 DEF Own
  <2>4. /\ row' \in Table /\ RowsAdvance
        /\ \A f \in Events \ {e} : Closes(f)
        /\ \A h \in Handlers : row'[e][h] \in Open => <<e, h>> \in lost'
        /\ lost \subseteq lost' /\ lost' \subseteq Runs /\ faults' \in 0..MaxFaults
    BY <1>1, <2>1, DeadLetterRows
  <2>5. IInv'
    BY <1>2, <2>1, <2>2, <2>3, <2>4, LeaveInv
  <2>. QED BY <2>4, <2>5
<1>5. CASE Own(w) /\ ~LastAttempt(w)
  <2> DEFINE m == [msg[e] EXCEPT !.at = "queued", !.redelivered = TRUE, !.recovered = FALSE]
  <2>1. Leave(w, TRUE, m) /\ UNCHANGED <<row, faults, lost>>
    BY <1>2, <1>5 DEF Redeliver
  <2>2. msg[e] \in Messages /\ msg[e].base < MaxDeliveries /\ msg[e].count < MaxDeliveries
    <3>1. msg[e] = job[w].msg
      BY <1>2, <1>5 DEF IInv, JobShape
    <3>2. msg[e] \in Messages /\ msg[e].base < MaxDeliveries
      BY <1>1, Types DEF IInv, CountsLeft
    <3>. QED BY <1>5, <3>1, <3>2, RunSizes DEF LastAttempt, Messages
  <2>3. /\ m \in Messages /\ m.at = "queued" /\ m.base < MaxDeliveries /\ m.copy >= msg[e].copy
        /\ m.count < MaxDeliveries /\ m.redelivered
    <3>1. m \in Messages
      BY <2>2 DEF Messages
    <3>2. /\ m.at = "queued" /\ m.base = msg[e].base /\ m.copy = msg[e].copy
          /\ m.count = msg[e].count /\ m.redelivered = TRUE
      BY <2>2 DEF Messages
    <3>. QED BY <2>2, <3>1, <3>2 DEF Messages
  <2> HIDE DEF m
  <2>4. At(e) # "absent"
    BY <1>2, <1>5 DEF Own
  <2>5. row' \in Table /\ RowsAdvance /\ \A f \in Events : Closes(f)
    BY <1>1, <2>1, SameRows
  <2>6. lost \subseteq lost' /\ lost' \subseteq Runs /\ faults' \in 0..MaxFaults
    BY <1>1, <2>1 DEF TypeOK
  <2>7. IInv'
    BY <1>2, <1>5, <2>1, <2>3, <2>4, <2>5, <2>6, LeaveInv
  <2>. QED BY <2>5, <2>7
<1>. QED BY <1>3, <1>4, <1>5

LEMMA StopNewRunsInv ==
  ASSUME IInv, NEW w \in Workers, StopNewRuns(w)
  PROVE  IInv' /\ RowsAdvance
  BY RedeliverInv DEF StopNewRuns, Busy

LEMMA FinishInv ==
  ASSUME IInv, NEW w \in Workers, FinishDelivery(w)
  PROVE  IInv' /\ RowsAdvance
<1>1. job[w].phase = "ready" /\ job[w].todo = {} /\ TypeOK /\ Busy(w)
  BY DEF FinishDelivery, IInv, Busy
<1>2. PICK e \in Events : e = Event(w)
  BY <1>1, BusyJob
<1>3. CASE job[w].claim = "lost"
  BY <1>1, <1>3, RedeliverInv DEF FinishDelivery
<1>4. CASE job[w].claim # "lost"
  <2>1. /\ Ack(w) /\ lost' = lost \cup Overtaken(w)
        /\ UNCHANGED <<redis, deployed, events, event, row, faults, late, sched, interrupted, unmarked>>
    BY <1>4 DEF FinishDelivery
  <2>2. row' \in Table /\ RowsAdvance /\ \A f \in Events : Closes(f)
    BY <1>1, <2>1, SameRows
  <2>3. IInv'
    BY <1>1, <1>2, <2>1, <2>2, AckInv
  <2>. QED BY <2>2, <2>3
<1>. QED BY <1>3, <1>4

\* A copy of the message takes its place, with fewer deliveries than the limit.
LEMMA RequeueInv ==
  ASSUME IInv, NEW w \in Workers, Busy(w), NEW e \in Events, e = Event(w),
         NEW n \in 0..(MaxDeliveries - 1), Requeue(w, n), Forget(w, Reaches(w)),
         row' \in Table, RowsAdvance, \A f \in Events \ {e} : Closes(f),
         \A h \in Handlers \ job[w].todo : row'[e][h] = row[e][h],
         faults' \in 0..MaxFaults,
         UNCHANGED <<redis, deployed, events, event, late, sched, interrupted, unmarked>>
  PROVE  IInv'
<1>1. TypeOK
  BY DEF IInv
<1> DEFINE m == [at |-> "queued", count |-> n, base |-> n, redelivered |-> TRUE,
                 recovered |-> FALSE, copy |-> msg[e].copy + 1]
<1>2. Leave(w, Reaches(w), m)
  BY DEF Requeue
<1>3. msg[e].copy \in Nat
  BY <1>1, Types DEF Messages
<1>4. m \in Messages
  BY <1>3, RunSizes DEF Messages
<1>5. /\ m.at = "queued" /\ m.base < MaxDeliveries /\ m.copy >= msg[e].copy
      /\ m.count < MaxDeliveries /\ m.copy # msg[e].copy
  BY <1>3, RunSizes
<1>6. m.redelivered
  OBVIOUS
<1> HIDE DEF m
<1>7. Reaches(w) \in BOOLEAN
  BY DEF Reaches, Own
<1>8. /\ lost \subseteq lost' /\ lost' \subseteq Runs
      /\ ~Reaches(w) => \A h \in job[w].todo : <<e, h>> \in lost'
  BY <1>7, ForgetType
<1>9. (Reaches(w) => At(e) # "absent") /\ (Own(w) => Reaches(w))
  BY BusyJob, AckReached DEF Busy
<1>. QED BY <1>2, <1>4, <1>5, <1>6, <1>7, <1>8, <1>9, LeaveInv

LEMMA InfrastructureInv ==
  ASSUME IInv, NEW w \in Workers, InfrastructureRetry(w)
  PROVE  IInv' /\ RowsAdvance
<1>1. Busy(w) /\ TypeOK
  BY DEF InfrastructureRetry, IInv, Busy
<1>2. PICK e \in Events : e = Event(w)
  BY <1>1, BusyJob DEF Busy
<1>3. PICK n : n = IF redis THEN job[w].msg.base ELSE job[w].msg.count - 1
  OBVIOUS
<1>4. n \in 0..(MaxDeliveries - 1)
  <2>1. job[w].msg \in Messages
    BY <1>1, Types DEF Jobs
  <2>2. job[w].msg.count >= 1 /\ job[w].msg.base < MaxDeliveries
    BY <1>1 DEF IInv, JobShape
  <2>. QED BY <1>3, <2>1, <2>2, RunSizes DEF Messages
<1>5. Requeue(w, n) /\ Forget(w, Reaches(w))
  BY <1>3 DEF InfrastructureRetry
<1>6. /\ UNCHANGED <<redis, deployed, events, event, row, late, sched, interrupted, unmarked>>
      /\ faults' \in 0..MaxFaults
  BY <1>1, FaultType DEF InfrastructureRetry
<1>7. row' \in Table /\ RowsAdvance /\ \A f \in Events : Closes(f)
  BY <1>1, <1>6, SameRows
<1>8. IInv'
  BY <1>1, <1>2, <1>4, <1>5, <1>6, <1>7, RequeueInv
<1>. QED BY <1>7, <1>8

LEMMA SetupDefersInv ==
  ASSUME IInv, NEW w \in Workers, NEW h \in Handlers, SetupDefers(w, h)
  PROVE  IInv' /\ RowsAdvance
<1>1. Busy(w) /\ TypeOK /\ h \in job[w].todo
  BY DEF SetupDefers, IInv, Busy
<1>2. PICK e \in Events : e = Event(w)
  BY <1>1, BusyJob DEF Busy
<1>3. PICK n : n = job[w].msg.count
  OBVIOUS
<1>4. n \in 0..(MaxDeliveries - 1)
  <2>1. job[w].msg \in Messages
    BY <1>1, Types DEF Jobs
  <2>2. ~(job[w].msg.count >= MaxDeliveries)
    BY DEF SetupDefers, LastAttempt
  <2>. QED BY <1>3, <2>1, <2>2, RunSizes DEF Messages
<1>5. Requeue(w, n) /\ Forget(w, Reaches(w))
  BY <1>3 DEF SetupDefers
<1>6. /\ UNCHANGED <<redis, deployed, events, event, late, sched, faults, interrupted, unmarked>>
      /\ faults' \in 0..MaxFaults
  BY <1>1 DEF SetupDefers, TypeOK
<1>7. /\ row' \in Table /\ RowsAdvance /\ \A f \in Events \ {e} : Closes(f)
      /\ \A g \in Handlers \ {h} : row'[e][g] = row[e][g]
  <2>1. CASE UNCHANGED row
    BY <1>1, <2>1, SameRows
  <2>2. CASE row' = [row EXCEPT ![e][h] = record_unstarted_run(row[e][h], "held")]
    <3>1. PICK t \in Statuses : t = record_unstarted_run(row[e][h], "held")
      BY <1>1, Types DEF record_unstarted_run, Statuses, Open
    <3>2. row' = [row EXCEPT ![e][h] = t] /\ Advance(e, row[e][h], t)
      BY <2>2, <3>1 DEF record_unstarted_run, Open, Advance
    <3>. QED BY <1>1, <3>2, OneRow
  <2>. QED BY <1>2, <2>1, <2>2 DEF SetupDefers
<1>8. IInv'
  BY <1>1, <1>2, <1>4, <1>5, <1>6, <1>7, RequeueInv
<1>. QED BY <1>7, <1>8

LEMMA SetupTimesOutInv ==
  ASSUME IInv, NEW w \in Workers, NEW h \in Handlers, SetupTimesOut(w, h)
  PROVE  IInv' /\ RowsAdvance
<1>1. Busy(w) /\ TypeOK
  BY DEF SetupTimesOut, IInv, Busy
<1>2. PICK e \in Events : e = Event(w)
  BY <1>1, BusyJob DEF Busy
<1> DEFINE m == [msg[e] EXCEPT !.at = "dead"]
<1>3. Leave(w, Reaches(w), m)
  BY <1>2 DEF SetupTimesOut
<1>4. m \in Messages /\ m.at = "dead" /\ m.base < MaxDeliveries /\ m.copy >= msg[e].copy
  BY MovedMsg DEF Settled
<1> HIDE DEF m
<1>5. UNCHANGED <<redis, deployed, events, event, late, sched, interrupted, unmarked>>
  BY DEF SetupTimesOut
<1>6. Reaches(w) \in BOOLEAN /\ (Reaches(w) => At(e) # "absent") /\ (Own(w) => Reaches(w))
  BY <1>1, <1>2, BusyJob, AckReached DEF Busy, Reaches, Own
<1>7. CASE Reaches(w)
  <2>1. /\ row' \in Table /\ RowsAdvance
        /\ \A f \in Events \ {e} : Closes(f)
        /\ \A g \in Handlers : row'[e][g] \in Open => <<e, g>> \in lost'
        /\ lost \subseteq lost' /\ lost' \subseteq Runs /\ faults' \in 0..MaxFaults
    BY <1>1, <1>2, <1>7, DeadLetterRows DEF SetupTimesOut
  <2>2. IInv'
    BY <1>1, <1>2, <1>3, <1>4, <1>5, <1>6, <1>7, <2>1, LeaveInv
  <2>. QED BY <2>1, <2>2
<1>8. CASE ~Reaches(w)
  <2>1. Forget(w, FALSE) /\ UNCHANGED <<row, faults>>
    BY <1>8 DEF SetupTimesOut
  <2>2. row' \in Table /\ RowsAdvance /\ \A f \in Events : Closes(f)
    BY <1>1, <2>1, SameRows
  <2>3. /\ lost \subseteq lost' /\ lost' \subseteq Runs /\ faults' \in 0..MaxFaults
        /\ \A g \in job[w].todo : <<e, g>> \in lost'
    BY <1>1, <1>2, <2>1, ForgetType DEF TypeOK
  <2>4. IInv'
    BY <1>1, <1>2, <1>3, <1>5, <1>6, <1>8, <2>1, <2>2, <2>3, LeaveInv
  <2>. QED BY <2>2, <2>4
<1>. QED BY <1>7, <1>8

---------------------------------------------------------------------------
(* Stops, lapses and recovery.                                             *)

\* The process of worker w ends; r tells which rows it failed before.
LEMMA DownInv ==
  ASSUME IInv, NEW w \in Workers, Down(w), row' \in Table, RowsAdvance,
         \A f \in Events : Closes(f), interrupted' \subseteq Runs,
         UNCHANGED <<redis, deployed, events, event, sched, unmarked>>
  PROVE  IInv'
<1>1. TypeOK /\ faults' \in 0..MaxFaults
  BY FaultType DEF IInv, Down
<1>2. /\ job' \in [Workers -> Jobs] /\ job'[w] = Idle
      /\ \A v \in Workers \ {w} : job'[v] = job[v]
  BY <1>1, OneJob, IdleType DEF Down
<1>3. /\ late' \subseteq late /\ lost \subseteq lost' /\ \A l \in late \ late' : l.run \in lost'
      /\ Busy(w) /\ ~Own(w) => \A h \in Handlers : <<Event(w), h>> \in lost'
  BY DEF Down, Forgotten
<1>4. late' \subseteq [worker : Workers, run : Runs, out : Outcomes] /\ lost' \subseteq Runs
  <2>1. Busy(w) => Event(w) \in Events
    BY DEF IInv, JobShape
  <2>2. Forgotten(w) \subseteq Runs
    BY <1>1, <2>1 DEF Forgotten, TypeOK, Runs
  <2>. QED BY <1>1, <1>3, <2>2 DEF TypeOK, Down
<1>5. CASE ~(Busy(w) /\ Own(w))
  <2>1. msg' = msg /\ owner' = owner
    BY <1>5 DEF Down
  <2>2. TypeOK'
    BY <1>1, <1>2, <1>4, <2>1, TypeStep, Types DEF TypeOK
  <2>3. CASE Busy(w)
    <3>1. PICK e \in Events : e = Event(w)
      BY <2>3, BusyJob DEF Busy
    <3>2. ReleaseStep(e)
      BY <1>2, <1>3, <1>5, <2>1, <2>3, <3>1 DEF ReleaseStep
    <3>3. \A h \in Handlers : Accounted(e, h)'
      BY <1>3, <1>5, <2>3, <3>1 DEF Accounted
    <3>. QED BY <2>2, <3>2, <3>3, ReleaseInv
  <2>4. CASE ~Busy(w)
    <3>1. job[w] = Idle
      BY <2>4 DEF Busy, IInv, JobShape
    <3>2. \A v \in Workers : job'[v] = job[v]
      BY <1>2, <3>1
    <3>3. PICK e \in Events : e = 1
      BY RunSizes DEF Events
    <3>4. ReleaseStep(e)
      BY <1>3, <2>1, <3>2 DEF ReleaseStep
    <3>5. ASSUME NEW h \in Handlers, row'[e][h] \in Open PROVE Accounted(e, h)'
      <4>1. Accounted(e, h)
        BY <3>5 DEF Closes, IInv, OpenAccounted
      <4>2. \A l \in late : l.run = <<e, h>> => l \in late' \/ <<e, h>> \in lost'
        BY <1>3
      <4>. QED BY <1>3, <2>1, <3>2, <4>1, <4>2, AccountKept
    <3>. QED BY <2>2, <3>4, <3>5, ReleaseInv
  <2>. QED BY <2>3, <2>4
<1>6. CASE Busy(w) /\ Own(w)
  <2>1. PICK e \in Events : e = Event(w)
    BY <1>6, BusyJob DEF Busy
  <2> DEFINE m == [msg[e] EXCEPT !.at = "left"]
  <2>2. msg' = [msg EXCEPT ![e] = m] /\ owner' = [owner EXCEPT ![e] = NoWorker]
    BY <1>6, <2>1 DEF Down
  <2>3. m \in Messages /\ m.at = "left" /\ m.base < MaxDeliveries /\ m.copy >= msg[e].copy
    BY MovedMsg
  <2> HIDE DEF m
  <2>4. /\ msg' \in [Events -> Messages] /\ owner' \in [Events -> Workers \cup {NoWorker}]
        /\ msg'[e] = m /\ \A f \in Events \ {e} : msg'[f] = msg[f] /\ owner'[f] = owner[f]
    BY <1>1, <2>2, <2>3 DEF TypeOK
  <2>5. TypeOK'
    BY <1>1, <1>2, <1>4, <2>4, TypeStep
  <2>6. Freed(e)
    <3>1. \A v \in Workers : Event(v) = e /\ Own(v) => v = w
      BY <1>6, <2>1 DEF Own
    <3>2. job[w] # Idle
      BY <1>6 DEF Busy, Idle
    <3>3. At(e) = "taken"
      BY <1>6, <2>1 DEF Own
    <3>. QED BY <1>2, <2>3, <2>4, <3>1, <3>2, <3>3 DEF Freed
  <2>7. ReleaseStep(e)
    BY <1>2, <1>3, <2>1, <2>4, <2>6 DEF ReleaseStep
  <2>8. \A h \in Handlers : Accounted(e, h)'
    BY <2>3, <2>4 DEF Accounted, Pending, At
  <2>. QED BY <2>5, <2>7, <2>8, ReleaseInv
<1>. QED BY <1>5, <1>6

LEMMA CrashInv ==
  ASSUME IInv, NEW w \in Workers, Crash(w)
  PROVE  IInv' /\ RowsAdvance
<1>1. TypeOK /\ UNCHANGED row
  BY DEF Crash, IInv
<1>2. row' \in Table /\ RowsAdvance /\ \A f \in Events : Closes(f)
  BY <1>1, SameRows
<1>3. interrupted' \subseteq Runs
  BY <1>1 DEF Crash, TypeOK
<1>. QED BY <1>2, <1>3, DownInv DEF Crash

LEMMA FailActiveInv ==
  ASSUME IInv, NEW w \in Workers, fail_active_runs(w)
  PROVE  IInv' /\ RowsAdvance
<1>1. job[w].phase = "running" /\ TypeOK
  BY DEF fail_active_runs, IInv
<1>2. PICK e \in Events : e = Event(w)
  BY <1>1, BusyJob
<1>3. PICK h \in Handlers : h = job[w].run
  BY <1>1, BusyJob
<1>4. PICK t \in Statuses : t = IF row[e][h] = "running" THEN "failed" ELSE row[e][h]
  BY <1>1, Types DEF Statuses, Finished, Outcomes
<1>5. row' = [row EXCEPT ![e][h] = t]
  BY <1>2, <1>3, <1>4 DEF fail_active_runs
<1>6. Advance(e, row[e][h], t)
  BY <1>4 DEF Advance, Open, Outcomes
<1>7. /\ row' \in Table /\ row'[e][h] = t /\ \A g \in Handlers \ {h} : row'[e][g] = row[e][g]
      /\ \A f \in Events \ {e} : Closes(f)
      /\ RowsAdvance
  BY <1>1, <1>5, <1>6, OneRow
<1>8. Closes(e)
  BY <1>4, <1>7 DEF Closes, Open
<1>9. interrupted' \subseteq Runs
  BY <1>1, <1>2, <1>3 DEF fail_active_runs, TypeOK, Runs
<1>. QED BY <1>7, <1>8, <1>9, DownInv DEF fail_active_runs

\* A message that nobody settles leaves its worker, the deliveries go on.
LEMMA MoveInv ==
  ASSUME IInv, TypeOK', NEW e \in Events, RowsAdvance, Freed(e),
         \A f \in Events \ {e} : msg'[f] = msg[f] /\ owner'[f] = owner[f] /\ Closes(f),
         UNCHANGED <<redis, events, event, job, late, sched, unmarked>>, lost \subseteq lost',
         \A h \in Handlers : row'[e][h] \in Open =>
           msg'[e].at \in {"queued", "left", "lapsed"} \/ <<e, h>> \in lost'
  PROVE  IInv'
<1>1. ReleaseStep(e)
  BY DEF ReleaseStep
<1>2. \A h \in Handlers : row'[e][h] \in Open => Accounted(e, h)'
  BY DEF Accounted, Pending, At
<1>. QED BY <1>1, <1>2, ReleaseInv

LEMMA ClaimLapsesInv ==
  ASSUME IInv, NEW w \in Workers, ClaimLapses(w)
  PROVE  IInv' /\ RowsAdvance
<1>1. Busy(w) /\ Own(w) /\ TypeOK
  BY DEF ClaimLapses, IInv
<1>2. PICK e \in Events : e = Event(w)
  BY <1>1, BusyJob DEF Busy
<1> DEFINE m == [msg[e] EXCEPT !.at = "lapsed"]
<1>3. msg' = [msg EXCEPT ![e] = m] /\ owner' = [owner EXCEPT ![e] = NoWorker]
  BY <1>2 DEF ClaimLapses
<1>4. m \in Messages /\ m.at = "lapsed" /\ m.base < MaxDeliveries /\ m.copy >= msg[e].copy
  BY MovedMsg
<1> HIDE DEF m
<1>5. /\ msg' \in [Events -> Messages] /\ owner' \in [Events -> Workers \cup {NoWorker}]
      /\ msg'[e] = m /\ \A f \in Events \ {e} : msg'[f] = msg[f] /\ owner'[f] = owner[f]
  BY <1>1, <1>3, <1>4 DEF TypeOK
<1>6. /\ UNCHANGED <<redis, deployed, events, event, row, job, late, sched, interrupted, unmarked, lost>>
      /\ faults' \in 0..MaxFaults
  BY <1>1, FaultType DEF ClaimLapses, history
<1>7. row' \in Table /\ RowsAdvance /\ \A f \in Events : Closes(f)
  BY <1>1, <1>6, SameRows
<1>8. TypeOK'
  BY <1>1, <1>5, <1>6, <1>7, TypeStep, Types DEF TypeOK
<1>9. Freed(e)
  <2>1. \A v \in Workers : Event(v) = e /\ Own(v) => v = w
    BY <1>1, <1>2 DEF Own
  <2>2. At(e) = "taken"
    BY <1>1, <1>2 DEF Own
  <2>3. redis => job[w].claim # "held" /\ job[w].phase # "running"
    BY DEF ClaimLapses
  <2>. QED BY <1>4, <1>5, <2>1, <2>2, <2>3 DEF Freed
<1>10. IInv'
  BY <1>4, <1>5, <1>6, <1>7, <1>8, <1>9, MoveInv
<1>. QED BY <1>7, <1>10

\* settle_orphaned_event_runs holds the event's runs and fails the others.
LEMMA HeldRows ==
  ASSUME TypeOK, NEW e \in Events, row' = Held(e)
  PROVE  row' \in Table /\ RowsAdvance /\ \A f \in Events \ {e} : Closes(f)
<1>1. row' \in Table
  BY Types DEF Held, hold_orphaned_runs_for_redelivery, Table, Statuses, Open, Finished, Outcomes
<1>2. RowsAdvance
  BY Types DEF Held, hold_orphaned_runs_for_redelivery, RowsAdvance, Advance, Open, Outcomes
<1>3. \A f \in Events \ {e} : Closes(f)
  BY DEF Held, Closes, Open
<1>. QED BY <1>1, <1>2, <1>3

LEMMA RecoverInv ==
  ASSUME IInv, NEW e \in Events, Recover(e)
  PROVE  IInv' /\ RowsAdvance
<1>1. /\ At(e) \in {"left", "lapsed"} /\ TypeOK
      /\ UNCHANGED <<redis, deployed, events, event, owner, job, late, sched, interrupted, unmarked>>
  BY DEF Recover, IInv
<1>2. \A v \in Workers : Event(v) = e => ~Own(v)
  BY <1>1 DEF Own
<1>3. CASE msg[e].count >= MaxDeliveries
  <2> DEFINE m == [msg[e] EXCEPT !.at = "dead"]
  <2>1. msg' = [msg EXCEPT ![e] = m] /\ DeadLetter(e)
    BY <1>3 DEF Recover
  <2>2. m \in Messages /\ m.at = "dead" /\ m.base < MaxDeliveries /\ m.copy >= msg[e].copy
    BY MovedMsg DEF Settled
  <2> HIDE DEF m
  <2>3. msg' \in [Events -> Messages] /\ msg'[e] = m /\ \A f \in Events \ {e} : msg'[f] = msg[f]
    BY <1>1, <2>1, <2>2 DEF TypeOK
  <2>4. /\ row' \in Table /\ RowsAdvance
        /\ \A f \in Events \ {e} : Closes(f)
        /\ \A h \in Handlers : row'[e][h] \in Open => <<e, h>> \in lost'
        /\ lost \subseteq lost' /\ lost' \subseteq Runs /\ faults' \in 0..MaxFaults
    BY <1>1, <2>1, DeadLetterRows
  <2>5. TypeOK'
    BY <1>1, <2>3, <2>4, TypeStep, Types DEF TypeOK
  <2>6. Freed(e)
    BY <1>1, <1>2, <2>2, <2>3 DEF Freed
  <2>7. IInv'
    BY <1>1, <2>3, <2>4, <2>5, <2>6, MoveInv
  <2>. QED BY <2>4, <2>7
<1>4. CASE ~(msg[e].count >= MaxDeliveries)
  <2> DEFINE m == [msg[e] EXCEPT !.at = "queued", !.redelivered = TRUE,
                                 !.recovered = (At(e) = "left" /\ ~redis)]
  <2>1. msg' = [msg EXCEPT ![e] = m] /\ UNCHANGED lost
    BY <1>1, <1>4, Types DEF Recover, Messages
  <2>2. msg[e] \in Messages /\ msg[e].base < MaxDeliveries /\ msg[e].count < MaxDeliveries
    <3>1. msg[e] \in Messages /\ msg[e].base < MaxDeliveries
      BY <1>1, Types DEF IInv, CountsLeft
    <3>. QED BY <1>4, <3>1, RunSizes DEF Messages
  <2>3. m \in Messages
    BY <2>2 DEF Messages
  <2>4. /\ m.at = "queued" /\ m.base = msg[e].base /\ m.copy = msg[e].copy
        /\ m.count = msg[e].count /\ m.redelivered = TRUE
    BY <2>2 DEF Messages
  <2> HIDE DEF m
  <2>5. msg' \in [Events -> Messages] /\ msg'[e] = m /\ \A f \in Events \ {e} : msg'[f] = msg[f]
    BY <1>1, <2>1, <2>3 DEF TypeOK
  <2>6. /\ row' = Held(e) \/ UNCHANGED row
        /\ Fault \/ UNCHANGED faults
    BY <1>4 DEF Recover
  <2>7. row' \in Table /\ RowsAdvance /\ \A f \in Events \ {e} : Closes(f)
    BY <1>1, <2>6, HeldRows, SameRows
  <2>8. TypeOK'
    <3>1. faults' \in 0..MaxFaults
      BY <1>1, <2>6, FaultType
    <3>. QED BY <1>1, <2>1, <2>5, <2>7, <3>1, TypeStep, Types DEF TypeOK
  <2>9. Freed(e)
    <3>1. msg[e].copy \in Nat
      BY <2>2 DEF Messages
    <3>. QED BY <1>1, <1>2, <2>2, <2>4, <2>5, <3>1 DEF Freed
  <2>10. IInv'
    BY <1>1, <2>1, <2>4, <2>5, <2>7, <2>8, <2>9, MoveInv
  <2>. QED BY <2>7, <2>10
<1>. QED BY <1>3, <1>4

---------------------------------------------------------------------------
(* Claims.                                                                 *)

LEMMA ClaimInv ==
  ASSUME IInv, NEW w \in Workers, NEW e \in Events, Claim(w, e)
  PROVE  IInv' /\ RowsAdvance
<1> USE DEF IInv
<1>1. /\ job[w] = Idle /\ At(e) = "queued" /\ TypeOK
      /\ UNCHANGED <<redis, deployed, events, event, row, late, sched, faults, interrupted, unmarked, lost>>
  BY DEF Claim, Busy, JobShape, history
<1> DEFINE m == [msg[e] EXCEPT !.at = "taken", !.count = @ + 1]
           ended == {h \in Handlers : row[e][h] \in Finished}
           j == [Idle EXCEPT !.event = e, !.phase = "claimed", !.msg = m, !.ended = ended]
<1>2. msg[e] \in Messages /\ msg[e].count < MaxDeliveries /\ msg[e].base < MaxDeliveries
  BY <1>1, Types DEF CountsLeft
<1>3. /\ m \in Messages /\ m.count >= 1 /\ m.base = msg[e].base /\ m.copy = msg[e].copy
      /\ m.at = "taken" /\ m.redelivered = msg[e].redelivered
  <2>1. msg[e].count + 1 \in 0..MaxDeliveries /\ msg[e].count + 1 >= 1
    BY <1>2, RunSizes DEF Messages
  <2>2. m \in Messages
    BY <1>2, <2>1 DEF Messages
  <2>3. /\ m.count = msg[e].count + 1 /\ m.base = msg[e].base /\ m.copy = msg[e].copy
        /\ m.at = "taken" /\ m.redelivered = msg[e].redelivered
    BY <1>2 DEF Messages
  <2>. QED BY <2>1, <2>2, <2>3
<1>4. msg' = [msg EXCEPT ![e] = m] /\ owner' = [owner EXCEPT ![e] = w]
  BY DEF Claim
<1> HIDE DEF m
<1>5. /\ msg' \in [Events -> Messages] /\ owner' \in [Events -> Workers \cup {NoWorker}]
      /\ msg'[e] = m /\ owner'[e] = w
      /\ \A f \in Events \ {e} : msg'[f] = msg[f] /\ owner'[f] = owner[f]
  BY <1>1, <1>3, <1>4 DEF TypeOK
<1>6. job' = [job EXCEPT ![w] = j]
  BY <1>5 DEF Claim
<1>7. /\ j \in Jobs /\ j.event = e /\ j.phase = "claimed" /\ j.msg = m /\ j.ended = ended
      /\ j.todo = {} /\ j.run = NoRun
  <2>1. e \in 0..MaxEvents
    BY DEF Events
  <2>2. Idle \in Jobs /\ Idle.todo = {} /\ Idle.run = NoRun
    BY IdleType DEF Idle
  <2>. QED BY <1>3, <2>1, <2>2 DEF Jobs
<1> HIDE DEF j
<1>8. job' \in [Workers -> Jobs] /\ job'[w] = j /\ \A v \in Workers \ {w} : job'[v] = job[v]
  BY <1>1, <1>6, <1>7, OneJob
<1>9. row' \in Table /\ RowsAdvance /\ \A f \in Events : Closes(f)
  BY <1>1, SameRows
<1>10. TypeOK'
  BY <1>1, <1>5, <1>8, <1>9, TypeStep, Types DEF TypeOK
<1>11. job[w].event = 0 /\ \A f \in Events : job[w].event # f
  BY <1>1, NoRunFacts DEF Idle
<1>12. CountsLeft'
  <2> SUFFICES ASSUME NEW f \in Events
               PROVE  /\ msg'[f].base < MaxDeliveries
                      /\ msg'[f].at = "queued" => msg'[f].count < MaxDeliveries
                      /\ f > events => msg'[f] = NoMsg
    BY <1>1 DEF CountsLeft, At
  <2>1. CASE f = e
    BY <1>1, <1>2, <1>3, <1>5, <2>1 DEF CountsLeft, At, NoMsg
  <2>2. CASE f # e
    BY <1>5, <2>2 DEF CountsLeft, At
  <2>. QED BY <2>1, <2>2
<1>13. JobShape'
  <2> SUFFICES ASSUME NEW v \in Workers
               PROVE  /\ job'[v].phase = "idle" => job'[v] = Idle
                      /\ job'[v].phase # "idle" =>
                           /\ job'[v].event \in Events
                           /\ job'[v].msg.count >= 1 /\ job'[v].msg.base < MaxDeliveries
                           /\ job'[v].msg.copy <= msg'[job'[v].event].copy
                           /\ msg'[job'[v].event].at = "taken" /\ owner'[job'[v].event] = v =>
                                msg'[job'[v].event] = job'[v].msg
                      /\ IF job'[v].phase = "running" THEN job'[v].run \in job'[v].todo
                                                      ELSE job'[v].run = NoRun
                      /\ job'[v].phase = "claimed" => job'[v].todo = {}
    BY DEF JobShape, Busy, Event, Own, At
  <2>1. CASE v = w
    <3>1. m.copy <= m.copy
      BY <1>3 DEF Messages
    <3>. QED BY <1>2, <1>3, <1>5, <1>7, <1>8, <2>1, <3>1
  <2>2. CASE v # w
    <3>1. job'[v] = job[v]
      BY <1>8, <2>2
    <3>2. \A f \in Events : msg'[f].copy = msg[f].copy
      BY <1>3, <1>5
    <3>3. job[v].phase # "idle" => job[v].event \in Events
      BY DEF JobShape, Busy, Event
    <3>. QED BY <1>5, <2>2, <3>1, <3>2, <3>3 DEF JobShape, Busy, Event, Own, At
  <2>. QED BY <2>1, <2>2
<1>14. EndedShape'
  <2> SUFFICES ASSUME NEW v \in Workers, job'[v].phase # "idle"
               PROVE  /\ \A h \in job'[v].ended : row[job'[v].event][h] \in Finished
                      /\ ~job'[v].msg.redelivered => job'[v].ended = {}
                      /\ job'[v].todo \cap job'[v].ended = {}
    BY <1>1 DEF EndedShape, Busy, Event
  <2>1. CASE v = w
    <3>1. ~m.redelivered => ended = {}
      BY <1>1, <1>3 DEF FirstDelivery, Blank, Finished, Outcomes
    <3>. QED BY <1>7, <1>8, <2>1, <3>1
  <2>2. CASE v # w
    BY <1>8, <2>2 DEF EndedShape, Busy, Event
  <2>. QED BY <2>1, <2>2
<1>15. FirstDelivery'
  <2> SUFFICES ASSUME NEW f \in Events, ~msg'[f].redelivered
               PROVE  /\ msg'[f].at \in {"absent", "queued"} =>
                           Blank(f) /\ \A v \in Workers : job'[v].event # f
                      /\ msg'[f].at = "taken" => \A v \in Workers : job'[v].event = f =>
                           owner'[f] = v /\ (job'[v].phase = "claimed" => Blank(f))
    BY <1>1 DEF FirstDelivery, At, Event, Blank
  <2>1. CASE f = e
    <3>1. Blank(e) /\ \A v \in Workers : job[v].event # e
      BY <1>1, <1>3, <1>5, <2>1 DEF FirstDelivery, Event
    <3>. QED BY <1>3, <1>5, <1>8, <2>1, <3>1
  <2>2. CASE f # e
    BY <1>5, <1>7, <1>8, <2>2 DEF FirstDelivery, At, Event
  <2>. QED BY <2>1, <2>2
<1>16. Booked'
  BY <1>1, <1>9, RowsBook
<1>17. FenceHolds'
  <2> SUFFICES ASSUME NEW v \in Workers, redis, job'[v].phase # "idle", Reaches(v)', ~Own(v)'
               PROVE  job'[v].claim # "held" /\ job'[v].phase # "running"
    BY <1>1 DEF FenceHolds, Busy
  <2>1. v # w
    BY <1>3, <1>5, <1>7, <1>8 DEF Own, Event, At
  <2>2. job'[v] = job[v] /\ Busy(v) /\ Event(v) \in Events
    BY <1>8, <2>1 DEF Busy, JobShape
  <2>3. Reaches(v) /\ ~Own(v)
    <3>1. CASE Event(v) = e
      BY <1>1, <1>3, <1>5, <2>2, <3>1 DEF Reaches, Own, Event, At
    <3>2. CASE Event(v) # e
      BY <1>1, <1>5, <2>2, <3>2 DEF Reaches, Own, Event, At
    <3>. QED BY <3>1, <3>2
  <2>. QED BY <2>2, <2>3 DEF FenceHolds
<1>18. OpenAccounted'
  <2> SUFFICES ASSUME NEW f \in Events, NEW h \in Handlers, row[f][h] \in Open
               PROVE  Accounted(f, h)'
    BY <1>1 DEF OpenAccounted
  <2>1. CASE f = e
    BY <1>3, <1>5, <1>7, <1>8, <2>1 DEF Accounted, Pending, Own, Event, At, Busy
  <2>2. CASE f # e
    <3>1. \A v \in Workers : Event(v) = f => job'[v] = job[v]
      BY <1>8, <1>11 DEF Event
    <3>2. Accounted(f, h)
      BY DEF OpenAccounted
    <3>. QED BY <1>1, <1>5, <2>2, <3>1, <3>2, AccountKept
  <2>. QED BY <2>1, <2>2
<1>. QED BY <1>9, <1>10, <1>12, <1>13, <1>14, <1>15, <1>16, <1>17, <1>18

---------------------------------------------------------------------------
(* Steps outside the deliveries.                                           *)

LEMMA LateWriteInv ==
  ASSUME IInv, NEW l \in late, LateWrite(l)
  PROVE  IInv' /\ RowsAdvance
<1>1. /\ TypeOK /\ late' = late \ {l}
      /\ UNCHANGED <<redis, deployed, events, event, msg, owner, job, sched, faults, interrupted, unmarked>>
  BY DEF LateWrite, IInv, queue
<1>2. PICK e \in Events, h \in Handlers, out \in Outcomes : l.run = <<e, h>> /\ l.out = out
  BY <1>1, Types DEF Runs
<1>3. PICK t \in Statuses :
        /\ t = RunEnd(e, row[e][h], out) /\ Advance(e, row[e][h], t)
        /\ t \in Open => t = "held" /\ row[e][h] = "held"
        /\ t = row[e][h] \/ (row[e][h] # "none" /\ t \notin Open)
  BY <1>1, RunEndRow
<1>4. /\ row' = [row EXCEPT ![e][h] = t]
      /\ lost' = IF row[e][h] = "held" THEN lost \cup {<<e, h>>} ELSE lost
  <2>1. l.run[1] = e /\ l.run[2] = h /\ l.out = out
    BY <1>2
  <2>2. row' = [row EXCEPT ![e][h] = RunEnd(e, row[e][h], out)]
    BY <2>1 DEF LateWrite
  <2>. QED BY <1>3, <2>1, <2>2 DEF LateWrite, Missed
<1>5. /\ row' \in Table /\ row'[e][h] = t /\ \A g \in Handlers \ {h} : row'[e][g] = row[e][g]
      /\ \A f \in Events \ {e} : row'[f] = row[f] /\ Closes(f)
      /\ RowsAdvance
  <2>1. TypeOK /\ row' = [row EXCEPT ![e][h] = t] /\ Advance(e, row[e][h], t)
    BY <1>1, <1>3, <1>4
  <2>2. /\ row' \in Table /\ row'[e][h] = t
        /\ \A g \in Handlers \ {h} : row'[e][g] = row[e][g]
        /\ \A f \in Events \ {e} : row'[f] = row[f] /\ Closes(f)
        /\ Advance(e, row[e][h], t) => RowsAdvance
    <3>1. TypeOK /\ row' = [row EXCEPT ![e][h] = t]
      BY <2>1
    <3>. QED BY <3>1, OneRow
  <2>. QED BY <2>1, <2>2
<1>6. Closes(e)
  BY <1>3, <1>5 DEF Closes
<1>7. lost \subseteq lost' /\ lost' \subseteq Runs /\ faults' \in 0..MaxFaults
  BY <1>1, <1>4 DEF TypeOK, Runs
<1>8. TypeOK'
  BY <1>1, <1>5, <1>7, TypeStep, Types DEF TypeOK
<1>9. QuietStep
  <2>1. ASSUME NEW f \in Events, NEW g \in Handlers, row'[f][g] \in Open, l.run = <<f, g>>
        PROVE  l.run \in lost'
    <3>1. f = e /\ g = h
      BY <1>2, <2>1
    <3>. QED BY <1>2, <1>3, <1>4, <1>5, <2>1, <3>1
  <2>. QED BY <1>1, <1>5, <1>6, <1>7, <2>1 DEF QuietStep
<1>10. Booked'
  BY <1>1, <1>5, RowsBook DEF IInv
<1>. QED BY <1>5, <1>8, <1>9, <1>10, QuietInv

\* A run is failed from outside: by the reaper or an abandoned retry.
LEMMA FailRunInv ==
  ASSUME IInv, NEW e \in Events, NEW h \in Handlers, row[e][h] \in Open \cup {"retry"},
         row' = [row EXCEPT ![e][h] = "failed"], Fault \/ UNCHANGED faults,
         UNCHANGED <<redis, deployed, events, event, msg, owner, job, late, sched,
                     interrupted, unmarked, lost>>
  PROVE  IInv' /\ RowsAdvance
<1>1. TypeOK /\ faults' \in 0..MaxFaults
  BY FaultType DEF IInv
<1>2. Advance(e, row[e][h], "failed") /\ "failed" \in Statuses /\ "failed" \notin Open
  BY DEF Advance, Open, Outcomes, Statuses, Finished
<1>3. /\ row' \in Table /\ row'[e][h] = "failed"
      /\ \A g \in Handlers \ {h} : row'[e][g] = row[e][g]
      /\ \A f \in Events \ {e} : row'[f] = row[f] /\ Closes(f)
      /\ RowsAdvance
  BY <1>1, <1>2, OneRow
<1>4. Closes(e)
  BY <1>2, <1>3 DEF Closes, Open
<1>5. TypeOK'
  BY <1>1, <1>3, TypeStep, Types DEF TypeOK
<1>6. QuietStep
  BY <1>3, <1>4 DEF QuietStep
<1>7. Booked'
  BY <1>1, <1>3, RowsBook DEF IInv
<1>. QED BY <1>3, <1>5, <1>6, <1>7, QuietInv

LEMMA ReaperInv ==
  ASSUME IInv, NEW e \in Events, NEW h \in Handlers,
         fail_stale_runs(e, h) \/ mark_retry_abandoned(e, h)
  PROVE  IInv' /\ RowsAdvance
<1>1. /\ row[e][h] \in Open \cup {"retry"} /\ row' = [row EXCEPT ![e][h] = "failed"]
      /\ Fault \/ UNCHANGED faults
      /\ UNCHANGED <<redis, deployed, events, event, msg, owner, job, late, sched,
                     interrupted, unmarked, lost>>
  BY DEF fail_stale_runs, mark_retry_abandoned, Stale, queue, history
<1>. QED BY <1>1, FailRunInv

LEMMA RedeployInv ==
  ASSUME IInv, Redeploy
  PROVE  IInv' /\ RowsAdvance
<1>1. /\ TypeOK /\ deployed' \subseteq Handlers /\ faults' \in 0..MaxFaults
      /\ UNCHANGED <<redis, events, event, msg, owner, row, job, late, sched, interrupted, unmarked, lost>>
  BY FaultType DEF Redeploy, IInv, queue, history
<1>2. row' \in Table /\ RowsAdvance /\ \A f \in Events : Closes(f)
  BY <1>1, SameRows
<1>3. TypeOK'
  BY <1>1 DEF TypeOK
<1>4. QuietStep
  BY <1>1, <1>2 DEF QuietStep
<1>5. Booked'
  BY <1>1, <1>2, RowsBook DEF IInv
<1>. QED BY <1>2, <1>3, <1>4, <1>5, QuietInv

---------------------------------------------------------------------------
(* The scheduler.                                                          *)

LEMMA MarkQueuedInv ==
  ASSUME IInv, mark_retry_queued
  PROVE  IInv' /\ RowsAdvance
<1>1. /\ TypeOK /\ sched # NoSched /\ sched' = NoSched
      /\ UNCHANGED <<redis, deployed, events, event, msg, owner, job, late, faults, interrupted, unmarked, lost>>
  BY DEF mark_retry_queued, IInv, queue, history, NoSched
<1>2. PICK e \in Events, h \in Handlers : sched = <<e, h>>
  BY <1>1 DEF TypeOK, NoSched, Runs
<1>3. row[e][h] \in {"retry", "failed"}
  BY <1>1, <1>2 DEF IInv, Booked, SchedShape
<1>4. row' = [row EXCEPT ![e][h] = "failed"]
  BY <1>2 DEF mark_retry_queued
<1>5. Advance(e, row[e][h], "failed") /\ "failed" \in Statuses /\ "failed" \notin Open
  BY <1>3 DEF Advance, Open, Outcomes, Statuses, Finished
<1>6. /\ row' \in Table /\ row'[e][h] = "failed"
      /\ \A g \in Handlers \ {h} : row'[e][g] = row[e][g]
      /\ \A f \in Events \ {e} : row'[f] = row[f] /\ Closes(f)
      /\ RowsAdvance
  <2>1. PICK t \in Statuses : t = "failed"
    BY <1>5
  <2>2. TypeOK /\ row' = [row EXCEPT ![e][h] = t] /\ Advance(e, row[e][h], t)
    BY <1>1, <1>4, <1>5, <2>1
  <2>3. /\ row' \in Table /\ row'[e][h] = t
        /\ \A g \in Handlers \ {h} : row'[e][g] = row[e][g]
        /\ \A f \in Events \ {e} : row'[f] = row[f] /\ Closes(f)
        /\ RowsAdvance
    BY <2>2, OneRow
  <2>. QED BY <2>1, <2>3
<1>7. Closes(e)
  BY <1>3, <1>5, <1>6 DEF Closes, Open
<1>8. TypeOK'
  BY <1>1, <1>6 DEF TypeOK, Table, Statuses, NoSched
<1>9. QuietStep
  BY <1>1, <1>6, <1>7 DEF QuietStep
<1>10. Booked'
  <2>1. RetryAllowed'
    BY <1>1, <1>6 DEF IInv, Booked, RetryAllowed, RowsAdvance, Advance, Open, Outcomes
  <2>2. SchedShape'
    BY <1>1 DEF SchedShape
  <2>3. Retried'
    <3> SUFFICES ASSUME NEW d \in 2..events, event[d].of \in Runs \ unmarked
                 PROVE  row'[event[d].of[1]][event[d].of[2]] = "failed"
      BY <1>1 DEF Retried
    <3>1. event[d].of[1] \in Events /\ event[d].of[2] \in Handlers
      BY DEF Runs
    <3>2. CASE event[d].of = sched
      BY <1>2, <1>6, <3>2
    <3>3. CASE event[d].of # sched
      <4>1. row[event[d].of[1]][event[d].of[2]] = "failed"
        BY <3>3 DEF IInv, Booked, Retried
      <4>. QED BY <1>6, <3>1, <4>1 DEF RowsAdvance, Advance, Open
    <3>. QED BY <3>2, <3>3
  <2>4. RetriesDiffer'
    BY <1>1 DEF IInv, Booked, RetriesDiffer
  <2>. QED BY <2>1, <2>2, <2>3, <2>4 DEF Booked
<1>. QED BY <1>6, <1>8, <1>9, <1>10, QuietInv

LEMMA MarkFailsInv ==
  ASSUME IInv, MarkFails
  PROVE  IInv' /\ RowsAdvance
<1>1. /\ TypeOK /\ sched # NoSched /\ sched' = NoSched /\ unmarked' = unmarked \cup {sched}
      /\ faults' \in 0..MaxFaults
      /\ UNCHANGED <<redis, deployed, events, event, msg, owner, row, job, late, interrupted, lost>>
  BY FaultType DEF MarkFails, IInv, queue, NoSched
<1>2. row' \in Table /\ RowsAdvance /\ \A f \in Events : Closes(f)
  BY <1>1, SameRows
<1>3. TypeOK'
  BY <1>1 DEF TypeOK, NoSched
<1>4. QuietStep
  BY <1>1, <1>2 DEF QuietStep
<1>5. Booked'
  <2>1. RetryAllowed' /\ SchedShape'
    BY <1>1 DEF IInv, Booked, RetryAllowed, SchedShape
  <2>2. Retried'
    BY <1>1 DEF IInv, Booked, Retried
  <2>3. RetriesDiffer'
    BY <1>1 DEF IInv, Booked, RetriesDiffer
  <2>. QED BY <2>1, <2>2, <2>3 DEF Booked
<1>. QED BY <1>2, <1>3, <1>4, <1>5, QuietInv

LEMMA QueueRetryInv ==
  ASSUME IInv, NEW e \in Events, NEW h \in Handlers, process_pending_retries(e, h)
  PROVE  IInv' /\ RowsAdvance
<1> USE DEF IInv
<1>1. /\ TypeOK /\ sched = NoSched /\ row[e][h] = "retry" /\ events < MaxEvents
      /\ UNCHANGED <<redis, deployed, owner, row, job, late, faults, interrupted, unmarked, lost>>
      /\ events' = events + 1 /\ sched' = <<e, h>>
  BY DEF process_pending_retries, history, NoSched
<1>2. PICK n \in Events : n = events + 1
  BY <1>1, RunSizes DEF TypeOK, Events
<1>3. /\ msg[n] = NoMsg /\ At(n) = "absent" /\ ~msg[n].redelivered
  <2>1. n > events
    BY <1>1, <1>2 DEF TypeOK, Events
  <2>2. msg[n] = NoMsg
    BY <2>1 DEF CountsLeft
  <2>. QED BY <2>2 DEF At, NoMsg
<1>4. Blank(n) /\ \A v \in Workers : Event(v) # n
  BY <1>3 DEF FirstDelivery
<1> DEFINE r == [attempt |-> event[e].attempt + 1, handlers |-> {h}, of |-> <<e, h>>]
           EventType == [attempt : 0..MaxAttempts, handlers : SUBSET Handlers,
                         of : Runs \cup {<<0, NoRun>>}]
<1>5. event' = [event EXCEPT ![n] = r] /\ msg' = [msg EXCEPT ![n] = Queued]
  BY <1>2 DEF process_pending_retries
<1>6. r \in EventType /\ r.of = <<e, h>> /\ <<e, h>> \in Runs
  <2>1. event[e].attempt \in 0..MaxAttempts /\ event[e].attempt < MaxAttempts
    BY <1>1 DEF Booked, RetryAllowed, TypeOK
  <2>2. event[e].attempt + 1 \in 0..MaxAttempts
    BY <2>1, RunSizes
  <2>. QED BY <2>2 DEF Runs
<1> HIDE DEF r
<1>7. /\ event' \in [Events -> EventType] /\ event'[n] = r
      /\ \A f \in Events \ {n} : event'[f] = event[f]
  BY <1>1, <1>5, <1>6 DEF TypeOK
<1>8. /\ msg' \in [Events -> Messages] /\ msg'[n] = Queued
      /\ \A f \in Events \ {n} : msg'[f] = msg[f]
  BY <1>1, <1>5, IdleType DEF TypeOK
<1>9. TypeOK'
  BY <1>1, <1>2, <1>6, <1>7, <1>8 DEF TypeOK
<1>10. row' \in Table /\ RowsAdvance /\ \A f \in Events : Closes(f)
  BY <1>1, SameRows
<1>11. /\ Queued.at = "queued" /\ Queued.count = 0 /\ Queued.base = 0
       /\ Queued.redelivered = FALSE /\ Queued.copy = 0
  BY DEF Queued, NoMsg
<1>12. CountsLeft'
  <2> SUFFICES ASSUME NEW f \in Events
               PROVE  /\ msg'[f].base < MaxDeliveries
                      /\ msg'[f].at = "queued" => msg'[f].count < MaxDeliveries
                      /\ f > events' => msg'[f] = NoMsg
    BY DEF CountsLeft, At
  <2>1. CASE f = n
    BY <1>1, <1>2, <1>8, <1>11, <2>1, RunSizes DEF Events
  <2>2. CASE f # n
    <3>1. f > events' => f > events
      BY <1>1 DEF TypeOK, Events
    <3>. QED BY <1>8, <2>2, <3>1 DEF CountsLeft, At
  <2>. QED BY <2>1, <2>2
<1>13. JobShape' /\ EndedShape' /\ FenceHolds'
  <2>1. \A v \in Workers : Busy(v) => Event(v) \in Events \ {n}
    BY <1>4 DEF JobShape
  <2>2. \A v \in Workers : Busy(v) => msg'[Event(v)] = msg[Event(v)]
    BY <1>8, <2>1
  <2>3. JobShape'
    BY <1>1, <2>2 DEF JobShape, Busy, Event, Own, At
  <2>4. EndedShape'
    BY <1>1 DEF EndedShape, Busy, Event
  <2>5. FenceHolds'
    BY <1>1, <2>2 DEF FenceHolds, Busy, Event, Own, At, Reaches
  <2>. QED BY <2>3, <2>4, <2>5
<1>14. FirstDelivery'
  <2> SUFFICES ASSUME NEW f \in Events, ~msg'[f].redelivered
               PROVE  /\ msg'[f].at \in {"absent", "queued"} =>
                           Blank(f) /\ \A v \in Workers : Event(v) # f
                      /\ msg'[f].at = "taken" => \A v \in Workers : Event(v) = f =>
                           owner[f] = v /\ (job[v].phase = "claimed" => Blank(f))
    BY <1>1 DEF FirstDelivery, At, Event, Blank
  <2>1. CASE f = n
    BY <1>4, <1>8, <1>11, <2>1
  <2>2. CASE f # n
    BY <1>8, <2>2 DEF FirstDelivery, At
  <2>. QED BY <2>1, <2>2
<1>15. Booked'
  <2>1. RetryAllowed'
    <3> SUFFICES ASSUME NEW f \in Events, NEW g \in Handlers, row[f][g] = "retry"
                 PROVE  event'[f].attempt < MaxAttempts
      BY <1>1 DEF RetryAllowed
    <3>1. f # n
      BY <1>4 DEF Blank
    <3>. QED BY <1>7, <3>1 DEF Booked, RetryAllowed
  <2>2. SchedShape'
    BY <1>1 DEF SchedShape
  <2>3. \A d \in 2..events' : d = n \/ (d \in 2..events /\ d \in Events /\ event'[d] = event[d])
    <3>1. events \in 1..MaxEvents /\ events' = events + 1 /\ n = events + 1
      BY <1>1, <1>2 DEF TypeOK, Events
    <3>2. \A d \in 2..(events + 1) : d = n \/ (d \in 2..events /\ d \in Events /\ d # n)
      BY <3>1, RunSizes DEF Events
    <3>. QED BY <1>7, <3>1, <3>2
  <2>4. \A d \in 2..events : event[d].of \in Runs \ unmarked =>
          row[event[d].of[1]][event[d].of[2]] = "failed"
    BY <1>1, NoRunFacts DEF Booked, Retried
  <2>5. Retried'
    BY <1>1, <1>6, <1>7, <2>3, <2>4 DEF Retried
  <2>6. \A d \in 2..events : event[d].of \in Runs \ unmarked => event[d].of # <<e, h>>
    BY <1>1, <2>4
  <2>7. RetriesDiffer'
    BY <1>1, <1>6, <1>7, <2>3, <2>6 DEF Booked, RetriesDiffer
  <2>. QED BY <2>1, <2>2, <2>5, <2>7 DEF Booked
<1>16. OpenAccounted'
  <2> SUFFICES ASSUME NEW f \in Events, NEW g \in Handlers, row[f][g] \in Open
               PROVE  Accounted(f, g)'
    BY <1>1 DEF OpenAccounted
  <2>1. f # n
    BY <1>4 DEF Blank, Open
  <2>2. Accounted(f, g)
    BY DEF OpenAccounted
  <2>. QED BY <1>1, <1>8, <2>1, <2>2, AccountKept
<1>. QED BY <1>9, <1>10, <1>12, <1>13, <1>14, <1>15, <1>16

---------------------------------------------------------------------------
(* The invariant.                                                          *)

LEMMA InitInv == Init => IInv
<1> SUFFICES ASSUME Init PROVE IInv
  OBVIOUS
<1> USE RunSizes DEF Init
<1>1. TypeOK
  <2>1. msg \in [Events -> Messages]
    BY IdleType
  <2>2. row \in Table
    BY DEF NoView, Table, Statuses
  <2>3. job \in [Workers -> Jobs]
    BY IdleType
  <2>4. event \in [Events -> [attempt : 0..MaxAttempts, handlers : SUBSET Handlers,
                              of : Runs \cup {<<0, NoRun>>}]]
    <3>1. [attempt |-> 0, handlers |-> Handlers, of |-> <<0, NoRun>>]
             \in [attempt : 0..MaxAttempts, handlers : SUBSET Handlers, of : Runs \cup {<<0, NoRun>>}]
      OBVIOUS
    <3>. QED BY <3>1
  <2>5. /\ redis \in BOOLEAN /\ deployed \subseteq Handlers /\ events \in Events
        /\ owner \in [Events -> Workers \cup {NoWorker}]
        /\ sched \in Runs \cup {<<0, NoRun>>} /\ faults \in 0..MaxFaults
    BY DEF Events
  <2>. QED BY <2>1, <2>2, <2>3, <2>4, <2>5 DEF TypeOK, Table, Jobs, Statuses
<1>2. CountsLeft
  BY DEF CountsLeft, Queued, NoMsg, At, Events
<1>3. \A w \in Workers : job[w] = Idle /\ ~Busy(w) /\ Event(w) = 0
  BY DEF Idle, Busy, Event
<1>4. \A e \in Events, h \in Handlers : row[e][h] = "none"
  BY DEF NoView
<1>5. JobShape /\ EndedShape /\ FenceHolds
  BY <1>3 DEF JobShape, EndedShape, FenceHolds, Busy, Idle
<1>6. FirstDelivery
  <2>1. \A e \in Events : msg[e].at # "taken" /\ Blank(e)
    BY <1>4 DEF Queued, NoMsg, Blank
  <2>. QED BY <1>3, <2>1, NoRunFacts DEF FirstDelivery, At
<1>7. Booked
  BY <1>4 DEF Booked, RetryAllowed, SchedShape, Retried, RetriesDiffer, NoSched
<1>8. OpenAccounted
  BY <1>4 DEF OpenAccounted, Open
<1>. QED BY <1>1, <1>2, <1>5, <1>6, <1>7, <1>8 DEF IInv

LEMMA StutterInv ==
  ASSUME IInv, UNCHANGED vars
  PROVE  IInv' /\ RowsAdvance
<1>1. /\ TypeOK
      /\ UNCHANGED <<redis, deployed, events, event, msg, owner, row, job, late, sched, faults,
                     interrupted, unmarked, lost>>
  BY DEF IInv, vars
<1>2. row' \in Table /\ RowsAdvance /\ \A f \in Events : Closes(f)
  BY <1>1, SameRows
<1>3. TypeOK'
  BY <1>1 DEF TypeOK
<1>4. QuietStep
  BY <1>1, <1>2 DEF QuietStep
<1>5. Booked'
  BY <1>1, <1>2, RowsBook DEF IInv
<1>. QED BY <1>2, <1>3, <1>4, <1>5, QuietInv

LEMMA NextInv == IInv /\ [Next]_vars => IInv' /\ RowsAdvance
<1> SUFFICES ASSUME IInv, [Next]_vars PROVE IInv' /\ RowsAdvance
  OBVIOUS
<1>1. ASSUME NEW w \in Workers, Handle(w) PROVE IInv' /\ RowsAdvance
  BY <1>1, UnhandledInv, ReadInv, AckFinishedInv, AdmitInv, StopNewRunsInv, FinishInv,
     SetupFailsInv, StartInv, RunEndsInv DEF Handle
<1>2. ASSUME NEW w \in Workers, Disturb(w) PROVE IInv' /\ RowsAdvance
  <2>1. job[w].claim \in {"held", "unconfirmed", "lost"}
    BY Types DEF IInv, Jobs
  <2>2. ASSUME NEW out \in Outcomes, RunStopped(w, job[w].claim, out) \/ RunStopped(w, "unconfirmed", out)
        PROVE  IInv' /\ RowsAdvance
    <3>1. PICK c \in {"held", "unconfirmed", "lost"} :
            RunStopped(w, c, out) /\ (c = "held" => job[w].claim = "held")
      BY <2>1, <2>2
    <3>. QED BY <3>1, RunStoppedInv
  <2>. QED BY <1>2, <2>2, InfrastructureInv, ClaimNewsInv, ClaimLapsesInv, CrashInv, FailActiveInv,
              SetupDefersInv, SetupTimesOutInv DEF Disturb
<1>3. CASE Scheduler
  BY <1>3, QueueRetryInv, ReaperInv, MarkQueuedInv, MarkFailsInv DEF Scheduler
<1>4. CASE UNCHANGED vars
  BY <1>4, StutterInv
<1>. QED BY <1>1, <1>2, <1>3, <1>4, ClaimInv, RecoverInv, ReaperInv, LateWriteInv, RedeployInv DEF Next

\* No statement of the workers, the writers, the recovery, the reaper or the
\* scheduler breaks the inductive invariant.
THEOREM Invariance == Spec => []IInv
<1>1. IInv /\ [Next]_vars => IInv'
  BY NextInv
<1>. QED BY <1>1, InitInv, PTL DEF Spec

\* The rows, messages, deliveries and retries keep their types: no event has more
\* than MAX_PROCESSING_RETRIES deliveries counted, no retry more than max_retries.
THEOREM TypeCorrect == Spec => []TypeOK
<1>1. IInv => TypeOK
  BY DEF IInv
<1>. QED BY <1>1, Invariance, PTL

\* A run that ended keeps its end, whatever redelivery, late result, takeover or
\* reaper writes next.
THEOREM EndsAreFinal == Spec => EndIsFinal
<1> DEFINE Final == \A e \in Events, h \in Handlers :
                      /\ row[e][h] \in Outcomes => row'[e][h] = row[e][h]
                      /\ row[e][h] = "retry" => row'[e][h] \in {"retry", "failed"}
<1>1. RowsAdvance => Final
  BY DEF RowsAdvance, Advance, Open, Outcomes
<1>2. IInv /\ [Next]_vars => [Final]_vars
  BY <1>1, NextInv
<1>. QED BY <1>2, Invariance, PTL DEF Spec, EndIsFinal

\* The scheduler queues one retry of a failed run, unless it could not mark it.
THEOREM RetriedOnce == Spec => []OneRetryPerRun
<1>1. IInv => OneRetryPerRun
  <2> SUFFICES ASSUME IInv, NEW r \in Runs \ unmarked
               PROVE  Cardinality(RetriesOf(r)) <= 1
    BY DEF OneRetryPerRun
  <2>1. \A d, e \in RetriesOf(r) : d = e
    BY DEF RetriesOf, IInv, Booked, RetriesDiffer
  <2>2. CASE RetriesOf(r) = {}
    BY <2>2, FS_EmptySet
  <2>3. CASE RetriesOf(r) # {}
    <3>1. PICK d : d \in RetriesOf(r)
      BY <2>3
    <3>2. RetriesOf(r) = {d}
      BY <2>1, <3>1
    <3>3. Cardinality({d}) = 1
      BY FS_Singleton
    <3>. QED BY <3>2, <3>3
  <2>. QED BY <2>2, <2>3
<1>. QED BY <1>1, Invariance, PTL

\* No delivery executes a run that had ended when it was claimed.
THEOREM NotRepeated == Spec => []FinishedNotRepeated
<1>1. IInv => FinishedNotRepeated
  <2> SUFFICES ASSUME IInv, NEW w \in Workers PROVE job[w].run \notin job[w].ended
    BY DEF FinishedNotRepeated
  <2>1. job[w].ended \subseteq Handlers
    BY Types DEF IInv, Jobs
  <2>2. CASE job[w].phase = "running"
    BY <2>2 DEF IInv, JobShape, EndedShape, Busy
  <2>3. CASE job[w].phase # "running"
    BY <2>1, <2>3, NoRunFacts DEF IInv, JobShape
  <2>. QED BY <2>2, <2>3
<1>. QED BY <1>1, Invariance, PTL

\* A settled event that nobody works on has no open run but those the history
\* accounts for, with any number of workers, handlers, faults and deliveries.
THEOREM NoRunLeftOpen == Spec => []SettledRunsEnded
<1>1. IInv => SettledRunsEnded
  <2> SUFFICES ASSUME IInv, NEW e \in Events, NEW h \in Handlers,
                      At(e) \in Settled, row[e][h] \in Open,
                      \A w \in Workers : Event(w) # e, \A l \in late : l.run # <<e, h>>
               PROVE  <<e, h>> \in lost
    BY DEF SettledRunsEnded
  <2>1. Accounted(e, h)
    BY DEF IInv, OpenAccounted
  <2>. QED BY <2>1 DEF Accounted, Carried, Awaited, Pending, Settled
<1>. QED BY <1>1, Invariance, PTL
============================================================================
