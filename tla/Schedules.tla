----------------------------- MODULE Schedules -----------------------------
(***************************************************************************)
(* Recurring crawls: the PUT that creates or changes a website's schedule, *)
(* the cron tick that turns due schedules into runs (several workers may   *)
(* each fire one in the same minute), the manual trigger beside it and the *)
(* deletion of a website. A minute is the unit of time; an instant of the  *)
(* code is kept relative to the present, so what was due two minutes ago   *)
(* is -2, and Minute moves every instant.                                  *)
(***************************************************************************)
EXTENDS Integers, FiniteSets

CONSTANTS
  Sites,        \* website ids; a schedule's id is its website's
  Workers,      \* worker processes: each fires the cron tick once a minute
  Puts,         \* concurrent PUT requests
  Intervals,    \* the interval presets
  MaxJitter,    \* next_run.MAX_JITTER_FRACTION of each interval
  Null,
  BatchLimit,   \* DUE_BATCH_LIMIT
  MayMiss,      \* may a minute pass without a tick: no worker up, or its slots all crawling
  MaxPuts,      \* bound on the PUTs of a behaviour that ask for a change
  MaxTriggers,  \* bound on the manual triggers of a behaviour
  MaxFaults,    \* bound on the faults and deletions of a behaviour
  MaxLate,      \* next_run_at is kept exactly down to this lateness
  MaxAge        \* last_run_at is kept exactly up to this age

ASSUME PolicyAssumption ==
  /\ Null \notin Int /\ IsFiniteSet(Sites)
  /\ BatchLimit \in Nat \ {0} /\ MayMiss \in BOOLEAN
  /\ Intervals \subseteq Nat
  /\ MaxJitter \in [Intervals -> Nat] /\ \A i \in Intervals : MaxJitter[i] < i
  /\ {MaxPuts, MaxTriggers, MaxFaults} \subseteq Nat
  /\ {MaxLate, MaxAge} \subseteq Nat \ {0}

VARIABLES
  schedules,  \* website -> [st, active, interval, next, last]
  inflight,   \* website -> triggers of its pending and processing runs, with counts
  ticks,      \* worker -> [pc, due, blocked, lag, created]
  fired,      \* the workers whose cron has fired in this minute
  puts,       \* PUT requests: [pc, site, active, interval, next, lag]
  triggers,   \* websites whose manual trigger has passed its checks
  disturbed,  \* websites whose schedule was changed, or raced by a PUT, since it ran
  used        \* changing PUTs, triggers and faults so far

vars == <<schedules, inflight, ticks, fired, puts, triggers, disturbed, used>>

NoSchedule == [st |-> "none", active |-> FALSE, interval |-> 0, next |-> Null, last |-> Null]
IdleTick == [pc |-> "idle", due |-> {}, blocked |-> {}, lag |-> 0, created |-> {}]
IdlePut == [pc |-> "idle", site |-> Null, active |-> FALSE, interval |-> 0,
            next |-> Null, lag |-> 0]

Init ==
  /\ schedules = [s \in Sites |-> NoSchedule]
  /\ inflight = [s \in Sites |-> [manual |-> 0, scheduled |-> 0]]
  /\ ticks = [t \in Workers |-> IdleTick]
  /\ fired = {}
  /\ puts = [p \in Puts |-> IdlePut]
  /\ triggers = {}
  /\ disturbed = {}
  /\ used = [puts |-> 0, triggers |-> 0, faults |-> 0]

Fault == used.faults < MaxFaults /\ used' = [used EXCEPT !.faults = @ + 1]

Busy(s) == inflight[s].manual + inflight[s].scheduled > 0

\* Mutant: the query takes no locks.
no_locks == {}

\* The rows a tick's transaction holds FOR UPDATE.
Locked == UNION {ticks[t].due : t \in Workers}

-----------------------------------------------------------------------------
(* PUT /websites/{id}/schedule                                              *)

\* Mutants: every PUT counts the interval from now; a changed interval is not seen.
keep_next_run_at(current, active, interval) ==
  IF ~ active THEN Null
  ELSE IF current.active /\ current.next # Null THEN current.next ELSE interval
recompute_next_run_at(current, active, interval) == IF active THEN interval ELSE Null

\* A PUT that changes nothing keeps the instant it has read.
compute_next_run_at(current, active, interval) ==
  IF ~ active THEN Null
  ELSE IF /\ current.active /\ current.interval = interval
          /\ current.next # Null
  THEN current.next
  ELSE interval

\* The current schedule is read, and the next instant computed from it.
ReadSchedule(p, s, active, interval) ==
  /\ puts[p].pc = "idle" /\ schedules[s].st # "deleted"
  /\ IF schedules[s].active = active /\ schedules[s].interval = interval
     THEN UNCHANGED used
     ELSE used.puts < MaxPuts /\ used' = [used EXCEPT !.puts = @ + 1]
  /\ puts' = [puts EXCEPT ![p] =
       [pc |-> "upserting", site |-> s, active |-> active, interval |-> interval,
        next |-> compute_next_run_at(schedules[s], active, interval), lag |-> 0]]
  /\ UNCHANGED <<schedules, inflight, ticks, fired, triggers, disturbed>>

\* INSERT ... ON CONFLICT DO UPDATE: waits for a tick's lock, leaves
\* last_run_at alone, and finds nothing to refer to once the website is gone.
upsert(p) ==
  /\ puts[p].pc = "upserting"
  /\ LET s == puts[p].site
         row == [schedules[s] EXCEPT !.st = "set", !.active = puts[p].active,
                                     !.interval = puts[p].interval, !.next = puts[p].next] IN
       /\ s \notin Locked
       /\ IF schedules[s].st = "deleted" \/ row = schedules[s]
          THEN UNCHANGED <<schedules, disturbed>>
          ELSE /\ schedules' = [schedules EXCEPT ![s] = row]
               /\ disturbed' = disturbed \cup {s}
  /\ puts' = [puts EXCEPT ![p] = IdlePut]
  /\ UNCHANGED <<inflight, ticks, fired, triggers, used>>

\* The request is cancelled, or the database fails it.
PutFails(p) ==
  /\ puts[p].pc = "upserting" /\ Fault
  /\ puts' = [puts EXCEPT ![p] = IdlePut]
  /\ UNCHANGED <<schedules, inflight, ticks, fired, triggers, disturbed>>

-----------------------------------------------------------------------------
(* run_due_schedules. `lag` is the time since the tick took its `now`.      *)

Tick(t, tick) == ticks' = [ticks EXCEPT ![t] = tick]

StartTick(t) ==
  /\ ticks[t].pc = "idle" /\ t \notin fired
  /\ fired' = fired \cup {t}
  /\ Tick(t, [IdleTick EXCEPT !.pc = "starting"])
  /\ UNCHANGED <<schedules, inflight, puts, triggers, disturbed, used>>

\* WHERE active AND next_run_at <= now, less the rows that are skipped
Due(now, held) ==
  {s \in Sites \ held : schedules[s].active /\ schedules[s].next <= now}

\* LIMIT
Batches(due) ==
  {S \in SUBSET due : IF Cardinality(due) <= BatchLimit THEN S = due
                      ELSE Cardinality(S) = BatchLimit}

\* Mutant: the most recently due come first.
lock_due_newest(now, held) ==
  LET due == Due(now, held) IN
    {S \in Batches(due) : \A s \in S, q \in due \ S : schedules[s].next >= schedules[q].next}

\* ORDER BY next_run_at ... SKIP LOCKED LIMIT
lock_due(now, held) ==
  LET due == Due(now, held) IN
    {S \in Batches(due) : \A s \in S, q \in due \ S : schedules[s].next <= schedules[q].next}

LockWithout(t, held) ==
  /\ ticks[t].pc = "starting"
  /\ \E S \in lock_due(- ticks[t].lag, held) :
       Tick(t, [ticks[t] EXCEPT !.pc = "locked", !.due = S])
  /\ UNCHANGED <<schedules, inflight, fired, puts, triggers, disturbed>>

LockDue(t) == LockWithout(t, Locked) /\ UNCHANGED used

\* A PUT that holds its row at this very moment makes the tick skip it.
LockDueBesidePut(t, p) ==
  puts[p].pc = "upserting" /\ LockWithout(t, Locked \cup {puts[p].site}) /\ Fault

\* Mutant: the probe for active runs is left out.
none_active(S) == {}

website_ids_with_active_runs(S) == {s \in S : Busy(s)}

Probe(t) ==
  /\ ticks[t].pc = "locked"
  /\ Tick(t, [ticks[t] EXCEPT !.pc = "advancing",
                              !.blocked = website_ids_with_active_runs(ticks[t].due)])
  /\ UNCHANGED <<schedules, inflight, fired, puts, triggers, disturbed, used>>

\* Mutant: the next instant is counted from the one that was due.
advance_from_due(row, now, offset) == [row EXCEPT !.next = @ + row.interval + offset]

advance_next_run_at(row, now, offset) == [row EXCEPT !.next = now + row.interval + offset]

Offsets(s) == - MaxJitter[schedules[s].interval] .. MaxJitter[schedules[s].interval]

\* Every locked schedule advances, the blocked ones without a run; one commit.
AdvanceDue(t) ==
  /\ ticks[t].pc = "advancing"
  /\ LET due == ticks[t].due
         ran == due \ ticks[t].blocked
         now == - ticks[t].lag IN
       /\ \E offset \in [due -> UNION {Offsets(s) : s \in due}] :
            /\ \A s \in due : offset[s] \in Offsets(s)
            /\ schedules' = [s \in Sites |->
                 IF s \notin due THEN schedules[s]
                 ELSE LET row == advance_next_run_at(schedules[s], now, offset[s]) IN
                        IF s \in ran THEN [row EXCEPT !.last = - now] ELSE row]
       /\ inflight' = [s \in Sites |->
            IF s \in ran THEN [inflight[s] EXCEPT !.scheduled = @ + 1] ELSE inflight[s]]
       /\ Tick(t, [ticks[t] EXCEPT !.pc = "enqueuing", !.due = {}, !.blocked = {},
                                   !.created = ran])
       /\ disturbed' = disturbed \ ran
  /\ UNCHANGED <<fired, puts, triggers, used>>

\* An error, a timeout or a deploy inside the transaction: it rolls back.
TickFails(t) ==
  /\ ticks[t].pc \in {"starting", "locked", "advancing"} /\ Fault
  /\ Tick(t, IdleTick)
  /\ UNCHANGED <<schedules, inflight, fired, puts, triggers, disturbed>>

EnqueueRun(t, s) ==
  /\ ticks[t].pc = "enqueuing" /\ s \in ticks[t].created
  /\ Tick(t, [ticks[t] EXCEPT !.created = @ \ {s}])
  /\ UNCHANGED <<schedules, inflight, fired, puts, triggers, disturbed, used>>

\* enqueue_job raises: the run is abandoned, and the loop goes on.
EnqueueFails(t, s) ==
  /\ ticks[t].pc = "enqueuing" /\ s \in ticks[t].created /\ Fault
  /\ Tick(t, [ticks[t] EXCEPT !.created = @ \ {s}])
  /\ inflight' = [inflight EXCEPT ![s].scheduled = IF @ = 0 THEN 0 ELSE @ - 1]
  /\ UNCHANGED <<schedules, fired, puts, triggers, disturbed>>

\* Cancelled or killed among the enqueues: what was created stays pending.
TickCancelled(t) ==
  /\ ticks[t].pc = "enqueuing" /\ ticks[t].created # {} /\ Fault
  /\ Tick(t, IdleTick)
  /\ UNCHANGED <<schedules, inflight, fired, puts, triggers, disturbed>>

EndTick(t) ==
  /\ ticks[t].pc = "enqueuing" /\ ticks[t].created = {}
  /\ Tick(t, IdleTick)
  /\ UNCHANGED <<schedules, inflight, fired, puts, triggers, disturbed, used>>

-----------------------------------------------------------------------------
(* The manual trigger, the end of a run, and the deletion of a website.     *)

CheckTrigger(s) ==
  /\ s \notin triggers /\ schedules[s].st # "deleted" /\ ~ Busy(s)
  /\ used.triggers < MaxTriggers /\ used' = [used EXCEPT !.triggers = @ + 1]
  /\ triggers' = triggers \cup {s}
  /\ UNCHANGED <<schedules, inflight, ticks, fired, puts, disturbed>>

\* The insert comes after the check; it fails if the website has gone.
trigger_run(s) ==
  /\ s \in triggers
  /\ triggers' = triggers \ {s}
  /\ inflight' = IF schedules[s].st = "deleted" THEN inflight
                 ELSE [inflight EXCEPT ![s].manual = @ + 1]
  /\ UNCHANGED <<schedules, ticks, fired, puts, disturbed, used>>

\* A run with a job completes, fails or is given up (RunLifecycle).
RunEnds(s) ==
  /\ \E trigger \in {"manual", "scheduled"} :
       /\ inflight[s][trigger] > 0
       /\ trigger = "scheduled" => \A t \in Workers : s \notin ticks[t].created
       /\ inflight' = [inflight EXCEPT ![s][trigger] = @ - 1]
  /\ UNCHANGED <<schedules, ticks, fired, puts, triggers, disturbed, used>>

\* The cascade waits for a tick's lock on the schedule; should that tick wait
\* for the website in turn, the database fails one of the two (TickFails).
delete_website(s) ==
  /\ schedules[s].st # "deleted" /\ s \notin Locked /\ Fault
  /\ schedules' = [schedules EXCEPT ![s] = [NoSchedule EXCEPT !.st = "deleted"]]
  /\ inflight' = [inflight EXCEPT ![s] = [manual |-> 0, scheduled |-> 0]]
  /\ UNCHANGED <<ticks, fired, puts, triggers, disturbed>>

-----------------------------------------------------------------------------
(* Time.                                                                    *)

Earlier(row) ==
  [row EXCEPT !.next = IF @ \in {Null, - MaxLate} THEN @ ELSE @ - 1]

Older(row) ==
  [row EXCEPT !.last = IF @ \in {Null, MaxAge} THEN @ ELSE @ + 1]

\* Mutant: a tick has no timeout of its own.
at_any_time == TRUE

\* A tick is cancelled before it has seen two minutes begin.
TicksInTime == \A t \in Workers : ticks[t].lag = 0

\* So is a PUT answered; cron fires at every minute.
Minute ==
  /\ TicksInTime
  /\ \A p \in Puts : puts[p].lag = 0
  /\ MayMiss \/ fired # {}
  /\ fired' = {}
  /\ schedules' = [s \in Sites |-> Older(Earlier(schedules[s]))]
  /\ puts' = [p \in Puts |->
       IF puts[p].pc = "idle" THEN puts[p] ELSE [Earlier(puts[p]) EXCEPT !.lag = @ + 1]]
  /\ ticks' = [t \in Workers |->
       IF ticks[t].pc = "idle" THEN ticks[t] ELSE [ticks[t] EXCEPT !.lag = @ + 1]]
  /\ UNCHANGED <<inflight, triggers, disturbed, used>>

TickStep(t) ==
  \/ LockDue(t) \/ Probe(t) \/ AdvanceDue(t) \/ EndTick(t)
  \/ \E s \in Sites : EnqueueRun(t, s)

Next ==
  \/ \E p \in Puts, s \in Sites, active \in BOOLEAN, i \in Intervals :
       ReadSchedule(p, s, active, i)
  \/ \E p \in Puts : upsert(p) \/ PutFails(p)
  \/ \E t \in Workers :
       \/ StartTick(t) \/ TickStep(t) \/ TickFails(t) \/ TickCancelled(t)
       \/ \E s \in Sites : EnqueueFails(t, s)
       \/ \E p \in Puts : LockDueBesidePut(t, p)
  \/ \E s \in Sites :
       CheckTrigger(s) \/ trigger_run(s) \/ RunEnds(s) \/ delete_website(s)
  \/ Minute

Spec == Init /\ [][Next]_vars

\* arq polls and fires its cron without end, a request is served, and a run
\* comes to an end (RunLifecycle's EveryRunEnds).
Fairness ==
  /\ \A t \in Workers : WF_vars(StartTick(t)) /\ WF_vars(TickStep(t))
  /\ \A p \in Puts : WF_vars(upsert(p))
  /\ \A s \in Sites : WF_vars(RunEnds(s))
  /\ WF_vars(Minute)

FairSpec == Spec /\ Fairness

\* Every website has got its schedule within the last interval; no PUT follows.
SetUp ==
  \E age \in [Sites -> 0 .. 1], i \in Intervals :
    /\ schedules = [s \in Sites |-> [st |-> "set", active |-> TRUE, interval |-> i,
                                     next |-> i - age[s], last |-> Null]]
    /\ inflight = [s \in Sites |-> [manual |-> 0, scheduled |-> 0]]
    /\ ticks = [t \in Workers |-> IdleTick]
    /\ fired = {}
    /\ puts = [p \in Puts |-> IdlePut]
    /\ triggers = {}
    /\ disturbed = Sites
    /\ used = [puts |-> Cardinality(Sites), triggers |-> 0, faults |-> 0]

SetUpSpec == SetUp /\ [][Next]_vars

-----------------------------------------------------------------------------
(* Properties.                                                              *)

Instants == {n \in Int : n >= - MaxLate}
Rows == [st : {"none", "set", "deleted"}, active : BOOLEAN, interval : {0} \cup Intervals,
         next : Instants \cup {Null}, last : 0 .. MaxAge \cup {Null}]
Requests == [pc : {"idle", "upserting"}, site : Sites \cup {Null}, active : BOOLEAN,
             interval : {0} \cup Intervals, next : Instants \cup {Null}, lag : {0, 1}]
Tickings == [pc : {"idle", "starting", "locked", "advancing", "enqueuing"},
             due : SUBSET Sites, blocked : SUBSET Sites, lag : {0, 1},
             created : SUBSET Sites]

\* Every variable keeps its type; no tick and no PUT outlives its timeout.
TypeOK ==
  /\ schedules \in [Sites -> Rows]
  /\ inflight \in [Sites -> [manual : Nat, scheduled : Nat]]
  /\ ticks \in [Workers -> Tickings]
  /\ fired \in SUBSET Workers
  /\ puts \in [Puts -> Requests]
  /\ triggers \in SUBSET Sites /\ disturbed \in SUBSET Sites
  /\ used \in [puts : Nat, triggers : Nat, faults : Nat]

\* However ticks and PUTs interleave, an active schedule has an instant at which
\* it is due, so that the tick's query can find it again, and a paused one has
\* none. PUT and tick write next_run_at in two different transactions.
ActiveHasInstant ==
  \A s \in Sites : schedules[s].active <=> schedules[s].next # Null

\* Two ticks in the same minute, of which neither trusts arq's unique=True, never
\* give a website two scheduled runs at once. (A manual run may join a scheduled
\* one: trigger_run's check and insert are not atomic, and say so.)
OneScheduledRun == \A s \in Sites : inflight[s].scheduled <= 1

\* After downtime a schedule runs once, not once for each missed interval: the
\* next run is at least an interval less its jitter after the last one, unless
\* a PUT changed the schedule or raced the tick since (the race upsert_schedule
\* accepts).
NoCatchUpBurst ==
  \A s \in Sites : LET row == schedules[s] IN
    row.active /\ row.last # Null /\ s \notin disturbed =>
      row.next + row.last >= row.interval - MaxJitter[row.interval]

\* Whatever PUTs and ticks overlap, the interval a schedule shows is the one it
\* waits for: no instant is further away than the interval and its jitter.
NeverPostponed ==
  \A s \in Sites : LET row == schedules[s] IN
    row.active => row.next <= row.interval + MaxJitter[row.interval]

\* Oldest first: with more schedules due than a tick may take, and even with more
\* than the ticks can ever serve, none is overdue longer than the batches before
\* it need, the minute of its own batch and the one that a tick may be late, as
\* long as a tick runs every minute and none fails.
OverdueServed ==
  \A s \in Sites : schedules[s].active /\ used.faults = 0 /\ ~ MayMiss =>
    - schedules[s].next * BatchLimit < Cardinality(Sites) + 2 * BatchLimit

\* A schedule that stays active keeps producing runs, although its settings page
\* may send the same PUT at every load.
KeepsRunning ==
  \A s \in Sites :
    <>[](schedules[s].active) =>
      []<><<inflight'[s].scheduled > inflight[s].scheduled>>_vars
=============================================================================
