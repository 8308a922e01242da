-------------------------- MODULE SchedulesProofs --------------------------
(***************************************************************************)
(* What Schedules' TLC runs check on small instances, proved for every     *)
(* number of websites, workers and requests and every set of intervals.    *)
(***************************************************************************)
EXTENDS Schedules, FiniteSetTheorems, TLAPS

\* A row's, or a request's, instant belongs to its interval.
Planned(x) ==
  /\ x.active => /\ x.interval \in Intervals /\ x.next \in Instants
                 /\ x.next <= x.interval + MaxJitter[x.interval]
  /\ ~ x.active => x.next = Null

PlansInv ==
  /\ \A s \in Sites : Planned(schedules[s])
  /\ \A p \in Puts : puts[p].pc = "upserting" =>
       puts[p].site \in Sites /\ puts[p].interval \in Intervals /\ Planned(puts[p])

\* What a tick's locks keep: its rows are its own, active and still due, and
\* those its probe found free have no scheduled run.
LockInv(t) ==
  /\ ticks[t].pc \notin {"locked", "advancing"} => ticks[t].due = {}
  /\ ticks[t].pc = "idle" => ticks[t].lag = 0
  /\ \A u \in Workers \ {t} : ticks[t].due \cap ticks[u].due = {}
  /\ \A s \in ticks[t].due : schedules[s].active /\ schedules[s].next <= - ticks[t].lag
  /\ ticks[t].pc = "advancing" =>
       \A s \in ticks[t].due \ ticks[t].blocked : inflight[s].scheduled = 0

LocksInv == \A t \in Workers : LockInv(t)

IInv == TypeOK /\ PlansInv /\ LocksInv /\ OneScheduledRun

-----------------------------------------------------------------------------
(* The arithmetic of next_run.py.                                           *)

\* An interval outlasts its jitter; an instant is an integer, Null is none.
LEMMA Numbers ==
  /\ \A i \in Intervals : i \in Nat /\ MaxJitter[i] \in Nat /\ MaxJitter[i] < i
  /\ MaxLate \in Nat /\ MaxLate > 0 /\ MaxAge \in Nat /\ MaxAge > 0
  /\ Null \notin Int
BY PolicyAssumption

\* The rows of decision table 1 to 6: a PUT's instant fits the interval it asks for.
LEMMA ComputeFits ==
  ASSUME NEW row \in Rows, Planned(row), NEW active \in BOOLEAN, NEW i \in Intervals
  PROVE  /\ compute_next_run_at(row, active, i) \in Instants \cup {Null}
         /\ active => /\ compute_next_run_at(row, active, i) \in Instants
                      /\ compute_next_run_at(row, active, i) <= i + MaxJitter[i]
         /\ ~ active => compute_next_run_at(row, active, i) = Null
BY Numbers DEF compute_next_run_at, Planned, Instants, Rows

\* A tick's instant is in the future of its `now` by the interval and its jitter.
LEMMA AdvanceFits ==
  ASSUME NEW row \in Rows, Planned(row), row.active, NEW lag \in {0, 1},
         NEW offset \in - MaxJitter[row.interval] .. MaxJitter[row.interval]
  PROVE  LET new == advance_next_run_at(row, - lag, offset) IN
           /\ new \in Rows /\ Planned(new) /\ new.active /\ new.interval = row.interval
           /\ new.last = row.last
           /\ new.next >= row.interval - MaxJitter[row.interval] - lag
           /\ new.next = - lag + row.interval + offset
BY Numbers DEF advance_next_run_at, Planned, Instants, Rows

\* Time leaves a row its plan.
LEMMA TimeFits ==
  ASSUME NEW row \in Rows, Planned(row)
  PROVE  LET new == Older(Earlier(row)) IN
           /\ new \in Rows /\ Planned(new)
           /\ new.active = row.active /\ new.interval = row.interval
           /\ row.active => new.next <= row.next
           /\ row.active /\ row.next <= 0 => new.next <= -1
<1> DEFINE next == IF row.next \in {Null, - MaxLate} THEN row.next ELSE row.next - 1
           last == IF row.last \in {Null, MaxAge} THEN row.last ELSE row.last + 1
<1>1. Older(Earlier(row)) = [row EXCEPT !.next = next, !.last = last]
  BY DEF Older, Earlier, Rows
<1>2. next \in Instants \cup {Null}
  BY Numbers DEF Instants, Rows
<1>3. last \in 0 .. MaxAge \cup {Null}
  BY Numbers DEF Rows
<1>4. row.active => next <= row.next /\ next \in Instants /\ (row.next <= 0 => next <= -1)
  BY Numbers DEF Planned, Instants
<1>5. ~ row.active => next = Null
  BY DEF Planned
<1>6. row.active => row.next \in Int /\ row.interval + MaxJitter[row.interval] \in Int
  BY Numbers DEF Planned, Instants
<1> HIDE DEF next, last
<1>7. [row EXCEPT !.next = next, !.last = last] \in Rows
  BY <1>2, <1>3 DEF Rows
<1>8. row.active => next <= row.interval + MaxJitter[row.interval]
  BY <1>4, <1>6 DEF Planned, Instants
<1> QED
  BY <1>1, <1>4, <1>5, <1>7, <1>8 DEF Planned, Rows

\* It leaves a request the plan it is about to write.
LEMMA RequestTimeFits ==
  ASSUME NEW x \in Requests, Planned(x), x.lag = 0
  PROVE  LET new == [Earlier(x) EXCEPT !.lag = @ + 1] IN
           /\ new \in Requests /\ Planned(new)
           /\ new.pc = x.pc /\ new.site = x.site /\ new.interval = x.interval
<1> DEFINE next == IF x.next \in {Null, - MaxLate} THEN x.next ELSE x.next - 1
<1>0. Earlier(x) = [x EXCEPT !.next = next]
  BY DEF Earlier
<1>1. [Earlier(x) EXCEPT !.lag = @ + 1] = [x EXCEPT !.next = next, !.lag = 1]
  <2> HIDE DEF next
  <2>1. Earlier(x).lag = 0
    BY <1>0 DEF Requests
  <2>2. [Earlier(x) EXCEPT !.lag = @ + 1] = [Earlier(x) EXCEPT !.lag = 1]
    BY <2>1
  <2> QED
    BY <1>0, <2>2 DEF Requests
<1>2. next \in Instants \cup {Null}
  BY Numbers DEF Instants, Requests
<1>3. x.active => next <= x.next /\ next \in Instants
  BY Numbers DEF Planned, Instants
<1>4. ~ x.active => next = Null
  BY DEF Planned
<1>5. x.active => x.next \in Int /\ x.interval + MaxJitter[x.interval] \in Int
  BY Numbers DEF Planned, Instants
<1> HIDE DEF next
<1>6. x.active => next <= x.interval + MaxJitter[x.interval]
  BY <1>3, <1>5 DEF Planned, Instants
<1> QED
  BY <1>1, <1>2, <1>3, <1>4, <1>6 DEF Planned, Requests

-----------------------------------------------------------------------------
(* One lemma per step.                                                      *)

\* No schedule yet, no request, no tick.
LEMMA InitInv ==
  Init => IInv
<1> SUFFICES ASSUME Init PROVE IInv
  OBVIOUS
<1> USE DEF Init, NoSchedule, IdleTick, IdlePut
<1>1. TypeOK
  BY DEF TypeOK, Rows, Requests, Tickings
<1>2. PlansInv
  BY DEF PlansInv, Planned
<1>3. LocksInv
  BY DEF LocksInv, LockInv
<1>4. OneScheduledRun
  BY DEF OneScheduledRun
<1> QED
  BY <1>1, <1>2, <1>3, <1>4 DEF IInv

\* The instant a PUT computes fits the interval it will write beside it.
LEMMA ReadStep ==
  ASSUME IInv, NEW p \in Puts, NEW s \in Sites, NEW active \in BOOLEAN, NEW i \in Intervals,
         ReadSchedule(p, s, active, i)
  PROVE  IInv'
<1> USE DEF IInv
<1>1. schedules[s] \in Rows /\ Planned(schedules[s])
  BY DEF TypeOK, PlansInv
<1>2. TypeOK'
  BY <1>1, ComputeFits, SMTT(30) DEF TypeOK, ReadSchedule, Requests
<1>3. PlansInv'
  BY <1>1, ComputeFits DEF TypeOK, PlansInv, ReadSchedule, Planned, Requests
<1>4. LocksInv'
  BY DEF LocksInv, LockInv, ReadSchedule
<1> QED
  BY <1>2, <1>3, <1>4 DEF OneScheduledRun, ReadSchedule

\* An upsert waits for the locks, so no tick's row changes under it.
LEMMA UpsertStep ==
  ASSUME IInv, NEW p \in Puts, upsert(p)
  PROVE  IInv'
<1> USE DEF IInv
<1> DEFINE s == puts[p].site
           row == [schedules[s] EXCEPT !.st = "set", !.active = puts[p].active,
                                       !.interval = puts[p].interval, !.next = puts[p].next]
<1>1. s \in Sites /\ puts[p] \in Requests /\ Planned(puts[p]) /\ schedules[s] \in Rows
  BY DEF TypeOK, PlansInv, upsert
<1>2. row \in Rows /\ Planned(row)
  BY <1>1 DEF Rows, Requests, Planned
<1>3. schedules' \in {schedules, [schedules EXCEPT ![s] = row]} /\ disturbed' \in SUBSET Sites
  BY <1>1 DEF upsert, TypeOK
<1>4. IdlePut \in Requests /\ IdlePut.pc = "idle"
  BY DEF IdlePut, Requests
<1> HIDE DEF row
<1>5. TypeOK'
  BY <1>1, <1>2, <1>3, <1>4 DEF TypeOK, upsert
<1>6. PlansInv'
  BY <1>1, <1>2, <1>3, <1>4 DEF TypeOK, PlansInv, upsert
<1>7. \A t \in Workers : s \notin ticks[t].due
  BY DEF upsert, Locked
<1>8. LocksInv'
  BY <1>3, <1>7 DEF LocksInv, LockInv, upsert, TypeOK, Tickings
<1> QED
  BY <1>5, <1>6, <1>8 DEF OneScheduledRun, upsert

\* A request that fails has written nothing.
LEMMA PutFailsStep ==
  ASSUME IInv, NEW p \in Puts, PutFails(p)
  PROVE  IInv'
<1> USE DEF IInv, PutFails
<1>1. IdlePut \in Requests /\ IdlePut.pc = "idle"
  BY DEF IdlePut, Requests
<1>2. TypeOK'
  BY <1>1 DEF TypeOK, Fault
<1>3. PlansInv'
  BY <1>1 DEF TypeOK, PlansInv
<1>4. LocksInv' /\ OneScheduledRun'
  BY DEF LocksInv, LockInv, OneScheduledRun
<1> QED
  BY <1>2, <1>3, <1>4

\* A tick that holds no rows may change its pc freely: only its own state moves.
LEMMA UnlockedTick ==
  ASSUME IInv, NEW t \in Workers, NEW tick \in Tickings, Tick(t, tick), tick.due = {},
         tick.pc \notin {"locked", "advancing"}, tick.pc = "idle" => tick.lag = 0,
         UNCHANGED <<schedules, puts>>, fired' \in SUBSET Workers,
         triggers' \in SUBSET Sites, disturbed' \in SUBSET Sites,
         used' \in [puts : Nat, triggers : Nat, faults : Nat],
         inflight' \in [Sites -> [manual : Nat, scheduled : Nat]],
         \A s \in Sites : inflight'[s].scheduled <= inflight[s].scheduled
  PROVE  IInv'
<1> USE DEF IInv, Tick
<1>1. TypeOK'
  BY DEF TypeOK
<1>2. PlansInv'
  BY DEF PlansInv
<1>3. \A u \in Workers : ticks'[u] = IF u = t THEN tick ELSE ticks[u]
  BY DEF TypeOK
<1>4. ASSUME NEW u \in Workers PROVE LockInv(u)'
  <2>1. CASE u = t
    BY <2>1, <1>3 DEF LockInv
  <2>2. CASE u # t
    <3>1. ticks'[u] = ticks[u] /\ ticks[u] \in Tickings /\ LockInv(u)
      BY <2>2, <1>3 DEF LocksInv, TypeOK
    <3>2. \A v \in Workers \ {u} : ticks'[u].due \cap ticks'[v].due = {}
      BY <3>1, <1>3 DEF LockInv
    <3>3. \A s \in ticks[u].due : s \in Sites /\ (inflight[s].scheduled = 0 => inflight'[s].scheduled = 0)
      BY <3>1 DEF Tickings, TypeOK
    <3> QED
      BY <3>1, <3>2, <3>3 DEF LockInv
  <2> QED
    BY <2>1, <2>2
<1>5. OneScheduledRun'
  BY DEF OneScheduledRun, TypeOK
<1> QED
  BY <1>1, <1>2, <1>4, <1>5 DEF LocksInv

\* The steps of a tick outside its transaction, and those that end it.
LEMMA OutsideSteps ==
  ASSUME IInv, NEW t \in Workers,
         \/ StartTick(t) \/ TickFails(t) \/ TickCancelled(t) \/ EndTick(t)
         \/ \E s \in Sites : EnqueueRun(t, s) \/ EnqueueFails(t, s)
  PROVE  IInv'
<1>0. TypeOK /\ ticks[t] \in Tickings /\ LockInv(t)
  BY DEF IInv, TypeOK, LocksInv
<1>1. IdleTick \in Tickings /\ [IdleTick EXCEPT !.pc = "starting"] \in Tickings
  BY DEF IdleTick, Tickings
<1>2. CASE StartTick(t)
  BY <1>0, <1>1, <1>2, UnlockedTick DEF StartTick, IdleTick, TypeOK
<1>3. CASE TickFails(t) \/ TickCancelled(t) \/ EndTick(t)
  <2>1. Tick(t, IdleTick) /\ UNCHANGED <<schedules, inflight, fired, puts, triggers, disturbed>>
    BY <1>3 DEF TickFails, TickCancelled, EndTick
  <2>2. used' \in [puts : Nat, triggers : Nat, faults : Nat]
    BY <1>0, <1>3 DEF TickFails, TickCancelled, EndTick, TypeOK, Fault
  <2>3. IdleTick.due = {} /\ IdleTick.pc = "idle" /\ IdleTick.lag = 0
    BY DEF IdleTick
  <2> QED
    BY <1>0, <1>1, <2>1, <2>2, <2>3, UnlockedTick DEF TypeOK
<1>4. ASSUME NEW s \in Sites, EnqueueRun(t, s) \/ EnqueueFails(t, s) PROVE IInv'
  <2> DEFINE tick == [ticks[t] EXCEPT !.created = @ \ {s}]
  <2>1. tick \in Tickings /\ tick.pc = "enqueuing" /\ tick.due = {} /\ Tick(t, tick)
    BY <1>0, <1>4 DEF Tickings, LockInv, EnqueueRun, EnqueueFails
  <2>2. used' \in [puts : Nat, triggers : Nat, faults : Nat]
    BY <1>0, <1>4 DEF EnqueueRun, EnqueueFails, TypeOK, Fault
  <2>3. /\ inflight' \in [Sites -> [manual : Nat, scheduled : Nat]]
        /\ \A q \in Sites : inflight'[q].scheduled <= inflight[q].scheduled
    <3>1. CASE EnqueueRun(t, s)
      BY <1>0, <3>1 DEF EnqueueRun, TypeOK
    <3>2. CASE EnqueueFails(t, s)
      <4> DEFINE left == IF inflight[s].scheduled = 0 THEN 0 ELSE inflight[s].scheduled - 1
      <4>0. inflight[s].scheduled \in Nat
        BY <1>0 DEF TypeOK
      <4>1. left \in Nat /\ left <= inflight[s].scheduled
        BY <4>0
      <4>2. inflight' = [inflight EXCEPT ![s] = [inflight[s] EXCEPT !.scheduled = left]]
        BY <3>2 DEF EnqueueFails
      <4> HIDE DEF left
      <4> QED
        BY <1>0, <4>1, <4>2 DEF TypeOK
    <3> QED
      BY <1>4, <3>1, <3>2
  <2> HIDE DEF tick
  <2> QED
    BY <1>0, <1>4, <2>1, <2>2, <2>3, UnlockedTick DEF EnqueueRun, EnqueueFails, TypeOK
<1> QED
  BY <1>2, <1>3, <1>4

\* A tick locks rows no other tick holds, all of them active and due.
LEMMA LockStep ==
  ASSUME IInv, NEW t \in Workers,
         LockDue(t) \/ \E p \in Puts : LockDueBesidePut(t, p)
  PROVE  IInv'
<1> USE DEF IInv
<1>1. PICK held : LockWithout(t, held) /\ Locked \subseteq held
  BY DEF LockDue, LockDueBesidePut
<1>2. used' \in [puts : Nat, triggers : Nat, faults : Nat]
  <2>1. used' = used \/ Fault
    BY DEF LockDue, LockDueBesidePut
  <2> QED
    BY <2>1 DEF TypeOK, Fault
<1>3. PICK S \in lock_due(- ticks[t].lag, held) :
        Tick(t, [ticks[t] EXCEPT !.pc = "locked", !.due = S])
  BY <1>1 DEF LockWithout
<1>4. /\ S \subseteq Sites \ Locked
      /\ \A s \in S : schedules[s].active /\ schedules[s].next <= - ticks[t].lag
  BY <1>1, <1>3 DEF lock_due, Batches, Due
<1>5. ticks[t] \in Tickings
  BY DEF TypeOK
<1> DEFINE tick == [ticks[t] EXCEPT !.pc = "locked", !.due = S]
<1>6. tick \in Tickings /\ tick.due = S /\ tick.lag = ticks[t].lag /\ tick.pc = "locked"
  BY <1>4, <1>5 DEF Tickings
<1> HIDE DEF tick
<1>10. ticks' = [ticks EXCEPT ![t] = tick]
  BY <1>3 DEF Tick, tick
<1>11. \A u \in Workers : ticks'[u] = IF u = t THEN tick ELSE ticks[u]
  BY <1>10 DEF TypeOK
<1>7. UNCHANGED <<schedules, inflight, fired, puts, triggers, disturbed>>
  BY <1>1 DEF LockWithout
<1>8. TypeOK'
  BY <1>2, <1>6, <1>7, <1>10 DEF TypeOK
<1>9. ASSUME NEW u \in Workers PROVE LockInv(u)'
  <2>1. \A v \in Workers \ {t} : S \cap ticks[v].due = {}
    BY <1>4 DEF Locked
  <2>2. CASE u = t
    BY <1>4, <1>6, <1>7, <1>11, <2>1, <2>2 DEF LockInv
  <2>3. CASE u # t
    BY <1>6, <1>7, <1>11, <2>1, <2>3 DEF LocksInv, LockInv
  <2> QED
    BY <2>2, <2>3
<1> QED
  BY <1>7, <1>8, <1>9 DEF LocksInv, PlansInv, OneScheduledRun

\* The probe leaves in `due` less `blocked` only websites without a run.
LEMMA ProbeStep ==
  ASSUME IInv, NEW t \in Workers, Probe(t)
  PROVE  IInv'
<1> USE DEF IInv, Probe
<1>1. ticks[t] \in Tickings
  BY DEF TypeOK
<1> DEFINE blocked == website_ids_with_active_runs(ticks[t].due)
           tick == [ticks[t] EXCEPT !.pc = "advancing", !.blocked = blocked]
<1>2. tick \in Tickings /\ tick.due = ticks[t].due /\ tick.lag = ticks[t].lag
      /\ tick.pc = "advancing" /\ tick.blocked = blocked
  BY <1>1 DEF Tickings, website_ids_with_active_runs
<1>3. \A s \in ticks[t].due \ blocked : inflight[s].scheduled = 0
  <2>1. \A s \in ticks[t].due : inflight[s].manual \in Nat /\ inflight[s].scheduled \in Nat
    BY <1>1 DEF TypeOK, Tickings
  <2> QED
    BY <2>1 DEF website_ids_with_active_runs, Busy
<1> HIDE DEF blocked
<1>4. ticks' = [ticks EXCEPT ![t] = tick]
  BY DEF Tick, blocked
<1> HIDE DEF tick
<1>5. \A u \in Workers : ticks'[u] = IF u = t THEN tick ELSE ticks[u]
  BY <1>4 DEF TypeOK
<1>6. TypeOK'
  BY <1>2, <1>4 DEF TypeOK
<1>7. ASSUME NEW u \in Workers PROVE LockInv(u)'
  <2>1. CASE u = t
    BY <1>2, <1>3, <1>5, <2>1 DEF LocksInv, LockInv
  <2>2. CASE u # t
    BY <1>2, <1>5, <2>2 DEF LocksInv, LockInv
  <2> QED
    BY <2>1, <2>2
<1> QED
  BY <1>6, <1>7 DEF LocksInv, PlansInv, OneScheduledRun

\* What AdvanceDue makes of each row and each website's runs.
LEMMA AdvanceEffect ==
  ASSUME IInv, NEW t \in Workers, AdvanceDue(t), NEW s \in Sites
  PROVE  LET due == ticks[t].due
             ran == due \ ticks[t].blocked IN
           /\ s \notin due => schedules'[s] = schedules[s] /\ inflight'[s] = inflight[s]
           /\ s \in due =>
                /\ schedules'[s] \in Rows /\ Planned(schedules'[s])
                /\ schedules'[s].active /\ schedules'[s].interval = schedules[s].interval
                /\ schedules'[s].next >= schedules[s].interval
                     - MaxJitter[schedules[s].interval] - ticks[t].lag
                /\ schedules'[s].last = IF s \in ran THEN ticks[t].lag ELSE schedules[s].last
                /\ inflight'[s] = IF s \in ran THEN [inflight[s] EXCEPT !.scheduled = 1]
                                  ELSE inflight[s]
<1> DEFINE due == ticks[t].due
           ran == due \ ticks[t].blocked
           lag == ticks[t].lag
<1> USE DEF IInv
<1>1. ticks[t] \in Tickings /\ LockInv(t) /\ ticks[t].pc = "advancing"
  BY DEF TypeOK, LocksInv, AdvanceDue
<1>2. PICK offset :
        /\ \A q \in due : offset[q] \in Offsets(q)
        /\ schedules' = [q \in Sites |->
             IF q \notin due THEN schedules[q]
             ELSE LET row == advance_next_run_at(schedules[q], - lag, offset[q]) IN
                    IF q \in ran THEN [row EXCEPT !.last = - (- lag)] ELSE row]
  BY DEF AdvanceDue
<1>3. inflight' = [q \in Sites |->
        IF q \in ran THEN [inflight[q] EXCEPT !.scheduled = @ + 1] ELSE inflight[q]]
  BY DEF AdvanceDue
<1>4. CASE s \notin due
  BY <1>2, <1>3, <1>4
<1>5. CASE s \in due
  <2> DEFINE row == advance_next_run_at(schedules[s], - lag, offset[s])
  <2>1. schedules[s] \in Rows /\ Planned(schedules[s]) /\ schedules[s].active
        /\ lag \in {0, 1} /\ inflight[s] \in [manual : Nat, scheduled : Nat]
        /\ (s \in ran => inflight[s].scheduled = 0)
    BY <1>1, <1>5 DEF TypeOK, PlansInv, LockInv, Tickings
  <2>2. offset[s] \in - MaxJitter[schedules[s].interval] .. MaxJitter[schedules[s].interval]
    BY <1>2, <1>5 DEF Offsets
  <2>3. /\ row \in Rows /\ Planned(row) /\ row.active /\ row.interval = schedules[s].interval
        /\ row.last = schedules[s].last
        /\ row.next >= schedules[s].interval - MaxJitter[schedules[s].interval] - lag
    BY <2>1, <2>2, AdvanceFits
  <2>4. schedules'[s] = IF s \in ran THEN [row EXCEPT !.last = - (- lag)] ELSE row
    BY <1>2, <1>5
  <2>5. - (- lag) = lag /\ lag \in 0 .. MaxAge
    BY <2>1, Numbers
  <2>6. inflight'[s] = IF s \in ran THEN [inflight[s] EXCEPT !.scheduled = 1] ELSE inflight[s]
    BY <1>3, <2>1
  <2> HIDE DEF row, lag, ran
  <2>7. schedules'[s] = IF s \in ran THEN [row EXCEPT !.last = lag] ELSE row
    BY <2>4, <2>5
  <2>8. LET new == [row EXCEPT !.last = lag] IN
          /\ new \in Rows /\ Planned(new) /\ new.active /\ new.interval = row.interval
          /\ new.next = row.next /\ new.last = lag
    BY <2>3, <2>5 DEF Rows, Planned
  <2> QED
    BY <1>5, <2>3, <2>6, <2>7, <2>8 DEF ran, lag
<1> QED
  BY <1>4, <1>5

\* The commit: the tick's rows get their next instant, those that were free a run.
LEMMA AdvanceStep ==
  ASSUME IInv, NEW t \in Workers, AdvanceDue(t)
  PROVE  IInv'
<1> USE DEF IInv
<1> DEFINE due == ticks[t].due
           ran == due \ ticks[t].blocked
           tick == [ticks[t] EXCEPT !.pc = "enqueuing", !.due = {}, !.blocked = {}, !.created = ran]
<1>1. ticks[t] \in Tickings /\ due \subseteq Sites
  BY DEF TypeOK, Tickings
<1>2. ticks' = [ticks EXCEPT ![t] = tick]
      /\ UNCHANGED <<fired, puts, triggers, used>> /\ disturbed' \in SUBSET Sites
  BY DEF AdvanceDue, Tick, TypeOK
<1>3. tick \in Tickings /\ tick.due = {} /\ tick.pc = "enqueuing"
  BY <1>1 DEF Tickings
<1> HIDE DEF tick
<1>4. DOMAIN schedules' = Sites /\ schedules' = [s \in Sites |-> schedules'[s]]
      /\ inflight' = [s \in Sites |-> inflight'[s]]
  BY DEF AdvanceDue
<1>5. \A s \in Sites : /\ schedules'[s] \in Rows /\ Planned(schedules'[s])
                       /\ inflight'[s] \in [manual : Nat, scheduled : Nat]
                       /\ inflight'[s].scheduled <= 1
  <2> TAKE s \in Sites
  <2>1. inflight[s] \in [manual : Nat, scheduled : Nat] /\ inflight[s].scheduled <= 1
    BY DEF TypeOK, OneScheduledRun
  <2>2. CASE s \in due
    <3>1. schedules'[s] \in Rows /\ Planned(schedules'[s])
      BY <2>2, AdvanceEffect
    <3>2. inflight'[s] \in {inflight[s], [inflight[s] EXCEPT !.scheduled = 1]}
      BY <2>2, AdvanceEffect
    <3> QED
      BY <2>1, <3>1, <3>2
  <2>3. CASE s \notin due
    BY <2>1, <2>3, AdvanceEffect DEF TypeOK, PlansInv
  <2> QED
    BY <2>2, <2>3
<1>6. TypeOK'
  BY <1>2, <1>3, <1>4, <1>5 DEF TypeOK
<1>7. \A u \in Workers : ticks'[u] = IF u = t THEN tick ELSE ticks[u]
  BY <1>2 DEF TypeOK
<1>8. ASSUME NEW u \in Workers PROVE LockInv(u)'
  <2>1. CASE u = t
    BY <1>3, <1>7, <2>1 DEF LockInv
  <2>2. CASE u # t
    <3>1. ticks'[u] = ticks[u] /\ ticks[u].due \subseteq Sites \ due /\ LockInv(u)
      BY <1>7, <2>2 DEF LocksInv, LockInv, TypeOK, Tickings
    <3>2. \A s \in ticks[u].due : schedules'[s] = schedules[s] /\ inflight'[s] = inflight[s]
      BY <3>1, AdvanceEffect
    <3>3. \A v \in Workers \ {u} : ticks'[u].due \cap ticks'[v].due = {}
      BY <1>3, <1>7, <3>1 DEF LockInv
    <3> QED
      BY <3>1, <3>2, <3>3 DEF LockInv
  <2> QED
    BY <2>1, <2>2
<1> QED
  BY <1>2, <1>5, <1>6, <1>8 DEF LocksInv, PlansInv, OneScheduledRun

\* Triggers and ends of runs: no scheduled run appears.
LEMMA RunSteps ==
  ASSUME IInv, NEW s \in Sites, CheckTrigger(s) \/ trigger_run(s) \/ RunEnds(s)
  PROVE  IInv'
<1> USE DEF IInv
<1>1. UNCHANGED <<schedules, ticks, fired, puts, disturbed>>
      /\ triggers' \in SUBSET Sites /\ used' \in [puts : Nat, triggers : Nat, faults : Nat]
  BY DEF CheckTrigger, trigger_run, RunEnds, TypeOK
<1>2. /\ inflight' \in [Sites -> [manual : Nat, scheduled : Nat]]
      /\ \A q \in Sites : inflight'[q].scheduled <= inflight[q].scheduled
  <2>1. CASE CheckTrigger(s)
    BY <2>1 DEF CheckTrigger, TypeOK
  <2>2. CASE trigger_run(s)
    BY <2>2 DEF trigger_run, TypeOK
  <2>3. CASE RunEnds(s)
    <3>1. CASE inflight[s].manual > 0
               /\ inflight' = [inflight EXCEPT ![s].manual = @ - 1]
      BY <3>1 DEF TypeOK
    <3>2. CASE inflight[s].scheduled > 0
               /\ inflight' = [inflight EXCEPT ![s].scheduled = @ - 1]
      BY <3>2 DEF TypeOK
    <3> QED
      BY <2>3, <3>1, <3>2 DEF RunEnds
  <2> QED
    BY <2>1, <2>2, <2>3
<1>3. TypeOK'
  BY <1>1, <1>2 DEF TypeOK
<1>4. \A t \in Workers : \A q \in ticks[t].due : inflight[q].scheduled = 0 => inflight'[q].scheduled = 0
  BY <1>2 DEF TypeOK, Tickings
<1>5. LocksInv'
  BY <1>1, <1>4 DEF LocksInv, LockInv
<1>6. OneScheduledRun'
  BY <1>2 DEF OneScheduledRun, TypeOK
<1> QED
  BY <1>1, <1>3, <1>5, <1>6 DEF PlansInv

\* The deletion of a website waits for its schedule's lock, too.
LEMMA DeleteStep ==
  ASSUME IInv, NEW s \in Sites, delete_website(s)
  PROVE  IInv'
<1> USE DEF IInv, delete_website
<1> DEFINE row == [NoSchedule EXCEPT !.st = "deleted"]
<1>1. row \in Rows /\ Planned(row)
  BY DEF NoSchedule, Rows, Planned
<1> HIDE DEF row
<1>2. schedules' = [schedules EXCEPT ![s] = row]
  BY DEF row
<1>3. TypeOK'
  BY <1>1, <1>2, SMTT(30) DEF TypeOK, Fault
<1>4. PlansInv'
  BY <1>1, <1>2 DEF TypeOK, PlansInv
<1>5. \A t \in Workers : s \notin ticks[t].due
  BY DEF Locked
<1>6. \A t \in Workers : \A q \in ticks[t].due : schedules'[q] = schedules[q] /\ inflight'[q] = inflight[q]
  BY <1>2, <1>5 DEF TypeOK, Tickings
<1>7. ASSUME NEW t \in Workers PROVE LockInv(t)'
  <2>1. LockInv(t) /\ ticks' = ticks
    BY DEF LocksInv
  <2>2. \A q \in ticks[t].due : schedules'[q] = schedules[q] /\ inflight'[q] = inflight[q]
    BY <1>6
  <2> HIDE DEF IInv, delete_website
  <2> QED
    BY <2>1, <2>2 DEF LockInv
<1>8. OneScheduledRun'
  BY DEF OneScheduledRun, TypeOK
<1> QED
  BY <1>3, <1>4, <1>7, <1>8 DEF LocksInv

\* Time: instants come nearer, and a tick has seen at most one minute begin.
LEMMA MinuteStep ==
  ASSUME IInv, Minute
  PROVE  IInv'
<1> USE DEF IInv, Minute
<1>1. \A s \in Sites : /\ schedules'[s] \in Rows /\ Planned(schedules'[s])
                       /\ schedules[s].active /\ schedules[s].next <= 0 =>
                            schedules'[s].active /\ schedules'[s].next <= -1
  BY TimeFits DEF TypeOK, PlansInv
<1>2. \A p \in Puts : /\ puts'[p] \in Requests
                      /\ puts'[p].pc = "upserting" =>
                           puts'[p].site \in Sites /\ puts'[p].interval \in Intervals
                           /\ Planned(puts'[p])
  <2> TAKE p \in Puts
  <2>1. puts[p] \in Requests /\ puts[p].lag = 0
    BY DEF TypeOK
  <2>2. CASE puts[p].pc = "idle"
    BY <2>1, <2>2
  <2>3. CASE puts[p].pc = "upserting"
    <3>1. Planned(puts[p]) /\ puts[p].site \in Sites /\ puts[p].interval \in Intervals
      BY <2>3 DEF PlansInv
    <3>2. puts'[p] = [Earlier(puts[p]) EXCEPT !.lag = @ + 1]
      BY <2>3
    <3> QED
      BY <2>1, <3>1, <3>2, RequestTimeFits
  <2> QED
    BY <2>1, <2>2, <2>3 DEF Requests
<1>3. \A t \in Workers :
        /\ ticks[t].lag = 0 /\ ticks[t] \in Tickings /\ ticks'[t] \in Tickings
        /\ ticks'[t].pc = ticks[t].pc /\ ticks'[t].due = ticks[t].due
        /\ ticks'[t].blocked = ticks[t].blocked
        /\ ticks'[t].lag = IF ticks[t].pc = "idle" THEN 0 ELSE 1
  <2> TAKE t \in Workers
  <2>1. ticks[t] \in Tickings /\ ticks[t].lag = 0
    BY DEF TypeOK, TicksInTime
  <2>2. ticks'[t] = IF ticks[t].pc = "idle" THEN ticks[t] ELSE [ticks[t] EXCEPT !.lag = @ + 1]
    OBVIOUS
  <2>3. ticks'[t] = IF ticks[t].pc = "idle" THEN ticks[t] ELSE [ticks[t] EXCEPT !.lag = 1]
    BY <2>1, <2>2
  <2> QED
    BY <2>1, <2>3 DEF Tickings
<1>4. used' \in [puts : Nat, triggers : Nat, faults : Nat]
  BY DEF TypeOK
<1>5. TypeOK'
  <2>1. schedules' \in [Sites -> Rows]
    BY <1>1
  <2>2. puts' \in [Puts -> Requests]
    BY <1>2
  <2>3. ticks' \in [Workers -> Tickings]
    BY <1>3
  <2> QED
    BY <1>4, <2>1, <2>2, <2>3 DEF TypeOK
<1>6. ASSUME NEW t \in Workers PROVE LockInv(t)'
  <2>1. LockInv(t) /\ ticks[t].due \subseteq Sites
    BY <1>3 DEF LocksInv, Tickings
  <2>2. ASSUME NEW s \in ticks[t].due
        PROVE  schedules'[s].active /\ schedules'[s].next <= - ticks'[t].lag
    <3>1. s \in Sites /\ schedules[s].active /\ schedules[s].next <= 0 /\ ticks[t].pc # "idle"
      BY <1>3, <2>1 DEF LockInv
    <3> QED
      BY <1>1, <1>3, <3>1
  <2> QED
    BY <1>3, <2>1, <2>2 DEF LockInv
<1> QED
  BY <1>1, <1>2, <1>5, <1>6 DEF LocksInv, PlansInv, OneScheduledRun

\* No step leaves the inductive invariant.
LEMMA StepInv ==
  ASSUME IInv, [Next]_vars
  PROVE  IInv'
<1>1. CASE UNCHANGED vars
  BY <1>1 DEF vars, IInv, TypeOK, PlansInv, LocksInv, LockInv, OneScheduledRun
<1>2. ASSUME NEW p \in Puts, NEW s \in Sites, NEW active \in BOOLEAN, NEW i \in Intervals,
             ReadSchedule(p, s, active, i)
      PROVE  IInv'
  BY <1>2, ReadStep
<1>3. ASSUME NEW p \in Puts, upsert(p) \/ PutFails(p) PROVE IInv'
  BY <1>3, UpsertStep, PutFailsStep
<1>4. ASSUME NEW t \in Workers,
             \/ StartTick(t) \/ TickStep(t) \/ TickFails(t) \/ TickCancelled(t)
             \/ \E s \in Sites : EnqueueFails(t, s)
             \/ \E p \in Puts : LockDueBesidePut(t, p)
      PROVE  IInv'
  BY <1>4, OutsideSteps, LockStep, ProbeStep, AdvanceStep DEF TickStep
<1>5. ASSUME NEW s \in Sites, CheckTrigger(s) \/ trigger_run(s) \/ RunEnds(s) \/ delete_website(s)
      PROVE  IInv'
  BY <1>5, RunSteps, DeleteStep
<1>6. CASE Minute
  BY <1>6, MinuteStep
<1> QED
  BY <1>1, <1>2, <1>3, <1>4, <1>5, <1>6 DEF Next

\* The inductive invariant holds throughout.
THEOREM Invariance == Spec => []IInv
<1>1. IInv /\ [Next]_vars => IInv'
  BY StepInv
<1> QED
  BY InitInv, <1>1, PTL DEF Spec

\* Every variable keeps its type: no tick and no PUT outlives its timeout.
THEOREM TypeCorrect == Spec => []TypeOK
<1>1. IInv => TypeOK
  BY DEF IInv
<1> QED
  BY Invariance, <1>1, PTL

\* However many ticks overlap, a website has one scheduled run at a time: a tick's
\* probe stays true of the rows it has locked until it commits.
THEOREM OneRunPerSchedule == Spec => []OneScheduledRun
<1>1. IInv => OneScheduledRun
  BY DEF IInv
<1> QED
  BY Invariance, <1>1, PTL

\* PUTs and ticks never leave an active schedule without an instant.
THEOREM ActiveIsScheduled == Spec => []ActiveHasInstant
<1>1. IInv => ActiveHasInstant
  BY Numbers DEF IInv, PlansInv, Planned, Instants, ActiveHasInstant
<1> QED
  BY Invariance, <1>1, PTL

\* No schedule waits for longer than the interval it shows and its jitter.
THEOREM IntervalKept == Spec => []NeverPostponed
<1>1. IInv => NeverPostponed
  BY DEF IInv, PlansInv, Planned, NeverPostponed
<1> QED
  BY Invariance, <1>1, PTL

-----------------------------------------------------------------------------
(* The cadence, when an age is told exactly for as long as it matters.      *)

\* After downtime a schedule runs once: whatever its ticks and the PUTs of others
\* do, an undisturbed schedule keeps an interval less its jitter between its runs.
LEMMA SpacedStep ==
  ASSUME IInv, NoCatchUpBurst, [Next]_vars,
         \A i \in Intervals : i <= MaxAge - MaxLate
  PROVE  NoCatchUpBurst'
<1> SUFFICES ASSUME NEW s \in Sites, schedules'[s].active, schedules'[s].last # Null,
                    s \notin disturbed'
             PROVE  schedules'[s].next + schedules'[s].last
                      >= schedules'[s].interval - MaxJitter[schedules'[s].interval]
  BY DEF NoCatchUpBurst
<1>0. TypeOK /\ schedules[s] \in Rows /\ Planned(schedules[s])
  BY DEF IInv, TypeOK, PlansInv
<1>1. CASE schedules'[s] = schedules[s] /\ (s \in disturbed => s \in disturbed')
  BY <1>1 DEF NoCatchUpBurst
<1>2. CASE UNCHANGED <<schedules, disturbed>>
  BY <1>1, <1>2
<1>3. ASSUME NEW p \in Puts, upsert(p) PROVE schedules'[s] = schedules[s]
        /\ (s \in disturbed => s \in disturbed')
  BY <1>0, <1>3 DEF upsert, TypeOK
<1>4. ASSUME NEW q \in Sites, delete_website(q)
      PROVE  schedules'[s] = schedules[s] /\ (s \in disturbed => s \in disturbed')
  BY <1>0, <1>4 DEF delete_website, NoSchedule, TypeOK
<1>5. ASSUME NEW t \in Workers, AdvanceDue(t)
      PROVE  schedules'[s].next + schedules'[s].last
               >= schedules'[s].interval - MaxJitter[schedules'[s].interval]
  <2>1. ticks[t] \in Tickings /\ LockInv(t)
    BY DEF IInv, TypeOK, LocksInv
  <2>2. disturbed' = disturbed \ (ticks[t].due \ ticks[t].blocked)
    BY <1>5 DEF AdvanceDue
  <2>3. CASE s \notin ticks[t].due
    BY <1>1, <1>5, <2>2, <2>3, AdvanceEffect
  <2>4. CASE s \in ticks[t].due
    <3>1. /\ schedules'[s] \in Rows /\ Planned(schedules'[s])
          /\ schedules'[s].interval = schedules[s].interval
          /\ schedules'[s].next >= schedules[s].interval
               - MaxJitter[schedules[s].interval] - ticks[t].lag
          /\ schedules'[s].last = IF s \in ticks[t].due \ ticks[t].blocked THEN ticks[t].lag
                                  ELSE schedules[s].last
      BY <1>5, <2>4, AdvanceEffect
    <3>2. /\ schedules'[s].next \in Int /\ ticks[t].lag \in {0, 1}
          /\ schedules[s].interval \in Nat /\ MaxJitter[schedules[s].interval] \in Nat
          /\ MaxJitter[schedules[s].interval] < schedules[s].interval
      BY <2>1, <3>1, Numbers DEF Planned, Instants, Tickings
    <3>3. CASE s \in ticks[t].due \ ticks[t].blocked
      BY <3>1, <3>2, <3>3
    <3>4. CASE s \in ticks[t].blocked
      <4>1. schedules'[s].last = schedules[s].last /\ s \notin disturbed
        BY <2>2, <3>1, <3>4
      <4>2. schedules[s].active /\ schedules[s].next <= - ticks[t].lag
            /\ schedules[s].next \in Int /\ schedules[s].last \in Nat
        BY <1>0, <2>1, <2>4, <4>1, Numbers DEF LockInv, Planned, Instants, Rows
      <4>3. schedules[s].next + schedules[s].last
              >= schedules[s].interval - MaxJitter[schedules[s].interval]
        BY <4>1, <4>2, Numbers DEF NoCatchUpBurst
      <4>4. schedules[s].last >= ticks[t].lag
        BY <3>2, <4>2, <4>3
      <4> QED
        BY <3>1, <3>2, <4>1, <4>2, <4>4
    <3> QED
      BY <2>4, <3>3, <3>4
  <2> QED
    BY <2>3, <2>4
<1>6. CASE Minute
  <2> DEFINE row == schedules[s]
  <2>1. schedules'[s] = Older(Earlier(row)) /\ disturbed' = disturbed
    BY <1>6 DEF Minute
  <2>2. /\ schedules'[s].next = IF row.next \in {Null, - MaxLate} THEN row.next ELSE row.next - 1
        /\ schedules'[s].last = IF row.last \in {Null, MaxAge} THEN row.last ELSE row.last + 1
        /\ schedules'[s].active = row.active /\ schedules'[s].interval = row.interval
    BY <1>0, <2>1 DEF Older, Earlier, Rows
  <2>3. row.active /\ row.last # Null /\ s \notin disturbed
    BY <2>1, <2>2
  <2>4. /\ row.next \in Int /\ row.next >= - MaxLate /\ row.last \in Nat /\ row.last <= MaxAge
        /\ row.interval \in Nat /\ MaxJitter[row.interval] \in Nat
        /\ row.interval <= MaxAge - MaxLate /\ MaxLate \in Nat /\ MaxAge \in Nat /\ Null \notin Int
    BY <1>0, <2>3, Numbers DEF Planned, Instants, Rows
  <2>5. row.next + row.last >= row.interval - MaxJitter[row.interval]
    BY <2>3 DEF NoCatchUpBurst
  <2> HIDE DEF row
  <2>6. CASE row.next = - MaxLate
    BY <2>2, <2>4, <2>5, <2>6
  <2>7. CASE row.next # - MaxLate /\ row.last # MaxAge
    BY <2>2, <2>4, <2>5, <2>7
  <2>8. CASE row.next # - MaxLate /\ row.last = MaxAge
    BY <2>2, <2>4, <2>8
  <2> QED
    BY <2>6, <2>7, <2>8
<1> QED
  BY <1>1, <1>2, <1>3, <1>4, <1>5, <1>6
  DEF Next, TickStep, vars, ReadSchedule, PutFails, StartTick, LockDue, LockDueBesidePut,
      LockWithout, Probe, TickFails, TickCancelled, EndTick, EnqueueRun, EnqueueFails,
      CheckTrigger, trigger_run, RunEnds

\* A schedule that was missed never catches up with a burst of runs.
THEOREM NoBurst ==
  ASSUME \A i \in Intervals : i <= MaxAge - MaxLate
  PROVE  Spec => []NoCatchUpBurst
<1>1. Init => NoCatchUpBurst
  BY DEF Init, NoSchedule, NoCatchUpBurst
<1>2. IInv /\ NoCatchUpBurst /\ [Next]_vars => NoCatchUpBurst'
  BY SpacedStep
<1> QED
  BY Invariance, <1>1, <1>2, PTL DEF Spec

-----------------------------------------------------------------------------
(* Oldest first. The schedules that are due no later than a given one are a *)
(* queue before it. Each minute in which it is due starts a tick, which     *)
(* takes a full batch out of that queue, or takes the schedule itself.      *)

\* What the property is about: no tick has failed, and no minute goes without one.
Calm == used.faults = 0 /\ ~ MayMiss

Holding(t) == ticks[t].pc \in {"locked", "advancing"}
Uncommitted(t) == ticks[t].pc = "starting" \/ Holding(t)

\* The minute before this one, or this one, has a tick that has not committed yet.
LateTick == \E t \in Workers : Uncommitted(t) /\ ticks[t].lag = 1
OwedTick == fired = {} \/ \E t \in Workers : Uncommitted(t) /\ ticks[t].lag = 0

Queue(s) == {q \in Sites : schedules[q].next <= schedules[s].next}

\* The batches that have been committed at least since s was due: one for each
\* minute but the last two, and theirs unless they are still to come.
Batched(s) ==
  (IF schedules[s].next < 0 THEN - schedules[s].next - 1 + (IF LateTick THEN 0 ELSE 1) ELSE 0)
    + (IF OwedTick THEN 0 ELSE 1)

\* A tick that leaves a due schedule to others has taken a full batch, all of it
\* due no later.
FullBatches ==
  \A t \in Workers, s \in Sites \ Locked :
    Holding(t) /\ schedules[s].next <= - ticks[t].lag =>
      /\ Cardinality(ticks[t].due) = BatchLimit
      /\ \A q \in ticks[t].due : schedules[q].next <= schedules[s].next

\* The schedules that so many full batches take.
Taken(batches) == BatchLimit * batches

\* Every batch committed has made the queue of those still waiting shorter.
QueueShrinks ==
  \A s \in Sites \ Locked : - MaxLate < schedules[s].next /\ schedules[s].next <= 0 =>
    Cardinality(Queue(s)) + Taken(Batched(s)) <= Cardinality(Sites)

Patient(s, minutes) ==
  Taken(- schedules[s].next - minutes) <= Cardinality(Sites) - 1

ServedInv ==
  /\ \A s \in Sites : schedules[s].active
  /\ FullBatches /\ QueueShrinks
  /\ \A s \in Sites \ Locked : Patient(s, 1)
  /\ \A t \in Workers : \A s \in ticks[t].due : Patient(s, 1 + ticks[t].lag)

LEMMA Times ==
  /\ BatchLimit \in Nat /\ BatchLimit >= 1 /\ Taken(0) = 0
  /\ \A n \in Int : Taken(n) \in Int
  /\ \A m, n \in Int : m <= n => Taken(m) <= Taken(n)
  /\ \A n \in Int : Taken(n + 1) = Taken(n) + BatchLimit
  /\ \A n \in Int : n <= 0 => Taken(n) <= 0
  /\ \A n \in Int : - n * BatchLimit = Taken(- n - 2) + 2 * BatchLimit
<1> USE DEF Taken
<1>1. BatchLimit \in Nat /\ BatchLimit >= 1
  BY PolicyAssumption
<1>2. Taken(0) = 0 /\ \A n \in Int : Taken(n) \in Int
  BY <1>1
<1>3. ASSUME NEW m \in Int, NEW n \in Int, m <= n
      PROVE  Taken(m) <= Taken(n)
  <2>1. BatchLimit * (n - m) >= 0
    BY <1>1, <1>3
  <2>2. Taken(n) = Taken(m) + BatchLimit * (n - m)
    BY <1>1
  <2>3. BatchLimit * (n - m) \in Int
    BY <1>1
  <2> HIDE DEF Taken
  <2> QED BY <1>2, <2>1, <2>2, <2>3
<1>4. ASSUME NEW n \in Int PROVE Taken(n + 1) = Taken(n) + BatchLimit
  BY <1>1
<1>5. ASSUME NEW n \in Int, n <= 0 PROVE Taken(n) <= 0
  BY <1>2, <1>3, <1>5
<1>6. ASSUME NEW n \in Int PROVE - n * BatchLimit = Taken(- n - 2) + 2 * BatchLimit
  BY <1>1
<1> HIDE DEF Taken
<1> QED BY <1>1, <1>2, <1>3, <1>4, <1>5, <1>6

LEMMA Fewer ==
  ASSUME NEW m \in Int, NEW n \in Int, m <= n, Taken(n) <= Cardinality(Sites) - 1
  PROVE  Taken(m) <= Cardinality(Sites) - 1
<1>1. Cardinality(Sites) \in Nat
  BY PolicyAssumption, FS_CardinalityType
<1> QED BY <1>1, Times

\* Instants are integers as long as every schedule is active.
LEMMA ServedTypes ==
  ASSUME IInv, ServedInv
  PROVE  /\ \A s \in Sites : schedules[s].next \in Int /\ schedules[s].next >= - MaxLate
         /\ \A t \in Workers : ticks[t] \in Tickings /\ ticks[t].lag \in {0, 1}
                               /\ ticks[t].due \subseteq Sites
         /\ IsFiniteSet(Sites) /\ Cardinality(Sites) \in Nat
         /\ Sites # {} => Cardinality(Sites) >= 1
         /\ \A s \in Sites : IsFiniteSet(Queue(s)) /\ Cardinality(Queue(s)) \in Nat
                             /\ Cardinality(Queue(s)) >= 1
                             /\ Cardinality(Queue(s)) <= Cardinality(Sites)
<1>1. \A s \in Sites : schedules[s].next \in Int /\ schedules[s].next >= - MaxLate
  BY Numbers DEF IInv, TypeOK, PlansInv, Planned, ServedInv, Instants
<1>2. \A t \in Workers : ticks[t] \in Tickings /\ ticks[t].lag \in {0, 1}
                         /\ ticks[t].due \subseteq Sites
  BY DEF IInv, TypeOK, Tickings
<1>3. IsFiniteSet(Sites) /\ Cardinality(Sites) \in Nat
  BY PolicyAssumption, FS_CardinalityType
<1>4. Sites # {} => Cardinality(Sites) >= 1
  BY <1>3, FS_EmptySet
<1>5. ASSUME NEW s \in Sites
      PROVE  /\ IsFiniteSet(Queue(s)) /\ Cardinality(Queue(s)) \in Nat
             /\ Cardinality(Queue(s)) >= 1 /\ Cardinality(Queue(s)) <= Cardinality(Sites)
  <2>1. Queue(s) \in SUBSET Sites /\ s \in Queue(s)
    BY <1>1 DEF Queue
  <2>2. IsFiniteSet(Queue(s)) /\ Cardinality(Queue(s)) <= Cardinality(Sites)
    BY <1>3, <2>1, FS_Subset
  <2>3. Cardinality(Queue(s)) \in Nat /\ Cardinality(Queue(s)) # 0
    BY <2>1, <2>2, FS_CardinalityType, FS_EmptySet
  <2> QED BY <2>2, <2>3
<1> QED BY <1>1, <1>2, <1>3, <1>4, <1>5

\* A step that neither locks nor advances, and owes no less than before.
LEMMA QuietStep ==
  ASSUME IInv, ServedInv, schedules' = schedules,
         \A t \in Workers : ticks'[t].due = ticks[t].due,
         \A t \in Workers : Holding(t)' => Holding(t) /\ ticks'[t].lag = ticks[t].lag,
         \A t \in Workers : ticks[t].due # {} => ticks'[t].lag = ticks[t].lag,
         LateTick => LateTick', OwedTick => OwedTick'
  PROVE  ServedInv'
<1>1. Locked' = Locked
  BY DEF Locked
<1>2. FullBatches'
  BY <1>1 DEF ServedInv, FullBatches
<1>3. ASSUME NEW s \in Sites \ Locked, - MaxLate < schedules[s].next, schedules[s].next <= 0
      PROVE  Cardinality(Queue(s))' + Taken(Batched(s)') <= Cardinality(Sites)
  <2>1. Queue(s)' = Queue(s)
    BY DEF Queue
  <2>2. Batched(s)' \in Int /\ Batched(s) \in Int /\ Batched(s)' <= Batched(s)
    BY ServedTypes DEF Batched
  <2>3. Taken(Batched(s)') <= Taken(Batched(s))
    BY <2>2, Times
  <2>4. Cardinality(Queue(s)) + Taken(Batched(s)) <= Cardinality(Sites)
    BY <1>3 DEF ServedInv, QueueShrinks
  <2>5. /\ Taken(Batched(s)') \in Int /\ Taken(Batched(s)) \in Int
        /\ Cardinality(Queue(s)) \in Nat /\ Cardinality(Sites) \in Nat
    BY <2>2, Times, ServedTypes
  <2> QED BY <2>1, <2>3, <2>4, <2>5
<1>4. QueueShrinks'
  BY <1>1, <1>3 DEF QueueShrinks
<1>5. ASSUME NEW t \in Workers, NEW s \in ticks'[t].due
      PROVE  Patient(s, 1 + ticks[t].lag)'
  BY <1>5 DEF ServedInv, Patient
<1> QED BY <1>1, <1>2, <1>4, <1>5 DEF ServedInv, Patient

\* What is due and not locked is left behind only by a full batch.
LEMMA LockServed ==
  ASSUME IInv, ServedInv, NEW t \in Workers, LockDue(t)
  PROVE  ServedInv'
<1>1. PICK S \in lock_due(- ticks[t].lag, Locked) :
        Tick(t, [ticks[t] EXCEPT !.pc = "locked", !.due = S])
  BY DEF LockDue, LockWithout
<1>2. /\ ticks[t].pc = "starting" /\ ticks[t].due = {} /\ schedules' = schedules
      /\ fired' = fired
  BY DEF LockDue, LockWithout, IInv, LocksInv, LockInv
<1> DEFINE due == Due(- ticks[t].lag, Locked)
           tick == [ticks[t] EXCEPT !.pc = "locked", !.due = S]
<1>3. /\ S \subseteq due
      /\ S # due => Cardinality(S) = BatchLimit
      /\ \A r \in S, q \in due \ S : schedules[r].next <= schedules[q].next
  BY <1>1 DEF lock_due, Batches
<1>4. tick.pc = "locked" /\ tick.due = S /\ tick.lag = ticks[t].lag
  BY ServedTypes DEF Tickings
<1>5. ticks' = [ticks EXCEPT ![t] = tick]
  BY <1>1 DEF Tick
<1> HIDE DEF tick
<1>6. \A u \in Workers : ticks'[u] = IF u = t THEN tick ELSE ticks[u]
  BY <1>5 DEF IInv, TypeOK
<1>7. Locked' = Locked \cup S
  BY <1>2, <1>4, <1>6 DEF Locked
<1>8. LateTick' <=> LateTick
  BY <1>2, <1>4, <1>6 DEF LateTick, Uncommitted, Holding
<1>9. OwedTick' <=> OwedTick
  BY <1>2, <1>4, <1>6 DEF OwedTick, Uncommitted, Holding
<1>10. ASSUME NEW u \in Workers, NEW s \in Sites \ Locked', Holding(u)',
              schedules'[s].next <= - ticks'[u].lag
       PROVE  /\ Cardinality(ticks'[u].due) = BatchLimit
              /\ \A q \in ticks'[u].due : schedules'[q].next <= schedules'[s].next
  <2>1. CASE u = t
    <3>1. s \in due \ S
      BY <1>2, <1>4, <1>6, <1>7, <1>10, <2>1 DEF ServedInv, Due
    <3> QED BY <1>2, <1>3, <1>4, <1>6, <2>1, <3>1
  <2>2. CASE u # t
    <3>1. s \in Sites \ Locked /\ Holding(u) /\ schedules[s].next <= - ticks[u].lag
      BY <1>2, <1>6, <1>7, <1>10, <2>2 DEF Holding
    <3> QED BY <1>2, <1>6, <2>2, <3>1 DEF ServedInv, FullBatches
  <2> QED BY <2>1, <2>2
<1>11. FullBatches'
  BY <1>10 DEF FullBatches
<1>12. QueueShrinks'
  <2>1. \A s \in Sites : Queue(s)' = Queue(s) /\ Batched(s)' = Batched(s)
    BY <1>2, <1>8, <1>9 DEF Queue, Batched
  <2> QED BY <1>2, <1>7, <2>1 DEF ServedInv, QueueShrinks
<1>13. ASSUME NEW u \in Workers, NEW s \in ticks'[u].due
       PROVE  Patient(s, 1 + ticks[u].lag)'
  <2>1. CASE u = t
    <3>1. s \in Sites \ Locked
      BY <1>3, <1>4, <1>6, <1>13, <2>1 DEF Due
    <3> DEFINE m == - schedules[s].next - (1 + ticks[t].lag)
               n == - schedules[s].next - 1
    <3>2. Taken(n) <= Cardinality(Sites) - 1
      BY <3>1 DEF ServedInv, Patient
    <3>3. m \in Int /\ n \in Int /\ m <= n
      BY <3>1, ServedTypes
    <3> HIDE DEF m, n
    <3>4. Taken(m) <= Cardinality(Sites) - 1
      BY <3>2, <3>3, Fewer
    <3> QED BY <1>2, <1>4, <1>6, <2>1, <3>4 DEF Patient, m
  <2>2. CASE u # t
    BY <1>2, <1>6, <1>13, <2>2 DEF ServedInv, Patient
  <2> QED BY <2>1, <2>2
<1>14. \A s \in Sites \ Locked' : Patient(s, 1)'
  BY <1>2, <1>7 DEF ServedInv, Patient
<1> QED BY <1>2, <1>11, <1>12, <1>13, <1>14 DEF ServedInv

\* A batch that is committed leaves every queue it was taken from, and joins none:
\* an interval outlasts its jitter and the minute the tick may be late.
LEMMA AdvanceServed ==
  ASSUME IInv, ServedInv, NEW t \in Workers, AdvanceDue(t),
         \A i \in Intervals : MaxJitter[i] + 1 < i
  PROVE  ServedInv'
<1> DEFINE due == ticks[t].due
           lag == ticks[t].lag
           tick == [ticks[t] EXCEPT !.pc = "enqueuing", !.due = {}, !.blocked = {},
                                    !.created = due \ ticks[t].blocked]
<1>1. /\ ticks[t].pc = "advancing" /\ ticks' = [ticks EXCEPT ![t] = tick] /\ fired' = fired
  BY DEF AdvanceDue, Tick
<1>2. tick.pc = "enqueuing" /\ tick.due = {} /\ tick.lag = lag
  BY ServedTypes DEF Tickings
<1> HIDE DEF tick
<1>3. \A u \in Workers : ticks'[u] = IF u = t THEN tick ELSE ticks[u]
  BY <1>1 DEF IInv, TypeOK
<1>4. /\ due \subseteq Sites /\ lag \in {0, 1}
      /\ \A s \in due : schedules[s].next <= - lag
      /\ \A u \in Workers \ {t} : due \cap ticks[u].due = {}
  BY ServedTypes DEF IInv, LocksInv, LockInv
<1>5. \A s \in Sites \ due : schedules'[s] = schedules[s]
  BY AdvanceEffect
<1>6. ASSUME NEW s \in due
      PROVE  schedules'[s].active /\ schedules'[s].next \in Int /\ schedules'[s].next >= 1
  <2>1. /\ schedules'[s].active /\ Planned(schedules'[s])
        /\ schedules'[s].next >= schedules[s].interval - MaxJitter[schedules[s].interval] - lag
    BY <1>4, AdvanceEffect
  <2>2. schedules[s].interval \in Intervals
    BY <1>4 DEF ServedInv, IInv, PlansInv, Planned
  <2>3. /\ schedules[s].interval \in Nat /\ MaxJitter[schedules[s].interval] \in Nat
        /\ MaxJitter[schedules[s].interval] + 1 < schedules[s].interval
    BY <2>2, Numbers
  <2>4. schedules'[s].next \in Int
    BY <2>1 DEF Planned, Instants
  <2> HIDE DEF due, lag
  <2> QED BY <1>4, <2>1, <2>3, <2>4
<1>7. Locked' = Locked \ due
  BY <1>2, <1>3, <1>4 DEF Locked
<1>8. \A s \in Sites : schedules[s].next \in Int
  BY ServedTypes
<1>9. ASSUME NEW s \in Sites \ Locked', schedules'[s].next <= 0
      PROVE  /\ s \in Sites \ Locked /\ schedules'[s] = schedules[s] /\ s \notin due
             /\ Queue(s)' \subseteq Queue(s) \ due
  <2>1. s \notin due
    BY <1>6, <1>9
  <2>2. schedules'[s] = schedules[s]
    BY <1>5, <2>1
  <2>3. ASSUME NEW q \in Sites, schedules'[q].next <= schedules'[s].next
        PROVE  q \in Queue(s) \ due
    <3>1. q \notin due
      BY <1>6, <1>8, <1>9, <2>2, <2>3
    <3> QED BY <1>5, <2>2, <2>3, <3>1 DEF Queue
  <2> QED BY <1>7, <2>1, <2>2, <2>3 DEF Queue
<1>10. ASSUME NEW u \in Workers, NEW s \in Sites \ Locked', Holding(u)',
              schedules'[s].next <= - ticks'[u].lag
       PROVE  /\ Cardinality(ticks'[u].due) = BatchLimit
              /\ \A q \in ticks'[u].due : schedules'[q].next <= schedules'[s].next
  <2>1. u # t /\ ticks'[u] = ticks[u] /\ Holding(u)
    BY <1>2, <1>3, <1>10 DEF Holding
  <2>2. schedules'[s].next <= 0
    <3>1. ticks[u].lag \in {0, 1}
      BY ServedTypes
    <3>2. schedules'[s].next \in Int
      BY <1>5, <1>6, <1>8
    <3> QED BY <1>10, <2>1, <3>1, <3>2
  <2>3. s \in Sites \ Locked /\ schedules'[s] = schedules[s]
    BY <1>9, <2>2
  <2>4. /\ Cardinality(ticks[u].due) = BatchLimit
        /\ \A q \in ticks[u].due : schedules[q].next <= schedules[s].next
    BY <1>10, <2>1, <2>3 DEF ServedInv, FullBatches
  <2>5. \A q \in ticks[u].due : schedules'[q] = schedules[q]
    BY <1>4, <1>5, <2>1, ServedTypes
  <2> QED BY <2>1, <2>3, <2>4, <2>5
<1>11. FullBatches'
  BY <1>10 DEF FullBatches
<1>12. ASSUME NEW s \in Sites \ Locked', - MaxLate < schedules'[s].next, schedules'[s].next <= 0
       PROVE  Cardinality(Queue(s)') + Taken(Batched(s)') <= Cardinality(Sites)
  <2>1. /\ s \in Sites \ Locked /\ schedules'[s] = schedules[s]
        /\ Queue(s)' \subseteq Queue(s) \ due
    BY <1>9, <1>12
  <2>2. Cardinality(Queue(s)) + Taken(Batched(s)) <= Cardinality(Sites)
    BY <1>12, <2>1 DEF ServedInv, QueueShrinks
  <2>3. /\ IsFiniteSet(Queue(s)) /\ Cardinality(Queue(s)) \in Nat /\ Cardinality(Sites) \in Nat
        /\ schedules[s].next \in Int
    BY <2>1, ServedTypes
  <2>4. /\ IsFiniteSet(Queue(s) \ due) /\ Cardinality(Queue(s) \ due) \in Nat
        /\ Cardinality(Queue(s) \ due) = Cardinality(Queue(s)) - Cardinality(Queue(s) \cap due)
        /\ Cardinality(Queue(s) \cap due) \in Nat
    <3>1. IsFiniteSet(Queue(s) \cap due)
      <4>1. Queue(s) \cap due \in SUBSET Queue(s)
        OBVIOUS
      <4> QED BY <2>3, <4>1, FS_Subset
    <3> QED BY <2>3, <3>1, FS_Difference, FS_CardinalityType
  <2>5. Cardinality(Queue(s)') <= Cardinality(Queue(s) \ due) /\ Cardinality(Queue(s)') \in Nat
    BY <2>1, <2>4, FS_Subset, FS_CardinalityType
  <2>6. schedules[s].next <= - lag => Cardinality(Queue(s) \cap due) = BatchLimit
    <3>1. ASSUME schedules[s].next <= - lag
          PROVE  Cardinality(due) = BatchLimit /\ due \subseteq Queue(s)
      BY <1>1, <1>4, <2>1, <3>1 DEF ServedInv, FullBatches, Holding, Queue
    <3>2. due \subseteq Queue(s) => Queue(s) \cap due = due
      OBVIOUS
    <3> QED BY <3>1, <3>2
  <2>7. Batched(s) \in Int /\ Batched(s)' \in Int
    BY <2>1, <2>3 DEF Batched
  <2>8. CASE lag = 0
    <3>1. LateTick => LateTick'
      BY <1>2, <1>3, <2>8 DEF LateTick, Uncommitted, Holding
    <3>2. OwedTick
      BY <1>1, <2>8 DEF OwedTick, Uncommitted, Holding
    <3>3. Batched(s)' <= Batched(s) + 1
      BY <2>1, <2>3, <3>1, <3>2 DEF Batched
    <3>4. Taken(Batched(s)') <= Taken(Batched(s)) + BatchLimit
      BY <2>7, <3>3, Times
    <3>5. Cardinality(Queue(s) \cap due) = BatchLimit
      BY <1>12, <2>1, <2>6, <2>8
    <3>6. /\ Taken(Batched(s)') \in Int /\ Taken(Batched(s)) \in Int
          /\ BatchLimit \in Nat
      BY <2>7, Times
    <3> QED BY <2>2, <2>3, <2>4, <2>5, <3>4, <3>5, <3>6
  <2>9. CASE lag = 1
    <3>1. OwedTick => OwedTick'
      BY <1>1, <1>2, <1>3, <2>9 DEF OwedTick, Uncommitted, Holding
    <3>2. LateTick
      BY <1>1, <2>9 DEF LateTick, Uncommitted, Holding
    <3>6. /\ Taken(Batched(s)') \in Int /\ Taken(Batched(s)) \in Int
          /\ BatchLimit \in Nat
      BY <2>7, Times
    <3>7. CASE schedules[s].next < 0
      <4>1. Batched(s)' <= Batched(s) + 1
        BY <2>1, <2>3, <3>1, <3>2, <3>7 DEF Batched
      <4>2. Taken(Batched(s)') <= Taken(Batched(s)) + BatchLimit
        BY <2>7, <4>1, Times
      <4>3. Cardinality(Queue(s) \cap due) = BatchLimit
        BY <2>3, <2>6, <2>9, <3>7
      <4> QED BY <2>2, <2>3, <2>4, <2>5, <3>6, <4>2, <4>3
    <3>8. CASE schedules[s].next = 0
      <4>1. Batched(s)' <= Batched(s)
        BY <2>1, <2>3, <3>1, <3>8 DEF Batched
      <4>2. Taken(Batched(s)') <= Taken(Batched(s))
        BY <2>7, <4>1, Times
      <4> QED BY <2>2, <2>3, <2>4, <2>5, <3>6, <4>2
    <3> QED BY <1>12, <2>1, <2>3, <3>7, <3>8
  <2> QED BY <1>4, <2>8, <2>9
<1>13. QueueShrinks'
  BY <1>12 DEF QueueShrinks
<1>14. ASSUME NEW s \in Sites \ Locked' PROVE Patient(s, 1)'
  <2>1. CASE s \in due
    <3>1. schedules'[s].next \in Int /\ schedules'[s].next >= 1
      BY <1>6, <2>1
    <3>2. - schedules'[s].next - 1 \in Int /\ - schedules'[s].next - 1 <= 0
      BY <3>1
    <3>3. Taken(- schedules'[s].next - 1) <= 0 
      BY <3>2, Times
    <3>4. Taken(- schedules'[s].next - 1) \in Int
      BY <3>2, Times
    <3>5. Cardinality(Sites) \in Nat /\ Cardinality(Sites) >= 1
      BY <1>14, ServedTypes
    <3> QED BY <3>3, <3>4, <3>5 DEF Patient
  <2>2. CASE s \notin due
    BY <1>5, <1>7, <1>14, <2>2 DEF ServedInv, Patient
  <2> QED BY <2>1, <2>2
<1>15. ASSUME NEW u \in Workers, NEW s \in ticks'[u].due
       PROVE  Patient(s, 1 + ticks[u].lag)'
  <2>1. u # t /\ ticks'[u] = ticks[u]
    BY <1>2, <1>3, <1>15
  <2>2. schedules'[s] = schedules[s]
    BY <1>4, <1>5, <1>15, <2>1, ServedTypes
  <2> QED BY <1>15, <2>1, <2>2 DEF ServedInv, Patient
<1>16. \A s \in Sites : schedules'[s].active
  BY <1>5, <1>6 DEF ServedInv
<1> QED BY <1>11, <1>13, <1>14, <1>15, <1>16 DEF ServedInv

\* A minute makes everything due a minute older, and owes one batch more. The
\* instants keep their order.
LEMMA MinuteServed ==
  ASSUME IInv, ServedInv, Minute, ~ MayMiss
  PROVE  ServedInv'
<1>1. /\ fired # {} /\ fired' = {} /\ \A t \in Workers : ticks[t].lag = 0
      /\ schedules' = [s \in Sites |-> Older(Earlier(schedules[s]))]
      /\ ticks' = [t \in Workers |->
           IF ticks[t].pc = "idle" THEN ticks[t] ELSE [ticks[t] EXCEPT !.lag = @ + 1]]
  BY DEF Minute, TicksInTime
<1>2. /\ MaxLate \in Nat /\ MaxLate >= 1
      /\ \A s \in Sites : schedules[s].next \in Int /\ schedules[s].next >= - MaxLate
  BY ServedTypes, PolicyAssumption
<1>3. ASSUME NEW s \in Sites
      PROVE  /\ schedules'[s].active
             /\ schedules'[s].next =
                  IF schedules[s].next = - MaxLate THEN - MaxLate ELSE schedules[s].next - 1
  <2>1. schedules[s] \in Rows /\ schedules[s].active
    BY DEF IInv, TypeOK, ServedInv
  <2>2. schedules[s].next # Null
    BY <1>2, PolicyAssumption
  <2>3. schedules'[s] = Older(Earlier(schedules[s]))
    BY <1>1
  <2>4. /\ Earlier(schedules[s]).active = schedules[s].active
        /\ Earlier(schedules[s]).next =
             IF schedules[s].next = - MaxLate THEN - MaxLate ELSE schedules[s].next - 1
    BY <2>1, <2>2 DEF Earlier, Rows
  <2>5. /\ Older(Earlier(schedules[s])).active = Earlier(schedules[s]).active
        /\ Older(Earlier(schedules[s])).next = Earlier(schedules[s]).next
    BY <2>1 DEF Earlier, Older, Rows
  <2> QED BY <2>1, <2>3, <2>4, <2>5
<1>4. ASSUME NEW t \in Workers
      PROVE  /\ ticks'[t].pc = ticks[t].pc /\ ticks'[t].due = ticks[t].due
             /\ ticks'[t].lag = IF ticks[t].pc = "idle" THEN 0 ELSE 1
  <2>1. ticks[t] \in Tickings /\ ticks[t].lag = 0
    BY <1>1, ServedTypes
  <2>2. ticks'[t] = IF ticks[t].pc = "idle" THEN ticks[t] ELSE [ticks[t] EXCEPT !.lag = @ + 1]
    BY <1>1
  <2> QED BY <2>1, <2>2 DEF Tickings
<1>5. \A t \in Workers : (Holding(t)' <=> Holding(t)) /\ (Uncommitted(t)' <=> Uncommitted(t))
  BY <1>4 DEF Holding, Uncommitted
<1>6. Locked' = Locked
  BY <1>4 DEF Locked
<1>7. ASSUME NEW q \in Sites, NEW s \in Sites
      PROVE  /\ schedules[q].next <= schedules[s].next => schedules'[q].next <= schedules'[s].next
             /\ - MaxLate < schedules'[s].next /\ schedules'[q].next <= schedules'[s].next =>
                  schedules[q].next <= schedules[s].next
  BY <1>2, <1>3
<1>8. ASSUME NEW t \in Workers, NEW s \in Sites \ Locked', Holding(t)',
             schedules'[s].next <= - ticks'[t].lag
      PROVE  /\ Cardinality(ticks'[t].due) = BatchLimit
             /\ \A q \in ticks'[t].due : schedules'[q].next <= schedules'[s].next
  <2>1. Holding(t) /\ ticks'[t].lag = 1 /\ s \in Sites \ Locked
    BY <1>4, <1>5, <1>6, <1>8 DEF Holding
  <2>2. schedules[s].next <= - ticks[t].lag
    BY <1>1, <1>2, <1>3, <1>8, <2>1
  <2>3. /\ Cardinality(ticks[t].due) = BatchLimit
        /\ \A q \in ticks[t].due : schedules[q].next <= schedules[s].next
    BY <2>1, <2>2 DEF ServedInv, FullBatches
  <2>4. ticks[t].due \subseteq Sites
    BY ServedTypes
  <2> QED BY <1>4, <1>7, <2>1, <2>3, <2>4
<1>9. FullBatches'
  BY <1>8 DEF FullBatches
<1>10. OwedTick' /\ ~ LateTick /\ (LateTick' <=> OwedTick)
  <2>1. OwedTick' /\ ~ LateTick
    BY <1>1 DEF OwedTick, LateTick
  <2>2. LateTick' <=> \E t \in Workers : Uncommitted(t)
    BY <1>4, <1>5 DEF LateTick, Uncommitted, Holding
  <2>3. OwedTick <=> \E t \in Workers : Uncommitted(t)
    BY <1>1 DEF OwedTick
  <2> QED BY <2>1, <2>2, <2>3
<1>11. ASSUME NEW s \in Sites \ Locked', - MaxLate < schedules'[s].next, schedules'[s].next <= 0
       PROVE  Cardinality(Queue(s)') + Taken(Batched(s)') <= Cardinality(Sites)
  <2>1. /\ s \in Sites \ Locked /\ schedules[s].next \in Int /\ schedules[s].next > - MaxLate
        /\ schedules'[s].next = schedules[s].next - 1
    BY <1>2, <1>3, <1>6, <1>11
  <2>2. Queue(s)' = Queue(s)
    BY <1>7, <1>11 DEF Queue
  <2>3. Cardinality(Queue(s)) \in Nat /\ Cardinality(Sites) \in Nat
        /\ Cardinality(Queue(s)) <= Cardinality(Sites)
    BY <2>1, ServedTypes
  <2>4. CASE schedules'[s].next = 0
    <3>1. Batched(s)' = 0
      BY <1>10, <2>4 DEF Batched
    <3>2. Taken(0) = 0
      BY Times
    <3> QED BY <2>2, <2>3, <3>1, <3>2
  <2>5. CASE schedules'[s].next < 0
    <3>1. Batched(s)' = Batched(s)
      BY <1>10, <2>1, <2>5 DEF Batched
    <3> QED BY <2>1, <2>2, <2>5, <3>1 DEF ServedInv, QueueShrinks
  <2> QED BY <1>11, <2>1, <2>4, <2>5
<1>12. QueueShrinks'
  BY <1>11 DEF QueueShrinks
<1>13. ASSUME NEW s \in Sites \ Locked' PROVE Patient(s, 1)'
  <2>1. /\ s \in Sites \ Locked /\ schedules[s].next \in Int /\ schedules[s].next >= - MaxLate
        /\ Cardinality(Sites) \in Nat /\ Cardinality(Sites) >= 1
    BY <1>2, <1>6, ServedTypes
  <2>2. CASE schedules[s].next = - MaxLate
    BY <1>3, <2>1, <2>2 DEF ServedInv, Patient
  <2>3. CASE schedules[s].next >= 1
    <3>1. - schedules'[s].next - 1 \in Int /\ - schedules'[s].next - 1 <= 0
      BY <1>2, <1>3, <2>1, <2>3
    <3>2. Taken(- schedules'[s].next - 1) <= 0
          /\ Taken(- schedules'[s].next - 1) \in Int
      BY <3>1, Times
    <3> QED BY <2>1, <3>2 DEF Patient
  <2>4. CASE - MaxLate < schedules[s].next /\ schedules[s].next <= 0
    <3>1. Cardinality(Queue(s)) + Taken(Batched(s)) <= Cardinality(Sites)
      BY <2>1, <2>4 DEF ServedInv, QueueShrinks
    <3>2. Batched(s) \in Int /\ - schedules[s].next \in Int /\ - schedules[s].next <= Batched(s)
      BY <1>10, <2>1, <2>4 DEF Batched
    <3>3. Taken(- schedules[s].next) <= Taken(Batched(s))
      BY <3>2, Times
    <3>4. Cardinality(Queue(s)) \in Nat /\ Cardinality(Queue(s)) >= 1
      BY <2>1, ServedTypes
    <3>5. /\ Taken(- schedules[s].next) \in Int /\ Taken(Batched(s)) \in Int
      BY <3>2, Times
    <3>6. Taken(- schedules[s].next) <= Cardinality(Sites) - 1
      BY <2>1, <3>1, <3>3, <3>4, <3>5
    <3>7. - schedules'[s].next - 1 = - schedules[s].next
      BY <1>2, <1>3, <2>1, <2>4
    <3> QED BY <3>6, <3>7 DEF Patient
  <2> QED BY <1>2, <2>1, <2>2, <2>3, <2>4
<1>14. ASSUME NEW t \in Workers, NEW s \in ticks'[t].due
       PROVE  Patient(s, 1 + ticks[t].lag)'
  <2>1. s \in ticks[t].due /\ s \in Sites /\ ticks[t].lag = 0
    BY <1>1, <1>4, <1>14, ServedTypes
  <2>2. ticks'[t].lag = 1
    BY <1>4, <2>1 DEF IInv, LocksInv, LockInv
  <2>3. Taken(- schedules[s].next - 1) <= Cardinality(Sites) - 1
    BY <2>1 DEF ServedInv, Patient
  <2>4. /\ - schedules'[s].next - 2 \in Int /\ - schedules[s].next - 1 \in Int
        /\ - schedules'[s].next - 2 <= - schedules[s].next - 1
    BY <1>2, <1>3, <2>1
  <2>5. Taken(- schedules'[s].next - 2) <= Taken(- schedules[s].next - 1)
    BY <2>4, Times
  <2>6. /\ Taken(- schedules'[s].next - 2) \in Int
        /\ Taken(- schedules[s].next - 1) \in Int /\ Cardinality(Sites) \in Nat
    BY <2>4, Times, ServedTypes
  <2>7. Taken(- schedules'[s].next - 2) <= Cardinality(Sites) - 1
    BY <2>3, <2>5, <2>6
  <2> QED BY <2>2, <2>7 DEF Patient
<1> QED BY <1>3, <1>6, <1>9, <1>12, <1>13, <1>14 DEF ServedInv

\* Schedules that have just been set up wait for their first instant.
LEMMA SetUpInv ==
  ASSUME SetUp, \A i \in Intervals : MaxJitter[i] + 1 < i
  PROVE  IInv /\ ServedInv
<1>1. PICK age \in [Sites -> 0 .. 1], i \in Intervals :
        /\ schedules = [s \in Sites |-> [st |-> "set", active |-> TRUE, interval |-> i,
                                         next |-> i - age[s], last |-> Null]]
        /\ inflight = [s \in Sites |-> [manual |-> 0, scheduled |-> 0]]
        /\ ticks = [t \in Workers |-> IdleTick]
        /\ fired = {}
        /\ puts = [p \in Puts |-> IdlePut]
        /\ triggers = {}
        /\ disturbed = Sites
        /\ used = [puts |-> Cardinality(Sites), triggers |-> 0, faults |-> 0]
  BY DEF SetUp
<1>2. i \in Nat /\ i > 1 /\ MaxJitter[i] \in Nat /\ MaxLate \in Nat
  BY Numbers
<1>3. \A s \in Sites : i - age[s] \in Int /\ i - age[s] >= 1 /\ i - age[s] <= i
  BY <1>2
<1>4. \A s \in Sites : /\ schedules[s].active /\ schedules[s].interval = i
                       /\ schedules[s].next = i - age[s]
  BY <1>1
<1>5. \A s \in Sites : schedules[s] \in Rows /\ Planned(schedules[s])
  BY <1>1, <1>2, <1>3 DEF Rows, Planned, Instants
<1>6. \A t \in Workers : ticks[t] = IdleTick
  BY <1>1
<1>7. IdleTick \in Tickings /\ IdleTick.due = {} /\ IdleTick.pc = "idle" /\ IdleTick.lag = 0
  BY DEF IdleTick, Tickings
<1>8. IdlePut \in Requests /\ IdlePut.pc = "idle"
  BY DEF IdlePut, Requests
<1>9. Cardinality(Sites) \in Nat
  BY PolicyAssumption, FS_CardinalityType
<1>10. TypeOK
  <2>1. schedules \in [Sites -> Rows]
    BY <1>1, <1>5
  <2> QED BY <1>1, <1>7, <1>8, <1>9, <2>1 DEF TypeOK
<1>11. PlansInv
  BY <1>1, <1>5, <1>8 DEF PlansInv
<1>12. LocksInv
  BY <1>6, <1>7 DEF LocksInv, LockInv
<1>13. OneScheduledRun
  BY <1>1 DEF OneScheduledRun
<1>14. \A s \in Sites : Patient(s, 1)
  <2>1. SUFFICES ASSUME NEW s \in Sites PROVE Patient(s, 1)
    OBVIOUS
  <2> DEFINE n == - schedules[s].next - 1
  <2>2. n \in Int /\ n <= 0
    BY <1>3, <1>4
  <2> HIDE DEF n
  <2>3. Taken(n) <= 0 /\ Taken(n) \in Int
    BY <2>2, Times
  <2>4. Cardinality(Sites) >= 1
    BY <1>9, PolicyAssumption, FS_EmptySet
  <2>5. Taken(n) <= Cardinality(Sites) - 1
    BY <1>9, <2>3, <2>4
  <2> QED BY <2>5 DEF Patient, n
<1>15. ServedInv
  <2>1. FullBatches
    BY <1>6, <1>7 DEF FullBatches, Holding
  <2>2. QueueShrinks
    BY <1>3, <1>4 DEF QueueShrinks
  <2> QED BY <1>4, <1>6, <1>7, <1>14, <2>1, <2>2 DEF ServedInv
<1> QED BY <1>10, <1>11, <1>12, <1>13, <1>15 DEF IInv

\* As long as nothing fails, every step serves the oldest first.
LEMMA ServedStep ==
  ASSUME Puts = {}, \A i \in Intervals : MaxJitter[i] + 1 < i,
         IInv, Calm => ServedInv, [Next]_vars, Calm'
  PROVE  ServedInv'
<1>1. used.faults \in Nat /\ used'.faults = 0 /\ ~ MayMiss
  BY DEF IInv, TypeOK, Calm
<1>2. ~ Fault
  BY <1>1 DEF Fault, IInv, TypeOK
<1>3. ASSUME used' = used PROVE ServedInv
  BY <1>1, <1>3 DEF Calm
<1>4. CASE UNCHANGED vars
  <2>1. ServedInv /\ UNCHANGED <<schedules, ticks, fired>>
    BY <1>3, <1>4 DEF vars
  <2> QED BY <2>1, QuietStep DEF Holding, LateTick, OwedTick, Uncommitted
<1>5. ASSUME NEW t \in Workers, StartTick(t) PROVE ServedInv'
  <2>1. ServedInv
    BY <1>3, <1>5 DEF StartTick
  <2>2. /\ ticks[t].pc = "idle" /\ ticks[t].due = {} /\ schedules' = schedules
        /\ fired' = fired \cup {t}
        /\ \A u \in Workers : ticks'[u] = IF u = t THEN [IdleTick EXCEPT !.pc = "starting"]
                                          ELSE ticks[u]
    BY <1>5 DEF StartTick, Tick, IInv, TypeOK, LocksInv, LockInv
  <2>3. LET tick == [IdleTick EXCEPT !.pc = "starting"] IN
          tick.pc = "starting" /\ tick.due = {} /\ tick.lag = 0
    BY DEF IdleTick
  <2>4. ~ Uncommitted(t) /\ Uncommitted(t)' /\ ~ Holding(t)'
    BY <2>2, <2>3 DEF Uncommitted, Holding
  <2>5. \A u \in Workers \ {t} : ticks'[u] = ticks[u]
    BY <2>2
  <2>6. LateTick => LateTick'
    BY <2>4, <2>5 DEF LateTick, Uncommitted, Holding
  <2>7. OwedTick'
    BY <2>2, <2>3, <2>4 DEF OwedTick
  <2>8. \A u \in Workers : Holding(u)' => Holding(u) /\ ticks'[u].lag = ticks[u].lag
    BY <2>4, <2>5 DEF Holding
  <2>9. \A u \in Workers : /\ ticks'[u].due = ticks[u].due
                           /\ ticks[u].due # {} => ticks'[u].lag = ticks[u].lag
    BY <2>2, <2>3, <2>5
  <2> QED BY <2>1, <2>2, <2>6, <2>7, <2>8, <2>9, QuietStep
<1>6. ASSUME NEW t \in Workers, Probe(t) \/ EndTick(t) \/ \E s \in Sites : EnqueueRun(t, s)
      PROVE  ServedInv'
  <2>1. ServedInv /\ schedules' = schedules /\ fired' = fired
    BY <1>3, <1>6 DEF Probe, EndTick, EnqueueRun
  <2>2. PICK tick :
          /\ ticks' = [ticks EXCEPT ![t] = tick] /\ tick.due = ticks[t].due
          /\ \/ /\ tick.pc = "advancing" /\ ticks[t].pc = "locked"
                /\ tick.lag = ticks[t].lag
             \/ /\ tick.pc \in {"idle", "enqueuing"} /\ ticks[t].pc = "enqueuing"
                /\ ticks[t].due = {}
    <3>1. ticks[t] \in Tickings /\ LockInv(t)
      BY ServedTypes, <2>1 DEF IInv, LocksInv
    <3>2. CASE Probe(t)
      <4> DEFINE blocked == website_ids_with_active_runs(ticks[t].due)
      <4>1. /\ ticks[t].pc = "locked"
            /\ ticks' = [ticks EXCEPT ![t] = [ticks[t] EXCEPT !.pc = "advancing",
                                                             !.blocked = blocked]]
        BY <3>2 DEF Probe, Tick
      <4> HIDE DEF blocked
      <4>2. LET tick == [ticks[t] EXCEPT !.pc = "advancing", !.blocked = blocked] IN
              tick.pc = "advancing" /\ tick.due = ticks[t].due /\ tick.lag = ticks[t].lag
        BY <3>1 DEF Tickings
      <4> QED BY <4>1, <4>2
    <3>3. CASE EndTick(t)
      <4>1. /\ ticks[t].pc = "enqueuing" /\ ticks[t].due = {}
            /\ ticks' = [ticks EXCEPT ![t] = IdleTick]
        BY <3>1, <3>3 DEF EndTick, Tick, LockInv
      <4>2. IdleTick.pc = "idle" /\ IdleTick.due = {}
        BY DEF IdleTick
      <4> QED BY <4>1, <4>2
    <3>4. CASE \E s \in Sites : EnqueueRun(t, s)
      <4>1. PICK s \in Sites : EnqueueRun(t, s)
        BY <3>4
      <4> DEFINE created == ticks[t].created \ {s}
      <4>2. /\ ticks[t].pc = "enqueuing" /\ ticks[t].due = {}
            /\ ticks' = [ticks EXCEPT ![t] = [ticks[t] EXCEPT !.created = created]]
        BY <3>1, <4>1 DEF EnqueueRun, Tick, LockInv
      <4> HIDE DEF created
      <4>3. LET tick == [ticks[t] EXCEPT !.created = created] IN
              tick.pc = "enqueuing" /\ tick.due = {}
        BY <3>1, <4>2 DEF Tickings
      <4> QED BY <4>2, <4>3
    <3> QED BY <1>6, <3>2, <3>3, <3>4
  <2>3. \A u \in Workers : ticks'[u] = IF u = t THEN tick ELSE ticks[u]
    BY <2>2 DEF IInv, TypeOK
  <2>4. \A u \in Workers : /\ Holding(u)' => Holding(u) /\ ticks'[u].lag = ticks[u].lag
                           /\ ticks'[u].due = ticks[u].due
                           /\ ticks[u].due # {} => ticks'[u].lag = ticks[u].lag
    BY <2>2, <2>3 DEF Holding
  <2>5. \A u \in Workers : Uncommitted(u) => Uncommitted(u)' /\ ticks'[u].lag = ticks[u].lag
    BY <2>2, <2>3 DEF Uncommitted, Holding
  <2>6. (LateTick => LateTick') /\ (OwedTick => OwedTick')
    BY <2>1, <2>5 DEF LateTick, OwedTick
  <2> QED BY <2>1, <2>4, <2>6, QuietStep
<1>7. ASSUME NEW s \in Sites, CheckTrigger(s) \/ trigger_run(s) \/ RunEnds(s) PROVE ServedInv'
  <2>1. UNCHANGED <<schedules, ticks, fired>> /\ used'.faults = used.faults
    BY <1>7 DEF CheckTrigger, trigger_run, RunEnds, IInv, TypeOK
  <2>2. ServedInv
    BY <1>1, <2>1 DEF Calm
  <2> QED BY <2>1, <2>2, QuietStep DEF Holding, LateTick, OwedTick, Uncommitted
<1>8. ASSUME NEW t \in Workers, LockDue(t) PROVE ServedInv'
  BY <1>3, <1>8, LockServed DEF LockDue
<1>9. ASSUME NEW t \in Workers, AdvanceDue(t) PROVE ServedInv'
  BY <1>3, <1>9, AdvanceServed DEF AdvanceDue
<1>10. CASE Minute
  BY <1>1, <1>3, <1>10, MinuteServed DEF Minute
<1> QED
  BY <1>2, <1>4, <1>5, <1>6, <1>7, <1>8, <1>9, <1>10
  DEF Next, TickStep, TickFails, TickCancelled, EnqueueFails, delete_website

\* Once every website has its schedule and no PUT follows, no schedule is overdue
\* longer than the batches before it, its own and the one that a tick may be late
\* take, however many schedules are due: an interval must outlast its jitter by
\* more than a minute, as every preset of the code does.
THEOREM OldestServed ==
  ASSUME Puts = {}, \A i \in Intervals : MaxJitter[i] + 1 < i
  PROVE  SetUpSpec => []OverdueServed
<1> DEFINE Inv == IInv /\ (Calm => ServedInv)
<1>1. SetUp => Inv
  BY SetUpInv
<1>2. Inv /\ [Next]_vars => Inv'
  <2> SUFFICES ASSUME Inv, [Next]_vars PROVE IInv' /\ (Calm' => ServedInv')
    BY DEF Calm
  <2> QED BY StepInv, ServedStep
<1>3. Inv => OverdueServed
  <2> SUFFICES ASSUME IInv, ServedInv, NEW s \in Sites
               PROVE  - schedules[s].next * BatchLimit < Cardinality(Sites) + 2 * BatchLimit
    BY DEF OverdueServed, Calm
  <2> DEFINE late == - schedules[s].next - 2
  <2>1. late \in Int /\ Cardinality(Sites) \in Nat
    BY ServedTypes
  <2>2. PICK lag \in {0, 1} : Patient(s, 1 + lag)
    <3>1. CASE s \in Sites \ Locked
      BY <3>1 DEF ServedInv
    <3>2. CASE s \in Locked
      BY <3>2, ServedTypes DEF ServedInv, Locked
    <3> QED BY <3>1, <3>2
  <2>3. Taken(late) <= Cardinality(Sites) - 1
    <3> DEFINE n == - schedules[s].next - (1 + lag)
    <3>1. n \in Int /\ late <= n
      BY <2>1, ServedTypes
    <3>2. Taken(n) <= Cardinality(Sites) - 1
      BY <2>2 DEF Patient
    <3> HIDE DEF n, late
    <3> QED BY <2>1, <3>1, <3>2, Fewer
  <2>4. - schedules[s].next * BatchLimit = Taken(late) + 2 * BatchLimit
    BY ServedTypes, Times
  <2> HIDE DEF late
  <2>5. Taken(late) \in Int /\ BatchLimit \in Nat /\ BatchLimit >= 1
    BY <2>1, Times
  <2> QED BY <2>1, <2>3, <2>4, <2>5
<1> HIDE DEF Inv
<1> QED BY <1>1, <1>2, <1>3, PTL DEF SetUpSpec

=============================================================================
