------------------------------ MODULE Admission ------------------------------
(***************************************************************************)
(* trigger_run: whether one user's request for a crawl is admitted.  Three *)
(* reads (a run in progress on the website, the user's manual runs in      *)
(* progress, all the user's runs of the last day), an insert, an enqueue;  *)
(* nothing holds a lock across them.                                       *)
(*                                                                         *)
(* Ages stand for instants.  A run ends within a day (its timeouts see to  *)
(* that), and one that is too old for every request's window no longer     *)
(* counts for anything and is left out of the table.                       *)
(***************************************************************************)
EXTENDS Integers, FiniteSets

CONSTANTS
  OwnSites,         \* the user's websites
  TriggerRequests,         \* requests the user has open at the same time
  ConcurrencyLimit, \* max_concurrent_runs_per_user
  DailyLimit,       \* max_runs_per_day_per_user
  Day,              \* 24 hours
  MaxLag,           \* bound on the age of a request's `now`
  MaxScheduled      \* bound on scheduled runs that count at one time

Nobody == "nobody"

ASSUME AdmissionAssumption ==
  /\ {ConcurrencyLimit, DailyLimit, Day} \subseteq Nat \ {0} /\ {MaxLag, MaxScheduled} \subseteq Nat
  /\ IsFiniteSet(TriggerRequests) /\ Nobody \notin TriggerRequests

VARIABLES
  owned,    \* websites that exist
  started,  \* run id -> the user's run: [site, manual, active, age, by]
  asked,    \* request -> where it is
  promise   \* the last daily 429: how long until its resets_at

admissionVars == <<owned, started, asked, promise>>

NoRequest == [at |-> "none", site |-> Nobody, lag |-> 0]

AdmissionInit ==
  /\ owned = OwnSites /\ started = <<>> /\ promise = 0
  /\ asked = [q \in TriggerRequests |-> NoRequest]

Count1(Test(_)) == Cardinality({i \in DOMAIN started : Test(started[i])})

\* An id that no row has.
fresh_id == CHOOSE id \in 1 .. Cardinality(DOMAIN started) + 1 : id \notin DOMAIN started

Inserted(run) ==
  [i \in DOMAIN started \cup {fresh_id} |-> IF i = fresh_id THEN run ELSE started[i]]

Remaining(Test(_)) == [i \in {j \in DOMAIN started : Test(started[j])} |-> started[i]]

Answer1(q) == asked' = [asked EXCEPT ![q] = NoRequest]
GoOn(q, at) == asked' = [asked EXCEPT ![q].at = at]

-----------------------------------------------------------------------------

Ask(q, s) ==
  /\ asked[q].at = "none" /\ s \in owned
  /\ asked' = [asked EXCEPT ![q] = [at |-> "active", site |-> s, lag |-> 0]]
  /\ UNCHANGED <<owned, started, promise>>

\* 409 if there is one; else `now` is taken.
get_active_for_website(q) ==
  /\ asked[q].at = "active"
  /\ IF \E i \in DOMAIN started : started[i].active /\ started[i].site = asked[q].site
     THEN Answer1(q)
     ELSE asked' = [asked EXCEPT ![q].at = "concurrent", ![q].lag = 0]
  /\ UNCHANGED <<owned, started, promise>>

active_manual == Count1(LAMBDA run : run.active /\ run.manual)

\* Mutant: the limit itself is let through.
over_limit(count, limit) == count > limit

at_limit(count, limit) == count >= limit

count_active_manual_for_user(q) ==
  /\ asked[q].at = "concurrent"
  /\ IF at_limit(active_manual, ConcurrencyLimit) THEN Answer1(q) ELSE GoOn(q, "daily")
  /\ UNCHANGED <<owned, started, promise>>

oldest_started(ages) == CHOOSE a \in ages : \A b \in ages : a >= b

\* The window goes back a day from the request's `now`.
count_and_oldest_since_for_user(q) ==
  LET Since(run) == run.age < Day + asked[q].lag
      ages == {started[i].age : i \in {j \in DOMAIN started : Since(started[j])}} IN
  /\ asked[q].at = "daily"
  /\ IF at_limit(Count1(Since), DailyLimit)
     THEN Answer1(q) /\ promise' = Day - oldest_started(ages)
     ELSE GoOn(q, "insert") /\ UNCHANGED promise
  /\ UNCHANGED <<owned, started>>

\* 404 if the website has been deleted since.
insert_manual(q) ==
  /\ asked[q].at = "insert"
  /\ IF asked[q].site \in owned
     THEN /\ started' = Inserted([site |-> asked[q].site, manual |-> TRUE, active |-> TRUE,
                                  age |-> 0, by |-> q])
          /\ GoOn(q, "enqueue")
     ELSE Answer1(q) /\ UNCHANGED started
  /\ UNCHANGED <<owned, promise>>

MineOf(q) == {i \in DOMAIN started : started[i].by = q}
Forget(q, run) == IF run.by = q THEN [run EXCEPT !.by = Nobody] ELSE run
ForgotBy(q) == [i \in DOMAIN started |-> Forget(q, started[i])]

Enqueued(q) ==
  /\ asked[q].at = "enqueue"
  /\ Answer1(q) /\ started' = ForgotBy(q)
  /\ UNCHANGED <<owned, promise>>

EnqueueRaised(q) ==
  /\ asked[q].at = "enqueue"
  /\ GoOn(q, "abandon")
  /\ UNCHANGED <<owned, started, promise>>

\* UPDATE ... WHERE status = 'pending': what a worker has finished stays as it is.
abandoned(q) ==
  [i \in DOMAIN started |-> IF i \in MineOf(q) THEN [started[i] EXCEPT !.active = FALSE] ELSE started[i]]

\* 503.  The job may have reached Redis all the same, and a worker taken the run.
abandon(q) ==
  /\ asked[q].at = "abandon"
  /\ GoOn(q, "503") /\ started' = abandoned(q)
  /\ UNCHANGED <<owned, promise>>

\* The update fails too, or finds the run claimed: it stays for the reaper.
AbandonFails(q) ==
  /\ asked[q].at = "abandon"
  /\ Answer1(q) /\ started' = ForgotBy(q)
  /\ UNCHANGED <<owned, promise>>

Answered503(q) ==
  /\ asked[q].at = "503"
  /\ Answer1(q) /\ started' = ForgotBy(q)
  /\ UNCHANGED <<owned, promise>>

-----------------------------------------------------------------------------

\* The cron tick asks for no user's caps.
RunScheduled(s) ==
  /\ s \in owned
  /\ Count1(LAMBDA run : run.site = s /\ run.active) = 0
  /\ Count1(LAMBDA run : ~ run.manual) < MaxScheduled
  /\ started' = Inserted([site |-> s, manual |-> FALSE, active |-> TRUE, age |-> 0, by |-> Nobody])
  /\ UNCHANGED <<owned, asked, promise>>

ActiveEnds(i) ==
  /\ i \in DOMAIN started /\ started[i].active
  /\ started' = [started EXCEPT ![i].active = FALSE]
  /\ UNCHANGED <<owned, asked, promise>>

\* The runs go with their website, and so may a slot before its time.
DeleteOwned(s) ==
  /\ s \in owned /\ owned' = owned \ {s}
  /\ started' = Remaining(LAMBDA run : run.site # s)
  /\ promise' = 0
  /\ UNCHANGED asked

HourPasses ==
  /\ \A q \in TriggerRequests : asked[q].at # "none" => asked[q].lag < MaxLag
  /\ \A i \in DOMAIN started : started[i].active => started[i].age < Day - 1
  /\ LET young == Remaining(LAMBDA run : run.age + 1 < Day + MaxLag)
     IN  started' = [i \in DOMAIN young |-> [young[i] EXCEPT !.age = @ + 1]]
  /\ asked' = [q \in TriggerRequests |-> IF asked[q].at = "none" THEN asked[q]
                                  ELSE [asked[q] EXCEPT !.lag = @ + 1]]
  /\ promise' = IF promise > 0 THEN promise - 1 ELSE 0
  /\ UNCHANGED owned

AdmissionNext ==
  \/ \E q \in TriggerRequests :
       \/ \E s \in OwnSites : Ask(q, s)
       \/ get_active_for_website(q) \/ count_active_manual_for_user(q)
       \/ count_and_oldest_since_for_user(q) \/ insert_manual(q)
       \/ Enqueued(q) \/ EnqueueRaised(q) \/ abandon(q) \/ AbandonFails(q) \/ Answered503(q)
  \/ \E s \in OwnSites : RunScheduled(s) \/ DeleteOwned(s)
  \/ \E i \in DOMAIN started : ActiveEnds(i)
  \/ HourPasses

AdmissionSpec == AdmissionInit /\ [][AdmissionNext]_admissionVars

-----------------------------------------------------------------------------

\* The races trigger_run accepts let through no more runs than there are requests
\* beyond their checks: the user's manual runs, in progress or of one day, exceed
\* the limits by fewer than the requests open at one time.
CapsHold ==
  /\ active_manual <= ConcurrencyLimit - 1 + Cardinality(TriggerRequests)
  /\ Count1(LAMBDA run : run.manual /\ run.age < Day) <= DailyLimit - 1 + Cardinality(TriggerRequests)

\* "The earliest moment a slot can free": until the resets_at of a daily 429 has
\* come, the window stays full, unless a website is deleted.
FloorHonest == promise > 0 => at_limit(Count1(LAMBDA run : run.age < Day), DailyLimit)

\* A 503 whose update went through holds no slot: its run is not in progress.
RefusedHoldsNoSlot ==
  \A q \in TriggerRequests : asked[q].at = "503" => \A i \in MineOf(q) : ~ started[i].active

\* What a user is told of the caps under concurrent triggers holds: they exceed them
\* by the requests in the window between check and insert at most, a 429 sends
\* nobody away for longer than the window stays full, and a 503 takes no slot.
LimitsKept == CapsHold /\ FloorHonest /\ RefusedHoldsNoSlot
=============================================================================
