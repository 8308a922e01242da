---------------------------- MODULE RunLifecycle ----------------------------
(***************************************************************************)
(* The life of crawl runs: the request (or cron tick) that inserts a run   *)
(* and enqueues a job for it, the arq queue in Redis, the worker slots     *)
(* that claim, crawl, upload and record, their failures, cancellations and *)
(* crashes, the reaper that rescues what they strand, and the deletion of  *)
(* a website under all of them.                                            *)
(*                                                                         *)
(* Time is discrete. A timestamp of the code is kept as the AGE it has now *)
(* (capped where no comparison tells larger ages apart), an expiry as the  *)
(* WAIT that is left of it; Tick moves them all.                           *)
(***************************************************************************)
EXTENDS Integers, Sequences, FiniteSets

CONSTANTS
  Runs,             \* run ids
  Slots,            \* concurrently running jobs, of one worker or several
  NoJob,            \* what an idle slot works on
  MaxAttempts,      \* policy.MAX_ATTEMPTS, also arq's max_tries
  RetryDelays,      \* policy.RETRY_DELAYS_SECONDS
  JobTimeout,       \* policy.JOB_TIMEOUT_SECONDS
  CleanupTime,      \* longest a cancelled job takes to unwind
  StuckAfter,       \* policy.STUCK_AFTER_SECONDS
  OrphanAfter,      \* policy.ORPHANED_PENDING_AFTER_SECONDS
  ReapLimit,        \* runs.service.REAP_BATCH_LIMIT
  InProgressTTL,    \* arq: life of the in-progress key of a started job
  KeepResult,       \* arq: life of the result key of a finished job
  MaxFaults,        \* bound on the faults and deletions of a behaviour
  ReleaseReplyLost  \* may a seed failure's release commit and yet be seen to fail?

Fresh == -1                       \* an enqueue without _job_id: a random id
NoClaim == -1                     \* claimed_at IS NULL

JobIds == [run : Runs, tag : Fresh .. MaxAttempts]
crawl_job_id(r, attempts) == [run |-> r, tag |-> attempts]

ASSUME PolicyAssumption ==
  /\ MaxAttempts \in Nat \ {0}
  /\ JobTimeout \in Nat /\ CleanupTime \in Nat /\ OrphanAfter \in Nat
  /\ StuckAfter \in Nat /\ JobTimeout + CleanupTime <= StuckAfter
  /\ ReapLimit \in Nat \ {0}
ASSUME QueueAssumption ==
  /\ NoJob \notin JobIds
  /\ InProgressTTL \in Nat /\ KeepResult \in Nat \ {0}
  /\ RetryDelays \in Seq(Nat) /\ Len(RetryDelays) > 0
ASSUME FaultAssumption == MaxFaults \in Nat /\ ReleaseReplyLost \in BOOLEAN

VARIABLES
  runs,      \* the runs table: [status, attempts, startAge, claimAge]
  stored,    \* Storage: the attempt whose payload is at the run's path, 0 if none
  jobs,      \* Redis: [st, wait, try] of every job id
  slots,     \* worker slots: [pc, job, attempts, elapsed, redeliver]
  api,       \* the request or tick that creates the run
  sweep,     \* the reaper's to_enqueue: <<run, attempts>> pairs still to enqueue
  faults     \* faults and deletions so far

vars == <<runs, stored, jobs, slots, api, sweep, faults>>

AgeCap == 1 + IF StuckAfter > OrphanAfter THEN StuckAfter ELSE OrphanAfter

IdleSlot == [pc |-> "idle", job |-> NoJob, attempts |-> 0, elapsed |-> 0, redeliver |-> FALSE]

Init ==
  /\ runs = [r \in Runs |-> [status |-> "absent", attempts |-> 0,
                             startAge |-> 0, claimAge |-> NoClaim]]
  /\ stored = [r \in Runs |-> 0]
  /\ jobs = [j \in JobIds |-> [st |-> "none", wait |-> 0, try |-> 0]]
  /\ slots = [w \in Slots |-> IdleSlot]
  /\ api = [r \in Runs |-> "idle"]
  /\ sweep = {}
  /\ faults = 0

-----------------------------------------------------------------------------
(* The guarded statements of runs_writer.py, as what they make of a row.    *)

insert(row) == [row EXCEPT !.status = "pending"]

\* Mutant: the UPDATE without AND status = 'pending'.
claim_any(row) ==
  [row EXCEPT !.status = "processing", !.attempts = @ + 1, !.claimAge = 0]

claim_pending(row) ==
  IF row.status = "pending"
  THEN [row EXCEPT !.status = "processing", !.attempts = @ + 1, !.claimAge = 0]
  ELSE row

return_processing_to_pending(row) ==
  IF row.status = "processing"
  THEN [row EXCEPT !.status = "pending", !.claimAge = NoClaim]
  ELSE row

\* Nothing asks how old a run is that has ended: its ages are dropped.
Ended(row, status) == [row EXCEPT !.status = status, !.startAge = 0, !.claimAge = NoClaim]

mark_processing_completed(row) ==
  IF row.status = "processing" THEN Ended(row, "completed") ELSE row

mark_processing_failed(row) ==
  IF row.status = "processing" THEN Ended(row, "failed") ELSE row

\* Mutant: abandoning whatever the run has become meanwhile.
mark_failed_any(row) == Ended(row, "failed")

mark_failed(row) ==
  IF row.status = "pending" THEN Ended(row, "failed") ELSE row

Write(r, row) == runs' = [runs EXCEPT ![r] = row]

\* A statement whose caller sees an error: it may have committed or not.
WriteInDoubt(r, row) == runs' = runs \/ Write(r, row)

Fault == faults < MaxFaults /\ faults' = faults + 1

-----------------------------------------------------------------------------
(* Redis and arq.                                                           *)

\* Enqueuing an id that still has a job or a result is refused (None).
enqueue_job(j) ==
  IF jobs[j].st = "none"
  THEN [jobs EXCEPT ![j] = [st |-> "queued", wait |-> 0, try |-> 0]]
  ELSE jobs

\* The job is over: its keys go, its result stays for a while.
Finished(j) == [jobs EXCEPT ![j] = [st |-> "done", wait |-> KeepResult, try |-> 0]]

\* The job stays in the queue, due in `delay`; its try count stays too.
Requeued(j, delay) ==
  IF jobs[j].st = "running"
  THEN [jobs EXCEPT ![j].st = "queued", ![j].wait = delay] ELSE jobs

\* Due, and not in progress: the in-progress key of a lost worker expires.
Deliverable(j) == jobs[j].st \in {"queued", "running"} /\ jobs[j].wait = 0

retry_delay_seconds(attempt) ==
  RetryDelays[IF attempt < 1 THEN 1
              ELSE IF attempt > Len(RetryDelays) THEN Len(RetryDelays) ELSE attempt]

-----------------------------------------------------------------------------
(* Creating a run: insert, commit, then enqueue (trigger_run and the tick). *)

Insert(r) ==
  /\ runs[r].status = "absent"
  /\ Write(r, insert(runs[r]))
  /\ api' = [api EXCEPT ![r] = "enqueue"]
  /\ UNCHANGED <<stored, jobs, slots, sweep, faults>>

Enqueue(r) ==
  /\ api[r] = "enqueue"
  /\ jobs' = enqueue_job(crawl_job_id(r, Fresh))
  /\ api' = [api EXCEPT ![r] = "idle"]
  /\ UNCHANGED <<runs, stored, slots, sweep, faults>>

\* enqueue_job raises, although the job may have reached Redis.
EnqueueRaises(r) ==
  /\ api[r] = "enqueue" /\ Fault
  /\ jobs' = jobs \/ jobs' = enqueue_job(crawl_job_id(r, Fresh))
  /\ api' = [api EXCEPT ![r] = "abandon"]
  /\ UNCHANGED <<runs, stored, slots, sweep>>

abandon_unqueued_run(r) ==
  /\ api[r] = "abandon"
  /\ Write(r, mark_failed(runs[r]))
  /\ api' = [api EXCEPT ![r] = "idle"]
  /\ UNCHANGED <<stored, jobs, slots, sweep, faults>>

\* The process dies between the steps, or abandoning raises (and is swallowed).
ApiStops(r) ==
  /\ api[r] \in {"enqueue", "abandon"} /\ Fault
  /\ api' = [api EXCEPT ![r] = "idle"]
  /\ UNCHANGED <<runs, stored, jobs, slots, sweep>>

\* The runs of a website go with it, whatever is being done for them; their
\* payloads and jobs stay.
delete_website(S) ==
  /\ S # {} /\ Fault
  /\ \A r \in S : runs[r].status \notin {"absent", "deleted"}
  /\ runs' = [r \in Runs |-> IF r \in S THEN Ended(runs[r], "deleted") ELSE runs[r]]
  /\ UNCHANGED <<stored, jobs, slots, api, sweep>>

-----------------------------------------------------------------------------
(* A worker slot.                                                           *)

Run(w) == slots[w].job.run
Attempt(w) == slots[w].attempts

Goto(w, pc) == slots' = [slots EXCEPT ![w].pc = pc]

StartJob(w, j) ==
  /\ slots[w].pc = "idle" /\ Deliverable(j)
  /\ jobs[j].try < MaxAttempts
  /\ jobs' = [jobs EXCEPT ![j] = [st |-> "running", wait |-> InProgressTTL, try |-> @.try + 1]]
  /\ slots' = [slots EXCEPT ![w] = [IdleSlot EXCEPT !.pc = "reading", !.job = j]]
  /\ UNCHANGED <<runs, stored, api, sweep, faults>>

\* max_tries is spent: arq drops the job without running it.
GiveUpJob(w, j) ==
  /\ slots[w].pc = "idle" /\ Deliverable(j)
  /\ jobs[j].try >= MaxAttempts
  /\ jobs' = Finished(j)
  /\ UNCHANGED <<runs, stored, slots, api, sweep, faults>>

\* execute_run: get_run, and the early return when the run is not pending.
ReadRun(w) ==
  /\ slots[w].pc = "reading"
  /\ Goto(w, IF runs[Run(w)].status = "pending" THEN "claiming" ELSE "ending")
  /\ UNCHANGED <<runs, stored, jobs, api, sweep, faults>>

claim_for_processing(w) ==
  /\ slots[w].pc = "claiming"
  /\ LET row == claim_pending(runs[Run(w)]) IN
       /\ Write(Run(w), row)
       /\ IF row = runs[Run(w)]
          THEN Goto(w, "ending")
          ELSE slots' = [slots EXCEPT ![w].pc = "crawling", ![w].attempts = row.attempts]
  /\ UNCHANGED <<stored, jobs, api, sweep, faults>>

\* A database error before the claim is known: the job fails, for good.
ClaimRaises(w) ==
  /\ slots[w].pc \in {"reading", "claiming"} /\ Fault
  /\ IF slots[w].pc = "claiming"
     THEN WriteInDoubt(Run(w), claim_pending(runs[Run(w)])) ELSE runs' = runs
  /\ Goto(w, "ending")
  /\ UNCHANGED <<stored, jobs, api, sweep>>

\* Mutant: an upload without x-upsert, its conflict taken for a success.
UploadOnce(w) ==
  /\ slots[w].pc = "crawling"
  /\ stored' = [stored EXCEPT ![Run(w)] = IF @ = 0 THEN Attempt(w) ELSE @]
  /\ Goto(w, "recording")
  /\ UNCHANGED <<runs, jobs, api, sweep, faults>>

\* The object is overwritten at the run's path, whatever was there.
Store(w) == stored' = [stored EXCEPT ![Run(w)] = Attempt(w)]

\* The upload a cancelled or killed crawl may have had under way.
StoreInDoubt(w) == stored' = stored \/ (slots[w].pc = "crawling" /\ Store(w))

\* The crawl, the artifacts and the upload of the payload all succeed.
Upload(w) ==
  /\ slots[w].pc = "crawling"
  /\ Store(w)
  /\ Goto(w, "recording")
  /\ UNCHANGED <<runs, jobs, api, sweep, faults>>

\* What _finish_failed_attempt is about to write; the seed branch of
\* execute_run calls it inside the try, the except clause outside of it.
Verdict(attempts, retryable) ==
  IF retryable /\ attempts < MaxAttempts THEN "releasing" ELSE "failing"
SeedVerdict(attempts, retryable) ==
  IF retryable /\ attempts < MaxAttempts THEN "seed_releasing" ELSE "seed_failing"

SeedFails(w, retryable) ==
  /\ slots[w].pc = "crawling"
  /\ Goto(w, SeedVerdict(Attempt(w), retryable))
  /\ UNCHANGED <<runs, stored, jobs, api, sweep, faults>>

\* Anything else raises; a failed upload is retryable and may have landed.
CrawlRaises(w, retryable) ==
  /\ slots[w].pc = "crawling"
  /\ Goto(w, Verdict(Attempt(w), retryable))
  /\ stored' = stored \/ (retryable /\ Store(w))
  /\ UNCHANGED <<runs, jobs, api, sweep, faults>>

record_success(w) ==
  /\ slots[w].pc = "recording"
  /\ Write(Run(w), mark_processing_completed(runs[Run(w)]))
  /\ Goto(w, "publishing")
  /\ UNCHANGED <<stored, jobs, api, sweep, faults>>

RecordRaises(w, retryable) ==
  /\ slots[w].pc = "recording" /\ Fault
  /\ WriteInDoubt(Run(w), mark_processing_completed(runs[Run(w)]))
  /\ Goto(w, Verdict(Attempt(w), retryable))
  /\ UNCHANGED <<stored, jobs, api, sweep>>

release_claim(w) ==
  /\ slots[w].pc \in {"releasing", "seed_releasing"}
  /\ Write(Run(w), return_processing_to_pending(runs[Run(w)]))
  /\ Goto(w, "retrying")
  /\ UNCHANGED <<stored, jobs, api, sweep, faults>>

record_failure(w) ==
  /\ slots[w].pc \in {"failing", "seed_failing"}
  /\ Write(Run(w), mark_processing_failed(runs[Run(w)]))
  /\ Goto(w, "ending")
  /\ UNCHANGED <<stored, jobs, api, sweep, faults>>

\* The verdict cannot be written. From the except clause the error leaves
\* execute_run; from the seed branch the except clause judges it once more.
FinishRaises(w, retryable) ==
  /\ Fault
  /\ \/ /\ slots[w].pc = "releasing"
        /\ WriteInDoubt(Run(w), return_processing_to_pending(runs[Run(w)]))
        /\ Goto(w, "ending")
     \/ /\ slots[w].pc = "failing"
        /\ WriteInDoubt(Run(w), mark_processing_failed(runs[Run(w)]))
        /\ Goto(w, "ending")
     \/ /\ slots[w].pc = "seed_releasing"
        /\ \/ runs' = runs
           \/ ReleaseReplyLost /\ Write(Run(w), return_processing_to_pending(runs[Run(w)]))
        /\ Goto(w, Verdict(Attempt(w), retryable))
     \/ /\ slots[w].pc = "seed_failing"
        /\ WriteInDoubt(Run(w), mark_processing_failed(runs[Run(w)]))
        /\ Goto(w, Verdict(Attempt(w), retryable))
  /\ UNCHANGED <<stored, jobs, api, sweep>>

\* TransientCrawlError becomes arq's Retry, deferred by the ladder.
Retry(w) ==
  /\ slots[w].pc = "retrying"
  /\ jobs' = Requeued(slots[w].job, retry_delay_seconds(Attempt(w)))
  /\ slots' = [slots EXCEPT ![w] = IdleSlot]
  /\ UNCHANGED <<runs, stored, api, sweep, faults>>

\* CancelledError at an await. Around the claim and in the except clause it
\* leaves execute_run at once, with the statement in flight in doubt; inside
\* the try it is recovered from first; while publishing it ends the job.
Cancel(w, redeliver) ==
  /\ \/ slots[w].pc \in {"reading", "publishing"} /\ runs' = runs
     \/ slots[w].pc = "claiming" /\ WriteInDoubt(Run(w), claim_pending(runs[Run(w)]))
     \/ /\ slots[w].pc = "releasing"
        /\ WriteInDoubt(Run(w), return_processing_to_pending(runs[Run(w)]))
     \/ /\ slots[w].pc \in {"failing", "seed_failing"}
        /\ WriteInDoubt(Run(w), mark_processing_failed(runs[Run(w)]))
     \/ slots[w].pc = "crawling" /\ runs' = runs
     \/ /\ slots[w].pc = "recording"
        /\ WriteInDoubt(Run(w), mark_processing_completed(runs[Run(w)]))
     \/ /\ slots[w].pc = "seed_releasing"
        /\ \/ runs' = runs
           \/ ReleaseReplyLost /\ Write(Run(w), return_processing_to_pending(runs[Run(w)]))
  /\ slots' = [slots EXCEPT
                 ![w].pc = IF @ \in {"crawling", "recording", "seed_releasing", "seed_failing"}
                           THEN "cancelled" ELSE "ending",
                 ![w].redeliver = redeliver]
  /\ StoreInDoubt(w)
  /\ UNCHANGED <<jobs, api, sweep>>

\* A deploy's SIGTERM, once the drain budget is over.
Deploy(w) == Fault /\ Cancel(w, TRUE)

\* arq's job_timeout: a cancellation that ends the job.
Timeout(w) == slots[w].elapsed >= JobTimeout /\ UNCHANGED faults /\ Cancel(w, FALSE)

\* Mutant: a cancelled attempt is always handed back.
RecoveredAlways(row, attempts) == return_processing_to_pending(row)

Recovered(row, attempts) ==
  IF attempts >= MaxAttempts
  THEN mark_processing_failed(row) ELSE return_processing_to_pending(row)

recover_cancelled_attempt(w) ==
  /\ slots[w].pc = "cancelled"
  /\ Write(Run(w), Recovered(runs[Run(w)], Attempt(w)))
  /\ Goto(w, "ending")
  /\ UNCHANGED <<stored, jobs, api, sweep, faults>>

\* The recovery's own write raises: logged, and left to the reaper.
RecoverRaises(w) ==
  /\ slots[w].pc = "cancelled" /\ Fault
  /\ WriteInDoubt(Run(w), Recovered(runs[Run(w)], Attempt(w)))
  /\ Goto(w, "ending")
  /\ UNCHANGED <<stored, jobs, api, sweep>>

\* arq redelivers a job cancelled by a deploy, and no other that ends here.
FinishJob(w) ==
  /\ slots[w].pc \in {"ending", "publishing"}
  /\ jobs' = IF slots[w].redeliver THEN Requeued(slots[w].job, 0)
             ELSE Finished(slots[w].job)
  /\ slots' = [slots EXCEPT ![w] = IdleSlot]
  /\ UNCHANGED <<runs, stored, api, sweep, faults>>

\* The process is killed: the row and the in-progress key stay as they are.
Crash(w) ==
  /\ slots[w].pc # "idle" /\ Fault
  /\ slots' = [slots EXCEPT ![w] = IdleSlot]
  /\ StoreInDoubt(w)
  /\ UNCHANGED <<runs, jobs, api, sweep>>

-----------------------------------------------------------------------------
(* The reaper.                                                              *)

\* Mutant: staleness measured from started_at.
StuckAgeFromStart(r) == runs[r].startAge

\* COALESCE(claimed_at, started_at)
StuckAge(r) ==
  IF runs[r].claimAge = NoClaim THEN runs[r].startAge ELSE runs[r].claimAge

\* Mutant: the threshold without its grace.
ReapableNoGrace(r) ==
  \/ runs[r].status = "processing" /\ StuckAge(r) >= JobTimeout
  \/ runs[r].status = "pending" /\ runs[r].startAge > OrphanAfter

\* Mutant: a reaper that only looks at claimed runs.
ReapableClaimed(r) == runs[r].status = "processing" /\ StuckAge(r) > StuckAfter

Reapable(r) ==
  \/ runs[r].status = "processing" /\ StuckAge(r) > StuckAfter
  \/ runs[r].status = "pending" /\ runs[r].startAge > OrphanAfter

\* The batches ORDER BY started_at LIMIT may return.
lock_reapable ==
  LET due == {r \in Runs : Reapable(r)} IN
    {S \in SUBSET due :
       /\ IF Cardinality(due) <= ReapLimit THEN S = due ELSE Cardinality(S) = ReapLimit
       /\ \A r \in S, q \in due \ S : runs[r].startAge >= runs[q].startAge}

\* Mutant: the reaper never gives a run up.
ReapedAlways(row) == IF row.status = "pending" THEN row ELSE return_processing_to_pending(row)

Reaped(row) ==
  IF row.status = "pending" THEN row
  ELSE IF row.attempts >= MaxAttempts
  THEN mark_processing_failed(row) ELSE return_processing_to_pending(row)

\* One transaction over the batch; the enqueues follow its commit.
reap_stuck_runs ==
  /\ sweep = {}
  /\ \E S \in lock_reapable :
       /\ S # {}
       /\ runs' = [r \in Runs |-> IF r \in S THEN Reaped(runs[r]) ELSE runs[r]]
       /\ sweep' = {<<r, runs[r].attempts>> :
                      r \in {q \in S : Reaped(runs[q]).status = "pending"}}
  /\ UNCHANGED <<stored, jobs, slots, api, faults>>

enqueue_reaped(x) ==
  /\ x \in sweep
  /\ jobs' = enqueue_job(crawl_job_id(x[1], x[2]))
  /\ sweep' = sweep \ {x}
  /\ UNCHANGED <<runs, stored, slots, api, faults>>

ReapedEnqueueRaises(x) ==
  /\ x \in sweep /\ Fault
  /\ jobs' = jobs \/ jobs' = enqueue_job(crawl_job_id(x[1], x[2]))
  /\ sweep' = sweep \ {x}
  /\ UNCHANGED <<runs, stored, slots, api>>

ReaperStops ==
  /\ sweep # {} /\ Fault
  /\ sweep' = {}
  /\ UNCHANGED <<runs, stored, jobs, slots, api>>

-----------------------------------------------------------------------------
(* Time.                                                                    *)

Older(age) == IF age < AgeCap THEN age + 1 ELSE age

Aged(row) ==
  [row EXCEPT !.startAge = IF row.status \in {"pending", "processing"} THEN Older(@) ELSE @,
              !.claimAge = IF row.status = "processing" /\ @ # NoClaim THEN Older(@) ELSE @]

Waited(job) ==
  IF job.wait = 0 THEN job
  ELSE IF job.st = "done" /\ job.wait = 1 THEN [st |-> "none", wait |-> 0, try |-> 0]
  ELSE [job EXCEPT !.wait = @ - 1]

\* A job is cancelled at its timeout, and a cancelled job unwinds in time.
Deadline(slot) ==
  IF slot.pc \in {"cancelled", "ending", "retrying"} THEN JobTimeout + CleanupTime
  ELSE JobTimeout

Tick ==
  /\ \A w \in Slots : slots[w].pc # "idle" => slots[w].elapsed < Deadline(slots[w])
  /\ runs' = [r \in Runs |-> Aged(runs[r])]
  /\ jobs' = [j \in JobIds |-> Waited(jobs[j])]
  /\ slots' = [w \in Slots |->
                 IF slots[w].pc = "idle" THEN slots[w]
                 ELSE [slots[w] EXCEPT !.elapsed = @ + 1]]
  /\ UNCHANGED <<stored, api, sweep, faults>>

-----------------------------------------------------------------------------
ApiStep(r) == Enqueue(r) \/ abandon_unqueued_run(r)

\* What a slot does without the help of the network or the database.
Unwind(w) == Timeout(w) \/ recover_cancelled_attempt(w) \/ Retry(w) \/ FinishJob(w)

Start(w, j) == StartJob(w, j) \/ GiveUpJob(w, j)

SlotStep(w) ==
  \/ \E j \in JobIds : Start(w, j)
  \/ ReadRun(w) \/ claim_for_processing(w) \/ Upload(w) \/ record_success(w)
  \/ release_claim(w) \/ record_failure(w)
  \/ \E retryable \in BOOLEAN : SeedFails(w, retryable) \/ CrawlRaises(w, retryable)
  \/ Unwind(w)

SlotFault(w) ==
  \/ ClaimRaises(w) \/ RecoverRaises(w) \/ Deploy(w) \/ Crash(w)
  \/ \E retryable \in BOOLEAN : RecordRaises(w, retryable) \/ FinishRaises(w, retryable)

ReaperStep == reap_stuck_runs \/ \E x \in sweep : enqueue_reaped(x)

Progress ==
  \/ \E r \in Runs : Insert(r) \/ ApiStep(r)
  \/ \E w \in Slots : SlotStep(w)
  \/ ReaperStep
  \/ Tick

\* What goes wrong, or is taken away, around the workers.
OutsideFault ==
  \/ \E r \in Runs : EnqueueRaises(r) \/ ApiStops(r)
  \/ \E S \in SUBSET Runs : delete_website(S)
  \/ ReaperStops
  \/ \E x \in sweep : ReapedEnqueueRaises(x)

Next == Progress \/ OutsideFault \/ \E w \in Slots : SlotFault(w)

Spec == Init /\ [][Next]_vars

\* No fairness for the crawl, the upload or the verdict's write: each may hang
\* until arq's timeout, every time. Requests finish, the reaper's cron keeps
\* firing, cancelled jobs unwind, time passes, arq gets round to every due job,
\* and the database does not time out for ever on the two steps of a claim.
Fairness ==
  /\ \A r \in Runs : WF_vars(ApiStep(r))
  /\ \A r \in Runs : SF_vars(\E w \in Slots, j \in JobIds : j.run = r /\ Start(w, j))
  /\ \A w \in Slots : /\ SF_vars(ReadRun(w)) /\ SF_vars(claim_for_processing(w))
                      /\ WF_vars(Unwind(w))
  /\ WF_vars(ReaperStep)
  /\ WF_vars(Tick)

FairSpec == Spec /\ Fairness
-----------------------------------------------------------------------------
(* Properties.                                                              *)

Row == [status : {"absent", "pending", "processing", "completed", "failed", "deleted"},
        attempts : 0 .. MaxAttempts, startAge : 0 .. AgeCap, claimAge : NoClaim .. AgeCap]

Job == [st : {"none", "queued", "running", "done"}, wait : Nat, try : 0 .. MaxAttempts]

\* The attempt is being worked on; its row must be the slot's alone.
Working == {"crawling", "recording", "seed_releasing", "seed_failing"}

\* The attempt is over, its verdict is still to be written.
Handling == {"releasing", "failing", "cancelled"}

Slot == [pc : {"idle", "reading", "claiming", "retrying", "publishing", "ending"}
                \cup Working \cup Handling,
         job : JobIds \cup {NoJob}, attempts : 0 .. MaxAttempts,
         elapsed : 0 .. JobTimeout + CleanupTime, redeliver : BOOLEAN]

\* Every variable has its type, attempts and running times within their bounds.
TypeOK ==
  /\ runs \in [Runs -> Row]
  /\ stored \in [Runs -> 0 .. MaxAttempts]
  /\ jobs \in [JobIds -> Job]
  /\ slots \in [Slots -> Slot]
  /\ \A w \in Slots : slots[w].pc # "idle" => slots[w].job \in JobIds
  /\ api \in [Runs -> {"idle", "enqueue", "abandon"}]
  /\ sweep \in SUBSET (Runs \X (0 .. MaxAttempts))
  /\ faults \in 0 .. MaxFaults

Holds(w) == slots[w].pc \in Working \cup Handling

\* Two workers never hold an attempt of the same run: whatever is redelivered,
\* enqueued twice, swept early or retried, no site is crawled twice at once.
ClaimExclusive ==
  \A v, w \in Slots : v # w /\ Holds(v) /\ Holds(w) => Run(v) # Run(w)

\* The attempt a worker holds is the run's latest, and while it works on it the
\* row stays processing unless its website is deleted: no reaper, retry or
\* abandon takes it away from it.
ClaimHonoured ==
  \A w \in Slots :
    /\ Holds(w) => runs[Run(w)].attempts = Attempt(w)
    /\ slots[w].pc \in Working => runs[Run(w)].status \in {"processing", "deleted"}

\* A run waiting for a claim has budget left for it, so no interleaving of
\* retries, cancellations and sweeps grants attempt MaxAttempts + 1.
PendingHasBudget ==
  \A r \in Runs : runs[r].status = "pending" => runs[r].attempts < MaxAttempts

\* The payload stored for a completed run is the one of the attempt that
\* completed it: no earlier attempt overwrites it late.
PayloadMatchesRow ==
  \A r \in Runs : runs[r].status = "completed" => stored[r] = runs[r].attempts

Record == INSTANCE RunRecord WITH
  rows <- [r \in Runs |-> [status |-> runs[r].status, attempts |-> runs[r].attempts]]

\* Queue, workers and reaper together move each run as RunRecord allows:
\* attempts one at a time within the budget, and outcomes final until deleted.
ImplementsRecord == Record!Spec

\* A run that was created reaches an outcome even if every crawl hangs: what a
\* crash, a lost enqueue, a deploy or a timeout strands is picked up again.
EveryRunEnds ==
  \A r \in Runs :
    runs[r].status = "pending" ~> runs[r].status \in {"completed", "failed", "deleted"}
-----------------------------------------------------------------------------
(* What a comment of the code says, and the code does not keep.             *)

\* Moving a run backwards "is the undo for a claim this worker made"
\* (runs_writer.py): no worker hands back an attempt that is another's.
UndoesOwnClaim ==
  [][\A w \in Slots :
       (/\ slots[w].pc \in {"releasing", "seed_releasing", "cancelled"}
        /\ slots'[w].pc # slots[w].pc
        /\ runs[Run(w)].status = "processing" /\ runs'[Run(w)].status = "pending")
         => runs[Run(w)].attempts = Attempt(w)]_vars
=============================================================================
