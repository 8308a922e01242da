------------------------- MODULE RunLifecycleProofs -------------------------
(***************************************************************************)
(* What RunLifecycle's TLC runs check on small instances, proved for every *)
(* number of runs and slots and every policy that leaves the reaper its    *)
(* grace (PolicyAssumption), when a seed failure's release does not commit *)
(* behind its caller's back (~ReleaseReplyLost).                           *)
(***************************************************************************)
EXTENDS RunLifecycle, TLAPS

\* What a row promises by itself and to its payload.
RowOK(row, payload) ==
  /\ row \in Row
  /\ row.status = "absent" => row.attempts = 0
  /\ row.status = "pending" => row.attempts < MaxAttempts
  /\ row.status = "completed" => payload = row.attempts

Held(slot) == slot.pc \in Working \cup Handling

\* What a held attempt is owed by its row, and how old its claim can be.
SlotOK(slot, row, payload) ==
  /\ row.attempts = slot.attempts
  /\ slot.pc \in Working => row.status \in {"processing", "deleted"}
  /\ row.status \in {"processing", "completed", "failed", "deleted"}
  /\ row.status = "processing" => row.claimAge # NoClaim /\ row.claimAge <= slot.elapsed
  /\ slot.pc \in {"releasing", "seed_releasing"} => slot.attempts < MaxAttempts
  /\ slot.pc = "recording" => payload = slot.attempts

RowsInv == \A r \in Runs : RowOK(runs[r], stored[r])

SlotsInv ==
  \A w \in Slots : Held(slots[w]) => SlotOK(slots[w], runs[Run(w)], stored[Run(w)])

IInv == TypeOK /\ RowsInv /\ SlotsInv /\ ClaimExclusive

-----------------------------------------------------------------------------
(* The policy's numbers, and what the statements make of a row.             *)

\* Arithmetic facts about the policy.
LEMMA Bounds ==
  /\ JobTimeout + CleanupTime \in Nat
  /\ AgeCap \in Nat
  /\ StuckAfter < AgeCap
  /\ JobTimeout + CleanupTime <= StuckAfter
  /\ MaxAttempts \in Nat /\ MaxAttempts > 0
  /\ NoClaim = -1 /\ Fresh = -1
BY PolicyAssumption DEF AgeCap, NoClaim, Fresh

\* The ladder's clamp never leaves it.
LEMMA DelayType ==
  ASSUME NEW a \in Nat
  PROVE  retry_delay_seconds(a) \in Nat
BY QueueAssumption DEF retry_delay_seconds

\* No statement takes a row out of its type; a claim needs budget left.
LEMMA StatementTypes ==
  ASSUME NEW row \in Row
  PROVE  /\ return_processing_to_pending(row) \in Row
         /\ mark_processing_completed(row) \in Row
         /\ mark_processing_failed(row) \in Row
         /\ mark_failed(row) \in Row
         /\ insert(row) \in Row
         /\ Ended(row, "deleted") \in Row
         /\ row.status = "pending" /\ row.attempts < MaxAttempts => claim_pending(row) \in Row
<1>1. /\ MaxAttempts \in Nat /\ AgeCap \in Nat
      /\ NoClaim \in NoClaim .. AgeCap /\ 0 \in NoClaim .. AgeCap
  BY Bounds
<1>2. /\ mark_processing_completed(row) \in Row /\ mark_processing_failed(row) \in Row
      /\ mark_failed(row) \in Row /\ insert(row) \in Row /\ Ended(row, "deleted") \in Row
  <2>1. 0 \in 0 .. AgeCap
    BY <1>1
  <2>2. \A status \in {"completed", "failed", "deleted"} : Ended(row, status) \in Row
    BY <1>1, <2>1 DEF Row, Ended
  <2>3. insert(row) \in Row
    BY DEF Row, insert
  <2> QED BY <2>2, <2>3 DEF mark_processing_completed, mark_processing_failed, mark_failed
<1>3. return_processing_to_pending(row) \in Row
  BY <1>1 DEF Row, return_processing_to_pending
<1>4. ASSUME row.attempts < MaxAttempts
      PROVE  row.attempts + 1 \in 0 .. MaxAttempts
  BY <1>1, <1>4 DEF Row
<1>5. row.status = "pending" /\ row.attempts < MaxAttempts => claim_pending(row) \in Row
  BY <1>1, <1>4 DEF Row, claim_pending
<1> QED BY <1>2, <1>3, <1>5

\* One slot moves on, its run's row and payload with it: the invariant holds
\* again if nobody else holds that run, or if row and payload stay.
LEMMA OneSlotMoves ==
  ASSUME IInv, NEW w \in Slots, NEW r \in Runs, NEW row, NEW payload \in 0 .. MaxAttempts,
         NEW s \in Slot,
         s.pc # "idle" => s.job \in JobIds /\ s.job.run = r,
         RowOK(row, payload),
         Held(s) => SlotOK(s, row, payload),
         \/ \A v \in Slots : v # w /\ Held(slots[v]) => Run(v) # r
         \/ /\ row = runs[r] /\ payload = stored[r]
            /\ Held(s) => Held(slots[w]) /\ Run(w) = r,
         runs' = [runs EXCEPT ![r] = row],
         stored' = [stored EXCEPT ![r] = payload],
         slots' = [slots EXCEPT ![w] = s]
  PROVE  /\ runs' \in [Runs -> Row] /\ stored' \in [Runs -> 0 .. MaxAttempts]
         /\ slots' \in [Slots -> Slot]
         /\ (\A v \in Slots : slots[v].pc # "idle" => slots[v].job \in JobIds)'
         /\ RowsInv' /\ SlotsInv' /\ ClaimExclusive'
<1>1. runs' \in [Runs -> Row] /\ stored' \in [Runs -> 0 .. MaxAttempts]
      /\ slots' \in [Slots -> Slot]
  BY DEF IInv, TypeOK, RowOK
<1>2. (\A v \in Slots : slots[v].pc # "idle" => slots[v].job \in JobIds)'
  BY DEF IInv, TypeOK
<1>3. RowsInv'
  BY DEF IInv, TypeOK, RowsInv
<1>4. SlotsInv'
  <2> SUFFICES ASSUME NEW v \in Slots, Held(slots'[v])
               PROVE  SlotOK(slots'[v], runs'[slots'[v].job.run], stored'[slots'[v].job.run])
    BY DEF SlotsInv, Run
  <2>1. CASE v = w
    <3>1. slots'[v] = s
      BY <2>1 DEF IInv, TypeOK
    <3>2. s.job.run = r
      BY <3>1 DEF Held, Working, Handling
    <3> QED BY <3>1, <3>2 DEF IInv, TypeOK
  <2>2. CASE v # w
    <3>1. slots'[v] = slots[v]
      BY <2>2 DEF IInv, TypeOK
    <3>2. SlotOK(slots[v], runs[Run(v)], stored[Run(v)])
      BY <3>1 DEF IInv, SlotsInv
    <3>3. Run(v) \in Runs
      BY <3>1 DEF IInv, TypeOK, Held, Working, Handling, Run, JobIds
    <3>4. runs'[Run(v)] = runs[Run(v)] /\ stored'[Run(v)] = stored[Run(v)]
      BY <2>2, <3>1, <3>3 DEF IInv, TypeOK
    <3> QED BY <3>1, <3>2, <3>4 DEF Run
  <2> QED BY <2>1, <2>2
<1>5. ClaimExclusive'
  <2> SUFFICES ASSUME NEW u \in Slots, NEW v \in Slots, u # v,
                      Held(slots'[u]), Held(slots'[v]),
                      slots'[u].job.run = slots'[v].job.run
               PROVE  FALSE
    BY DEF ClaimExclusive, Holds, Held, Run
  <2>1. \A x \in Slots : x # w => slots'[x] = slots[x]
    BY DEF IInv, TypeOK
  <2>2. slots'[w] = s
    BY DEF IInv, TypeOK
  <2>3. \A x, y \in Slots : x # y /\ Held(slots[x]) /\ Held(slots[y]) => Run(x) # Run(y)
    BY DEF IInv, ClaimExclusive, Holds, Held
  <2>4. Held(s) => s.job.run = r
    BY DEF Held, Working, Handling
  <2>5. \A x \in Slots : x # w /\ Held(slots[x]) /\ Held(s) => Run(x) # r
    BY <2>3
  <2> QED BY <2>1, <2>2, <2>3, <2>4, <2>5 DEF Run
<1> QED BY <1>1, <1>2, <1>3, <1>4, <1>5

-----------------------------------------------------------------------------
(* The queue's variables keep their types whatever is done to a job.        *)

QueueTypes ==
  /\ jobs \in [JobIds -> Job]
  /\ api \in [Runs -> {"idle", "enqueue", "abandon"}]
  /\ sweep \in SUBSET (Runs \X (0 .. MaxAttempts))
  /\ faults \in 0 .. MaxFaults

\* Finishing, requeuing and enqueuing keep every job a job.
LEMMA JobTypes ==
  ASSUME jobs \in [JobIds -> Job], NEW j \in JobIds, NEW delay \in Nat
  PROVE  /\ Finished(j) \in [JobIds -> Job]
         /\ Requeued(j, delay) \in [JobIds -> Job]
         /\ enqueue_job(j) \in [JobIds -> Job]
<1>1. KeepResult \in Nat /\ 0 \in 0 .. MaxAttempts /\ 0 \in Nat
  BY QueueAssumption, Bounds
<1>2. Finished(j) \in [JobIds -> Job]
  BY <1>1 DEF Finished, Job
<1>3. Requeued(j, delay) \in [JobIds -> Job]
  BY <1>1 DEF Requeued, Job
<1>4. enqueue_job(j) \in [JobIds -> Job]
  BY <1>1 DEF enqueue_job, Job
<1> QED BY <1>2, <1>3, <1>4

\* The ids the code builds for a run are ids of the queue.
LEMMA JobIdType ==
  ASSUME NEW r \in Runs, NEW a \in Fresh .. MaxAttempts
  PROVE  crawl_job_id(r, a) \in JobIds
BY DEF crawl_job_id, JobIds

\* A fault stays within its bound.
LEMMA FaultType ==
  ASSUME faults \in 0 .. MaxFaults, Fault \/ UNCHANGED faults
  PROVE  faults' \in 0 .. MaxFaults
BY FaultAssumption DEF Fault

\* Nothing but the queue, the request or the reaper's list changes.
LEMMA RowsUntouched ==
  ASSUME IInv, UNCHANGED <<runs, stored, slots>>, QueueTypes'
  PROVE  IInv'
BY DEF IInv, TypeOK, QueueTypes, RowsInv, SlotsInv, ClaimExclusive, Holds, Run

\* A run that was not claimed, or was given back, is nobody's.
LEMMA NobodyHolds ==
  ASSUME IInv, NEW r \in Runs, runs[r].status \in {"absent", "pending"}
  PROVE  \A w \in Slots : Held(slots[w]) => Run(w) # r
<1> SUFFICES ASSUME NEW w \in Slots, Held(slots[w]), Run(w) = r
             PROVE  FALSE
  OBVIOUS
<1>1. SlotOK(slots[w], runs[r], stored[r])
  BY DEF IInv, SlotsInv
<1> QED BY <1>1 DEF SlotOK

\* A row moves that no slot holds: an insert or an abandon.
LEMMA FreeRowMoves ==
  ASSUME IInv, NEW r \in Runs, runs[r].status \in {"absent", "pending"}, NEW row,
         RowOK(row, stored[r]), Write(r, row), UNCHANGED <<stored, slots>>, QueueTypes'
  PROVE  IInv'
<1>1. runs' \in [Runs -> Row]
  BY DEF IInv, TypeOK, RowOK, Write
<1>2. RowsInv'
  BY DEF IInv, TypeOK, RowsInv, Write
<1>3. \A w \in Slots : Held(slots[w]) => Run(w) \in Runs /\ Run(w) # r
  BY NobodyHolds DEF IInv, TypeOK, Held, Working, Handling, Run, JobIds
<1>4. \A w \in Slots : Held(slots[w]) => runs'[Run(w)] = runs[Run(w)]
  BY <1>3 DEF Write, IInv, TypeOK
<1>5. SlotsInv'
  BY <1>4 DEF IInv, SlotsInv, Run
<1>6. ClaimExclusive'
  BY DEF IInv, ClaimExclusive, Holds, Run
<1> QED BY <1>1, <1>2, <1>5, <1>6 DEF IInv, TypeOK, QueueTypes

-----------------------------------------------------------------------------
(* Steps of a slot that holds an attempt.                                   *)

\* What the slot goes on to must suit the row it leaves behind.
Suits(w, pc, row, payload) ==
  /\ row.attempts = Attempt(w)
  /\ row.status \in {"processing", "completed", "failed", "deleted"}
  /\ row.status = "processing" =>
       runs[Run(w)].status = "processing" /\ row.claimAge = runs[Run(w)].claimAge
  /\ pc \in Working => row.status \in {"processing", "deleted"}
  /\ pc \in {"releasing", "seed_releasing"} => Attempt(w) < MaxAttempts
  /\ pc = "recording" => payload = Attempt(w)

PCs == {"idle", "reading", "claiming", "retrying", "publishing", "ending"}
         \cup Working \cup Handling

\* A slot that holds an attempt moves on, with its row and payload.
LEMMA HeldMoves ==
  ASSUME IInv, NEW w \in Slots, Held(slots[w]), NEW pc \in PCs \ {"idle"},
         NEW redeliver \in BOOLEAN, NEW row, NEW payload \in 0 .. MaxAttempts,
         RowOK(row, payload),
         pc \in Working \cup Handling => Suits(w, pc, row, payload),
         runs' = [runs EXCEPT ![Run(w)] = row],
         stored' = [stored EXCEPT ![Run(w)] = payload],
         slots' = [slots EXCEPT ![w].pc = pc, ![w].redeliver = redeliver],
         QueueTypes'
  PROVE  IInv'
<1> DEFINE s == [slots[w] EXCEPT !.pc = pc, !.redeliver = redeliver]
<1>1. slots[w] \in Slot /\ slots[w].job \in JobIds /\ Run(w) \in Runs
  BY DEF IInv, TypeOK, Held, Working, Handling, Run, JobIds
<1>2. /\ s \in Slot /\ s.pc = pc /\ s.job = slots[w].job
      /\ s.attempts = slots[w].attempts /\ s.elapsed = slots[w].elapsed
  BY <1>1 DEF Slot, PCs
<1>3. SlotOK(slots[w], runs[Run(w)], stored[Run(w)])
  BY DEF IInv, SlotsInv
<1>4. Held(s) => SlotOK(s, row, payload)
  BY <1>2, <1>3 DEF Held, SlotOK, Suits, Attempt
<1>5. \A v \in Slots : v # w /\ Held(slots[v]) => Run(v) # Run(w)
  BY DEF IInv, ClaimExclusive, Holds, Held
<1>6. slots' = [slots EXCEPT ![w] = s]
  BY DEF IInv, TypeOK
<1>7. s.pc # "idle" => s.job \in JobIds /\ s.job.run = Run(w)
  BY <1>1, <1>2 DEF Run
<1> HIDE DEF s
<1> QED BY <1>1, <1>2, <1>4, <1>5, <1>6, <1>7, OneSlotMoves DEF IInv, TypeOK, QueueTypes

\* The statements a held attempt is ended with, and the one row they act on.
LEMMA HeldFacts ==
  ASSUME IInv, NEW w \in Slots, Held(slots[w])
  PROVE  /\ slots[w] \in Slot /\ Run(w) \in Runs /\ Attempt(w) \in 0 .. MaxAttempts
         /\ runs[Run(w)] \in Row /\ stored[Run(w)] \in 0 .. MaxAttempts
         /\ RowOK(runs[Run(w)], stored[Run(w)])
         /\ SlotOK(slots[w], runs[Run(w)], stored[Run(w)])
         /\ runs = [runs EXCEPT ![Run(w)] = runs[Run(w)]]
         /\ stored = [stored EXCEPT ![Run(w)] = stored[Run(w)]]
<1>1. slots[w] \in Slot /\ slots[w].job \in JobIds /\ Run(w) \in Runs
  BY DEF IInv, TypeOK, Held, Working, Handling, Run, JobIds
<1>2. Attempt(w) \in 0 .. MaxAttempts
  BY <1>1 DEF Slot, Attempt
<1> QED BY <1>1, <1>2 DEF IInv, TypeOK, RowsInv, SlotsInv

\* A plain move of the program counter, as HeldMoves wants it.
LEMMA GotoMoves ==
  ASSUME IInv, NEW w \in Slots, NEW pc, Goto(w, pc)
  PROVE  /\ slots' = [slots EXCEPT ![w].pc = pc, ![w].redeliver = slots[w].redeliver]
         /\ slots[w].redeliver \in BOOLEAN
BY DEF IInv, TypeOK, Goto, Slot

\* Whatever a verdict's statement makes of a held row is a good row again.
LEMMA VerdictRows ==
  ASSUME IInv, NEW w \in Slots, Held(slots[w])
  PROVE  /\ Attempt(w) < MaxAttempts =>
              RowOK(return_processing_to_pending(runs[Run(w)]), stored[Run(w)])
         /\ RowOK(mark_processing_failed(runs[Run(w)]), stored[Run(w)])
         /\ stored[Run(w)] = Attempt(w) =>
              RowOK(mark_processing_completed(runs[Run(w)]), stored[Run(w)])
<1> DEFINE row == runs[Run(w)]
<1>1. row \in Row /\ RowOK(row, stored[Run(w)]) /\ row.attempts = Attempt(w)
  BY HeldFacts DEF SlotOK, Attempt
<1>2. /\ return_processing_to_pending(row) \in Row
      /\ mark_processing_completed(row) \in Row /\ mark_processing_failed(row) \in Row
  BY <1>1, StatementTypes
<1>3. \A q : /\ return_processing_to_pending(row) = q =>
                  q.attempts = row.attempts /\ q.status \in {row.status, "pending"}
             /\ mark_processing_completed(row) = q =>
                  q.attempts = row.attempts /\ q.status \in {row.status, "completed"}
             /\ mark_processing_failed(row) = q =>
                  q.attempts = row.attempts /\ q.status \in {row.status, "failed"}
  BY <1>1 DEF return_processing_to_pending, mark_processing_completed,
              Ended, mark_processing_failed, Row
<1> HIDE DEF row
<1>4. Attempt(w) < MaxAttempts => RowOK(return_processing_to_pending(row), stored[Run(w)])
  BY <1>1, <1>2, <1>3 DEF RowOK
<1>5. RowOK(mark_processing_failed(row), stored[Run(w)])
  BY <1>1, <1>2, <1>3 DEF RowOK
<1>6. stored[Run(w)] = Attempt(w) => RowOK(mark_processing_completed(row), stored[Run(w)])
  BY <1>1, <1>2, <1>3 DEF RowOK
<1> QED BY <1>4, <1>5, <1>6 DEF row

\* Failing and completing never leave a held row's slot without its attempt.
LEMMA VerdictSuits ==
  ASSUME IInv, NEW w \in Slots, Held(slots[w]), NEW pc \in Handling,
         pc = "releasing" => Attempt(w) < MaxAttempts,
         NEW row \in {runs[Run(w)], mark_processing_failed(runs[Run(w)]),
                      mark_processing_completed(runs[Run(w)])}
  PROVE  Suits(w, pc, row, stored[Run(w)])
BY HeldFacts DEF SlotOK, Suits, Ended, mark_processing_failed, mark_processing_completed, Row,
   Handling, Working, Attempt

\* A failure is given back only while budget is left for another attempt.
LEMMA VerdictPC ==
  ASSUME NEW a \in 0 .. MaxAttempts, NEW retryable \in BOOLEAN
  PROVE  /\ Verdict(a, retryable) \in {"releasing", "failing"}
         /\ Verdict(a, retryable) = "releasing" => a < MaxAttempts
         /\ SeedVerdict(a, retryable) \in {"seed_releasing", "seed_failing"}
         /\ SeedVerdict(a, retryable) = "seed_releasing" => a < MaxAttempts
BY DEF Verdict, SeedVerdict

\* A queue that is left alone, but for the count of faults.
LEMMA QuietQueue ==
  ASSUME IInv, UNCHANGED <<jobs, api, sweep>>, Fault \/ UNCHANGED faults
  PROVE  QueueTypes'
BY FaultType DEF IInv, TypeOK, QueueTypes

\* Crawling, uploading and judging an attempt.
LEMMA CrawlSteps ==
  ASSUME IInv, NEW w \in Slots, NEW retryable \in BOOLEAN,
         \/ Upload(w) \/ SeedFails(w, retryable) \/ CrawlRaises(w, retryable)
  PROVE  IInv'
<1> DEFINE row == runs[Run(w)]
<1>1. Held(slots[w]) /\ slots[w].pc = "crawling"
  BY DEF Upload, SeedFails, CrawlRaises, Held, Working
<1>2. /\ RowOK(row, stored[Run(w)]) /\ row.attempts = Attempt(w)
      /\ row.status \in {"processing", "deleted"}
      /\ RowOK(row, Attempt(w)) /\ Attempt(w) \in 0 .. MaxAttempts
      /\ stored[Run(w)] \in 0 .. MaxAttempts
  BY <1>1, HeldFacts DEF SlotOK, Attempt, RowOK, Working
<1>3. QueueTypes' /\ runs' = [runs EXCEPT ![Run(w)] = row]
  BY <1>1, HeldFacts, QuietQueue DEF Upload, SeedFails, CrawlRaises
<1>4. CASE Upload(w)
  <2>1. Goto(w, "recording") /\ stored' = [stored EXCEPT ![Run(w)] = Attempt(w)]
    BY <1>4 DEF Upload, Store
  <2>2. Suits(w, "recording", row, Attempt(w))
    BY <1>2 DEF Suits
  <2>3. "recording" \in PCs \ {"idle"}
    BY DEF PCs, Working
  <2> QED BY <1>1, <1>2, <1>3, <2>1, <2>2, <2>3, GotoMoves, HeldMoves
<1>5. CASE SeedFails(w, retryable)
  <2> DEFINE pc == SeedVerdict(Attempt(w), retryable)
  <2>1. Goto(w, pc) /\ stored' = [stored EXCEPT ![Run(w)] = stored[Run(w)]]
    BY <1>1, <1>5, HeldFacts DEF SeedFails
  <2>2. pc \in {"seed_releasing", "seed_failing"}
        /\ (pc = "seed_releasing" => Attempt(w) < MaxAttempts)
    BY <1>2, VerdictPC
  <2> HIDE DEF pc
  <2>3. Suits(w, pc, row, stored[Run(w)]) /\ pc \in PCs \ {"idle"}
    BY <1>2, <2>2 DEF Suits, PCs, Working
  <2> QED BY <1>1, <1>2, <1>3, <2>1, <2>3, GotoMoves, HeldMoves
<1>6. CASE CrawlRaises(w, retryable)
  <2> DEFINE pc == Verdict(Attempt(w), retryable)
  <2>1. PICK payload \in {stored[Run(w)], Attempt(w)} :
          Goto(w, pc) /\ stored' = [stored EXCEPT ![Run(w)] = payload]
    BY <1>1, <1>6, HeldFacts DEF CrawlRaises, Store
  <2>2. pc \in {"releasing", "failing"} /\ (pc = "releasing" => Attempt(w) < MaxAttempts)
    BY <1>2, VerdictPC
  <2> HIDE DEF pc
  <2>3. Suits(w, pc, row, payload) /\ pc \in PCs \ {"idle"}
    BY <1>2, <2>2 DEF Suits, PCs, Working, Handling
  <2>4. RowOK(row, payload) /\ payload \in 0 .. MaxAttempts
    BY <1>2
  <2> QED BY <1>1, <1>3, <2>1, <2>3, <2>4, GotoMoves, HeldMoves
<1> QED BY <1>4, <1>5, <1>6

\* Writing an attempt's outcome, when the statement and its reply go through.
LEMMA VerdictSteps ==
  ASSUME IInv, NEW w \in Slots,
         \/ record_success(w) \/ release_claim(w) \/ record_failure(w)
         \/ recover_cancelled_attempt(w)
  PROVE  IInv'
<1> DEFINE row == runs[Run(w)]
<1>1. Held(slots[w])
  BY DEF record_success, release_claim, record_failure, recover_cancelled_attempt,
         Held, Working, Handling
<1>2. /\ slots[w].pc \in {"releasing", "seed_releasing"} => Attempt(w) < MaxAttempts
      /\ slots[w].pc = "recording" => stored[Run(w)] = Attempt(w)
      /\ Attempt(w) \in 0 .. MaxAttempts /\ stored[Run(w)] \in 0 .. MaxAttempts
  BY <1>1, HeldFacts DEF SlotOK, Attempt
<1>3. QueueTypes' /\ stored' = [stored EXCEPT ![Run(w)] = stored[Run(w)]]
  BY <1>1, HeldFacts, QuietQueue
     DEF record_success, release_claim, record_failure, recover_cancelled_attempt
<1>4. PICK new \in Row, pc \in {"publishing", "retrying", "ending"} :
        /\ RowOK(new, stored[Run(w)])
        /\ Write(Run(w), new)
        /\ Goto(w, pc)
  <2> USE DEF RowOK
  <2>1. CASE record_success(w)
    BY <1>1, <1>2, <2>1, VerdictRows DEF record_success
  <2>2. CASE release_claim(w)
    BY <1>1, <1>2, <2>2, VerdictRows DEF release_claim
  <2>3. CASE record_failure(w)
    BY <1>1, <2>3, VerdictRows DEF record_failure
  <2>4. CASE recover_cancelled_attempt(w)
    <3>1. RowOK(Recovered(runs[Run(w)], Attempt(w)), stored[Run(w)])
      BY <1>1, <1>2, VerdictRows, Bounds DEF Recovered
    <3> QED BY <2>4, <3>1 DEF recover_cancelled_attempt
  <2> QED BY <2>1, <2>2, <2>3, <2>4
<1>5. pc \in PCs \ {"idle"} /\ pc \notin Working \cup Handling
  BY DEF PCs, Working, Handling
<1> QED BY <1>1, <1>2, <1>3, <1>4, <1>5, GotoMoves, HeldMoves DEF Write

\* What a statement in doubt may have left of a held row.
DoubtfulRows(w) ==
  {runs[Run(w)], mark_processing_failed(runs[Run(w)]), mark_processing_completed(runs[Run(w)])}

\* A write in doubt is a write of the old row or of the new one.
LEMMA InDoubt ==
  ASSUME IInv, NEW w \in Slots, Held(slots[w]), NEW row, WriteInDoubt(Run(w), row)
  PROVE  \E new \in {runs[Run(w)], row} : runs' = [runs EXCEPT ![Run(w)] = new]
BY HeldFacts DEF WriteInDoubt, Write

\* The recovery of a cancelled attempt, written or not.
LEMMA RecoverFails ==
  ASSUME IInv, NEW w \in Slots, RecoverRaises(w)
  PROVE  IInv'
<1> DEFINE row == runs[Run(w)]
<1>1. Held(slots[w]) /\ Goto(w, "ending") /\ "ending" \in PCs \ {"idle"}
      /\ "ending" \notin Working \cup Handling
  BY DEF RecoverRaises, Held, Working, Handling, PCs
<1>2. stored' = [stored EXCEPT ![Run(w)] = stored[Run(w)]] /\ QueueTypes'
  BY <1>1, HeldFacts, QuietQueue DEF RecoverRaises
<1>3. RowOK(row, stored[Run(w)]) /\ stored[Run(w)] \in 0 .. MaxAttempts
      /\ Attempt(w) \in 0 .. MaxAttempts
  BY <1>1, HeldFacts
<1>4. RowOK(Recovered(row, Attempt(w)), stored[Run(w)])
  BY <1>1, <1>3, VerdictRows, Bounds DEF Recovered
<1>5. PICK new \in {row, Recovered(row, Attempt(w))} :
        runs' = [runs EXCEPT ![Run(w)] = new]
  BY <1>1, InDoubt DEF RecoverRaises
<1>6. RowOK(new, stored[Run(w)])
  BY <1>3, <1>4, <1>5
<1> QED BY <1>1, <1>2, <1>3, <1>5, <1>6, GotoMoves, HeldMoves

\* A verdict whose statement is in doubt, judged once more or given up.
LEMMA VerdictFails ==
  ASSUME IInv, ~ ReleaseReplyLost, NEW w \in Slots, NEW retryable \in BOOLEAN,
         RecordRaises(w, retryable) \/ FinishRaises(w, retryable)
  PROVE  IInv'
<1> DEFINE row == runs[Run(w)]
           pc  == Verdict(Attempt(w), retryable)
<1>1. Held(slots[w])
  BY DEF RecordRaises, FinishRaises, Held, Working, Handling
<1>2. stored' = [stored EXCEPT ![Run(w)] = stored[Run(w)]] /\ QueueTypes'
  BY <1>1, HeldFacts, QuietQueue DEF RecordRaises, FinishRaises
<1>3. /\ RowOK(row, stored[Run(w)]) /\ stored[Run(w)] \in 0 .. MaxAttempts
      /\ Attempt(w) \in 0 .. MaxAttempts
      /\ slots[w].pc = "releasing" => Attempt(w) < MaxAttempts
      /\ slots[w].pc = "recording" => stored[Run(w)] = Attempt(w)
  BY <1>1, HeldFacts DEF SlotOK, Attempt
<1>4. /\ pc \in Handling /\ pc \in PCs \ {"idle"}
      /\ pc = "releasing" => Attempt(w) < MaxAttempts
  BY <1>3, VerdictPC DEF Handling, PCs
<1>5. "ending" \in PCs \ {"idle"} /\ "ending" \notin Working \cup Handling
  BY DEF PCs, Working, Handling
<1> HIDE DEF pc
<1>6. CASE /\ slots[w].pc \in {"recording", "seed_releasing", "seed_failing"}
           /\ Goto(w, pc)
           /\ \/ WriteInDoubt(Run(w), mark_processing_completed(row))
                 /\ slots[w].pc = "recording"
              \/ runs' = runs
              \/ WriteInDoubt(Run(w), mark_processing_failed(row))
  <2>1. PICK new \in DoubtfulRows(w) :
          /\ runs' = [runs EXCEPT ![Run(w)] = new]
          /\ new = mark_processing_completed(row) => slots[w].pc = "recording" \/ new = row
                                                      \/ new = mark_processing_failed(row)
    BY <1>1, <1>6, HeldFacts, InDoubt DEF DoubtfulRows
  <2>2. RowOK(new, stored[Run(w)])
    BY <1>1, <1>3, <2>1, VerdictRows DEF DoubtfulRows
  <2>3. Suits(w, pc, new, stored[Run(w)])
    BY <1>1, <1>4, <2>1, VerdictSuits DEF DoubtfulRows
  <2> QED BY <1>1, <1>2, <1>3, <1>4, <1>6, <2>1, <2>2, <2>3, GotoMoves, HeldMoves
<1>7. CASE /\ Goto(w, "ending")
           /\ \/ slots[w].pc = "releasing"
                 /\ WriteInDoubt(Run(w), return_processing_to_pending(row))
              \/ WriteInDoubt(Run(w), mark_processing_failed(row))
  <2>1. PICK new : RowOK(new, stored[Run(w)]) /\ runs' = [runs EXCEPT ![Run(w)] = new]
    BY <1>1, <1>3, <1>7, InDoubt, VerdictRows
  <2> QED BY <1>1, <1>2, <1>3, <1>5, <1>7, <2>1, GotoMoves, HeldMoves
<1>8. CASE RecordRaises(w, retryable)
  BY <1>6, <1>8 DEF RecordRaises, pc
<1>9. CASE FinishRaises(w, retryable)
  BY <1>6, <1>7, <1>9 DEF FinishRaises, pc
<1> QED BY <1>8, <1>9

-----------------------------------------------------------------------------
(* Steps of a slot that holds no attempt, or lets go of everything.         *)

\* The row and the payload stay; the slot holds nothing afterwards.
LEMMA FreeMoves ==
  ASSUME IInv, NEW w \in Slots, NEW s \in Slot, NEW j \in JobIds, ~ Held(s),
         s.pc # "idle" => s.job = j,
         UNCHANGED <<runs, stored>>, slots' = [slots EXCEPT ![w] = s], QueueTypes'
  PROVE  IInv'
<1> DEFINE r == j.run
<1>1. r \in Runs
  BY DEF JobIds
<1>2. /\ RowOK(runs[r], stored[r]) /\ stored[r] \in 0 .. MaxAttempts
      /\ runs' = [runs EXCEPT ![r] = runs[r]] /\ stored' = [stored EXCEPT ![r] = stored[r]]
  BY <1>1 DEF IInv, TypeOK, RowsInv
<1>3. s.pc # "idle" => s.job \in JobIds /\ s.job.run = r
  OBVIOUS
<1> HIDE DEF r
<1>4. /\ runs' \in [Runs -> Row] /\ stored' \in [Runs -> 0 .. MaxAttempts]
      /\ slots' \in [Slots -> Slot]
      /\ (\A v \in Slots : slots[v].pc # "idle" => slots[v].job \in JobIds)'
      /\ RowsInv' /\ SlotsInv' /\ ClaimExclusive'
  BY <1>1, <1>2, <1>3, OneSlotMoves
<1> QED BY <1>4 DEF IInv, TypeOK, QueueTypes

\* A slot that has started a job keeps it to the end.
LEMMA SlotFacts ==
  ASSUME IInv, NEW w \in Slots, slots[w].pc # "idle"
  PROVE  /\ slots[w] \in Slot /\ slots[w].job \in JobIds /\ Run(w) \in Runs
         /\ Attempt(w) \in 0 .. MaxAttempts
         /\ runs[Run(w)] \in Row /\ RowOK(runs[Run(w)], stored[Run(w)])
         /\ stored[Run(w)] \in 0 .. MaxAttempts
<1>1. slots[w] \in Slot /\ slots[w].job \in JobIds /\ Run(w) \in Runs
  BY DEF IInv, TypeOK, Run, JobIds
<1> QED BY <1>1 DEF IInv, TypeOK, RowsInv, Slot, Attempt

\* An idle slot is a slot that holds nothing.
LEMMA IdleSlotType == IdleSlot \in Slot /\ IdleSlot.pc = "idle" /\ ~ Held(IdleSlot)
<1>1. 0 \in 0 .. JobTimeout + CleanupTime /\ 0 \in 0 .. MaxAttempts
  BY Bounds
<1> QED BY <1>1 DEF IdleSlot, Slot, Held, Working, Handling

\* arq starts a job or drops it, and takes it back when the attempt is over.
LEMMA QueueSteps ==
  ASSUME IInv, NEW w \in Slots,
         \/ \E j \in JobIds : Start(w, j)
         \/ Retry(w) \/ FinishJob(w)
  PROVE  IInv'
<1>0. /\ jobs \in [JobIds -> Job] /\ api \in [Runs -> {"idle", "enqueue", "abandon"}]
      /\ sweep \in SUBSET (Runs \X (0 .. MaxAttempts)) /\ faults \in 0 .. MaxFaults
  BY DEF IInv, TypeOK
<1>1. ASSUME NEW j \in JobIds, StartJob(w, j)
      PROVE  IInv'
  <2> DEFINE s == [IdleSlot EXCEPT !.pc = "reading", !.job = j]
  <2>1. s \in Slot /\ s.job = j /\ ~ Held(s)
    BY IdleSlotType DEF Slot, Held, Working, Handling, IdleSlot
  <2>2. jobs' \in [JobIds -> Job]
    BY <1>0, <1>1, Bounds, QueueAssumption, SMTT(30) DEF StartJob, Job
  <2>3. QueueTypes'
    BY <1>0, <1>1, <2>2 DEF StartJob, QueueTypes
  <2>4. UNCHANGED <<runs, stored>> /\ slots' = [slots EXCEPT ![w] = s]
    BY <1>1 DEF StartJob
  <2> HIDE DEF s
  <2> QED BY <2>1, <2>3, <2>4, FreeMoves
<1>2. ASSUME NEW j \in JobIds, GiveUpJob(w, j)
      PROVE  IInv'
  <2>1. jobs' \in [JobIds -> Job]
    BY <1>0, <1>2, JobTypes, 0 \in Nat DEF GiveUpJob
  <2>2. QueueTypes'
    BY <1>0, <1>2, <2>1 DEF GiveUpJob, QueueTypes
  <2> QED BY <1>2, <2>2, RowsUntouched DEF GiveUpJob
<1>3. CASE Retry(w) \/ FinishJob(w)
  <2>1. slots[w].job \in JobIds /\ Attempt(w) \in Nat
    BY <1>3, SlotFacts DEF Retry, FinishJob
  <2>2. jobs' \in [JobIds -> Job]
    BY <1>0, <1>3, <2>1, JobTypes, DelayType, 0 \in Nat DEF Retry, FinishJob
  <2>3. QueueTypes'
    BY <1>0, <1>3, <2>2 DEF Retry, FinishJob, QueueTypes
  <2>4. UNCHANGED <<runs, stored>> /\ slots' = [slots EXCEPT ![w] = IdleSlot]
    BY <1>3 DEF Retry, FinishJob
  <2> QED BY <2>1, <2>3, <2>4, IdleSlotType, FreeMoves
<1> QED BY <1>1, <1>2, <1>3 DEF Start

\* A claim that matches a row is a good row's next attempt, and nobody else's.
LEMMA ClaimFacts ==
  ASSUME IInv, NEW r \in Runs
  PROVE  /\ RowOK(claim_pending(runs[r]), stored[r])
         /\ claim_pending(runs[r]) # runs[r] =>
              /\ runs[r].status = "pending"
              /\ claim_pending(runs[r]).status = "processing"
              /\ claim_pending(runs[r]).claimAge = 0
              /\ claim_pending(runs[r]).attempts \in 0 .. MaxAttempts
<1>1. runs[r] \in Row /\ RowOK(runs[r], stored[r])
  BY DEF IInv, TypeOK, RowsInv
<1>2. CASE runs[r].status # "pending"
  BY <1>1, <1>2 DEF claim_pending
<1>3. CASE runs[r].status = "pending"
  <2>1. claim_pending(runs[r]) \in Row
    BY <1>1, <1>3, StatementTypes DEF RowOK
  <2>2. claim_pending(runs[r]).status = "processing" /\ claim_pending(runs[r]).claimAge = 0
    BY <1>1, <1>3 DEF claim_pending, Row
  <2> QED BY <1>3, <2>1, <2>2 DEF RowOK, Row
<1> QED BY <1>2, <1>3

\* The claim is the run's, whether the slot goes on with it or never learns.
LEMMA ClaimLands ==
  ASSUME IInv, NEW w \in Slots, NEW j \in JobIds, NEW s \in Slot, s.job = j,
         Held(s) => /\ s.pc = "crawling"
                    /\ s.attempts = claim_pending(runs[j.run]).attempts,
         claim_pending(runs[j.run]) # runs[j.run],
         runs' = [runs EXCEPT ![j.run] = claim_pending(runs[j.run])], UNCHANGED stored,
         slots' = [slots EXCEPT ![w] = s], QueueTypes'
  PROVE  IInv'
<1> DEFINE r   == j.run
           row == claim_pending(runs[r])
<1>1. r \in Runs
  BY DEF JobIds
<1>2. /\ RowOK(row, stored[r]) /\ row.status = "processing" /\ row.claimAge = 0
      /\ \A v \in Slots : v # w /\ Held(slots[v]) => Run(v) # r
  BY <1>1, ClaimFacts, NobodyHolds
<1>3. stored' = [stored EXCEPT ![r] = stored[r]] /\ stored[r] \in 0 .. MaxAttempts
  BY <1>1 DEF IInv, TypeOK
<1>4. runs' = [runs EXCEPT ![r] = row] /\ (Held(s) => s.attempts = row.attempts)
  OBVIOUS
<1>5. s.elapsed \in Nat /\ (s.pc # "idle" => s.job \in JobIds /\ s.job.run = r)
  BY Bounds DEF Slot
<1> HIDE DEF row, r
<1>6. Held(s) => SlotOK(s, row, stored[r])
  BY <1>2, <1>4, <1>5, Bounds DEF SlotOK
<1>7. /\ runs' \in [Runs -> Row] /\ stored' \in [Runs -> 0 .. MaxAttempts]
      /\ slots' \in [Slots -> Slot]
      /\ (\A v \in Slots : slots[v].pc # "idle" => slots[v].job \in JobIds)'
      /\ RowsInv' /\ SlotsInv' /\ ClaimExclusive'
  BY <1>1, <1>2, <1>3, <1>4, <1>5, <1>6, OneSlotMoves
<1> QED BY <1>7 DEF IInv, TypeOK, QueueTypes

\* The slot leaves a claim it may have made behind, and holds nothing.
LEMMA ClaimInDoubt ==
  ASSUME IInv, NEW w \in Slots, slots[w].pc = "claiming", NEW redeliver \in BOOLEAN,
         WriteInDoubt(Run(w), claim_pending(runs[Run(w)])), UNCHANGED stored,
         slots' = [slots EXCEPT ![w].pc = "ending", ![w].redeliver = redeliver], QueueTypes'
  PROVE  IInv'
<1> DEFINE s == [slots[w] EXCEPT !.pc = "ending", !.redeliver = redeliver]
           r == Run(w)
<1>1. slots[w] \in Slot /\ slots[w].job \in JobIds /\ r \in Runs
  BY SlotFacts
<1>2. s \in Slot /\ ~ Held(s) /\ s.job = slots[w].job
  BY <1>1 DEF Slot, Held, Working, Handling
<1>3. slots' = [slots EXCEPT ![w] = s]
  BY DEF IInv, TypeOK
<1> HIDE DEF s
<1>4. CASE runs' = runs
  BY <1>1, <1>2, <1>3, <1>4, FreeMoves
<1>5. CASE runs' # runs
  <2>1. runs' = [runs EXCEPT ![r] = claim_pending(runs[r])] /\ claim_pending(runs[r]) # runs[r]
    BY <1>1, <1>5 DEF WriteInDoubt, Write, IInv, TypeOK
  <2> QED BY <1>1, <1>2, <1>3, <2>1, ClaimLands DEF Run
<1> QED BY <1>4, <1>5

\* Reading the run and claiming it.
LEMMA ClaimSteps ==
  ASSUME IInv, NEW w \in Slots, ReadRun(w) \/ claim_for_processing(w) \/ ClaimRaises(w)
  PROVE  IInv'
<1> DEFINE r == Run(w)
<1>1. /\ slots[w] \in Slot /\ slots[w].job \in JobIds /\ r \in Runs
      /\ stored[r] \in 0 .. MaxAttempts /\ slots[w].redeliver \in BOOLEAN
  BY SlotFacts DEF ReadRun, claim_for_processing, ClaimRaises, Slot
<1>2. QueueTypes' /\ UNCHANGED stored
  BY QuietQueue DEF ReadRun, claim_for_processing, ClaimRaises
<1>3. ASSUME NEW pc \in {"claiming", "ending"}, Goto(w, pc), UNCHANGED runs
      PROVE  IInv'
  <2> DEFINE s == [slots[w] EXCEPT !.pc = pc]
  <2>1. s \in Slot /\ ~ Held(s) /\ s.job = slots[w].job
    BY <1>1 DEF Slot, Held, Working, Handling
  <2>2. slots' = [slots EXCEPT ![w] = s]
    BY <1>3 DEF Goto, IInv, TypeOK
  <2> HIDE DEF s
  <2> QED BY <1>1, <1>2, <1>3, <2>1, <2>2, FreeMoves
<1>4. CASE ReadRun(w)
  BY <1>3, <1>4 DEF ReadRun
<1>5. CASE ClaimRaises(w)
  <2>1. CASE slots[w].pc = "claiming"
    BY <1>1, <1>2, <1>5, <2>1, ClaimInDoubt, GotoMoves DEF ClaimRaises
  <2>2. CASE slots[w].pc = "reading"
    BY <1>3, <1>5, <2>2 DEF ClaimRaises
  <2> QED BY <1>5, <2>1, <2>2 DEF ClaimRaises
<1>6. CASE claim_for_processing(w)
  <2> DEFINE row == claim_pending(runs[r])
             s   == [slots[w] EXCEPT !.pc = "crawling", !.attempts = row.attempts]
  <2>1. CASE row = runs[r]
    <3>1. Goto(w, "ending") /\ UNCHANGED runs
      BY <1>1, <1>6, <2>1 DEF claim_for_processing, Write, IInv, TypeOK
    <3> QED BY <1>3, <3>1
  <2>2. CASE row # runs[r]
    <3>1. row.attempts \in 0 .. MaxAttempts
      BY <1>1, <2>2, ClaimFacts
    <3>2. runs' = [runs EXCEPT ![r] = row] /\ UNCHANGED stored
      BY <1>2, <1>6 DEF claim_for_processing, Write
    <3>3. slots' = [slots EXCEPT ![w] = s]
      BY <1>6, <2>2 DEF claim_for_processing, IInv, TypeOK
    <3>4. s \in Slot /\ s.job = slots[w].job /\ s.pc = "crawling" /\ s.attempts = row.attempts
      <4> HIDE DEF row
      <4> QED BY <1>1, <3>1 DEF Slot, Working
    <3> HIDE DEF s
    <3> QED BY <1>1, <1>2, <2>2, <3>2, <3>3, <3>4, ClaimLands DEF Run
  <2> QED BY <2>1, <2>2
<1> QED BY <1>4, <1>5, <1>6

-----------------------------------------------------------------------------
(* Cancellation and crash.                                                  *)

\* A cancellation, wherever in the attempt its await is.
LEMMA Cancellation ==
  ASSUME IInv, ~ ReleaseReplyLost, NEW w \in Slots, NEW redeliver \in BOOLEAN,
         Cancel(w, redeliver), Fault \/ UNCHANGED faults
  PROVE  IInv'
<1> DEFINE row == runs[Run(w)]
           pc  == IF slots[w].pc \in {"crawling", "recording", "seed_releasing", "seed_failing"}
                  THEN "cancelled" ELSE "ending"
<1>1. slots[w].pc # "idle" /\ QueueTypes'
  BY QuietQueue DEF Cancel
<1>2. slots' = [slots EXCEPT ![w].pc = pc, ![w].redeliver = redeliver]
  BY DEF Cancel, IInv, TypeOK
<1>3. CASE slots[w].pc \in {"reading", "publishing"}
  <2> DEFINE s == [slots[w] EXCEPT !.pc = "ending", !.redeliver = redeliver]
  <2>1. slots[w] \in Slot /\ slots[w].job \in JobIds
    BY <1>1, SlotFacts
  <2>2. s \in Slot /\ ~ Held(s) /\ s.job = slots[w].job
    BY <2>1 DEF Slot, Held, Working, Handling
  <2>3. slots' = [slots EXCEPT ![w] = s]
    BY <1>2, <1>3 DEF IInv, TypeOK
  <2>4. UNCHANGED <<runs, stored>>
    BY <1>3 DEF Cancel, StoreInDoubt
  <2> HIDE DEF s
  <2> QED BY <1>1, <2>1, <2>2, <2>3, <2>4, FreeMoves
<1>4. CASE slots[w].pc = "claiming"
  <2>1. WriteInDoubt(Run(w), claim_pending(row)) /\ UNCHANGED stored
    BY <1>4 DEF Cancel, StoreInDoubt
  <2> QED BY <1>1, <1>2, <1>4, <2>1, ClaimInDoubt
<1>5. CASE Held(slots[w])
  <2>1. /\ RowOK(row, stored[Run(w)]) /\ stored[Run(w)] \in 0 .. MaxAttempts
        /\ Attempt(w) \in 0 .. MaxAttempts /\ row.attempts = Attempt(w)
        /\ slots[w].pc = "releasing" => Attempt(w) < MaxAttempts
        /\ slots[w].pc = "recording" => stored[Run(w)] = Attempt(w)
        /\ slots[w].pc = "crawling" => row.status \in {"processing", "deleted"}
    BY <1>5, HeldFacts DEF SlotOK, Attempt, Working
  <2>2. pc \in PCs \ {"idle"} /\ (pc \in Working \cup Handling => pc = "cancelled")
    BY DEF PCs, Working, Handling
  <2>3. CASE slots[w].pc = "crawling"
    <3>1. PICK payload \in {stored[Run(w)], Attempt(w)} :
            stored' = [stored EXCEPT ![Run(w)] = payload]
      BY <1>5, <2>3, HeldFacts DEF Cancel, StoreInDoubt, Store
    <3>2. runs' = [runs EXCEPT ![Run(w)] = row]
      BY <1>5, <2>3, HeldFacts DEF Cancel
    <3>3. RowOK(row, payload) /\ payload \in 0 .. MaxAttempts
      BY <2>1, <2>3 DEF RowOK
    <3>4. pc = "cancelled" => Suits(w, pc, row, payload)
      BY <2>1, <2>3 DEF Suits, Working
    <3> HIDE DEF pc
    <3> QED BY <1>1, <1>2, <1>5, <2>2, <3>1, <3>2, <3>3, <3>4, HeldMoves
  <2>4. CASE slots[w].pc \in {"recording", "seed_releasing", "seed_failing", "failing"}
    <3>1. stored' = [stored EXCEPT ![Run(w)] = stored[Run(w)]]
      BY <1>5, <2>4, HeldFacts DEF Cancel, StoreInDoubt
    <3>2. \/ WriteInDoubt(Run(w), mark_processing_completed(row)) /\ slots[w].pc = "recording"
          \/ runs' = runs
          \/ WriteInDoubt(Run(w), mark_processing_failed(row))
      BY <2>4 DEF Cancel
    <3>3. PICK new \in DoubtfulRows(w) :
            RowOK(new, stored[Run(w)]) /\ runs' = [runs EXCEPT ![Run(w)] = new]
      BY <1>5, <2>1, <3>2, HeldFacts, InDoubt, VerdictRows DEF DoubtfulRows
    <3>4. pc = "cancelled" => Suits(w, pc, new, stored[Run(w)])
      BY <1>5, VerdictSuits DEF DoubtfulRows, Handling
    <3> HIDE DEF pc
    <3> QED BY <1>1, <1>2, <1>5, <2>1, <2>2, <3>1, <3>3, <3>4, HeldMoves
  <2>5. CASE slots[w].pc = "releasing"
    <3>1. stored' = [stored EXCEPT ![Run(w)] = stored[Run(w)]] /\ pc = "ending"
      BY <1>5, <2>5, HeldFacts DEF Cancel, StoreInDoubt
    <3>2. PICK new : RowOK(new, stored[Run(w)]) /\ runs' = [runs EXCEPT ![Run(w)] = new]
      BY <1>5, <2>1, <2>5, InDoubt, VerdictRows DEF Cancel
    <3> HIDE DEF pc
    <3> QED BY <1>1, <1>2, <1>5, <2>1, <2>2, <3>1, <3>2, HeldMoves
  <2>6. slots[w].pc # "cancelled"
    BY DEF Cancel
  <2> QED BY <1>5, <2>3, <2>4, <2>5, <2>6 DEF Held, Working, Handling
<1>6. slots[w].pc \in {"reading", "publishing", "claiming"} \/ Held(slots[w])
  BY DEF Cancel, Held, Working, Handling
<1> QED BY <1>3, <1>4, <1>5, <1>6

\* The slot of a killed process is idle again, its row as it was.
LEMMA CrashStep ==
  ASSUME IInv, NEW w \in Slots, Crash(w)
  PROVE  IInv'
<1> DEFINE r == Run(w)
<1>1. /\ slots[w].job \in JobIds /\ r \in Runs /\ Attempt(w) \in 0 .. MaxAttempts
      /\ RowOK(runs[r], stored[r]) /\ stored[r] \in 0 .. MaxAttempts
  BY SlotFacts DEF Crash
<1>2. QueueTypes' /\ UNCHANGED runs /\ slots' = [slots EXCEPT ![w] = IdleSlot]
  BY QuietQueue DEF Crash
<1>3. CASE UNCHANGED stored
  BY <1>1, <1>2, <1>3, IdleSlotType, FreeMoves
<1>4. CASE ~ UNCHANGED stored
  <2>1. /\ Held(slots[w]) /\ slots[w].pc = "crawling"
        /\ stored' = [stored EXCEPT ![r] = Attempt(w)]
    BY <1>4 DEF Crash, StoreInDoubt, Store, Held, Working
  <2>2. runs[r].status \in {"processing", "deleted"}
    BY <2>1, HeldFacts DEF SlotOK, Working
  <2>3. RowOK(runs[r], Attempt(w)) /\ runs' = [runs EXCEPT ![r] = runs[r]]
    BY <1>1, <1>2, <2>1, <2>2, HeldFacts DEF RowOK
  <2>4. \A v \in Slots : v # w /\ Held(slots[v]) => Run(v) # r
    BY <2>1 DEF IInv, ClaimExclusive, Holds, Held
  <2> HIDE DEF r
  <2>5. /\ runs' \in [Runs -> Row] /\ stored' \in [Runs -> 0 .. MaxAttempts]
        /\ slots' \in [Slots -> Slot]
        /\ (\A v \in Slots : slots[v].pc # "idle" => slots[v].job \in JobIds)'
        /\ RowsInv' /\ SlotsInv' /\ ClaimExclusive'
    BY <1>1, <1>2, <2>1, <2>3, <2>4, IdleSlotType, OneSlotMoves
  <2> QED BY <1>2, <2>5 DEF IInv, TypeOK, QueueTypes
<1> QED BY <1>3, <1>4

-----------------------------------------------------------------------------
(* The request, the reaper and time.                                        *)

\* Creating a run, enqueuing it, abandoning it, or stopping in between.
LEMMA ApiSteps ==
  ASSUME IInv, NEW r \in Runs,
         Insert(r) \/ ApiStep(r) \/ EnqueueRaises(r) \/ ApiStops(r)
  PROVE  IInv'
<1>1. /\ jobs \in [JobIds -> Job] /\ api \in [Runs -> {"idle", "enqueue", "abandon"}]
      /\ sweep \in SUBSET (Runs \X (0 .. MaxAttempts)) /\ faults \in 0 .. MaxFaults
      /\ RowOK(runs[r], stored[r]) /\ runs[r] \in Row
  BY DEF IInv, TypeOK, RowsInv
<1>2. enqueue_job(crawl_job_id(r, Fresh)) \in [JobIds -> Job]
  BY <1>1, JobIdType, JobTypes, Bounds, 0 \in Nat, Fresh \in Fresh .. MaxAttempts
<1>3. faults' \in 0 .. MaxFaults /\ api' \in [Runs -> {"idle", "enqueue", "abandon"}]
  BY <1>1, FaultType DEF Insert, ApiStep, Enqueue, abandon_unqueued_run, EnqueueRaises, ApiStops
<1>4. QueueTypes'
  BY <1>1, <1>2, <1>3
     DEF Insert, ApiStep, Enqueue, abandon_unqueued_run, EnqueueRaises, ApiStops, QueueTypes
<1>5. CASE Insert(r)
  <2>1. insert(runs[r]) \in Row /\ insert(runs[r]).status = "pending"
        /\ insert(runs[r]).attempts = 0
    BY <1>1, <1>5, StatementTypes DEF Insert, insert, RowOK, Row
  <2>2. RowOK(insert(runs[r]), stored[r])
    BY <2>1, Bounds DEF RowOK
  <2> QED BY <1>4, <1>5, <2>2, FreeRowMoves DEF Insert
<1>6. CASE abandon_unqueued_run(r)
  <2>1. CASE runs[r].status = "pending"
    <3>1. mark_failed(runs[r]) \in Row /\ mark_failed(runs[r]).status = "failed"
      BY <1>1, <2>1, StatementTypes DEF mark_failed, Ended, Row
    <3>2. RowOK(mark_failed(runs[r]), stored[r])
      BY <3>1 DEF RowOK
    <3> QED BY <1>4, <1>6, <2>1, <3>2, FreeRowMoves DEF abandon_unqueued_run
  <2>2. CASE runs[r].status # "pending"
    <3>1. UNCHANGED <<runs, stored, slots>>
      BY <1>6, <2>2 DEF abandon_unqueued_run, mark_failed, Write, IInv, TypeOK
    <3> QED BY <1>4, <3>1, RowsUntouched
  <2> QED BY <2>1, <2>2
<1>7. CASE Enqueue(r) \/ EnqueueRaises(r) \/ ApiStops(r)
  BY <1>4, <1>7, RowsUntouched DEF Enqueue, EnqueueRaises, ApiStops
<1> QED BY <1>5, <1>6, <1>7 DEF ApiStep

\* A deleted website takes its runs' rows from whoever holds them.
LEMMA DeleteStep ==
  ASSUME IInv, NEW S \in SUBSET Runs, delete_website(S)
  PROVE  IInv'
<1>1. QueueTypes' /\ UNCHANGED <<stored, slots>>
  BY QuietQueue DEF delete_website
<1>2. ASSUME NEW r \in Runs
      PROVE  /\ RowOK(runs'[r], stored[r]) /\ runs'[r].attempts = runs[r].attempts
             /\ runs'[r] = runs[r] \/ runs'[r].status = "deleted"
  <2>1. runs[r] \in Row /\ RowOK(runs[r], stored[r]) /\ NoClaim \in NoClaim .. AgeCap
    BY Bounds DEF IInv, TypeOK, RowsInv
  <2>2. /\ Ended(runs[r], "deleted") \in Row /\ Ended(runs[r], "deleted").status = "deleted"
        /\ Ended(runs[r], "deleted").attempts = runs[r].attempts
    BY <2>1, StatementTypes DEF Ended, Row
  <2>3. runs'[r] = IF r \in S THEN Ended(runs[r], "deleted") ELSE runs[r]
    BY DEF delete_website
  <2> QED BY <2>1, <2>2, <2>3 DEF RowOK
<1>3. runs' \in [Runs -> Row] /\ RowsInv'
  BY <1>1, <1>2 DEF delete_website, RowOK, RowsInv
<1>4. SlotsInv'
  <2> SUFFICES ASSUME NEW w \in Slots, Held(slots[w])
               PROVE  SlotOK(slots[w], runs'[Run(w)], stored[Run(w)])
    BY <1>1 DEF SlotsInv, Run
  <2> QED BY <1>2, HeldFacts DEF SlotOK
<1>5. ClaimExclusive'
  BY <1>1 DEF IInv, ClaimExclusive, Holds, Run
<1> QED BY <1>1, <1>3, <1>4, <1>5 DEF IInv, TypeOK, QueueTypes

\* Why the reaper never takes a run from a worker: a held claim is no older
\* than its job's running time, and StuckAfter outlasts every job.
LEMMA HeldNotReapable ==
  ASSUME IInv, NEW w \in Slots, Held(slots[w])
  PROVE  ~ Reapable(Run(w))
<1>1. /\ slots[w] \in Slot /\ runs[Run(w)] \in Row
      /\ SlotOK(slots[w], runs[Run(w)], stored[Run(w)])
  BY HeldFacts
<1>2. slots[w].elapsed <= StuckAfter /\ slots[w].elapsed \in Int
  BY <1>1, Bounds, PolicyAssumption DEF Slot
<1>3. runs[Run(w)].claimAge \in Int
  BY <1>1, Bounds DEF Row
<1>4. runs[Run(w)].status = "processing" => StuckAge(Run(w)) <= slots[w].elapsed
  BY <1>1 DEF SlotOK, StuckAge
<1>5. runs[Run(w)].status = "processing" => ~ (StuckAge(Run(w)) > StuckAfter)
  <2> SUFFICES ASSUME runs[Run(w)].status = "processing" PROVE ~ (StuckAge(Run(w)) > StuckAfter)
    OBVIOUS
  <2>1. StuckAge(Run(w)) = runs[Run(w)].claimAge
    BY <1>1 DEF SlotOK, StuckAge
  <2> QED BY <1>2, <1>3, <1>4, <2>1, PolicyAssumption
<1> QED BY <1>1, <1>5 DEF Reapable, SlotOK

\* The reaper leaves a good row with the attempts it had, and never claimed.
LEMMA ReapedRow ==
  ASSUME NEW row, NEW payload, RowOK(row, payload), row.status \in {"pending", "processing"}
  PROVE  /\ RowOK(Reaped(row), payload) /\ Reaped(row).attempts = row.attempts
         /\ Reaped(row).status \in {"pending", "failed"}
<1>1. row \in Row /\ row.attempts \in 0 .. MaxAttempts
  BY DEF RowOK, Row
<1>2. Reaped(row) \in Row
  BY <1>1, StatementTypes DEF Reaped
<1>3. /\ Reaped(row).attempts = row.attempts
      /\ Reaped(row).status \in {"pending", "failed"}
      /\ Reaped(row).status = "pending" => row.status = "pending" \/ ~ (row.attempts >= MaxAttempts)
  BY <1>1 DEF Reaped, Ended, mark_processing_failed, return_processing_to_pending, Row
<1> QED BY <1>1, <1>2, <1>3, Bounds DEF RowOK

\* A pass of the reaper touches no held row, and lists runs within budget.
LEMMA ReaperSteps ==
  ASSUME IInv, ReaperStep \/ ReaperStops \/ \E x \in sweep : ReapedEnqueueRaises(x)
  PROVE  IInv'
<1>1. /\ jobs \in [JobIds -> Job] /\ api \in [Runs -> {"idle", "enqueue", "abandon"}]
      /\ sweep \in SUBSET (Runs \X (0 .. MaxAttempts)) /\ faults \in 0 .. MaxFaults
  BY DEF IInv, TypeOK
<1>2. CASE reap_stuck_runs
  <2>1. PICK S \in lock_reapable :
          /\ runs' = [r \in Runs |-> IF r \in S THEN Reaped(runs[r]) ELSE runs[r]]
          /\ sweep' = {<<r, runs[r].attempts>> :
                         r \in {q \in S : Reaped(runs[q]).status = "pending"}}
          /\ UNCHANGED <<faults, jobs, api, slots, stored>>
    BY <1>2 DEF reap_stuck_runs
  <2>2. S \subseteq Runs /\ \A r \in S : Reapable(r)
    BY DEF lock_reapable
  <2>3. \A r \in Runs : RowOK(runs[r], stored[r]) /\ runs[r] \in Row
    BY DEF IInv, RowsInv, TypeOK
  <2>4. \A r \in S : RowOK(Reaped(runs[r]), stored[r])
    <3> SUFFICES ASSUME NEW r \in S PROVE RowOK(Reaped(runs[r]), stored[r])
      OBVIOUS
    <3>1. runs[r].status \in {"pending", "processing"}
      BY <2>2 DEF Reapable
    <3> QED BY <2>2, <2>3, <3>1, ReapedRow
  <2>5. \A r \in Runs : RowOK(runs'[r], stored[r])
    BY <2>1, <2>3, <2>4
  <2>6. runs' \in [Runs -> Row]
    BY <2>1, <2>5 DEF RowOK
  <2>7. sweep' \in SUBSET (Runs \X (0 .. MaxAttempts))
    BY <2>1, <2>2, <2>3 DEF Row
  <2>8. QueueTypes'
    BY <1>1, <2>1, <2>7 DEF QueueTypes
  <2>9. \A w \in Slots : Held(slots[w]) => runs'[Run(w)] = runs[Run(w)]
    BY <2>1, <2>2, HeldNotReapable, HeldFacts
  <2>10. SlotsInv'
    BY <2>1, <2>9 DEF IInv, SlotsInv, Run
  <2>11. ClaimExclusive'
    BY <2>1 DEF IInv, ClaimExclusive, Holds, Run
  <2> QED BY <2>1, <2>5, <2>6, <2>8, <2>10, <2>11 DEF IInv, TypeOK, QueueTypes, RowsInv
<1>3. ASSUME NEW x \in sweep, enqueue_reaped(x) \/ ReapedEnqueueRaises(x)
      PROVE  IInv'
  <2>1. enqueue_job(crawl_job_id(x[1], x[2])) \in [JobIds -> Job]
    <3>1. x[1] \in Runs /\ x[2] \in Fresh .. MaxAttempts
      BY <1>1, Bounds
    <3> QED BY <1>1, <3>1, JobIdType, JobTypes, 0 \in Nat
  <2>2. faults' \in 0 .. MaxFaults /\ sweep' \in SUBSET (Runs \X (0 .. MaxAttempts))
    BY <1>1, <1>3, FaultType DEF enqueue_reaped, ReapedEnqueueRaises
  <2>3. QueueTypes'
    BY <1>1, <1>3, <2>1, <2>2 DEF enqueue_reaped, ReapedEnqueueRaises, QueueTypes
  <2> QED BY <1>3, <2>3, RowsUntouched DEF enqueue_reaped, ReapedEnqueueRaises
<1>4. CASE ReaperStops
  <2>1. QueueTypes'
    BY <1>1, <1>4, FaultType DEF ReaperStops, QueueTypes
  <2> QED BY <1>4, <2>1, RowsUntouched DEF ReaperStops
<1> QED BY <1>2, <1>3, <1>4 DEF ReaperStep

\* Time makes claims and jobs older together.
LEMMA TickStep ==
  ASSUME IInv, Tick
  PROVE  IInv'
<1>1. /\ runs \in [Runs -> Row] /\ jobs \in [JobIds -> Job] /\ slots \in [Slots -> Slot]
      /\ JobTimeout + CleanupTime \in Nat /\ AgeCap \in Nat /\ 0 \in 0 .. MaxAttempts
  BY Bounds DEF IInv, TypeOK
<1>2. \A age \in NoClaim .. AgeCap :
         Older(age) \in NoClaim .. AgeCap /\ Older(age) <= age + 1 /\ Older(age) >= age
  BY <1>1, Bounds DEF Older
<1>3. \A age \in 0 .. AgeCap : Older(age) \in 0 .. AgeCap
  BY <1>1 DEF Older
<1>4. ASSUME NEW row \in Row
      PROVE  /\ Aged(row) \in Row /\ Aged(row).status = row.status
             /\ Aged(row).attempts = row.attempts
             /\ Aged(row).claimAge = NoClaim <=> row.claimAge = NoClaim
             /\ Aged(row).claimAge <= row.claimAge + 1
  <2>1. /\ Aged(row) \in Row /\ Aged(row).status = row.status
        /\ Aged(row).attempts = row.attempts
        /\ Aged(row).claimAge \in {row.claimAge, Older(row.claimAge)}
        /\ row.claimAge = NoClaim => Aged(row).claimAge = NoClaim
    BY <1>2, <1>3 DEF Aged, Row
  <2>2. row.claimAge \in NoClaim .. AgeCap
    BY DEF Row
  <2> QED BY <1>1, <1>2, <2>1, <2>2, Bounds
<1>5. ASSUME NEW r \in Runs
      PROVE  RowOK(Aged(runs[r]), stored[r])
  <2>1. RowOK(runs[r], stored[r]) /\ runs[r] \in Row
    BY <1>1 DEF IInv, RowsInv
  <2> QED BY <1>4, <2>1 DEF RowOK
<1>6. runs' \in [Runs -> Row] /\ RowsInv' /\ \A r \in Runs : runs'[r] = Aged(runs[r])
  BY <1>4, <1>5 DEF Tick, IInv, TypeOK, RowsInv
<1>7. jobs' \in [JobIds -> Job]
  <2> SUFFICES ASSUME NEW j \in JobIds PROVE Waited(jobs[j]) \in Job
    BY DEF Tick
  <2>1. jobs[j] \in Job
    BY <1>1
  <2> QED BY <1>1, <2>1 DEF Waited, Job
<1>8. ASSUME NEW w \in Slots
      PROVE  /\ slots'[w] \in Slot /\ slots'[w].pc = slots[w].pc
             /\ slots'[w].job = slots[w].job /\ slots'[w].attempts = slots[w].attempts
             /\ slots[w].pc # "idle" => slots'[w].elapsed = slots[w].elapsed + 1
  <2>1. slots[w] \in Slot /\ slots'[w] = IF slots[w].pc = "idle" THEN slots[w]
                             ELSE [slots[w] EXCEPT !.elapsed = @ + 1]
    BY <1>1 DEF Tick
  <2>2. slots[w].pc # "idle" => slots[w].elapsed + 1 \in 0 .. JobTimeout + CleanupTime
    BY <1>1, <2>1, PolicyAssumption DEF Tick, Deadline, Slot
  <2> QED BY <2>1, <2>2 DEF Slot
<1>9. slots' \in [Slots -> Slot]
  BY <1>8 DEF Tick
<1>10. SlotsInv'
  <2> SUFFICES ASSUME NEW w \in Slots, Held(slots'[w])
               PROVE  SlotOK(slots'[w], runs'[slots'[w].job.run], stored'[slots'[w].job.run])
    BY DEF SlotsInv, Run
  <2>1. Held(slots[w]) /\ slots[w].pc # "idle"
    BY <1>8 DEF Held, Working, Handling
  <2>2. /\ SlotOK(slots[w], runs[Run(w)], stored[Run(w)]) /\ Run(w) \in Runs
        /\ slots[w] \in Slot /\ runs[Run(w)] \in Row
    BY <2>1, HeldFacts
  <2>3. slots'[w].job.run = Run(w) /\ runs'[Run(w)] = Aged(runs[Run(w)])
        /\ stored'[Run(w)] = stored[Run(w)]
    BY <1>6, <1>8, <2>2 DEF Run, Tick
  <2>4. slots[w].elapsed \in Int /\ runs[Run(w)].claimAge \in Int
    BY <1>1, <2>2, Bounds DEF Slot, Row
  <2>5. Aged(runs[Run(w)]).claimAge \in Int
    BY <1>1, <1>4, <2>2, Bounds DEF Row
  <2>6. runs[Run(w)].status = "processing" =>
          Aged(runs[Run(w)]).claimAge <= slots[w].elapsed + 1
    BY <1>4, <2>2, <2>4, <2>5 DEF SlotOK
  <2>7. SlotOK(slots'[w], Aged(runs[Run(w)]), stored[Run(w)])
    BY <1>4, <1>8, <2>1, <2>2, <2>6 DEF SlotOK
  <2> QED BY <2>3, <2>7
<1>11. ClaimExclusive'
  BY <1>8 DEF IInv, ClaimExclusive, Holds, Run
<1> QED BY <1>6, <1>7, <1>8, <1>9, <1>10, <1>11 DEF IInv, TypeOK, Tick

-----------------------------------------------------------------------------
(* The invariant.                                                           *)

\* It holds of the empty system.
LEMMA InitIInv ==
  ASSUME Init
  PROVE  IInv
<1>1. /\ MaxAttempts \in Nat /\ MaxAttempts > 0 /\ AgeCap \in Nat /\ MaxFaults \in Nat
      /\ NoClaim \in NoClaim .. AgeCap
  BY Bounds, FaultAssumption
<1>2. \A r \in Runs : RowOK(runs[r], stored[r])
  BY <1>1 DEF Init, RowOK, Row
<1>3. TypeOK
  BY <1>1, <1>2, IdleSlotType DEF Init, TypeOK, RowOK, Job
<1>4. \A w \in Slots : ~ Held(slots[w])
  BY IdleSlotType DEF Init
<1> QED BY <1>2, <1>3, <1>4 DEF IInv, RowsInv, SlotsInv, ClaimExclusive, Holds, Held

\* Every step keeps it.
LEMMA NextIInv ==
  ASSUME ~ ReleaseReplyLost, IInv, [Next]_vars
  PROVE  IInv'
<1>1. ASSUME NEW w \in Slots, SlotStep(w)
      PROVE  IInv'
  <2>1. CASE Timeout(w)
    BY <2>1, Cancellation DEF Timeout
  <2>2. CASE ~ Timeout(w)
    BY <1>1, <2>2, QueueSteps, ClaimSteps, CrawlSteps, VerdictSteps, TRUE \in BOOLEAN
       DEF SlotStep, Unwind
  <2> QED BY <2>1, <2>2
<1>2. ASSUME NEW w \in Slots, SlotFault(w)
      PROVE  IInv'
  <2>1. CASE Deploy(w)
    BY <2>1, Cancellation DEF Deploy
  <2>2. CASE ~ Deploy(w)
    BY <1>2, <2>2, ClaimSteps, RecoverFails, VerdictFails, CrashStep DEF SlotFault
  <2> QED BY <2>1, <2>2
<1>3. CASE UNCHANGED vars
  BY <1>3 DEF vars, IInv, TypeOK, RowsInv, SlotsInv, ClaimExclusive, Holds, Run
<1> QED BY <1>1, <1>2, <1>3, ApiSteps, DeleteStep, ReaperSteps, TickStep
   DEF Next, Progress, OutsideFault

\* Each property of the runs that is an invariant follows from IInv.
LEMMA IInvImplies ==
  ASSUME IInv
  PROVE  TypeOK /\ ClaimExclusive /\ ClaimHonoured /\ PendingHasBudget /\ PayloadMatchesRow
<1>1. ClaimHonoured
  BY DEF IInv, SlotsInv, SlotOK, ClaimHonoured, Holds, Held, Attempt
<1>2. PendingHasBudget /\ PayloadMatchesRow
  BY DEF IInv, RowsInv, RowOK, PendingHasBudget, PayloadMatchesRow
<1> QED BY <1>1, <1>2 DEF IInv

\* So it always holds.
LEMMA Invariance ==
  ASSUME ~ ReleaseReplyLost
  PROVE  Spec => []IInv
BY InitIInv, NextIInv, PTL DEF Spec

\* Every variable of queue, workers and reaper keeps its type: in particular no
\* run is ever at an attempt beyond MaxAttempts and no job outlives its timeout
\* by more than its unwinding.
THEOREM TypeCorrect ==
  ASSUME ~ ReleaseReplyLost
  PROVE  Spec => []TypeOK
BY Invariance, IInvImplies, PTL

\* Whatever Redis delivers twice, two workers never hold the same run: the
\* guarded claim and the reaper's grace beyond job_timeout are enough.
THEOREM OneWorkerPerRun ==
  ASSUME ~ ReleaseReplyLost
  PROVE  Spec => []ClaimExclusive
BY Invariance, IInvImplies, PTL

\* A worker's attempt is the run's latest, and the row waits for its verdict:
\* nobody releases, fails or completes a run behind its worker's back.
THEOREM NobodyTakesAHeldRun ==
  ASSUME ~ ReleaseReplyLost
  PROVE  Spec => []ClaimHonoured
BY Invariance, IInvImplies, PTL

\* A run is never pending without budget for the claim it is waiting for.
THEOREM BudgetKept ==
  ASSUME ~ ReleaseReplyLost
  PROVE  Spec => []PendingHasBudget
BY Invariance, IInvImplies, PTL

\* A completed run's stored payload is the one its last attempt uploaded.
THEOREM PayloadIsTheOutcomes ==
  ASSUME ~ ReleaseReplyLost
  PROVE  Spec => []PayloadMatchesRow
BY Invariance, IInvImplies, PTL

-----------------------------------------------------------------------------
(* RunLifecycle implements RunRecord.                                       *)

Changed(old, status, attempts) == status # old.status \/ attempts # old.attempts

\* The moves RunRecord allows one row.
Allowed(old, new) ==
  \/ ~ Changed(old, new.status, new.attempts)
  \/ /\ new.attempts = old.attempts
     /\ \/ old.status = "absent" /\ new.status = "pending"
        \/ old.status = "pending" /\ new.status = "failed"
        \/ old.status = "processing" /\ new.status \in {"completed", "failed"}
        \/ old.status = "processing" /\ new.status = "pending" /\ old.attempts < MaxAttempts
  \/ /\ new.attempts = old.attempts + 1
     /\ old.status = "pending" /\ new.status = "processing"

Bar == [r \in Runs |-> [status |-> runs[r].status, attempts |-> runs[r].attempts]]

RecordStep == [Record!Next]_(Record!vars)

\* One row that makes an allowed move is a step of RunRecord, or a stutter.
LEMMA RowStep ==
  ASSUME IInv, NEW r \in Runs, NEW new \in Row, Allowed(runs[r], new),
         runs' = [runs EXCEPT ![r] = new]
  PROVE  RecordStep
<1>1. runs \in [Runs -> Row] /\ runs' \in [Runs -> Row]
  BY DEF IInv, TypeOK
<1>2. Bar' = [Bar EXCEPT ![r] = [status |-> new.status, attempts |-> new.attempts]]
  BY <1>1 DEF Bar
<1>3. Bar[r] = [status |-> runs[r].status, attempts |-> runs[r].attempts]
  BY DEF Bar
<1>4. CASE ~ Changed(runs[r], new.status, new.attempts)
  <2>1. Bar' = Bar
    BY <1>2, <1>3, <1>4 DEF Changed, Bar
  <2> QED BY <2>1 DEF RecordStep, Record!vars, Bar
<1>5. CASE new.attempts = runs[r].attempts /\ Changed(runs[r], new.status, new.attempts)
  <2> DEFINE old == runs[r]
  <2>1. [Bar[r] EXCEPT !.status = new.status] =
          [status |-> new.status, attempts |-> new.attempts]
    BY <1>3, <1>5
  <2>2. Bar' = [Bar EXCEPT ![r].status = new.status]
    BY <1>2, <2>1
  <2>3. Record!Become(r, new.status)
    BY <2>2 DEF Record!Become, Bar
  <2>4. Bar[r].status = old.status /\ Bar[r].attempts = old.attempts
    BY <1>3
  <2>5. old.attempts \in Nat /\ new.attempts # old.attempts + 1
    BY <1>1, <1>5, Bounds DEF Row
  <2>6. \/ old.status = "absent" /\ new.status = "pending"
        \/ old.status = "pending" /\ new.status = "failed"
        \/ old.status = "processing" /\ new.status \in {"completed", "failed"}
        \/ old.status = "processing" /\ new.status = "pending" /\ old.attempts < MaxAttempts
    BY <1>5, <2>5 DEF Allowed, Changed
  <2> HIDE DEF old
  <2>7. CASE old.status = "absent" /\ new.status = "pending"
    BY <2>3, <2>4, <2>7 DEF Record!Insert, Record!Next, RecordStep, Bar
  <2>8. CASE old.status = "pending" /\ new.status = "failed"
    BY <2>3, <2>4, <2>8 DEF Record!Abandon, Record!Next, RecordStep, Bar
  <2>9. CASE old.status = "processing" /\ new.status = "completed"
    BY <2>3, <2>4, <2>9 DEF Record!Complete, Record!Next, RecordStep, Bar
  <2>10. CASE old.status = "processing" /\ new.status = "failed"
    BY <2>3, <2>4, <2>10 DEF Record!Fail, Record!Next, RecordStep, Bar
  <2>11. CASE old.status = "processing" /\ new.status = "pending" /\ old.attempts < MaxAttempts
    BY <2>3, <2>4, <2>11 DEF Record!Release, Record!Next, RecordStep, Bar
  <2> QED BY <2>6, <2>7, <2>8, <2>9, <2>10, <2>11
<1>6. CASE new.attempts = runs[r].attempts + 1 /\ Changed(runs[r], new.status, new.attempts)
  <2>0. runs[r].attempts \in Nat /\ new.attempts # runs[r].attempts
    BY <1>1, <1>6, Bounds DEF Row
  <2>1. runs[r].status = "pending" /\ new.status = "processing"
    BY <1>6, <2>0 DEF Allowed, Changed
  <2>2. Record!Claim(r)
    BY <1>2, <1>3, <1>6, <2>1 DEF Record!Claim, Bar
  <2> QED BY <2>2 DEF RecordStep, Record!Next
<1> QED BY <1>4, <1>5, <1>6 DEF Allowed

\* Steps that leave status and attempts alone are stutters.
LEMMA NoRowStep ==
  ASSUME UNCHANGED Bar
  PROVE  RecordStep
BY DEF RecordStep, Record!vars, Bar

\* The guards in the statements themselves make their moves allowed ones; only
\* a release needs the budget its caller has looked at.
LEMMA StatementsAllowed ==
  ASSUME NEW row \in Row
  PROVE  /\ Allowed(row, claim_pending(row))
         /\ Allowed(row, mark_processing_completed(row))
         /\ Allowed(row, mark_processing_failed(row))
         /\ Allowed(row, mark_failed(row))
         /\ row.status = "absent" => Allowed(row, insert(row))
         /\ row.attempts < MaxAttempts => Allowed(row, return_processing_to_pending(row))
         /\ \A attempts : row.attempts < MaxAttempts \/ attempts >= MaxAttempts
              => Allowed(row, Recovered(row, attempts))
BY DEF Allowed, Changed, claim_pending, mark_processing_completed, Ended, mark_processing_failed,
       mark_failed, insert, return_processing_to_pending, Recovered, Row

\* What a step that is not the reaper's or the clock's does to the table.
OneRow ==
  \/ UNCHANGED runs
  \/ \E r \in Runs : \E new \in Row :
       Allowed(runs[r], new) /\ runs' = [runs EXCEPT ![r] = new]

\* Such a step is one of RunRecord, or a stutter.
LEMMA OneRowSteps ==
  ASSUME IInv, OneRow
  PROVE  RecordStep
<1>1. CASE UNCHANGED runs
  BY <1>1, NoRowStep DEF Bar
<1>2. CASE ~ UNCHANGED runs
  BY <1>2, RowStep DEF OneRow
<1> QED BY <1>1, <1>2

\* An allowed statement on a run, committed for sure or in doubt.
LEMMA AllowedWrite ==
  ASSUME NEW r \in Runs, NEW new \in Row, Allowed(runs[r], new),
         Write(r, new) \/ WriteInDoubt(r, new)
  PROVE  OneRow
BY DEF OneRow, Write, WriteInDoubt

\* A worker's step writes at most the row of its own run, as RunRecord allows.
LEMMA SlotRows ==
  ASSUME IInv, ~ ReleaseReplyLost, NEW w \in Slots, SlotStep(w) \/ SlotFault(w)
  PROVE  OneRow
<1> DEFINE row == runs[Run(w)]
<1>1. CASE UNCHANGED runs
  BY <1>1 DEF OneRow
<1>2. CASE ~ UNCHANGED runs
  <2>1. /\ slots[w].pc # "idle"
        /\ \/ /\ slots[w].pc = "claiming"
              /\ \/ Write(Run(w), claim_pending(row))
                 \/ WriteInDoubt(Run(w), claim_pending(row))
           \/ /\ slots[w].pc \in {"recording"}
              /\ \/ Write(Run(w), mark_processing_completed(row))
                 \/ WriteInDoubt(Run(w), mark_processing_completed(row))
           \/ /\ slots[w].pc \in {"releasing", "seed_releasing"}
              /\ \/ Write(Run(w), return_processing_to_pending(row))
                 \/ WriteInDoubt(Run(w), return_processing_to_pending(row))
           \/ /\ slots[w].pc \in {"failing", "seed_failing"}
              /\ \/ Write(Run(w), mark_processing_failed(row))
                 \/ WriteInDoubt(Run(w), mark_processing_failed(row))
           \/ /\ slots[w].pc = "cancelled"
              /\ \/ Write(Run(w), Recovered(row, Attempt(w)))
                 \/ WriteInDoubt(Run(w), Recovered(row, Attempt(w)))
    <3>1. CASE SlotStep(w) /\ ~ Unwind(w)
      BY <1>2, <3>1 DEF SlotStep, Start, StartJob, GiveUpJob, ReadRun, claim_for_processing,
         Upload, record_success, release_claim, record_failure, SeedFails, CrawlRaises
    <3>2. CASE Timeout(w) \/ Deploy(w)
      BY <1>2, <3>2 DEF Timeout, Deploy, Cancel
    <3>3. CASE Unwind(w) /\ ~ Timeout(w)
      BY <1>2, <3>3 DEF Unwind, recover_cancelled_attempt, Retry, FinishJob
    <3>4. CASE SlotFault(w) /\ ~ Deploy(w)
      BY <1>2, <3>4 DEF SlotFault, ClaimRaises, RecoverRaises, Crash, RecordRaises,
         FinishRaises
    <3> QED BY <3>1, <3>2, <3>3, <3>4
  <2>2. Run(w) \in Runs /\ row \in Row
    BY <2>1, SlotFacts
  <2>3. ASSUME slots[w].pc # "claiming"
        PROVE  /\ Held(slots[w]) /\ row.attempts = Attempt(w)
               /\ Attempt(w) \in 0 .. MaxAttempts
               /\ slots[w].pc \in {"releasing", "seed_releasing"} => row.attempts < MaxAttempts
    <3>1. Held(slots[w])
      BY <2>1, <2>3 DEF Held, Working, Handling
    <3> QED BY <3>1, HeldFacts DEF SlotOK, Attempt
  <2>4. CASE slots[w].pc = "claiming"
    <3>1. claim_pending(row) \in Row
      BY <2>2, ClaimFacts DEF RowOK
    <3> QED BY <2>1, <2>2, <2>4, <3>1, StatementsAllowed, AllowedWrite
  <2>5. CASE slots[w].pc \in {"recording", "failing", "seed_failing"}
    BY <2>1, <2>2, <2>5, StatementTypes, StatementsAllowed, AllowedWrite
  <2>6. CASE slots[w].pc \in {"releasing", "seed_releasing"}
    BY <2>1, <2>2, <2>3, <2>6, StatementTypes, StatementsAllowed, AllowedWrite
  <2>7. CASE slots[w].pc = "cancelled"
    <3>1. Recovered(row, Attempt(w)) \in Row
      BY <2>2, StatementTypes DEF Recovered
    <3>2. row.attempts < MaxAttempts \/ Attempt(w) >= MaxAttempts
      BY <2>3, <2>7, Bounds
    <3> QED BY <2>1, <2>2, <2>7, <3>1, <3>2, StatementsAllowed, AllowedWrite
  <2> QED BY <2>1, <2>4, <2>5, <2>6, <2>7
<1> QED BY <1>1, <1>2

\* A reaper's pass is a Sweep of the claimed runs among those it locks.
LEMMA SweepStep ==
  ASSUME IInv, reap_stuck_runs
  PROVE  RecordStep
<1>1. PICK S \in lock_reapable :
        runs' = [r \in Runs |-> IF r \in S THEN Reaped(runs[r]) ELSE runs[r]]
  BY DEF reap_stuck_runs
<1>2. \A r \in S : r \in Runs /\ Reapable(r)
  BY DEF lock_reapable
<1>T. PICK T \in SUBSET Runs : T = {r \in S : runs[r].status = "processing"}
  BY <1>2
<1>3. \A r \in Runs : Bar[r] = [status |-> runs[r].status, attempts |-> runs[r].attempts]
  BY DEF Bar
<1>4. ASSUME NEW r \in Runs
      PROVE  [status |-> runs'[r].status, attempts |-> runs'[r].attempts] =
               IF r \notin T THEN Bar[r]
               ELSE [Bar[r] EXCEPT !.status =
                       IF Bar[r].attempts >= MaxAttempts THEN "failed" ELSE "pending"]
  <2>1. runs[r] \in Row
    BY DEF IInv, TypeOK
  <2>2. CASE r \in T
    <3> DEFINE status == IF runs[r].attempts >= MaxAttempts THEN "failed" ELSE "pending"
    <3>1. runs'[r] = Reaped(runs[r]) /\ runs[r].status = "processing"
      BY <1>T, <1>1, <2>2
    <3>2. Reaped(runs[r]).status = status /\ Reaped(runs[r]).attempts = runs[r].attempts
      BY <2>1, <3>1 DEF Reaped, Ended, mark_processing_failed, return_processing_to_pending, Row
    <3>3. Bar[r] = [status |-> runs[r].status, attempts |-> runs[r].attempts]
      BY <1>3
    <3>4. Bar[r].attempts = runs[r].attempts
      BY <3>3
    <3> HIDE DEF status
    <3>5. [Bar[r] EXCEPT !.status = status] = [status |-> status, attempts |-> runs[r].attempts]
      BY <3>3
    <3> QED BY <2>2, <3>1, <3>2, <3>4, <3>5 DEF status
  <2>3. CASE r \notin T
    <3>1. runs'[r] = runs[r]
      BY <1>T, <1>1, <1>2, <2>3 DEF Reaped, Reapable
    <3> QED BY <1>3, <2>3, <3>1
  <2> QED BY <2>2, <2>3
<1>5. Bar' = [r \in Runs |->
                IF r \notin T THEN Bar[r]
                ELSE [Bar[r] EXCEPT !.status =
                        IF Bar[r].attempts >= MaxAttempts THEN "failed" ELSE "pending"]]
  BY <1>4 DEF Bar
<1>6. \A r \in T : Bar[r].status = "processing"
  <2> SUFFICES ASSUME NEW r \in T PROVE Bar[r].status = "processing"
    OBVIOUS
  <2>1. r \in Runs /\ runs[r].status = "processing"
    BY <1>T
  <2>2. Bar[r] = [status |-> runs[r].status, attempts |-> runs[r].attempts]
    BY <1>3, <2>1
  <2> QED BY <2>1, <2>2
<1>7. Record!Sweep(T)
  BY <1>5, <1>6 DEF Record!Sweep, Bar
<1>8. Record!Next
  BY <1>7 DEF Record!Next
<1> QED BY <1>8 DEF RecordStep

\* Deleting a website is deleting its runs.
LEMMA DeleteRecord ==
  ASSUME IInv, NEW S \in SUBSET Runs, delete_website(S)
  PROVE  RecordStep
<1>1. ASSUME NEW r \in Runs
      PROVE  [status |-> runs'[r].status, attempts |-> runs'[r].attempts] =
               IF r \in S THEN [Bar[r] EXCEPT !.status = "deleted"] ELSE Bar[r]
  <2>1. runs[r] \in Row /\ Bar[r] = [status |-> runs[r].status, attempts |-> runs[r].attempts]
    BY DEF IInv, TypeOK, Bar
  <2>2. runs'[r] = IF r \in S THEN Ended(runs[r], "deleted") ELSE runs[r]
    BY DEF delete_website
  <2> QED BY <2>1, <2>2 DEF Ended, Row
<1>2. Bar' = [r \in Runs |-> IF r \in S THEN [Bar[r] EXCEPT !.status = "deleted"] ELSE Bar[r]]
  BY <1>1 DEF Bar
<1>3. \A r \in S : Bar[r].status # "absent"
  BY DEF delete_website, Bar
<1>4. Record!Delete(S)
  BY <1>2, <1>3 DEF Record!Delete, Bar
<1> QED BY <1>4 DEF Record!Next, RecordStep

\* Every step of the code is a step of the record, or a stutter.
LEMMA NextRecord ==
  ASSUME IInv, ~ ReleaseReplyLost, [Next]_vars
  PROVE  RecordStep
<1>1. ASSUME NEW r \in Runs, Insert(r) \/ ApiStep(r) \/ EnqueueRaises(r) \/ ApiStops(r)
      PROVE  OneRow
  <2>1. runs[r] \in Row
    BY DEF IInv, TypeOK
  <2>2. CASE UNCHANGED runs
    BY <2>2 DEF OneRow
  <2>3. CASE ~ UNCHANGED runs
    BY <1>1, <2>1, <2>3, StatementTypes, StatementsAllowed, AllowedWrite
       DEF Insert, ApiStep, Enqueue, abandon_unqueued_run, EnqueueRaises, ApiStops
  <2> QED BY <2>2, <2>3
<1>2. CASE Tick
  <2>1. \A r \in Runs : Aged(runs[r]).status = runs[r].status
                        /\ Aged(runs[r]).attempts = runs[r].attempts
    BY DEF IInv, TypeOK, Aged, Row
  <2>2. UNCHANGED Bar
    BY <1>2, <2>1 DEF Tick, Bar
  <2> QED BY <2>2, NoRowStep
<1>3. CASE UNCHANGED vars \/ ReaperStops \/ (ReaperStep /\ ~ reap_stuck_runs)
           \/ \E x \in sweep : ReapedEnqueueRaises(x)
  <2>1. OneRow
    BY <1>3 DEF vars, ReaperStops, ReaperStep, enqueue_reaped, ReapedEnqueueRaises, OneRow
  <2> QED BY <2>1, OneRowSteps
<1> QED BY <1>1, <1>2, <1>3, SlotRows, DeleteRecord, SweepStep, OneRowSteps
   DEF Next, Progress, OutsideFault

\* Queue, workers and reaper implement the abstract record: attempts one by
\* one within the budget, and no run leaves its outcome.
THEOREM Implementation ==
  ASSUME ~ ReleaseReplyLost
  PROVE  Spec => ImplementsRecord
<1>1. Init => Record!Init
  BY DEF Init, Record!Init
<1>2. IInv /\ [Next]_vars => [Record!Next]_(Record!vars)
  BY NextRecord DEF RecordStep
<1> QED BY <1>1, <1>2, Invariance, PTL DEF Spec, ImplementsRecord, Record!Spec
=============================================================================
