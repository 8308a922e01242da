----------------------------- MODULE RunRecord -----------------------------
(***************************************************************************)
(* What the runs table promises about one crawl run, whatever the queue,   *)
(* the workers and the reaper do around it: a run is claimed one attempt   *)
(* at a time, an attempt that ends without an outcome gives the run back   *)
(* only while the attempt budget lasts, and an outcome is final: no action *)
(* but its website's deletion leaves "completed" or "failed", and none     *)
(* takes an attempt back.                                                  *)
(***************************************************************************)
EXTENDS Naturals

CONSTANTS
  Runs,          \* run ids
  MaxAttempts    \* worker.policy.MAX_ATTEMPTS

VARIABLE rows    \* run id -> [status, attempts]

vars == <<rows>>

Init == rows = [r \in Runs |-> [status |-> "absent", attempts |-> 0]]

Become(r, status) == rows' = [rows EXCEPT ![r].status = status]

Insert(r) == rows[r].status = "absent" /\ Become(r, "pending")

\* The enqueue failed, so the run will never be picked up.
Abandon(r) == rows[r].status = "pending" /\ Become(r, "failed")

Claim(r) ==
  /\ rows[r].status = "pending"
  /\ rows' = [rows EXCEPT ![r] = [status |-> "processing", attempts |-> @.attempts + 1]]

Release(r) ==
  /\ rows[r].status = "processing"
  /\ rows[r].attempts < MaxAttempts
  /\ Become(r, "pending")

Complete(r) == rows[r].status = "processing" /\ Become(r, "completed")

Fail(r) == rows[r].status = "processing" /\ Become(r, "failed")

\* One reaper pass: out-of-budget runs are given up, the others given back.
Sweep(S) ==
  /\ \A r \in S : rows[r].status = "processing"
  /\ rows' = [r \in Runs |->
                IF r \notin S THEN rows[r]
                ELSE [rows[r] EXCEPT !.status =
                        IF rows[r].attempts >= MaxAttempts THEN "failed" ELSE "pending"]]

\* Deleting a website cascades to its runs.
Delete(S) ==
  /\ \A r \in S : rows[r].status # "absent"
  /\ rows' = [r \in Runs |-> IF r \in S THEN [rows[r] EXCEPT !.status = "deleted"] ELSE rows[r]]

Next ==
  \/ \E r \in Runs : \/ Insert(r) \/ Abandon(r) \/ Claim(r)
                     \/ Release(r) \/ Complete(r) \/ Fail(r)
  \/ \E S \in SUBSET Runs : Sweep(S) \/ Delete(S)

Spec == Init /\ [][Next]_vars
=============================================================================
