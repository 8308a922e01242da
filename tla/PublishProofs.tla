--------------------------- MODULE PublishProofs ---------------------------
(***************************************************************************)
(* Publishing, and the credentials that the backend keeps.  What Publish's *)
(* TLC run checks on a small instance, for every number of runs,           *)
(* repositories and texts, and for any number of failed calls, edits and   *)
(* changes of the target; the signing keys that bearer tokens are verified *)
(* with (Jwks) and the installation tokens presented to GitHub (Tokens),   *)
(* for every number of requests at the same time.                          *)
(***************************************************************************)
EXTENDS Publish, Jwks, Tokens, SequenceTheorems, FiniteSetTheorems, TLAPS

-----------------------------------------------------------------------------
(* Publishing.                                                              *)

\* What a job may be doing once a pull request may have been opened for its run.
Over == {"recording", "redelivered", "ended"}

\* What a run's job has done: before it has proposed there is no pull request,
\* and what it is about to record as succeeded is on GitHub.
JobOK(r, job, made, requests) ==
  /\ job.pc = "committing" => job.target.mode = "commit"
  /\ job.pc = "proposing" => [run |-> r, place |-> job.target.place, mode |-> job.target.mode] \in made
  /\ job.pc = "recording" /\ job.status = "succeeded" =>
       /\ job.commit \in made /\ job.commit.run = r
       /\ job.commit.mode = "pull_request" => requests[job.commit.place][r].opened > 0
  /\ \A p \in Places :
       /\ requests[p][r].opened <= 1
       /\ requests[p][r].opened = 1 => job.pc \in Over
  /\ \A p, q \in Places : requests[p][r].opened = 1 /\ requests[q][r].opened = 1 => p = q

\* Until its run is recorded a job has done nothing.
NotYet(run, job) == run.st # "completed" => job.pc = "none"

JobsInv ==
  \A r \in Runs : NotYet(runs[r], jobs[r]) /\ JobOK(r, jobs[r], commits, pulls)

\* A branch that is about to be read or proposed, or is being proposed, exists.
BranchesInv ==
  \A r \in Runs :
    /\ jobs[r].pc \in {"rereading", "pushing", "proposing"} =>
         branches[jobs[r].target.place][r] # Null
    /\ \A p \in Places : pulls[p][r].st = "open" => branches[p][r] # Null

Core == TypeOK /\ JobsInv /\ SucceededIsThere

IInv == Core /\ BranchesInv

\* What only ever grows: the commits made, and the pull requests opened.
Grows ==
  /\ commits \subseteq commits'
  /\ \A p \in Places, r \in Runs : pulls[p][r].opened <= pulls'[p][r].opened

GitHubTypes ==
  /\ files \in [Places -> Contents]
  /\ branches \in [Places -> [Runs -> Contents \cup {Null}]]
  /\ pulls \in [Places -> [Runs -> Pulls]]
  /\ commits \in SUBSET Commits

\* The conjuncts of TypeOK that are about one run and its job.
JobTypes(run, job) ==
  /\ job \in Jobs
  /\ job.pc \in Calling \cup {"recording"} => job.target \in Targets
  /\ job.pc = "recording" => job.status \in Statuses

UsedTypes == used \in [faults : 0 .. MaxFaults, edits : 0 .. MaxEdits, targets : 0 .. MaxTargets]

-----------------------------------------------------------------------------
(* Rows of the table stay true while GitHub only gains.                      *)

LEMMA RowsStay ==
  ASSUME IInv, Grows, pulls' \in [Places -> [Runs -> Pulls]],
         publications' \subseteq publications
  PROVE  SucceededIsThere'
<1>1. ASSUME NEW row \in publications', row.status = "succeeded"
      PROVE  /\ row.commit \in commits' /\ row.commit.run = row.run
             /\ row.commit.mode = "pull_request" => pulls'[row.commit.place][row.run].opened > 0
  <2>1. /\ row.commit \in commits /\ row.commit.run = row.run
        /\ row.commit.mode = "pull_request" => pulls[row.commit.place][row.run].opened > 0
    BY <1>1 DEF IInv, Core, SucceededIsThere
  <2>2. row.commit \in Commits /\ row.run \in Runs
    BY <2>1, <1>1 DEF IInv, Core, TypeOK, Rows
  <2>3. row.commit.place \in Places
    BY <2>2 DEF Commits
  <2>4. /\ pulls[row.commit.place][row.run].opened \in Nat
        /\ pulls'[row.commit.place][row.run].opened \in Nat
    BY <2>2, <2>3 DEF IInv, Core, TypeOK, Pulls
  <2> QED BY <2>1, <2>2, <2>3, <2>4 DEF Grows
<1> QED BY <1>1 DEF SucceededIsThere

\* A step that leaves the jobs alone and opens no pull request.
LEMMA OutsideSteps ==
  ASSUME IInv, UNCHANGED <<runs, jobs, commits>>, GitHubTypes', UsedTypes',
         target' \in Targets \cup {Null}, publications' \subseteq publications,
         \A p \in Places, r \in Runs : pulls'[p][r].opened = pulls[p][r].opened
  PROVE  Core'
<1>1. Grows
  <2>1. \A p \in Places, r \in Runs : pulls[p][r].opened \in Nat
    BY DEF IInv, Core, TypeOK, Pulls
  <2> QED BY <2>1 DEF Grows
<1>2. TypeOK'
  BY DEF IInv, Core, TypeOK, GitHubTypes, UsedTypes
<1>3. JobsInv'
  <2> SUFFICES ASSUME NEW r \in Runs
               PROVE  NotYet(runs[r], jobs[r]) /\ JobOK(r, jobs[r], commits, pulls')
    BY DEF JobsInv
  <2>1. NotYet(runs[r], jobs[r]) /\ JobOK(r, jobs[r], commits, pulls)
    BY DEF IInv, Core, JobsInv
  <2>2. jobs[r].pc = "recording" /\ jobs[r].status = "succeeded" => jobs[r].commit.place \in Places
    BY <2>1 DEF JobOK, IInv, Core, TypeOK, Commits
  <2> QED BY <2>1, <2>2 DEF JobOK
<1> QED BY <1>1, <1>2, <1>3, RowsStay DEF IInv, Core, GitHubTypes

\* A step of one job: it keeps what it must, and the others lose nothing.
LEMMA JobSteps ==
  ASSUME IInv, NEW r \in Runs, NEW job, jobs[r].pc # "none",
         jobs' = [jobs EXCEPT ![r] = job], JobTypes(runs[r], job),
         UNCHANGED <<runs, target>>, GitHubTypes', UsedTypes', Grows,
         \A p \in Places, q \in Runs \ {r} : pulls'[p][q] = pulls[p][q],
         JobOK(r, job, commits', pulls'),
         publications' \in SUBSET Rows, SucceededIsThere'
  PROVE  Core'
<1>0. jobs \in [Runs -> Jobs] /\ NotYet(runs[r], jobs[r])
  BY DEF IInv, Core, TypeOK, JobsInv
<1>1. TypeOK'
  <2>1. jobs' \in [Runs -> Jobs]
    BY <1>0 DEF JobTypes
  <2>2. \A q \in Runs :
          /\ jobs'[q].pc \in Calling \cup {"recording"} => jobs'[q].target \in Targets
          /\ jobs'[q].pc = "recording" => jobs'[q].status \in Statuses
    BY <1>0 DEF JobTypes, IInv, Core, TypeOK
  <2> QED BY <2>1, <2>2 DEF IInv, Core, TypeOK, GitHubTypes, UsedTypes
<1>2. JobsInv'
  <2> SUFFICES ASSUME NEW q \in Runs
               PROVE  NotYet(runs[q], jobs'[q]) /\ JobOK(q, jobs'[q], commits', pulls')
    BY DEF JobsInv
  <2>1. CASE q = r
    BY <2>1, <1>0 DEF NotYet
  <2>2. CASE q # r
    <3>1. jobs'[q] = jobs[q] /\ NotYet(runs[q], jobs[q]) /\ JobOK(q, jobs[q], commits, pulls)
      BY <2>2, <1>0 DEF IInv, Core, JobsInv
    <3>2. \A p \in Places : pulls'[p][q] = pulls[p][q]
      BY <2>2
    <3>3. jobs[q].pc = "recording" /\ jobs[q].status = "succeeded" =>
            jobs[q].commit.place \in Places
      BY <3>1 DEF JobOK, IInv, Core, TypeOK, Commits
    <3>4. JobOK(q, jobs[q], commits', pulls')
      BY <3>1, <3>2, <3>3 DEF JobOK, Grows
    <3> QED BY <3>1, <3>4
  <2> QED BY <2>1, <2>2
<1> QED BY <1>1, <1>2 DEF IInv, Core

-----------------------------------------------------------------------------
(* What a call does to GitHub.                                               *)

\* The bounds on faults, edits and changes are kept by the guards that count.
LEMMA UsedStays ==
  ASSUME IInv, Fault \/ Change \/ Edit \/ UNCHANGED used
  PROVE  UsedTypes'
<1>1. MaxFaults \in Nat /\ MaxEdits \in Nat /\ MaxTargets \in Nat
  BY SizeAssumption
<1>2. used \in [faults : 0 .. MaxFaults, edits : 0 .. MaxEdits, targets : 0 .. MaxTargets]
  BY DEF IInv, Core, TypeOK
<1>3. CASE Fault
  BY <1>1, <1>2, <1>3 DEF UsedTypes, Fault
<1>4. CASE Change
  BY <1>1, <1>2, <1>4 DEF UsedTypes, Change
<1>5. CASE Edit
  BY <1>1, <1>2, <1>5 DEF UsedTypes, Edit
<1>6. CASE UNCHANGED used
  BY <1>2, <1>6 DEF UsedTypes
<1> QED BY <1>3, <1>4, <1>5, <1>6

\* A job that calls has a target and a text.
LEMMA CallFacts ==
  ASSUME IInv, NEW r \in Runs, jobs[r].pc \in Calling \cup {"recording"}
  PROVE  /\ jobs[r] \in Jobs /\ jobs[r].pc # "none" /\ jobs[r].target \in Targets
         /\ Place(r) \in Places /\ jobs[r].target.mode \in Modes /\ CommitOf(r) \in Commits
         /\ Text(r) \in Contents /\ runs[r].st = "completed"
         /\ JobOK(r, jobs[r], commits, pulls)
<1>1. jobs[r] \in Jobs /\ jobs[r].pc # "none" /\ jobs[r].target \in Targets
  BY DEF IInv, Core, TypeOK, Calling
<1>2. Place(r) \in Places /\ jobs[r].target.mode \in Modes /\ CommitOf(r) \in Commits
  BY <1>1 DEF Place, Job, CommitOf, Targets, Commits
<1>3. runs[r].st = "completed" /\ JobOK(r, jobs[r], commits, pulls)
  BY <1>1 DEF IInv, Core, JobsInv, NotYet
<1>4. Text(r) \in Contents
  BY <1>3 DEF Text, Contents, IInv, Core, TypeOK
<1> QED BY <1>1, <1>2, <1>3, <1>4

\* Nothing on GitHub changes.
LEMMA NoEffect ==
  ASSUME IInv, UNCHANGED github
  PROVE  /\ GitHubTypes' /\ Grows
         /\ \A p \in Places, q \in Runs : pulls'[p][q] = pulls[p][q]
<1>1. \A p \in Places, r \in Runs : pulls[p][r].opened \in Nat
  BY DEF IInv, Core, TypeOK, Pulls
<1> QED BY <1>1 DEF github, GitHubTypes, Grows, IInv, Core, TypeOK

\* Commits and branches come without a pull request.
LEMMA WriteEffects ==
  ASSUME IInv, NEW r \in Runs, jobs[r].pc \in Calling,
         CommitEffect(r) \/ BranchEffect(r) \/ PushEffect(r)
  PROVE  /\ GitHubTypes' /\ Grows
         /\ \A p \in Places, q \in Runs : pulls'[p][q] = pulls[p][q]
         /\ CommitEffect(r) \/ PushEffect(r) => CommitOf(r) \in commits'
<1>0. /\ Place(r) \in Places /\ CommitOf(r) \in Commits /\ Text(r) \in Contents
      /\ files \in [Places -> Contents] /\ branches \in [Places -> [Runs -> Contents \cup {Null}]]
  BY CallFacts DEF IInv, Core, TypeOK
<1>1. \A p \in Places, q \in Runs : pulls[p][q].opened \in Nat
  BY DEF IInv, Core, TypeOK, Pulls
<1>2. UNCHANGED pulls /\ commits \subseteq commits' /\ commits' \in SUBSET Commits
  BY <1>0 DEF CommitEffect, BranchEffect, PushEffect, IInv, Core, TypeOK
<1>3. files' \in [Places -> Contents]
  BY <1>0 DEF CommitEffect, BranchEffect, PushEffect
<1>4. branches' \in [Places -> [Runs -> Contents \cup {Null}]]
  <2>1. CASE CommitEffect(r)
    BY <1>0, <2>1 DEF CommitEffect
  <2>2. CASE BranchEffect(r)
    BY <1>0, <2>2 DEF BranchEffect
  <2>3. CASE PushEffect(r)
    BY <1>0, <2>3 DEF PushEffect
  <2> QED BY <2>1, <2>2, <2>3
<1>5. CommitEffect(r) \/ PushEffect(r) => CommitOf(r) \in commits'
  BY DEF CommitEffect, PushEffect
<1> QED BY <1>1, <1>2, <1>3, <1>4, <1>5 DEF GitHubTypes, Grows, IInv, Core, TypeOK

\* A pull request is opened where there was none, for a commit that is there.
LEMMA ProposeEffects ==
  ASSUME IInv, NEW r \in Runs, jobs[r].pc = "proposing", ProposeEffect(r)
  PROVE  /\ GitHubTypes' /\ Grows
         /\ \A p \in Places, q \in Runs \ {r} : pulls'[p][q] = pulls[p][q]
         /\ \A p \in Places : pulls[p][r].opened = 0
                              /\ pulls'[p][r].opened = IF p = Place(r) THEN 1 ELSE 0
         /\ CommitOf(r) \in commits'
<1>0. Place(r) \in Places /\ JobOK(r, jobs[r], commits, pulls) /\ pulls \in [Places -> [Runs -> Pulls]]
  BY CallFacts DEF IInv, Core, TypeOK, Calling
<1>1. \A p \in Places, q \in Runs : pulls[p][q] \in Pulls /\ pulls[p][q].opened \in Nat
  BY <1>0 DEF Pulls
<1>2. ASSUME NEW p \in Places
      PROVE  pulls[p][r].opened = 0
  <2>1. pulls[p][r].opened <= 1 /\ pulls[p][r].opened # 1
    BY <1>0 DEF JobOK, Over
  <2> QED BY <2>1, <1>1
<1>3. \A p \in Places, q \in Runs :
        pulls'[p][q] = IF p = Place(r) /\ q = r THEN [st |-> "open", opened |-> pulls[p][q].opened + 1]
                       ELSE pulls[p][q]
  BY <1>0 DEF ProposeEffect
<1>4. pulls' \in [Places -> [Runs -> Pulls]]
  BY <1>0, <1>1 DEF ProposeEffect, Pulls
<1>5. CommitOf(r) \in commits'
  BY <1>0 DEF JobOK, CommitOf, Place, Job, ProposeEffect
<1> QED BY <1>1, <1>2, <1>3, <1>4, <1>5 DEF ProposeEffect, GitHubTypes, Grows, IInv, Core, TypeOK

\* Whatever a call in doubt has done: the pull requests are those of a job that
\* is over, and the table's rows stay true.
LEMMA InDoubt ==
  ASSUME IInv, NEW r \in Runs, jobs[r].pc \in Calling \cup {"reading", "recording"}, GitHubInDoubt(r)
  PROVE  /\ GitHubTypes' /\ Grows
         /\ \A p \in Places, q \in Runs \ {r} : pulls'[p][q] = pulls[p][q]
         /\ \A p \in Places : pulls'[p][r].opened <= 1
         /\ \A p, q \in Places :
              pulls'[p][r].opened = 1 /\ pulls'[q][r].opened = 1 => p = q
         /\ jobs[r].pc = "recording" => UNCHANGED github
<1>0. JobOK(r, jobs[r], commits, pulls)
  BY DEF IInv, Core, JobsInv
<1>1. CASE UNCHANGED github
  BY <1>0, <1>1, NoEffect DEF JobOK
<1>2. CASE jobs[r].pc \in Calling /\ (CommitEffect(r) \/ BranchEffect(r) \/ PushEffect(r))
  BY <1>0, <1>2, WriteEffects DEF JobOK, Calling
<1>3. CASE jobs[r].pc = "proposing" /\ ProposeEffect(r)
  BY <1>3, ProposeEffects
<1> QED BY <1>1, <1>2, <1>3 DEF GitHubInDoubt, Job, Calling

-----------------------------------------------------------------------------
(* The steps of a job.                                                       *)

\* A row that is written is one its job may write.
LEMMA RowIsTrue ==
  ASSUME IInv, NEW r \in Runs, jobs[r].pc \in Calling \cup {"reading", "recording"}, Grows,
         pulls' \in [Places -> [Runs -> Pulls]], RowInDoubt(r) \/ record_publication(r)
  PROVE  SucceededIsThere' /\ publications' \in SUBSET Rows
<1>1. CASE publications' = publications
  BY <1>1, RowsStay DEF IInv, Core, TypeOK
<1>2. CASE jobs[r].pc = "recording" /\ publications' = publications \cup {Row(r)}
  <2>1. jobs[r] \in Jobs /\ jobs[r].target \in Targets /\ JobOK(r, jobs[r], commits, pulls)
    BY <1>2, CallFacts
  <2>2. jobs[r].status \in Statuses
    BY <1>2 DEF IInv, Core, TypeOK
  <2>3. Row(r) \in Rows
    BY <2>1, <2>2 DEF Row, Rows, Job, Jobs, Targets
  <2>4. ASSUME NEW row \in publications', row.status = "succeeded"
        PROVE  /\ row.commit \in commits' /\ row.commit.run = row.run
               /\ row.commit.mode = "pull_request" =>
                    pulls'[row.commit.place][row.run].opened > 0
    <3>1. /\ row.commit \in commits /\ row.commit.run = row.run
          /\ row.commit.mode = "pull_request" => pulls[row.commit.place][row.run].opened > 0
      <4>1. CASE row \in publications
        BY <2>4, <4>1 DEF IInv, Core, SucceededIsThere
      <4>2. CASE row = Row(r)
        BY <1>2, <2>1, <2>4, <4>2 DEF Row, Job, JobOK
      <4> QED BY <1>2, <4>1, <4>2
    <3>2. row.commit.place \in Places /\ row.run \in Runs
      <4>1. row \in Rows
        BY <1>2, <2>3 DEF IInv, Core, TypeOK
      <4> QED BY <3>1, <4>1 DEF Rows, Commits, IInv, Core, TypeOK
    <3>3. /\ pulls[row.commit.place][row.run].opened \in Nat
          /\ pulls'[row.commit.place][row.run].opened \in Nat
      BY <3>2 DEF IInv, Core, TypeOK, Pulls
    <3> QED BY <3>1, <3>2, <3>3 DEF Grows
  <2> QED BY <1>2, <2>3, <2>4 DEF SucceededIsThere, IInv, Core, TypeOK
<1> QED BY <1>1, <1>2 DEF RowInDoubt, record_publication, Job

\* A job that has not proposed has no pull request, and may move to any place
\* it is ready for.
LEMMA PlainMoves ==
  ASSUME IInv, NEW r \in Runs, NEW job, jobs[r].pc \notin Over \cup {"none"},
         jobs' = [jobs EXCEPT ![r] = job], JobTypes(runs[r], job),
         UNCHANGED <<runs, target, publications>>, UsedTypes', GitHubTypes', Grows,
         \A p \in Places, q \in Runs : pulls'[p][q] = pulls[p][q],
         job.pc = "committing" => job.target.mode = "commit",
         job.pc = "proposing" =>
           [run |-> r, place |-> job.target.place, mode |-> job.target.mode] \in commits',
         job.pc = "recording" /\ job.status = "succeeded" =>
           job.commit \in commits' /\ job.commit.run = r /\ job.commit.mode # "pull_request"
  PROVE  Core'
<1>1. JobOK(r, jobs[r], commits, pulls)
  BY DEF IInv, Core, JobsInv
<1>2. JobOK(r, job, commits', pulls')
  BY <1>1 DEF JobOK
<1>3. SucceededIsThere' /\ publications' \in SUBSET Rows
  BY RowsStay DEF IInv, Core, TypeOK, GitHubTypes
<1> QED BY <1>2, <1>3, JobSteps

\* A job that is over, or about to record that it came to nothing.
LEMMA OverMoves ==
  ASSUME IInv, NEW r \in Runs, NEW job, jobs[r].pc # "none",
         jobs' = [jobs EXCEPT ![r] = job], JobTypes(runs[r], job),
         UNCHANGED <<runs, target>>, UsedTypes', GitHubTypes', Grows,
         \A p \in Places, q \in Runs \ {r} : pulls'[p][q] = pulls[p][q],
         \A p \in Places : pulls'[p][r].opened <= 1,
         \A p, q \in Places : pulls'[p][r].opened = 1 /\ pulls'[q][r].opened = 1 => p = q,
         job.pc \in Over, job.pc = "recording" => job.status # "succeeded",
         publications' \in SUBSET Rows, SucceededIsThere'
  PROVE  Core'
<1>1. JobOK(r, job, commits', pulls')
  BY DEF JobOK, Over
<1> QED BY <1>1, JobSteps

\* The reads at the beginning, and the comparison.
LEMMA ReadingSteps ==
  ASSUME IInv, NEW r \in Runs,
         ReadTarget(r) \/ ReadTargetRaises(r) \/ Compare(r) \/ Reread(r)
  PROVE  Core'
<1>1. /\ UNCHANGED <<runs, target, publications, github>> /\ UsedTypes' /\ GitHubTypes' /\ Grows
      /\ \A p \in Places, q \in Runs : pulls'[p][q] = pulls[p][q]
  BY UsedStays, NoEffect DEF ReadTarget, ReadTargetRaises, Compare, Reread
<1>2. jobs[r] \in Jobs /\ jobs \in [Runs -> Jobs]
  BY DEF IInv, Core, TypeOK
<1>3. CASE ReadTarget(r) \/ ReadTargetRaises(r)
  <2> DEFINE Next1 == {[jobs[r] EXCEPT !.pc = "ended"],
                       [jobs[r] EXCEPT !.pc = "recording", !.target = target,
                                       !.status = "skipped_unchanged"],
                       [jobs[r] EXCEPT !.pc = "comparing", !.target = target]}
  <2>1. PICK job \in Next1 : /\ jobs' = [jobs EXCEPT ![r] = job]
                             /\ job.pc # "ended" => target # Null
    BY <1>2, <1>3 DEF ReadTarget, ReadTargetRaises, Continue, Jobs
  <2>2. target \in Targets \cup {Null}
    BY DEF IInv, Core, TypeOK
  <2>3. /\ JobTypes(runs[r], job) /\ job.pc \notin {"committing", "proposing"}
        /\ job.pc = "recording" => job.status # "succeeded"
    <3>1. CASE job = [jobs[r] EXCEPT !.pc = "ended"]
      BY <1>2, <3>1 DEF JobTypes, Jobs, Calling
    <3>2. CASE job # [jobs[r] EXCEPT !.pc = "ended"]
      <4>1. job.pc \in {"recording", "comparing"} /\ target \in Targets
        BY <1>2, <2>1, <2>2, <3>2 DEF Jobs
      <4> QED BY <1>2, <2>1, <3>2, <4>1 DEF JobTypes, Jobs, Calling, Statuses
    <3> QED BY <3>1, <3>2
  <2>4. jobs[r].pc \notin Over \cup {"none"}
    BY <1>3 DEF ReadTarget, ReadTargetRaises, Job, Over
  <2> HIDE DEF Next1
  <2> QED BY <1>1, <2>1, <2>3, <2>4, PlainMoves
<1>4. CASE Compare(r) \/ Reread(r)
  <2>1. jobs[r].pc \in {"comparing", "rereading"}
    BY <1>4 DEF Compare, Reread, Job
  <2>2. jobs[r].target \in Targets /\ Place(r) \in Places
    BY <2>1, CallFacts DEF Calling
  <2>3. files[Place(r)] \in Contents /\ branches[Place(r)][r] \in Contents \cup {Null}
    BY <2>2 DEF IInv, Core, TypeOK
  <2> DEFINE Next1 == {[jobs[r] EXCEPT !.pc = "recording", !.status = "skipped_unchanged",
                                       !.commit = Null, !.guarded = TRUE],
                       [jobs[r] EXCEPT !.seen = files[Place(r)], !.pc = "committing"],
                       [jobs[r] EXCEPT !.seen = files[Place(r)], !.pc = "branching"],
                       [jobs[r] EXCEPT !.seen = branches[Place(r)][r], !.pc = "pushing"]}
  <2>4. PICK job \in Next1 :
          /\ jobs' = [jobs EXCEPT ![r] = job]
          /\ job.pc = "committing" => jobs[r].target.mode = "commit"
    BY <1>2, <1>4 DEF Compare, Reread, Finish, Jobs, Job
  <2>5. JobTypes(runs[r], job) /\ job.pc # "proposing" /\ job.target = jobs[r].target
        /\ (job.pc = "recording" => job.status # "succeeded")
    <3>1. jobs[r] \in Jobs
      BY <1>2
    <3> HIDE DEF Next1
    <3>2. ASSUME NEW next \in Next1
          PROVE  /\ next \in Jobs /\ next.target = jobs[r].target
                 /\ next.pc \in {"recording", "committing", "branching", "pushing"}
                 /\ next.pc = "recording" => next.status = "skipped_unchanged"
      <4>1. CASE next = [jobs[r] EXCEPT !.pc = "recording", !.status = "skipped_unchanged",
                                        !.commit = Null, !.guarded = TRUE]
        BY <3>1, <4>1 DEF Jobs, Calling, Statuses
      <4>2. CASE next = [jobs[r] EXCEPT !.seen = files[Place(r)], !.pc = "committing"]
        BY <2>3, <3>1, <4>2 DEF Jobs, Calling
      <4>3. CASE next = [jobs[r] EXCEPT !.seen = files[Place(r)], !.pc = "branching"]
        BY <2>3, <3>1, <4>3 DEF Jobs, Calling
      <4>4. CASE next = [jobs[r] EXCEPT !.seen = branches[Place(r)][r], !.pc = "pushing"]
        BY <2>3, <3>1, <4>4 DEF Jobs, Calling
      <4> QED BY <3>2, <4>1, <4>2, <4>3, <4>4 DEF Next1
    <3>3. job.target \in Targets
      BY <2>2, <2>4, <3>2
    <3> QED BY <2>4, <3>2, <3>3 DEF JobTypes, Statuses
  <2>6. jobs[r].pc \notin Over \cup {"none"}
    BY <2>1 DEF Over
  <2> HIDE DEF Next1
  <2> QED BY <1>1, <2>4, <2>5, <2>6, PlainMoves
<1> QED BY <1>3, <1>4

\* Cutting the branch, and the write to it or to the base branch.
LEMMA WritingSteps ==
  ASSUME IInv, NEW r \in Runs, Commit(r) \/ CutBranch(r) \/ Push(r)
  PROVE  Core'
<1>1. jobs[r].pc \in {"committing", "branching", "pushing"}
  BY DEF Commit, CutBranch, Push, Job
<1>2. /\ jobs[r] \in Jobs /\ jobs \in [Runs -> Jobs] /\ jobs[r].target \in Targets
      /\ CommitOf(r) \in Commits /\ jobs[r].pc \in Calling
      /\ jobs[r].pc \notin Over \cup {"none"}
  BY <1>1, CallFacts DEF Calling, Over, IInv, Core, TypeOK
<1>3. UNCHANGED <<runs, target, publications>> /\ UsedTypes'
  BY UsedStays DEF Commit, CutBranch, Push
<1>4. /\ GitHubTypes' /\ Grows
      /\ \A p \in Places, q \in Runs : pulls'[p][q] = pulls[p][q]
  BY <1>2, NoEffect, WriteEffects DEF Commit, CutBranch, Push
<1>5. CASE jobs' = [jobs EXCEPT ![r].pc = "recording", ![r].status = "failed",
                                ![r].commit = Null, ![r].guarded = FALSE]
  <2> DEFINE job == [jobs[r] EXCEPT !.pc = "recording", !.status = "failed",
                                    !.commit = Null, !.guarded = FALSE]
  <2>1. jobs' = [jobs EXCEPT ![r] = job]
    BY <1>2, <1>5
  <2>2. JobTypes(runs[r], job) /\ job.pc = "recording" /\ job.status = "failed"
    BY <1>2 DEF JobTypes, Jobs, Statuses
  <2> HIDE DEF job
  <2> QED BY <1>2, <1>3, <1>4, <2>1, <2>2, PlainMoves
<1>6. CASE Commit(r) /\ CommitEffect(r) /\ Finish(r, "succeeded", CommitOf(r))
  <2> DEFINE job == [jobs[r] EXCEPT !.pc = "recording", !.status = "succeeded",
                                    !.commit = CommitOf(r), !.guarded = TRUE]
  <2>1. jobs' = [jobs EXCEPT ![r] = job]
    BY <1>2, <1>6 DEF Finish
  <2>2. /\ JobTypes(runs[r], job) /\ job.pc = "recording" /\ job.commit = CommitOf(r)
    BY <1>2 DEF JobTypes, Jobs, Statuses
  <2>3. CommitOf(r) \in commits'
    BY <1>2, <1>6, WriteEffects
  <2>4. CommitOf(r).run = r /\ CommitOf(r).mode # "pull_request"
    <3>1. jobs[r].target.mode = "commit"
      BY <1>2, <1>6, CallFacts DEF Commit, Job, JobOK
    <3> QED BY <3>1 DEF CommitOf, Job
  <2> HIDE DEF job
  <2> QED BY <1>2, <1>3, <1>4, <2>1, <2>2, <2>3, <2>4, PlainMoves
<1>7. CASE CutBranch(r)
  <2> DEFINE job == [jobs[r] EXCEPT !.pc = "rereading"]
  <2>1. jobs' = [jobs EXCEPT ![r] = job]
    BY <1>2, <1>7 DEF CutBranch, Continue
  <2>2. JobTypes(runs[r], job) /\ job.pc = "rereading"
    BY <1>2 DEF JobTypes, Jobs, Calling
  <2> HIDE DEF job
  <2> QED BY <1>2, <1>3, <1>4, <2>1, <2>2, PlainMoves
<1>8. CASE PushEffect(r) /\ Continue(r, "proposing")
  <2> DEFINE job == [jobs[r] EXCEPT !.pc = "proposing"]
  <2>1. jobs' = [jobs EXCEPT ![r] = job]
    BY <1>2, <1>8 DEF Continue
  <2>2. JobTypes(runs[r], job) /\ job.pc = "proposing" /\ job.target = jobs[r].target
    BY <1>2 DEF JobTypes, Jobs, Calling
  <2>3. [run |-> r, place |-> job.target.place, mode |-> job.target.mode] \in commits'
    BY <1>2, <1>8, <2>2, WriteEffects DEF CommitOf, Place, Job
  <2> HIDE DEF job
  <2> QED BY <1>2, <1>3, <1>4, <2>1, <2>2, <2>3, PlainMoves
<1> QED BY <1>5, <1>6, <1>7, <1>8 DEF Commit, Push, Fail

\* A run's only pull request.
LEMMA ProposeStep ==
  ASSUME IInv, NEW r \in Runs, Propose(r)
  PROVE  Core'
<1>1. /\ jobs[r].pc = "proposing" /\ UNCHANGED <<runs, target, publications, used>>
  BY DEF Propose, Job
<1>2. /\ jobs[r] \in Jobs /\ jobs \in [Runs -> Jobs] /\ jobs[r].target \in Targets
      /\ Place(r) \in Places /\ CommitOf(r) \in Commits
  BY <1>1, CallFacts DEF Calling, IInv, Core, TypeOK
<1>3. UsedTypes'
  BY <1>1, UsedStays
<1>4. CASE ProposeEffect(r) /\ Finish(r, "succeeded", CommitOf(r))
  <2> DEFINE job == [jobs[r] EXCEPT !.pc = "recording", !.status = "succeeded",
                                    !.commit = CommitOf(r), !.guarded = TRUE]
  <2>1. jobs' = [jobs EXCEPT ![r] = job]
    BY <1>2, <1>4 DEF Finish
  <2>2. JobTypes(runs[r], job) /\ job.pc = "recording" /\ job.commit = CommitOf(r)
    BY <1>2 DEF JobTypes, Jobs, Statuses
  <2>3. /\ GitHubTypes' /\ Grows
        /\ \A p \in Places, q \in Runs \ {r} : pulls'[p][q] = pulls[p][q]
        /\ \A p \in Places : pulls'[p][r].opened = IF p = Place(r) THEN 1 ELSE 0
        /\ CommitOf(r) \in commits'
    BY <1>1, <1>4, ProposeEffects
  <2>4. CommitOf(r).run = r /\ CommitOf(r).place = Place(r)
    BY DEF CommitOf
  <2> HIDE DEF job
  <2>5. JobOK(r, job, commits', pulls')
    BY <1>2, <2>2, <2>3, <2>4 DEF JobOK, Over
  <2>6. SucceededIsThere' /\ publications' \in SUBSET Rows
    BY <1>1, <2>3, RowsStay DEF GitHubTypes, IInv, Core, TypeOK
  <2> QED BY <1>1, <1>3, <2>1, <2>2, <2>3, <2>5, <2>6, JobSteps
<1>5. CASE UNCHANGED github /\ Fail(r)
  <2> DEFINE job == [jobs[r] EXCEPT !.pc = "recording", !.status = "failed",
                                    !.commit = Null, !.guarded = FALSE]
  <2>1. jobs' = [jobs EXCEPT ![r] = job]
    BY <1>2, <1>5 DEF Fail
  <2>2. JobTypes(runs[r], job) /\ job.pc = "recording" /\ job.status = "failed"
    BY <1>2 DEF JobTypes, Jobs, Statuses
  <2> HIDE DEF job
  <2> QED BY <1>1, <1>3, <1>5, <2>1, <2>2, NoEffect, PlainMoves DEF Over
<1> QED BY <1>4, <1>5 DEF Propose

\* What failures, cancellations, the insert and a redelivery make of a job.
LEMMA EndingSteps ==
  ASSUME IInv, NEW r \in Runs,
         \/ GitHubFails(r) \/ RecordRaises(r) \/ Interrupt(r)
         \/ Redelivered(r) \/ record_publication(r)
  PROVE  Core'
<1>1. /\ jobs[r] \in Jobs /\ jobs \in [Runs -> Jobs] /\ UNCHANGED <<runs, target>> /\ UsedTypes'
      /\ jobs[r].pc \in Calling \cup {"reading", "recording", "redelivered"}
      /\ jobs[r].pc # "none" /\ JobOK(r, jobs[r], commits, pulls)
  BY UsedStays DEF GitHubFails, RecordRaises, Interrupt, Redelivered, record_publication, Job,
                   Calling, IInv, Core, TypeOK, JobsInv
<1>2. /\ GitHubTypes' /\ Grows
      /\ \A p \in Places, q \in Runs \ {r} : pulls'[p][q] = pulls[p][q]
      /\ \A p \in Places : pulls'[p][r].opened <= 1
      /\ \A p, q \in Places : pulls'[p][r].opened = 1 /\ pulls'[q][r].opened = 1 => p = q
  <2>1. CASE GitHubFails(r) \/ Interrupt(r)
    BY <2>1, InDoubt DEF GitHubFails, Interrupt, Job
  <2>2. CASE UNCHANGED github
    BY <1>1, <2>2, NoEffect DEF JobOK
  <2> QED BY <2>1, <2>2 DEF RecordRaises, Redelivered, record_publication
<1>3. publications' \in SUBSET Rows /\ SucceededIsThere'
  <2>1. CASE publications' = publications
    BY <1>2, <2>1, RowsStay DEF GitHubTypes, IInv, Core, TypeOK
  <2>2. CASE RecordRaises(r) \/ Interrupt(r) \/ record_publication(r)
    <3>1. /\ RowInDoubt(r) \/ record_publication(r)
          /\ jobs[r].pc \in Calling \cup {"reading", "recording"}
      BY <2>2 DEF RecordRaises, Interrupt, record_publication, Job
    <3> QED BY <1>2, <3>1, RowIsTrue DEF GitHubTypes
  <2> QED BY <2>1, <2>2 DEF GitHubFails, Redelivered
<1>4. CASE \E pc \in {"redelivered", "ended"} : Continue(r, pc)
  <2>1. PICK pc \in {"redelivered", "ended"} : jobs' = [jobs EXCEPT ![r] = [jobs[r] EXCEPT !.pc = pc]]
    BY <1>1, <1>4 DEF Continue
  <2> DEFINE job == [jobs[r] EXCEPT !.pc = pc]
  <2>2. JobTypes(runs[r], job) /\ job.pc = pc
    BY <1>1 DEF JobTypes, Jobs, Calling
  <2> HIDE DEF job
  <2>3. jobs' = [jobs EXCEPT ![r] = job]
    BY <2>1 DEF job
  <2> QED BY <1>1, <1>2, <1>3, <2>2, <2>3, OverMoves DEF Over
<1>5. CASE Fail(r) /\ jobs[r].pc \in Calling \cup {"recording"}
  <2> DEFINE job == [jobs[r] EXCEPT !.pc = "recording", !.status = "failed",
                                    !.commit = Null, !.guarded = FALSE]
  <2>1. jobs' = [jobs EXCEPT ![r] = job]
    BY <1>1, <1>5 DEF Fail
  <2>2. JobTypes(runs[r], job) /\ job.pc = "recording" /\ job.status = "failed"
    BY <1>1, <1>5, CallFacts DEF JobTypes, Jobs, Statuses
  <2> HIDE DEF job
  <2> QED BY <1>1, <1>2, <1>3, <2>1, <2>2, OverMoves DEF Over
<1> QED BY <1>4, <1>5 DEF GitHubFails, RecordRaises, Interrupt, Redelivered, record_publication, Job

-----------------------------------------------------------------------------
(* Crawls, the owner and the people in the repository.                       *)

\* What a crawl leaves in its row has the row's type.
LEMMA CrawledRow ==
  ASSUME NEW text \in Texts, NEW enriched \in BOOLEAN, NEW content \in BOOLEAN,
         NEW previous, NEW diff,
         diff \in {Null, [state |-> "first_run"], index_diff(text, enriched, previous, content)}
  PROVE  [st |-> "recording", text |-> text, enriched |-> enriched, diff |-> diff] \in RunRows
<1>1. diff \in Diffs \cup {Null}
  <2>1. CASE diff \in {Null, [state |-> "first_run"]}
    BY <2>1 DEF Diffs
  <2>2. CASE diff = index_diff(text, enriched, previous, content)
    <3>1. PICK pages \in BOOLEAN, metadata \in BOOLEAN \cup {Null} :
            diff = [state |-> "compared", pages |-> pages, metadata |-> metadata,
                    content |-> content]
      <4> DEFINE words == text.words # previous.text.words
                 metadata == IF enriched # previous.enriched THEN Null ELSE words
      <4>1. (text.list # previous.text.list) \in BOOLEAN /\ words \in BOOLEAN
        OBVIOUS
      <4>2. metadata \in BOOLEAN \cup {Null}
        BY <4>1
      <4> QED BY <2>2, <4>1, <4>2 DEF index_diff
    <3> QED BY <3>1 DEF Diffs
  <2> QED BY <2>1, <2>2
<1> QED BY <1>1 DEF RunRows

\* A run is crawled: nothing else is concerned.
LEMMA CrawlSteps ==
  ASSUME IInv, NEW r \in Runs, NEW text, NEW enriched, NEW content,
         \/ StartRun(r)
         \/ /\ text \in Texts /\ enriched \in BOOLEAN /\ content \in BOOLEAN
            /\ Crawl(r, text, enriched, content) \/ CrawlWithoutDiff(r, text, enriched)
  PROVE  Core'
<1>1. /\ runs \in [Runs -> RunRows] /\ runs[r].st \in {"absent", "crawling"}
      /\ UNCHANGED <<target, publications, jobs, github>> /\ UsedTypes'
  BY UsedStays DEF StartRun, Crawl, CrawlWithoutDiff, IInv, Core, TypeOK
<1>2. PICK row \in RunRows : /\ runs' = [runs EXCEPT ![r] = row]
                             /\ row.st # "completed"
                             /\ row.st = "recording" => row.text \in Texts
  <2>1. CASE StartRun(r)
    <3> DEFINE row == [runs[r] EXCEPT !.st = "crawling"]
    <3>1. row \in RunRows /\ row.st = "crawling" /\ runs' = [runs EXCEPT ![r] = row]
      BY <1>1, <2>1 DEF StartRun, RunRows
    <3> QED BY <3>1
  <2>2. CASE ~ StartRun(r)
    <3>1. PICK previous, diff :
            /\ diff \in {Null, [state |-> "first_run"],
                         index_diff(text, enriched, previous, content)}
            /\ runs' = [runs EXCEPT ![r] = [st |-> "recording", text |-> text,
                                            enriched |-> enriched, diff |-> diff]]
      BY <2>2 DEF Crawl, CrawlWithoutDiff
    <3> DEFINE row == [st |-> "recording", text |-> text, enriched |-> enriched, diff |-> diff]
    <3>2. text \in Texts /\ enriched \in BOOLEAN /\ content \in BOOLEAN
      BY <2>2
    <3>3. row \in RunRows
      BY <3>1, <3>2, CrawledRow
    <3> QED BY <3>1, <3>2, <3>3
  <2> QED BY <2>1, <2>2
<1>3. \A q \in Runs : runs'[q] = IF q = r THEN row ELSE runs[q]
  BY <1>1, <1>2
<1>4. TypeOK'
  BY <1>1, <1>2, <1>3 DEF IInv, Core, TypeOK, UsedTypes, github
<1>5. JobsInv'
  BY <1>1, <1>2, <1>3 DEF IInv, Core, JobsInv, NotYet, github
<1>6. SucceededIsThere'
  BY <1>1 DEF IInv, Core, SucceededIsThere, github
<1> QED BY <1>4, <1>5, <1>6 DEF IInv, Core

\* The run is recorded: its job begins to publish, or never does.
LEMMA RecordSteps ==
  ASSUME IInv, NEW r \in Runs, record_success(r) \/ StopRecorded(r)
  PROVE  Core'
<1>1. /\ runs \in [Runs -> RunRows] /\ runs[r].st = "recording" /\ jobs \in [Runs -> Jobs]
      /\ UNCHANGED <<target, publications, github>> /\ UsedTypes'
      /\ runs' = [runs EXCEPT ![r].st = "completed"] /\ runs[r].text \in Texts
      /\ NotYet(runs[r], jobs[r]) /\ JobOK(r, jobs[r], commits, pulls)
  BY UsedStays DEF record_success, StopRecorded, IInv, Core, TypeOK, JobsInv
<1>2. PICK pc \in {"reading", "redelivered"} : jobs' = [jobs EXCEPT ![r].pc = pc]
  BY DEF record_success, StopRecorded
<1> DEFINE job == [jobs[r] EXCEPT !.pc = pc]
<1>3. job \in Jobs /\ job.pc = pc
  BY <1>1 DEF Jobs
<1>4. jobs' = [jobs EXCEPT ![r] = job]
  BY <1>2
<1>5. JobOK(r, job, commits, pulls)
  BY <1>1, <1>3 DEF NotYet, JobOK, Over
<1> HIDE DEF job
<1> DEFINE row == [runs[r] EXCEPT !.st = "completed"]
<1>6. row \in RunRows /\ row.text \in Texts /\ row.st = "completed"
  BY <1>1 DEF RunRows
<1>7. runs' = [runs EXCEPT ![r] = row]
  BY <1>1
<1> HIDE DEF row
<1>8. runs' \in [Runs -> RunRows] /\ jobs' \in [Runs -> Jobs]
  BY <1>1, <1>3, <1>4, <1>6, <1>7
<1>9. TypeOK'
  <2>1. \A q \in Runs : runs'[q].st \in {"recording", "completed"} => runs'[q].text \in Texts
    BY <1>1, <1>6, <1>7 DEF IInv, Core, TypeOK
  <2>2. \A q \in Runs :
          /\ jobs'[q].pc \in Calling \cup {"recording"} => jobs'[q].target \in Targets
          /\ jobs'[q].pc = "recording" => jobs'[q].status \in Statuses
    BY <1>1, <1>3, <1>4 DEF IInv, Core, TypeOK, Calling
  <2> QED BY <1>1, <1>8, <2>1, <2>2 DEF IInv, Core, TypeOK, UsedTypes, github
<1>10. JobsInv'
  <2> SUFFICES ASSUME NEW q \in Runs
               PROVE  NotYet(runs'[q], jobs'[q]) /\ JobOK(q, jobs'[q], commits, pulls)
    BY <1>1 DEF JobsInv, github
  <2>1. CASE q = r
    BY <1>1, <1>4, <1>5, <1>6, <1>7, <2>1 DEF NotYet
  <2>2. CASE q # r
    BY <1>1, <1>4, <1>7, <2>2 DEF IInv, Core, JobsInv
  <2> QED BY <2>1, <2>2
<1>11. SucceededIsThere'
  BY <1>1 DEF IInv, Core, SucceededIsThere, github
<1> QED BY <1>9, <1>10, <1>11 DEF IInv, Core

\* The target changes; the publications of a deleted one go with it.
LEMMA OwnerSteps ==
  ASSUME IInv, NEW p, NEW mode, NEW active,
         \/ /\ p \in Places /\ mode \in Modes /\ active \in BOOLEAN
            /\ upsert_target(p, mode, active)
         \/ delete_target
  PROVE  Core'
<1>1. /\ UNCHANGED <<runs, jobs, github>> /\ UsedTypes' /\ publications' \subseteq publications
  BY UsedStays DEF upsert_target, delete_target
<1>2. target' \in Targets \cup {Null}
  <2>1. CASE /\ p \in Places /\ mode \in Modes /\ active \in BOOLEAN
            /\ upsert_target(p, mode, active)
    <3>1. used.targets \in Nat /\ (target # Null => target.id \in Nat)
      BY SizeAssumption DEF IInv, Core, TypeOK, Targets
    <3> QED BY <2>1, <3>1 DEF upsert_target, Targets
  <2>2. CASE delete_target
    BY <2>2 DEF delete_target
  <2> QED BY <2>1, <2>2
<1> QED BY <1>1, <1>2, NoEffect, OutsideSteps DEF github

\* Editing, merging and closing open no pull request.
LEMMA PeopleSteps ==
  ASSUME IInv, NEW p \in Places, NEW r,
         \/ EditFile(p, Edited) \/ EditFile(p, NoFile)
         \/ r \in Runs /\ (MergePull(p, r) \/ ClosePull(p, r))
  PROVE  Core'
<1>1. /\ UNCHANGED <<runs, target, publications, jobs, branches, commits>> /\ UsedTypes'
      /\ pulls \in [Places -> [Runs -> Pulls]] /\ target \in Targets \cup {Null}
      /\ files \in [Places -> Contents] /\ branches \in [Places -> [Runs -> Contents \cup {Null}]]
  BY UsedStays DEF EditFile, MergePull, ClosePull, IInv, Core, TypeOK
<1>2. /\ pulls' \in [Places -> [Runs -> Pulls]]
      /\ \A q \in Places, s \in Runs : pulls'[q][s].opened = pulls[q][s].opened
  <2>1. CASE UNCHANGED pulls
    BY <1>1, <2>1
  <2>2. CASE r \in Runs /\ pulls' = [pulls EXCEPT ![p][r].st = "closed"]
    <3>1. \A q \in Places, s \in Runs :
            pulls'[q][s] = IF q = p /\ s = r THEN [pulls[p][r] EXCEPT !.st = "closed"]
                           ELSE pulls[q][s]
      BY <1>1, <2>2
    <3>2. \A q \in Places, s \in Runs : pulls[q][s] \in Pulls
      BY <1>1
    <3> QED BY <1>1, <2>2, <3>1, <3>2 DEF Pulls
  <2> QED BY <2>1, <2>2 DEF EditFile, MergePull, ClosePull
<1>3. files' \in [Places -> Contents]
  <2>1. r \in Runs /\ MergePull(p, r) => branches[p][r] \in Contents
    BY <1>1 DEF IInv, Core, BranchesInv, MergePull
  <2> QED BY <1>1, <2>1 DEF EditFile, MergePull, ClosePull, Contents
<1> QED BY <1>1, <1>2, <1>3, OutsideSteps DEF GitHubTypes, IInv, Core, TypeOK

-----------------------------------------------------------------------------
(* The invariant, and what follows from it.                                  *)

LEMMA InitIInv ==
  ASSUME Init
  PROVE  IInv
<1>1. TypeOK
  BY SizeAssumption DEF Init, TypeOK, RunRows, Jobs, NoJob, Contents, Pulls, Calling
<1>2. JobsInv
  BY DEF Init, JobsInv, NotYet, JobOK, NoJob
<1>3. SucceededIsThere /\ BranchesInv
  BY DEF Init, SucceededIsThere, BranchesInv, NoJob
<1> QED BY <1>1, <1>2, <1>3 DEF IInv, Core

LEMMA NextCore ==
  ASSUME IInv, [Next]_vars
  PROVE  Core'
<1>1. ASSUME NEW r \in Runs, PublishStep(r)
      PROVE  Core'
  BY <1>1, ReadingSteps, WritingSteps, ProposeStep, EndingSteps DEF PublishStep
<1>2. ASSUME NEW r \in Runs,
             ReadTargetRaises(r) \/ GitHubFails(r) \/ RecordRaises(r) \/ Interrupt(r)
      PROVE  Core'
  BY <1>2, ReadingSteps, EndingSteps
<1>3. ASSUME NEW r \in Runs, StartRun(r) \/ record_success(r) \/ StopRecorded(r)
      PROVE  Core'
  BY <1>3, CrawlSteps, RecordSteps
<1>4. ASSUME NEW r \in Runs, NEW text \in Texts, NEW enriched \in BOOLEAN,
             \/ \E content \in BOOLEAN : Crawl(r, text, enriched, content)
             \/ CrawlWithoutDiff(r, text, enriched)
      PROVE  Core'
  BY <1>4, CrawlSteps
<1>5. CASE delete_target \/ \E p \in Places, mode \in {"commit", "pull_request"},
                              active \in BOOLEAN : upsert_target(p, mode, active)
  BY <1>5, OwnerSteps DEF Modes
<1>6. ASSUME NEW p \in Places,
             \/ EditFile(p, Edited) \/ EditFile(p, NoFile)
             \/ \E r \in Runs : MergePull(p, r) \/ ClosePull(p, r)
      PROVE  Core'
  BY <1>6, PeopleSteps
<1>7. CASE UNCHANGED vars
  BY <1>7 DEF vars, IInv, Core, TypeOK, JobsInv, SucceededIsThere
<1> QED BY <1>1, <1>2, <1>3, <1>4, <1>5, <1>6, <1>7 DEF Next

-----------------------------------------------------------------------------
(* A branch that has been cut stays.                                         *)

Late == {"rereading", "pushing", "proposing"}

\* What a step must leave of branches, pull requests and jobs.
LEMMA BranchesKept ==
  ASSUME IInv,
         \A p \in Places, q \in Runs : branches[p][q] # Null => branches'[p][q] # Null,
         \A p \in Places, q \in Runs : pulls'[p][q].st = "open" =>
           pulls[p][q].st = "open" \/ branches'[p][q] # Null,
         \A q \in Runs : jobs'[q].pc \in Late =>
           \/ jobs[q].pc \in Late /\ jobs'[q].target = jobs[q].target
           \/ branches'[jobs'[q].target.place][q] # Null
  PROVE  BranchesInv'
<1>1. \A q \in Runs : jobs[q].pc \in Late => jobs[q].target.place \in Places
  BY DEF IInv, Core, TypeOK, Late, Calling, Targets
<1> QED BY <1>1 DEF IInv, BranchesInv, Late

\* Steps that leave branches alone and neither open a pull request nor go on
\* to one.
LEMMA QuietSteps ==
  ASSUME IInv, UNCHANGED branches,
         \A p \in Places, q \in Runs : pulls'[p][q].st = "open" => pulls[p][q].st = "open",
         \A q \in Runs : jobs'[q].pc \in Late =>
           jobs[q].pc \in Late /\ jobs'[q].target = jobs[q].target
  PROVE  BranchesInv'
BY BranchesKept

\* What a call may do to the branches: it adds to them.
LEMMA BranchEffects ==
  ASSUME IInv, NEW r \in Runs, jobs[r].pc \in Calling,
         \/ CommitEffect(r) \/ BranchEffect(r) \/ PushEffect(r)
         \/ jobs[r].pc = "proposing" /\ ProposeEffect(r)
         \/ UNCHANGED github
  PROVE  /\ \A p \in Places, q \in Runs : branches[p][q] # Null => branches'[p][q] # Null
         /\ \A p \in Places, q \in Runs : pulls'[p][q].st = "open" =>
              pulls[p][q].st = "open" \/ branches'[p][q] # Null
         /\ BranchEffect(r) => branches'[Place(r)][r] # Null
<1>1. /\ Place(r) \in Places /\ Text(r) \in Contents /\ Null \notin Contents
      /\ files \in [Places -> Contents]
      /\ branches \in [Places -> [Runs -> Contents \cup {Null}]]
      /\ pulls \in [Places -> [Runs -> Pulls]] /\ Text(r) # Null
  <2>1. runs[r].st = "completed"
    BY CallFacts
  <2>2. Null \notin Contents
    BY SizeAssumption DEF Contents
  <2> QED BY <2>1, <2>2, CallFacts DEF IInv, Core, TypeOK
<1>3. CASE BranchEffect(r)
  <2>1. \A p \in Places, q \in Runs :
          branches'[p][q] = IF p = Place(r) /\ q = r /\ branches[p][q] = Null
                            THEN files[p] ELSE branches[p][q]
    BY <1>1, <1>3 DEF BranchEffect
  <2> QED BY <1>1, <1>3, <2>1 DEF BranchEffect
<1>2. CASE CommitEffect(r) \/ UNCHANGED github
  <2>1. UNCHANGED <<branches, pulls>>
    BY <1>2 DEF CommitEffect, github
  <2> QED BY <1>3, <2>1
<1>4. CASE PushEffect(r)
  <2>1. \A p \in Places, q \in Runs :
          branches'[p][q] = IF p = Place(r) /\ q = r THEN Text(r) ELSE branches[p][q]
    BY <1>1, <1>4 DEF PushEffect
  <2> QED BY <1>1, <1>4, <2>1 DEF PushEffect
<1>5. CASE jobs[r].pc = "proposing" /\ ProposeEffect(r)
  <2>1. branches[Place(r)][r] # Null
    BY <1>5 DEF IInv, BranchesInv, Place, Job
  <2>2. \A p \in Places, q \in Runs :
          pulls'[p][q].st = "open" => pulls[p][q].st = "open" \/ (p = Place(r) /\ q = r)
    BY <1>1, <1>5 DEF ProposeEffect
  <2> QED BY <1>1, <1>5, <2>1, <2>2 DEF ProposeEffect
<1> QED BY <1>2, <1>3, <1>4, <1>5

LEMMA NextBranches ==
  ASSUME IInv, [Next]_vars
  PROVE  BranchesInv'
<1>0. jobs \in [Runs -> Jobs] /\ pulls \in [Places -> [Runs -> Pulls]]
  BY DEF IInv, Core, TypeOK
<1>1. ASSUME NEW r \in Runs,
             CutBranch(r) \/ Commit(r) \/ Push(r) \/ Propose(r) \/ GitHubFails(r) \/ Interrupt(r)
      PROVE  BranchesInv'
  <2>1. jobs[r].pc \in Calling \/ (Interrupt(r) /\ UNCHANGED github)
    BY <1>1 DEF CutBranch, Commit, Push, Propose, GitHubFails, Interrupt, GitHubInDoubt, Job, Calling
  <2>2. CASE jobs[r].pc \in Calling
    <3>1. \/ CommitEffect(r) \/ BranchEffect(r) \/ PushEffect(r)
          \/ jobs[r].pc = "proposing" /\ ProposeEffect(r)
          \/ UNCHANGED github
      BY <1>1 DEF CutBranch, Commit, Push, Propose, GitHubFails, Interrupt, GitHubInDoubt, Job
    <3>2. \A q \in Runs : jobs'[q].pc \in Late =>
            \/ jobs[q].pc \in Late /\ jobs'[q].target = jobs[q].target
            \/ q = r /\ BranchEffect(r) /\ jobs'[q].target = jobs[q].target
      <4>1. CASE CutBranch(r)
        BY <1>0, <4>1 DEF CutBranch, Continue, Jobs
      <4>2. CASE Push(r) /\ Continue(r, "proposing")
        BY <1>0, <4>2 DEF Push, Job, Continue, Late, Jobs
      <4>3. CASE Fail(r) \/ Finish(r, "succeeded", CommitOf(r)) \/ Continue(r, "redelivered")
        BY <1>0, <4>3 DEF Fail, Finish, Continue, Late, Jobs
      <4> QED BY <1>1, <4>1, <4>2, <4>3 DEF Commit, Push, Propose, GitHubFails, Interrupt
    <3>3. BranchEffect(r) => branches'[jobs[r].target.place][r] # Null
      BY <2>2, <3>1, BranchEffects DEF Place, Job
    <3> QED BY <2>2, <3>1, <3>2, <3>3, BranchEffects, BranchesKept
  <2>3. CASE Interrupt(r) /\ UNCHANGED github
    BY <1>0, <2>3, QuietSteps DEF Interrupt, Continue, Late, github, Jobs
  <2> QED BY <2>1, <2>2, <2>3
<1>2. ASSUME NEW r \in Runs,
             \/ ReadTarget(r) \/ Compare(r) \/ record_publication(r) \/ Redelivered(r)
             \/ ReadTargetRaises(r) \/ RecordRaises(r) \/ record_success(r) \/ StopRecorded(r)
      PROVE  BranchesInv'
  <2>1. UNCHANGED github
    BY <1>2 DEF ReadTarget, Compare, record_publication, Redelivered, ReadTargetRaises,
                RecordRaises, record_success, StopRecorded
  <2>2. \A q \in Runs : jobs'[q] # jobs[q] => jobs'[q].pc \notin Late
    <3>1. CASE ReadTarget(r)
      BY <1>0, <3>1 DEF ReadTarget, Late, Jobs
    <3>2. CASE Compare(r)
      BY <1>0, <3>2 DEF Compare, Finish, Job, Late, Jobs
    <3>3. CASE Continue(r, "ended") \/ Fail(r)
      BY <1>0, <3>3 DEF Continue, Fail, Late, Jobs
    <3>4. CASE record_success(r) \/ StopRecorded(r)
      BY <1>0, <3>4 DEF record_success, StopRecorded, Late, Jobs
    <3> QED BY <1>2, <3>1, <3>2, <3>3, <3>4 DEF record_publication, Redelivered,
                ReadTargetRaises, RecordRaises
  <2> QED BY <2>1, <2>2, QuietSteps DEF github
<1>3. ASSUME NEW r \in Runs, Reread(r)
      PROVE  BranchesInv'
  <2>1. UNCHANGED github /\ \A q \in Runs : jobs'[q].pc \in Late =>
           jobs[q].pc \in Late /\ jobs'[q].target = jobs[q].target
    BY <1>0, <1>3 DEF Reread, Job, Late, Jobs
  <2> QED BY <2>1, QuietSteps DEF github
<1>4. ASSUME UNCHANGED <<jobs, branches>>,
             \A p \in Places, q \in Runs : pulls'[p][q].st = "open" => pulls[p][q].st = "open"
      PROVE  BranchesInv'
  BY <1>4, QuietSteps
<1>5. ASSUME NEW p \in Places, NEW r \in Runs, MergePull(p, r) \/ ClosePull(p, r)
      PROVE  BranchesInv'
  <2>1. \A q \in Places, s \in Runs : pulls'[q][s].st = "open" => pulls[q][s].st = "open"
    BY <1>0, <1>5 DEF MergePull, ClosePull
  <2> QED BY <1>4, <1>5, <2>1 DEF MergePull, ClosePull
<1>6. CASE UNCHANGED <<jobs, github>>
  BY <1>4, <1>6 DEF github
<1>7. CASE \E p \in Places, content \in {Edited, NoFile} : EditFile(p, content)
  BY <1>4, <1>7 DEF EditFile
<1>8. ASSUME NEW r \in Runs,
             \/ StartRun(r)
             \/ \E text \in Texts, enriched \in BOOLEAN :
                  \/ \E content \in BOOLEAN : Crawl(r, text, enriched, content)
                  \/ CrawlWithoutDiff(r, text, enriched)
      PROVE  BranchesInv'
  BY <1>6, <1>8 DEF StartRun, Crawl, CrawlWithoutDiff
<1>9. CASE delete_target \/ \E p \in Places, mode \in {"commit", "pull_request"},
                              active \in BOOLEAN : upsert_target(p, mode, active)
  BY <1>6, <1>9 DEF delete_target, upsert_target
<1>10. CASE UNCHANGED vars
  BY <1>6, <1>10 DEF vars, github
<1> QED BY <1>1, <1>2, <1>3, <1>5, <1>7, <1>8, <1>9, <1>10 DEF Next, PublishStep

-----------------------------------------------------------------------------
(* The theorems.                                                             *)

LEMMA Invariance == Spec => []IInv
<1>1. IInv /\ [Next]_vars => IInv'
  BY NextCore, NextBranches DEF IInv
<1> QED BY InitIInv, <1>1, PTL DEF Spec

\* Every variable keeps its type: a job that calls GitHub has a target, and an
\* open pull request has a branch.
THEOREM TypeCorrect == Spec => []TypeOK
<1>1. IInv => TypeOK
  BY DEF IInv, Core
<1> QED BY Invariance, <1>1, PTL

\* However its job is cut off, redelivered or failed by GitHub, a run opens one
\* pull request at most: the branch name, the order of the calls and the claim
\* that a redelivered job cannot get again leave no way to a second one.
THEOREM AtMostOnePullRequest == Spec => []OnePullRequest
<1>1. IInv => OnePullRequest
  BY DEF IInv, Core, JobsInv, JobOK, OnePullRequest
<1> QED BY Invariance, <1>1, PTL

\* A "succeeded" row never outruns GitHub: its commit, and its pull request,
\* were made before it, and repointing the target does not change what it says.
THEOREM RecordIsTrue == Spec => []SucceededIsThere
<1>1. IInv => SucceededIsThere
  BY DEF IInv, Core
<1> QED BY Invariance, <1>1, PTL

\* A file that changes under a job about to commit is changed by somebody else,
\* or is what the job has compared with.
LEMMA CommitsCompared ==
  ASSUME IInv, [Next]_vars, NEW p \in Places, NEW r \in Runs,
         files'[p] # files[p], jobs[r].pc = "committing", jobs'[r] # jobs[r]
  PROVE  jobs[r].seen = files[p]
<1>0. jobs \in [Runs -> Jobs] /\ files \in [Places -> Contents]
  BY DEF IInv, Core, TypeOK
<1>1. PICK q \in Runs : Commit(q) \/ GitHubFails(q) \/ Interrupt(q)
  <2>1. files' # files /\ jobs' # jobs
    OBVIOUS
  <2>2. ASSUME NEW q \in Runs,
               \/ PublishStep(q) /\ ~ Commit(q)
               \/ ReadTargetRaises(q) \/ RecordRaises(q) \/ record_success(q) \/ StopRecorded(q)
        PROVE  FALSE
    BY <2>1, <2>2 DEF PublishStep, ReadTarget, Compare, CutBranch, BranchEffect, Reread, Push,
       PushEffect, Propose, ProposeEffect, record_publication, Redelivered, ReadTargetRaises,
       RecordRaises, record_success, StopRecorded, github
  <2>3. ASSUME UNCHANGED jobs
        PROVE  FALSE
    BY <2>1, <2>3
  <2> QED BY <2>2, <2>3 DEF Next, PublishStep, vars, StartRun, Crawl, CrawlWithoutDiff,
       upsert_target, delete_target, EditFile, MergePull, ClosePull
<1>2. q = r
  BY <1>0, <1>1 DEF Commit, GitHubFails, Interrupt, Fail, Finish, Continue
<1>3. CommitEffect(r) /\ ShaMatches(files[Place(r)], jobs[r].seen)
  BY <1>1, <1>2 DEF Commit, GitHubFails, Interrupt, GitHubInDoubt, Job, github
<1>4. p = Place(r)
  BY <1>0, <1>3 DEF CommitEffect
<1> QED BY <1>3, <1>4 DEF ShaMatches

\* Nothing is overwritten unseen: an edit or another run's commit that comes
\* between a run's comparison and its write fails the write.
THEOREM EditsAreKept == Spec => NoLostEdit
<1>1. IInv /\ [Next]_vars =>
        [\A p \in Places, r \in Runs :
           files'[p] # files[p] /\ jobs[r].pc = "committing" /\ jobs'[r] # jobs[r]
             => jobs[r].seen = files[p]]_vars
  BY CommitsCompared
<1> QED BY Invariance, <1>1, PTL DEF Spec, NoLostEdit

-----------------------------------------------------------------------------
(* The signing keys.                                                        *)

BearerStates ==
  [at : {"idle"}] \cup [at : {"queued", "fetching", "key", "none"}, kid : KeyIds]

JwksTypeOK ==
  /\ cache \in [keys : SUBSET KeyIds, age : 0 .. RefetchInterval]
  /\ lock \in Seq(Bearers)
  /\ bearer \in [Bearers -> BearerStates]
  /\ published \in SUBSET KeyIds
  /\ document \in [at : {"none", "asked", "read"}, keys : SUBSET KeyIds]
  /\ attempts \in [age : 0 .. RefetchInterval, closest : 0 .. RefetchInterval]

\* The stamp on the cache is as old as the last fetch, and who fetches has the
\* lock and asks for a key the cache lacks.
JwksInv ==
  /\ JwksTypeOK
  /\ cache.age = attempts.age
  /\ NoStampede
  /\ \A b \in Bearers : bearer[b].at = "fetching" =>
       HoldsLock(b) /\ bearer[b].kid \notin cache.keys

LEMMA JwksInitInv == JwksInit => JwksInv
BY JwksAssumption DEF JwksInit, JwksInv, JwksTypeOK, BearerStates, NoStampede

\* Whoever is answered holds a record of the answer; nobody else's changes.
LEMMA AnswerKind ==
  ASSUME JwksTypeOK, NEW b \in Bearers, NEW kid \in KeyIds, AnswerBearer(b, kid)
  PROVE  /\ bearer' \in [Bearers -> BearerStates]
         /\ bearer'[b].kid = kid
         /\ bearer'[b].at = IF kid \in cache'.keys THEN "key" ELSE "none"
         /\ \A c \in Bearers \ {b} : bearer'[c] = bearer[c]
BY DEF JwksTypeOK, AnswerBearer, BearerStates

\* Time and the interval: an age counts up to the interval and stays there.
LEMMA AgedType ==
  ASSUME NEW age \in 0 .. RefetchInterval
  PROVE  Aged(age) \in 0 .. RefetchInterval
BY JwksAssumption DEF Aged

LEMMA JwksStep == JwksInv /\ [JwksNext]_jwksVars => JwksInv'
<1> SUFFICES ASSUME JwksInv, [JwksNext]_jwksVars PROVE JwksInv'
  OBVIOUS
<1> USE JwksAssumption DEF JwksInv
<1>1. ASSUME NEW b \in Bearers, NEW kid \in KeyIds, GetKey(b, kid)
      PROVE  JwksInv'
  <2>1. bearer' \in [Bearers -> BearerStates] /\ bearer'[b].at # "fetching"
        /\ \A c \in Bearers \ {b} : bearer'[c] = bearer[c]
    <3>1. CASE kid \in cache.keys
      BY <1>1, <3>1, AnswerKind DEF GetKey
    <3>2. CASE kid \notin cache.keys
      BY <1>1, <3>2 DEF GetKey, JwksTypeOK, BearerStates
    <3> QED BY <3>1, <3>2
  <2>2. lock' \in Seq(Bearers) /\ (lock # <<>> => lock' # <<>> /\ Head(lock') = Head(lock))
    <3>1. CASE kid \in cache.keys
      BY <1>1, <3>1 DEF GetKey, JwksTypeOK
    <3>2. CASE kid \notin cache.keys
      <4>1. lock \in Seq(Bearers) /\ lock' = Append(lock, b)
        BY <1>1, <3>2 DEF GetKey, JwksTypeOK
      <4> QED BY <4>1, AppendProperties, HeadTailAppend
    <3> QED BY <3>1, <3>2
  <2> QED BY <1>1, <2>1, <2>2 DEF GetKey, JwksTypeOK, NoStampede, HoldsLock
<1>2. ASSUME NEW b \in Bearers, LookAgain(b)
      PROVE  JwksInv'
  <2>1. bearer[b].kid \in KeyIds
    BY <1>2 DEF LookAgain, JwksTypeOK, BearerStates
  <2>2. bearer' \in [Bearers -> BearerStates] /\ bearer'[b].at # "fetching"
        /\ \A c \in Bearers \ {b} : bearer'[c] = bearer[c]
    BY <1>2, <2>1, AnswerKind DEF LookAgain
  <2>3. \A c \in Bearers : bearer[c].at # "fetching"
    BY <1>2 DEF LookAgain, HoldsLock
  <2>4. lock' \in Seq(Bearers)
    BY <1>2 DEF LookAgain, HoldsLock, JwksTypeOK
  <2> QED BY <1>2, <2>2, <2>3, <2>4 DEF LookAgain, JwksTypeOK, NoStampede, HoldsLock
<1>3. ASSUME NEW b \in Bearers, StartRefetch(b)
      PROVE  JwksInv'
  <2>1. attempts.age = RefetchInterval
    BY <1>3 DEF StartRefetch, may_refetch, JwksTypeOK
  <2>2. attempts' = [age |-> 0, closest |-> attempts.closest]
    BY <1>3, <2>1 DEF StartRefetch, JwksTypeOK, NoStampede
  <2>3. bearer' \in [Bearers -> BearerStates] /\ bearer'[b].kid = bearer[b].kid
        /\ \A c \in Bearers \ {b} : bearer'[c] = bearer[c]
    <3>1. bearer[b] \in [at : {"queued", "fetching", "key", "none"}, kid : KeyIds]
      BY <1>3 DEF StartRefetch, JwksTypeOK, BearerStates
    <3>2. [bearer[b] EXCEPT !.at = "fetching"] \in BearerStates
          /\ [bearer[b] EXCEPT !.at = "fetching"].kid = bearer[b].kid
      BY <3>1 DEF BearerStates
    <3> QED BY <1>3, <3>2 DEF StartRefetch, JwksTypeOK
  <2>4. cache' = [cache EXCEPT !.age = 0] /\ UNCHANGED lock
    BY <1>3 DEF StartRefetch, StampAttempt
  <2>5. cache' \in [keys : SUBSET KeyIds, age : 0 .. RefetchInterval]
        /\ cache'.keys = cache.keys /\ cache'.age = 0
    BY <2>4 DEF JwksTypeOK
  <2>6. \A c \in Bearers : bearer'[c].at = "fetching" =>
          HoldsLock(c)' /\ bearer'[c].kid \notin cache'.keys
    BY <1>3, <2>3, <2>4, <2>5 DEF StartRefetch, HoldsLock, found_under_lock
  <2>7. JwksTypeOK'
    BY <1>3, <2>2, <2>3, <2>4, <2>5 DEF StartRefetch, JwksTypeOK
  <2> QED BY <2>2, <2>5, <2>6, <2>7 DEF NoStampede
<1>4. CASE ProviderReads
  BY <1>4 DEF ProviderReads, JwksTypeOK, NoStampede, HoldsLock
<1>5. ASSUME NEW b \in Bearers, RefetchReturns(b)
      PROVE  JwksInv'
  <2>1. bearer[b].kid \in KeyIds
    BY <1>5 DEF RefetchReturns, JwksTypeOK, BearerStates
  <2>2. bearer' \in [Bearers -> BearerStates] /\ bearer'[b].at # "fetching"
        /\ \A c \in Bearers \ {b} : bearer'[c] = bearer[c]
    BY <1>5, <2>1, AnswerKind DEF RefetchReturns
  <2>3. HoldsLock(b) /\ \A c \in Bearers \ {b} : bearer[c].at # "fetching"
    BY <1>5 DEF RefetchReturns, HoldsLock
  <2>4. lock' \in Seq(Bearers)
    BY <1>5, <2>3 DEF RefetchReturns, HoldsLock, JwksTypeOK
  <2> QED BY <1>5, <2>2, <2>3, <2>4 DEF RefetchReturns, JwksTypeOK, NoStampede
<1>6. ASSUME NEW b \in Bearers, RefetchFails(b)
      PROVE  JwksInv'
  <2>1. bearer' \in [Bearers -> BearerStates] /\ bearer'[b].at # "fetching"
        /\ \A c \in Bearers \ {b} : bearer'[c] = bearer[c]
    BY <1>6 DEF RefetchFails, JwksTypeOK, BearerStates
  <2>2. HoldsLock(b) /\ \A c \in Bearers \ {b} : bearer[c].at # "fetching"
    BY <1>6 DEF RefetchFails, HoldsLock
  <2>3. lock' \in Seq(Bearers)
    BY <1>6, <2>2 DEF RefetchFails, HoldsLock, JwksTypeOK
  <2> QED BY <1>6, <2>1, <2>2, <2>3 DEF RefetchFails, JwksTypeOK, NoStampede
<1>7. ASSUME NEW keys \in SUBSET KeyIds, Rotate(keys)
      PROVE  JwksInv'
  BY <1>7 DEF Rotate, JwksTypeOK, NoStampede, HoldsLock
<1>8. CASE JwksTick
  BY <1>8, AgedType DEF JwksTick, JwksTypeOK, NoStampede, HoldsLock
<1>9. CASE UNCHANGED jwksVars
  BY <1>9 DEF jwksVars, JwksTypeOK, NoStampede, HoldsLock
<1> QED BY <1>1, <1>2, <1>3, <1>4, <1>5, <1>6, <1>7, <1>8, <1>9 DEF JwksNext

\* A bearer is turned away with the cache lacking its key.
LEMMA RejectedLacksKey ==
  ASSUME JwksInv, [JwksNext]_jwksVars, NEW b \in Bearers,
         bearer'[b].at = "none", bearer[b].at # "none"
  PROVE  bearer'[b].kid \notin cache'.keys
<1> USE DEF JwksInv
<1>1. ASSUME NEW c \in Bearers, NEW kid \in KeyIds, GetKey(c, kid)
      PROVE  bearer'[b].kid \notin cache'.keys
  <2>1. CASE kid \in cache.keys /\ AnswerBearer(c, kid)
    <3>1. b # c
      BY <1>1, <2>1, AnswerKind DEF GetKey
    <3> QED BY <2>1, <3>1, AnswerKind
  <2>2. CASE bearer' = [bearer EXCEPT ![c] = [at |-> "queued", kid |-> kid]]
    BY <2>2 DEF JwksTypeOK
  <2> QED BY <1>1, <2>1, <2>2 DEF GetKey
<1>2. ASSUME NEW c \in Bearers, LookAgain(c) \/ RefetchReturns(c)
      PROVE  bearer'[b].kid \notin cache'.keys
  <2>1. bearer[c].kid \in KeyIds
    BY <1>2 DEF LookAgain, RefetchReturns, JwksTypeOK, BearerStates
  <2> QED BY <1>2, <2>1, AnswerKind DEF LookAgain, RefetchReturns
<1>3. ASSUME NEW c \in Bearers, StartRefetch(c)
      PROVE  bearer'[b].kid \notin cache'.keys
  BY <1>3 DEF StartRefetch, JwksTypeOK, BearerStates
<1>4. ASSUME NEW c \in Bearers, RefetchFails(c)
      PROVE  bearer'[b].kid \notin cache'.keys
  <2>1. b = c
    BY <1>4 DEF RefetchFails, JwksTypeOK
  <2>2. bearer'[b].kid = bearer[b].kid /\ UNCHANGED cache
    BY <1>4, <2>1 DEF RefetchFails, JwksTypeOK, BearerStates
  <2> QED BY <1>4, <2>1, <2>2 DEF RefetchFails
<1>5. ~ UNCHANGED bearer
  OBVIOUS
<1> QED BY <1>1, <1>2, <1>3, <1>4, <1>5
     DEF JwksNext, ProviderReads, Rotate, JwksTick, jwksVars

\* What the steps keep, of every behaviour.
LEMMA JwksInvariance == JwksSpec => []JwksInv
BY JwksInitInv, JwksStep, PTL DEF JwksSpec

\* However many requests ask for unknown keys at once, fetches of the provider's
\* keys begin an interval apart (JwksCache.get_key).
THEOREM StampedeNever == JwksSpec => []NoStampede
<1>1. JwksInv => NoStampede
  BY DEF JwksInv
<1> QED BY <1>1, JwksInvariance, PTL

\* No request is told that its key is unknown while the cache holds it, though the
\* refetch it waited for was somebody else's (JwksCache.get_key).
THEOREM CachedKeyServed == JwksSpec => CachedNotRejected
<1>1. JwksInv /\ [JwksNext]_jwksVars =>
        [\A b \in Bearers : bearer'[b].at = "none" /\ bearer[b].at # "none"
            => bearer'[b].kid \notin cache'.keys]_jwksVars
  BY RejectedLacksKey
<1> QED BY <1>1, JwksInvariance, PTL DEF JwksSpec, CachedNotRejected

-----------------------------------------------------------------------------
(* The installation tokens.                                                 *)

Tokened == 1 .. Len(issued)
CallerStates ==
  [at : {"idle"}]
    \cup [at : {"exchanging", "using", "rejected", "over"}, kind : Kinds, token : Nat, spent : Nat]

TokensTypeOK ==
  /\ kept \in [{"worker", "api"} -> [token : Nat, age : 0 .. TokenTtl]]
  /\ caller \in [Callers -> CallerStates]
  /\ issued \in Seq([age : 0 .. TokenLife, accepted : BOOLEAN])

\* A cached token that may still be reused: what it was old when the answer that
\* brought it arrived, and its age in the cache.
KeptYoung(entry) ==
  entry.token # 0 =>
    /\ entry.token \in Tokened
    /\ entry.age < TokenTtl => issued[entry.token].age <= entry.age + MaxExchange

\* A token under way, or in use: as old as its time in the cache at the most, and
\* as it has been in hand.
InHandYoung(hand) ==
  /\ hand.at = "exchanging" =>
       /\ hand.spent <= MaxExchange
       /\ hand.token # 0 => hand.token \in Tokened /\ issued[hand.token].age <= hand.spent
  /\ hand.at = "using" =>
       /\ hand.token \in Tokened /\ hand.spent <= MaxUse
       /\ issued[hand.token].age < TokenTtl + MaxExchange + hand.spent

TokensInv ==
  /\ TokensTypeOK
  /\ \A p \in {"worker", "api"} : KeptYoung(kept[p])
  /\ \A c \in Callers : InHandYoung(caller[c])

\* The bounds are numbers.
LEMMA TokenBounds ==
  /\ TokenTtl \in Nat \ {0} /\ TokenLife \in Nat /\ MaxExchange \in Nat /\ MaxUse \in Nat
  /\ TokenTtl + MaxExchange + MaxUse <= TokenLife
BY TokensAssumption

\* GitHub keeps the age of whatever it issued.
LEMMA IssuedType ==
  ASSUME TokensTypeOK, NEW t \in Tokened
  PROVE  /\ issued[t] \in [age : 0 .. TokenLife, accepted : BOOLEAN]
         /\ issued[t].age \in Nat
<1>1. issued[t] \in [age : 0 .. TokenLife, accepted : BOOLEAN]
  BY ElementOfSeq DEF TokensTypeOK, Tokened
<1> QED BY <1>1, TokenBounds

\* Only its age changes.
LEMMA AgedRecord ==
  ASSUME NEW B, NEW r \in [age : 0 .. TokenLife, accepted : B], NEW n \in 0 .. TokenLife
  PROVE  /\ [r EXCEPT !.age = n] \in [age : 0 .. TokenLife, accepted : B]
         /\ [r EXCEPT !.age = n].age = n
OBVIOUS

\* A record for every token issued, and no others, is again such a sequence.
LEMMA Reissued ==
  ASSUME TokensTypeOK, DOMAIN issued' = DOMAIN issued,
         issued' = [t \in DOMAIN issued |-> issued'[t]],
         \A t \in Tokened : issued'[t] \in [age : 0 .. TokenLife, accepted : BOOLEAN]
  PROVE  issued' \in Seq([age : 0 .. TokenLife, accepted : BOOLEAN]) /\ Len(issued') = Len(issued)
<1> DEFINE R == [age : 0 .. TokenLife, accepted : BOOLEAN]
<1>1. DOMAIN issued = 1 .. Len(issued) /\ Len(issued) \in Nat
  BY LenProperties DEF TokensTypeOK
<1>2. \A t \in 1 .. Len(issued) : issued'[t] \in R
  BY DEF Tokened
<1> HIDE DEF R
<1>3. issued' \in [1 .. Len(issued) -> R]
  BY <1>1, <1>2
<1>4. issued' \in Seq(R)
  BY <1>1, <1>3, SeqDef
<1>5. Len(issued') = Len(issued)
  BY <1>1, <1>3, <1>4, LenProperties
<1> QED BY <1>4, <1>5 DEF R

LEMMA TokensInitInv == TokensInit => TokensInv
BY TokensAssumption DEF TokensInit, TokensInv, TokensTypeOK, CallerStates, KeptYoung,
     InHandYoung, Forgotten, Tokened

\* A process has a cache.
LEMMA ProcessType == \A kind \in Kinds : process(kind) \in {"worker", "api"}
BY DEF process, Kinds

\* Whoever has taken a first step has a kind.
LEMMA CallerKind ==
  ASSUME TokensTypeOK, NEW c \in Callers, caller[c].at # "idle"
  PROVE  /\ caller[c] \in [at : {"exchanging", "using", "rejected", "over"}, kind : Kinds,
                           token : Nat, spent : Nat]
         /\ process_of(c) \in {"worker", "api"}
BY ProcessType DEF TokensTypeOK, CallerStates, process_of

\* A step of one caller that leaves the tokens alone, and puts a young entry or
\* none into one cache, keeps the invariant if it does for that caller.
LEMMA OneCaller ==
  ASSUME TokensInv, UNCHANGED issued, NEW c \in Callers,
         NEW hand \in CallerStates, InHandYoung(hand),
         caller' = [caller EXCEPT ![c] = hand],
         NEW p \in {"worker", "api"}, NEW entry \in [token : Nat, age : 0 .. TokenTtl],
         KeptYoung(entry),
         kept' = kept \/ kept' = [kept EXCEPT ![p] = entry]
  PROVE  TokensInv'
<1>1. TokensTypeOK'
  BY DEF TokensInv, TokensTypeOK
<1>2. \A q \in {"worker", "api"} : kept'[q] = kept[q] \/ kept'[q] = entry
  BY DEF TokensInv, TokensTypeOK
<1>3. \A d \in Callers : caller'[d] = caller[d] \/ caller'[d] = hand
  BY DEF TokensInv, TokensTypeOK
<1> QED BY <1>1, <1>2, <1>3 DEF TokensInv, KeptYoung, InHandYoung, Tokened

LEMMA TokensStep == TokensInv /\ [TokensNext]_tokenVars => TokensInv'
<1> SUFFICES ASSUME TokensInv, [TokensNext]_tokenVars PROVE TokensInv'
  OBVIOUS
<1>0. Forgotten \in [token : Nat, age : 0 .. TokenTtl] /\ KeptYoung(Forgotten)
  BY TokensAssumption DEF Forgotten, KeptYoung
<1>T. TokensTypeOK
  BY DEF TokensInv
<1>1. ASSUME NEW c \in Callers, NEW kind \in Kinds, installation_token(c, kind)
      PROVE  TokensInv'
  <2>1. process(kind) \in {"worker", "api"}
    BY ProcessType
  <2>2. CASE reusable(kept[process(kind)])
    <3> DEFINE hand == [at |-> "using", kind |-> kind, token |-> kept[process(kind)].token,
                        spent |-> 0]
    <3>1. /\ kept[process(kind)] \in [token : Nat, age : 0 .. TokenTtl]
          /\ kept[process(kind)].token # 0 /\ kept[process(kind)].age < TokenTtl
          /\ KeptYoung(kept[process(kind)])
      BY <1>T, <2>1, <2>2 DEF TokensInv, TokensTypeOK, reusable, unexpired
    <3>2. hand.token \in Tokened /\ issued[hand.token].age \in Nat
      BY <1>T, <3>1, IssuedType DEF KeptYoung
    <3>3. InHandYoung(hand)
      BY <3>1, <3>2, TokenBounds DEF KeptYoung, InHandYoung
    <3>4. hand \in CallerStates
      BY <3>1 DEF CallerStates
    <3>5. caller' = [caller EXCEPT ![c] = hand] /\ kept' = kept /\ UNCHANGED issued
      BY <1>1, <2>2 DEF installation_token
    <3> QED BY <1>0, <2>1, <3>3, <3>4, <3>5, OneCaller
  <2>3. CASE ~ reusable(kept[process(kind)])
    <3> DEFINE hand == [at |-> "exchanging", kind |-> kind, token |-> 0, spent |-> 0]
    <3>1. hand \in CallerStates /\ InHandYoung(hand)
      BY TokensAssumption DEF CallerStates, InHandYoung
    <3>2. caller' = [caller EXCEPT ![c] = hand] /\ kept' = kept /\ UNCHANGED issued
      BY <1>1, <2>3 DEF installation_token
    <3> QED BY <1>0, <2>1, <3>1, <3>2, OneCaller
  <2> QED BY <2>2, <2>3
<1>2. ASSUME NEW c \in Callers, GitHubIssues(c)
      PROVE  TokensInv'
  <2> DEFINE t == Len(issued) + 1
  <2>1. /\ issued' \in Seq([age : 0 .. TokenLife, accepted : BOOLEAN]) /\ Len(issued') = t
        /\ issued'[t].age = 0 /\ \A u \in Tokened : issued'[u] = issued[u]
    <3>1. [age |-> 0, accepted |-> TRUE] \in [age : 0 .. TokenLife, accepted : BOOLEAN]
      BY TokensAssumption
    <3> QED BY <1>2, <1>T, <3>1, AppendProperties DEF GitHubIssues, TokensTypeOK, Tokened
  <2>2. caller[c] \in [at : {"exchanging", "using", "rejected", "over"}, kind : Kinds,
                        token : Nat, spent : Nat]
    BY <1>2, <1>T, CallerKind DEF GitHubIssues, Caller
  <2>3. TokensTypeOK'
    <3>1. t \in Nat
      BY <1>T DEF TokensTypeOK
    <3>2. [caller[c] EXCEPT !.token = t] \in CallerStates
      BY <2>2, <3>1 DEF CallerStates
    <3> HIDE DEF t
    <3>3. caller' = [caller EXCEPT ![c] = [caller[c] EXCEPT !.token = t]] /\ UNCHANGED kept
      BY <1>2 DEF GitHubIssues, t
    <3> QED BY <1>T, <2>1, <3>2, <3>3 DEF TokensTypeOK
  <2>4. \A u \in Tokened : u \in Tokened' /\ issued'[u] = issued[u]
    BY <1>T, <2>1 DEF Tokened, TokensTypeOK
  <2>5. \A p \in {"worker", "api"} : KeptYoung(kept[p])'
    BY <1>2, <2>4 DEF GitHubIssues, TokensInv, KeptYoung
  <2>6. InHandYoung(caller[c])'
    <3>1. caller'[c] = [caller[c] EXCEPT !.token = t] /\ caller[c].at = "exchanging"
      BY <1>2, <1>T DEF GitHubIssues, TokensTypeOK, Caller
    <3>2. caller'[c].at = "exchanging" /\ caller'[c].token = t /\ caller'[c].spent = caller[c].spent
      BY <2>2, <3>1
    <3>3. caller[c].spent <= MaxExchange /\ t \in 1 .. t
      BY <1>T, <3>1 DEF TokensInv, InHandYoung, TokensTypeOK
    <3> QED BY <2>1, <2>2, <3>2, <3>3 DEF InHandYoung, Tokened
  <2>7. \A d \in Callers \ {c} : InHandYoung(caller[d])'
    BY <1>2, <1>T, <2>4 DEF GitHubIssues, TokensInv, TokensTypeOK, InHandYoung
  <2> QED BY <2>3, <2>5, <2>6, <2>7 DEF TokensInv
<1>3. ASSUME NEW c \in Callers, Exchanged(c)
      PROVE  TokensInv'
  <2> DEFINE entry == [token |-> caller[c].token, age |-> 0]
             hand == [at |-> "using", kind |-> caller[c].kind, token |-> caller[c].token,
                      spent |-> 0]
  <2>1. /\ caller[c] \in [at : {"exchanging", "using", "rejected", "over"}, kind : Kinds,
                           token : Nat, spent : Nat]
        /\ process_of(c) \in {"worker", "api"}
        /\ caller[c].at = "exchanging" /\ caller[c].token # 0
    BY <1>3, <1>T, CallerKind DEF Exchanged, Caller
  <2>2. /\ entry.token \in Tokened /\ issued[entry.token].age <= MaxExchange
        /\ issued[entry.token] \in [age : 0 .. TokenLife, accepted : BOOLEAN]
    <3>1. caller[c].token \in Tokened /\ issued[caller[c].token].age <= caller[c].spent
          /\ caller[c].spent \in Nat /\ caller[c].spent <= MaxExchange
      BY <2>1 DEF TokensInv, InHandYoung
    <3> QED BY <1>T, <3>1, TokenBounds, IssuedType
  <2>3. InHandYoung(hand) /\ KeptYoung(entry)
    BY <2>2, TokensAssumption DEF KeptYoung, InHandYoung
  <2>4. hand \in CallerStates /\ entry \in [token : Nat, age : 0 .. TokenTtl]
    BY <2>1, TokensAssumption DEF CallerStates
  <2>5. /\ caller' = [caller EXCEPT ![c] = hand] /\ UNCHANGED issued
        /\ kept' = [kept EXCEPT ![process_of(c)] = entry]
    BY <1>3 DEF Exchanged, Move
  <2> QED BY <2>1, <2>3, <2>4, <2>5, OneCaller
<1>4. ASSUME NEW c \in Callers, ExchangeFails(c) \/ Authorized(c) \/ Rejected(c)
      PROVE  TokensInv'
  <2> DEFINE Hand(at, token) == [at |-> at, kind |-> caller[c].kind, token |-> token, spent |-> 0]
  <2>1. /\ caller[c] \in [at : {"exchanging", "using", "rejected", "over"}, kind : Kinds,
                           token : Nat, spent : Nat]
        /\ process_of(c) \in {"worker", "api"}
    BY <1>4, <1>T, CallerKind DEF ExchangeFails, Authorized, Rejected, Caller
  <2>2. \A at \in {"over", "rejected"}, token \in Nat :
          Hand(at, token) \in CallerStates /\ InHandYoung(Hand(at, token))
    BY <2>1 DEF CallerStates, InHandYoung
  <2>3. PICK at \in {"over", "rejected"}, token \in Nat : caller' = [caller EXCEPT ![c] = Hand(at, token)]
    BY <1>4, <2>1 DEF ExchangeFails, Authorized, Rejected, Move
  <2>4. UNCHANGED issued /\ \E p \in {"worker", "api"} :
          kept' = kept \/ kept' = [kept EXCEPT ![p] = Forgotten]
    BY <1>4, <2>1 DEF ExchangeFails, Authorized, Rejected, forget_installation_token
  <2> HIDE DEF Hand
  <2> QED BY <1>0, <2>2, <2>3, <2>4, OneCaller
<1>5. CASE Disconnect
  <2>1. \A p \in {"worker", "api"} : kept'[p] = kept[p] \/ kept'[p] = Forgotten
    BY <1>5, <1>T DEF Disconnect, forget_installation_token, TokensTypeOK
  <2>2. TokensTypeOK'
    BY <1>0, <1>5, <1>T DEF Disconnect, forget_installation_token, TokensTypeOK
  <2> QED BY <1>0, <1>5, <2>1, <2>2 DEF Disconnect, TokensInv, KeptYoung, InHandYoung, Tokened
<1>6. CASE Invalidate
  <2>1. /\ issued' \in Seq([age : 0 .. TokenLife, accepted : BOOLEAN]) /\ Tokened' = Tokened
        /\ \A t \in Tokened : issued'[t].age = issued[t].age
    <3>1. DOMAIN issued = Tokened
      BY <1>T DEF TokensTypeOK, Tokened
    <3>2. \A t \in Tokened : /\ issued'[t] \in [age : 0 .. TokenLife, accepted : BOOLEAN]
                             /\ issued'[t].age = issued[t].age
      BY <1>6, <1>T, <3>1, IssuedType DEF Invalidate
    <3> QED BY <1>6, <1>T, <3>2, Reissued DEF Invalidate, Tokened
  <2>2. TokensTypeOK'
    BY <1>6, <1>T, <2>1 DEF Invalidate, TokensTypeOK
  <2>3. \A p \in {"worker", "api"} : KeptYoung(kept[p])'
    BY <1>6, <2>1 DEF Invalidate, TokensInv, KeptYoung
  <2>4. \A c \in Callers : InHandYoung(caller[c])'
    BY <1>6, <2>1 DEF Invalidate, TokensInv, InHandYoung
  <2> QED BY <2>2, <2>3, <2>4 DEF TokensInv
<1>7. CASE TokensTick
  <2>1. /\ issued' \in Seq([age : 0 .. TokenLife, accepted : BOOLEAN]) /\ Tokened' = Tokened
        /\ \A t \in Tokened : issued'[t].age \in Nat /\ issued'[t].age <= issued[t].age + 1
    <3>1. DOMAIN issued = Tokened
      BY <1>T DEF TokensTypeOK, Tokened
    <3>4. ASSUME NEW t \in Tokened
          PROVE  /\ issued'[t] \in [age : 0 .. TokenLife, accepted : BOOLEAN]
                 /\ issued'[t].age \in Nat /\ issued'[t].age <= issued[t].age + 1
      <4>1. issued'[t] = [issued[t] EXCEPT !.age = IF @ = TokenLife THEN @ ELSE @ + 1]
        BY <1>7, <3>1, Zenon DEF TokensTick
      <4>2. issued[t] \in [age : 0 .. TokenLife, accepted : BOOLEAN]
        BY <1>T, IssuedType
      <4> DEFINE n == IF issued[t].age = TokenLife THEN issued[t].age ELSE issued[t].age + 1
      <4>3. issued[t].age \in 0 .. TokenLife
        BY <4>2
      <4>4. n \in 0 .. TokenLife /\ n <= issued[t].age + 1 /\ n \in Nat
        BY <4>3, TokenBounds
      <4>5. issued'[t] = [issued[t] EXCEPT !.age = n]
        BY <4>1
      <4> HIDE DEF n
      <4> QED BY <4>2, <4>4, <4>5, AgedRecord
    <3> QED BY <1>7, <1>T, <3>4, Reissued DEF TokensTick, Tokened
  <2>2. \A p \in {"worker", "api"} :
          /\ kept'[p] \in [token : Nat, age : 0 .. TokenTtl] /\ kept'[p].token = kept[p].token
          /\ kept'[p].token # 0 => kept'[p].age = TokenTtl \/ kept'[p].age = kept[p].age + 1
    <3> SUFFICES ASSUME NEW p \in {"worker", "api"}
                 PROVE  /\ kept'[p] \in [token : Nat, age : 0 .. TokenTtl]
                        /\ kept'[p].token = kept[p].token
                        /\ kept'[p].age = TokenTtl \/ kept'[p].age = kept[p].age + 1
                           \/ kept[p].token = 0
      OBVIOUS
    <3>1. kept[p] \in [token : Nat, age : 0 .. TokenTtl] /\ DOMAIN kept = {"worker", "api"}
      BY <1>T DEF TokensTypeOK
    <3>2. kept'[p] = IF kept[p].token = 0 \/ kept[p].age = TokenTtl THEN kept[p]
                     ELSE [kept[p] EXCEPT !.age = @ + 1]
      BY <1>7, <3>1, Zenon DEF TokensTick
    <3> QED BY <3>1, <3>2, TokenBounds
  <2>3. \A p \in {"worker", "api"} : KeptYoung(kept[p])'
    <3> SUFFICES ASSUME NEW p \in {"worker", "api"}, kept'[p].token # 0
                 PROVE  KeptYoung(kept[p])'
      BY DEF KeptYoung
    <3>1. kept[p] \in [token : Nat, age : 0 .. TokenTtl]
      BY <1>T DEF TokensTypeOK
    <3>2. /\ kept[p].token \in Tokened /\ kept'[p].token = kept[p].token
          /\ kept[p].age < TokenTtl => issued[kept[p].token].age <= kept[p].age + MaxExchange
      BY <2>2 DEF TokensInv, KeptYoung
    <3>3. issued[kept[p].token].age \in Nat /\ issued'[kept[p].token].age \in Nat
      BY <1>T, <2>1, <3>2, IssuedType
    <3>4. issued'[kept[p].token].age <= issued[kept[p].token].age + 1
      BY <2>1, <3>2
    <3>5. kept'[p].age = TokenTtl \/ kept'[p].age = kept[p].age + 1
      BY <2>2
    <3>6. kept'[p].age < TokenTtl => issued'[kept'[p].token].age <= kept'[p].age + MaxExchange
      BY <3>1, <3>2, <3>3, <3>4, <3>5, TokenBounds
    <3> QED BY <2>1, <3>2, <3>6 DEF KeptYoung
  <2>4. \A c \in Callers : caller'[c] \in CallerStates /\ InHandYoung(caller[c])'
    <3> SUFFICES ASSUME NEW c \in Callers
                 PROVE  caller'[c] \in CallerStates /\ InHandYoung(caller[c])'
      OBVIOUS
    <3>1. CASE caller[c].at \in {"exchanging", "using"}
      <4>1. caller[c] \in [at : {"exchanging", "using", "rejected", "over"}, kind : Kinds,
                           token : Nat, spent : Nat]
        BY <1>T, <3>1, CallerKind
      <4>2. /\ caller'[c] \in CallerStates /\ caller'[c].at = caller[c].at
            /\ caller'[c].token = caller[c].token /\ caller'[c].spent = caller[c].spent + 1
        BY <1>7, <3>1, <4>1 DEF TokensTick, CallerStates
      <4>3. /\ caller[c].at = "exchanging" => caller[c].spent < MaxExchange
            /\ caller[c].at = "using" => caller[c].spent < MaxUse
        BY <1>7 DEF TokensTick, Caller
      <4>4. \A t \in Tokened : issued[t].age \in Nat /\ issued'[t].age \in Nat
        BY <1>T, <2>1, IssuedType
      <4>5. InHandYoung(caller[c])
        BY DEF TokensInv
      <4>6. caller[c].token \in Tokened =>
              issued'[caller[c].token].age <= issued[caller[c].token].age + 1
        BY <2>1
      <4>7. CASE caller[c].at = "exchanging"
        <5>1. /\ caller[c].spent \in Nat /\ caller[c].spent < MaxExchange
              /\ caller[c].token # 0 =>
                   caller[c].token \in Tokened /\ issued[caller[c].token].age <= caller[c].spent
          BY <4>1, <4>3, <4>5, <4>7 DEF InHandYoung
        <5>2. caller'[c].spent <= MaxExchange
          BY <4>2, <5>1, TokenBounds
        <5>3. ASSUME caller[c].token # 0
              PROVE  /\ caller[c].token \in Tokened'
                     /\ issued'[caller[c].token].age <= caller[c].spent + 1
          <6>1. caller[c].token \in Tokened /\ issued[caller[c].token].age <= caller[c].spent
            BY <5>1, <5>3
          <6>2. issued'[caller[c].token].age <= issued[caller[c].token].age + 1
                /\ issued'[caller[c].token].age \in Nat /\ issued[caller[c].token].age \in Nat
            BY <4>4, <4>6, <6>1
          <6>3. caller[c].token \in Tokened'
            BY <2>1, <6>1
          <6> QED BY <5>1, <6>1, <6>2, <6>3
        <5> QED BY <4>2, <4>7, <5>2, <5>3 DEF InHandYoung
      <4>8. CASE caller[c].at = "using"
        <5>1. /\ caller[c].spent \in Nat /\ caller[c].spent < MaxUse /\ caller[c].token \in Tokened
              /\ issued[caller[c].token].age < TokenTtl + MaxExchange + caller[c].spent
          BY <4>1, <4>3, <4>5, <4>8 DEF InHandYoung
        <5>2. caller'[c].spent <= MaxUse
          BY <4>2, <5>1, TokenBounds
        <5>3. issued'[caller[c].token].age < TokenTtl + MaxExchange + (caller[c].spent + 1)
          BY <4>4, <4>6, <5>1, TokenBounds
        <5> QED BY <2>1, <4>2, <4>8, <5>1, <5>2, <5>3 DEF InHandYoung
      <4> QED BY <3>1, <4>7, <4>8
    <3>2. CASE caller[c].at \notin {"exchanging", "using"}
      BY <1>7, <1>T, <3>2 DEF TokensTick, TokensTypeOK, InHandYoung
    <3> QED BY <3>1, <3>2
  <2>5. TokensTypeOK'
    BY <1>7, <2>1, <2>2, <2>4, <1>T DEF TokensTick, TokensTypeOK
  <2> QED BY <2>3, <2>4, <2>5 DEF TokensInv
<1>8. CASE UNCHANGED tokenVars
  BY <1>8 DEF tokenVars, TokensInv, TokensTypeOK, KeptYoung, InHandYoung, Tokened
<1> QED BY <1>1, <1>2, <1>3, <1>4, <1>5, <1>6, <1>7, <1>8 DEF TokensNext

\* No token is presented past the life GitHub gives it, for as long as the time to
\* live in the cache, the exchange and the job together keep within that life.
THEOREM ExpiredNever == TokensSpec => []NeverPresentedExpired
<1>1. TokensInv => NeverPresentedExpired
  <2> SUFFICES ASSUME TokensInv, NEW c \in Callers, caller[c].at = "using"
               PROVE  issued[caller[c].token].age < TokenLife
    BY DEF NeverPresentedExpired, Caller
  <2>1. /\ caller[c].spent \in Nat /\ caller[c].spent <= MaxUse
        /\ issued[caller[c].token].age \in Nat
        /\ issued[caller[c].token].age < TokenTtl + MaxExchange + caller[c].spent
    <3>1. caller[c].token \in Tokened
      BY DEF TokensInv, InHandYoung
    <3> QED BY <3>1, CallerKind, IssuedType DEF TokensInv, InHandYoung
  <2> QED BY <2>1, TokenBounds
<1> QED BY <1>1, TokensInitInv, TokensStep, PTL DEF TokensSpec
=============================================================================
