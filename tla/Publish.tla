------------------------------ MODULE Publish ------------------------------
(***************************************************************************)
(* Publishing a website's llms.txt to GitHub: what the worker does after a *)
(* run is recorded (read the target, compare, commit or open a pull        *)
(* request, record the outcome), while its owner changes or deletes the    *)
(* target, other runs of the website publish, people edit the repository,  *)
(* and calls fail or are cancelled with their effect in doubt.             *)
(*                                                                         *)
(* A run is its place in the order of started_at. GitHub's blob sha is a   *)
(* function of the content, so the content stands for it.                  *)
(***************************************************************************)
EXTENDS Integers, FiniteSets

CONSTANTS
  MaxRuns,      \* bound on the website's runs
  Places,       \* <repository, base branch, path> triples
  Lists,        \* sets of pages an index may list
  Words,        \* titles and descriptions it may give them
  NoFile, Edited, Null,
  MaxFaults,    \* bound on failed or cancelled calls
  MaxEdits,     \* bound on what people do to the repository
  MaxTargets    \* bound on what the owner does to the target

Runs == 1 .. MaxRuns
Texts == [list : Lists, words : Words]
Contents == Texts \cup {NoFile, Edited}

ASSUME SizeAssumption ==
  /\ {MaxRuns, MaxFaults, MaxEdits, MaxTargets} \subseteq Nat
  /\ Null \notin Texts \cup {NoFile, Edited} /\ NoFile # Edited
  /\ Texts \cap {NoFile, Edited} = {}

VARIABLES
  runs,          \* run -> [st, text, enriched, diff]
  target,        \* the website's publish_targets row, or Null
  publications,  \* the publications table
  jobs,          \* run -> what its crawl_task is doing about the publication
  files,         \* GitHub: place -> the file on its base branch
  branches,      \* GitHub: place, run -> the file on branch llms-text/update-<run>
  pulls,         \* GitHub: place, run -> the pull requests of that branch: [st, opened]
  commits,       \* the commits this service has made: [run, place, mode]
  used           \* faults, edits and changes of the target so far

vars == <<runs, target, publications, jobs, files, branches, pulls, commits, used>>
github == <<files, branches, pulls, commits>>

NoJob == [pc |-> "none", target |-> Null, seen |-> Null, status |-> Null,
          commit |-> Null, guarded |-> FALSE]

Init ==
  /\ runs = [r \in Runs |-> [st |-> "absent", text |-> Null, enriched |-> FALSE, diff |-> Null]]
  /\ target = Null
  /\ publications = {}
  /\ jobs = [r \in Runs |-> NoJob]
  /\ files \in [Places -> {NoFile, Edited}]
  /\ branches = [p \in Places |-> [r \in Runs |-> Null]]
  /\ pulls = [p \in Places |-> [r \in Runs |-> [st |-> "none", opened |-> 0]]]
  /\ commits = {}
  /\ used = [faults |-> 0, edits |-> 0, targets |-> 0]

Fault == used.faults < MaxFaults /\ used' = [used EXCEPT !.faults = @ + 1]

-----------------------------------------------------------------------------
(* The crawl, as far as a publication depends on it.                        *)

StartRun(r) ==
  /\ runs[r].st = "absent" /\ \A q \in 1 .. r - 1 : runs[q].st # "absent"
  /\ runs' = [runs EXCEPT ![r].st = "crawling"]
  /\ UNCHANGED <<target, publications, jobs, github, used>>

\* The completed run before r in the order of started_at, if there is one.
previous_completed(r) == {q \in 1 .. r - 1 : runs[q].st = "completed"
                            /\ \A p \in q + 1 .. r - 1 : runs[p].st # "completed"}

\* Titles and descriptions written in different modes are not compared (None);
\* whether page bodies changed is independent of the text.
index_diff(text, enriched, previous, content) ==
  [state |-> "compared", pages |-> text.list # previous.text.list,
   metadata |-> IF enriched # previous.enriched THEN Null
                ELSE text.words # previous.text.words,
   content |-> content]

Crawl(r, text, enriched, content) ==
  /\ runs[r].st = "crawling"
  /\ LET before == previous_completed(r)
         diff == IF before = {} THEN [state |-> "first_run"]
                 ELSE index_diff(text, enriched, runs[CHOOSE q \in before : TRUE], content) IN
       runs' = [runs EXCEPT ![r] = [st |-> "recording", text |-> text,
                                    enriched |-> enriched, diff |-> diff]]
  /\ UNCHANGED <<target, publications, jobs, github, used>>

\* The read of the previous index fails: the run has no diff.
CrawlWithoutDiff(r, text, enriched) ==
  /\ runs[r].st = "crawling" /\ Fault
  /\ runs' = [runs EXCEPT ![r] = [st |-> "recording", text |-> text,
                                  enriched |-> enriched, diff |-> Null]]
  /\ UNCHANGED <<target, publications, jobs, github>>

record_success(r) ==
  /\ runs[r].st = "recording"
  /\ runs' = [runs EXCEPT ![r].st = "completed"]
  /\ jobs' = [jobs EXCEPT ![r].pc = "reading"]
  /\ UNCHANGED <<target, publications, github, used>>

\* The job stops, or loses the reply, between the commit and publish_run.
StopRecorded(r) ==
  /\ runs[r].st = "recording" /\ Fault
  /\ runs' = [runs EXCEPT ![r].st = "completed"]
  /\ jobs' = [jobs EXCEPT ![r].pc = "redelivered"]
  /\ UNCHANGED <<target, publications, github>>

-----------------------------------------------------------------------------
(* publish_run                                                              *)

Job(r) == jobs[r]
Text(r) == runs[r].text
Place(r) == jobs[r].target.place
CommitOf(r) == [run |-> r, place |-> Place(r), mode |-> Job(r).target.mode]

Continue(r, pc) == jobs' = [jobs EXCEPT ![r].pc = pc]
Finish(r, status, commit) ==
  jobs' = [jobs EXCEPT ![r].pc = "recording", ![r].status = status, ![r].commit = commit,
                       ![r].guarded = TRUE]

\* The except clause of publish_run: its insert is outside of the try.
Fail(r) == jobs' = [jobs EXCEPT ![r].pc = "recording", ![r].status = "failed",
                                ![r].commit = Null, ![r].guarded = FALSE]

index_changed(diff) ==
  IF diff = Null \/ diff.state # "compared" THEN TRUE
  ELSE diff.pages \/ diff.metadata = TRUE \/ diff.content = TRUE

find_settled_publication(r, t) ==
  {row \in publications : row.run = r /\ row.target = t.id /\ row.status # "failed"}

\* Mutant: the hint is heeded before the target is looked up.
ReadHint(r) ==
  /\ Job(r).pc = "reading"
  /\ jobs' = [jobs EXCEPT ![r] =
       IF ~ index_changed(runs[r].diff)
       THEN [@ EXCEPT !.pc = "recording", !.status = "skipped_unchanged"]
       ELSE IF target = Null THEN [@ EXCEPT !.pc = "ended"]
       ELSE [@ EXCEPT !.pc = "comparing", !.target = target]]
  /\ UNCHANGED <<runs, target, publications, github, used>>

\* The target, the run's settled publication and the hint; no network yet.
ReadTarget(r) ==
  /\ Job(r).pc = "reading"
  /\ jobs' = [jobs EXCEPT ![r] =
       IF \/ target = Null
          \/ ~ target.active
          \/ find_settled_publication(r, target) # {}
       THEN [@ EXCEPT !.pc = "ended"]
       ELSE IF ~ index_changed(runs[r].diff)
       THEN [@ EXCEPT !.pc = "recording", !.target = target, !.status = "skipped_unchanged"]
       ELSE [@ EXCEPT !.pc = "comparing", !.target = target]]
  /\ UNCHANGED <<runs, target, publications, github, used>>

\* A read raises, before the try that turns errors into rows.
ReadTargetRaises(r) ==
  /\ Job(r).pc = "reading" /\ Fault
  /\ Continue(r, "ended")
  /\ UNCHANGED <<runs, target, publications, github>>

\* read_file on the base branch; a file too large or not in UTF-8 is Edited, too.
Compare(r) ==
  /\ Job(r).pc = "comparing"
  /\ IF files[Place(r)] = Text(r)
     THEN Finish(r, "skipped_unchanged", Null)
     ELSE jobs' = [jobs EXCEPT ![r].seen = files[Place(r)],
                     ![r].pc = IF Job(r).target.mode = "commit" THEN "committing" ELSE "branching"]
  /\ UNCHANGED <<runs, target, publications, github, used>>

\* PUT /contents goes through only over the content whose sha it carries.
ShaMatches(content, seen) == content = seen

\* write_file on the base branch
CommitEffect(r) ==
  /\ files' = [files EXCEPT ![Place(r)] = Text(r)]
  /\ commits' = commits \cup {CommitOf(r)}
  /\ UNCHANGED <<branches, pulls>>

\* Mutant: a refused write passes for a commit.
CommitUnheeded(r) ==
  /\ Job(r).pc = "committing"
  /\ IF ShaMatches(files[Place(r)], Job(r).seen) THEN CommitEffect(r) ELSE UNCHANGED github
  /\ Finish(r, "succeeded", CommitOf(r))
  /\ UNCHANGED <<runs, target, publications, used>>

\* Mutant: the sha is read once more for the write, apart from the comparison.
CommitFresh(r) ==
  /\ Job(r).pc = "committing"
  /\ CommitEffect(r) /\ Finish(r, "succeeded", CommitOf(r))
  /\ UNCHANGED <<runs, target, publications, used>>

Commit(r) ==
  /\ Job(r).pc = "committing"
  /\ IF ShaMatches(files[Place(r)], Job(r).seen)
     THEN CommitEffect(r) /\ Finish(r, "succeeded", CommitOf(r))
     ELSE UNCHANGED github /\ Fail(r)
  /\ UNCHANGED <<runs, target, publications, used>>

\* branch_head_sha, then create_branch: "already exists" is success.
BranchEffect(r) ==
  /\ branches' = [branches EXCEPT ![Place(r)][r] = IF @ = Null THEN files[Place(r)] ELSE @]
  /\ UNCHANGED <<files, pulls, commits>>

CutBranch(r) ==
  /\ Job(r).pc = "branching"
  /\ BranchEffect(r) /\ Continue(r, "rereading")
  /\ UNCHANGED <<runs, target, publications, used>>

Reread(r) ==
  /\ Job(r).pc = "rereading"
  /\ jobs' = [jobs EXCEPT ![r].seen = branches[Place(r)][r], ![r].pc = "pushing"]
  /\ UNCHANGED <<runs, target, publications, github, used>>

PushEffect(r) ==
  /\ branches' = [branches EXCEPT ![Place(r)][r] = Text(r)]
  /\ commits' = commits \cup {CommitOf(r)}
  /\ UNCHANGED <<files, pulls>>

Push(r) ==
  /\ Job(r).pc = "pushing"
  /\ IF ShaMatches(branches[Place(r)][r], Job(r).seen)
     THEN PushEffect(r) /\ Continue(r, "proposing")
     ELSE UNCHANGED github /\ Fail(r)
  /\ UNCHANGED <<runs, target, publications, used>>

\* GitHub refuses a second open pull request for a branch.
ProposeEffect(r) ==
  /\ pulls' = [pulls EXCEPT ![Place(r)][r] = [st |-> "open", opened |-> @.opened + 1]]
  /\ UNCHANGED <<files, branches, commits>>

Propose(r) ==
  /\ Job(r).pc = "proposing"
  /\ IF pulls[Place(r)][r].st # "open"
     THEN ProposeEffect(r) /\ Finish(r, "succeeded", CommitOf(r))
     ELSE UNCHANGED github /\ Fail(r)
  /\ UNCHANGED <<runs, target, publications, used>>

\* A call to GitHub that is seen to fail, or is cut off, may have taken effect.
GitHubInDoubt(r) ==
  \/ UNCHANGED github
  \/ /\ Job(r).pc = "committing" /\ ShaMatches(files[Place(r)], Job(r).seen)
     /\ CommitEffect(r)
  \/ Job(r).pc = "branching" /\ BranchEffect(r)
  \/ /\ Job(r).pc = "pushing" /\ ShaMatches(branches[Place(r)][r], Job(r).seen)
     /\ PushEffect(r)
  \/ Job(r).pc = "proposing" /\ pulls[Place(r)][r].st # "open" /\ ProposeEffect(r)

Calling == {"comparing", "committing", "branching", "rereading", "pushing", "proposing"}

GitHubFails(r) ==
  /\ Job(r).pc \in Calling /\ Fault
  /\ GitHubInDoubt(r)
  /\ Fail(r)
  /\ UNCHANGED <<runs, target, publications>>

Row(r) == [run |-> r, target |-> Job(r).target.id, status |-> Job(r).status,
           commit |-> Job(r).commit]

\* The row refers to its target, which may have been deleted meanwhile: the
\* insert then raises, and so does the insert of the failure.
Insertable(r) == target # Null /\ target.id = Job(r).target.id

record_publication(r) ==
  /\ Job(r).pc = "recording"
  /\ publications' = IF Insertable(r) THEN publications \cup {Row(r)} ELSE publications
  /\ Continue(r, "ended")
  /\ UNCHANGED <<runs, target, github, used>>

RowInDoubt(r) ==
  publications' = publications
    \/ (Job(r).pc = "recording" /\ Insertable(r) /\ publications' = publications \cup {Row(r)})

\* Inside the try the failure of the insert becomes a failed row; the others raise.
RecordRaises(r) ==
  /\ Job(r).pc = "recording" /\ Fault
  /\ RowInDoubt(r)
  /\ IF Job(r).guarded THEN Fail(r) ELSE Continue(r, "ended")
  /\ UNCHANGED <<runs, target, github>>

\* The job is cancelled or its worker dies; arq delivers it once more, but for a
\* cancellation by the job timeout, which nothing here depends on.
Interrupt(r) ==
  /\ Job(r).pc \in Calling \cup {"reading", "recording"} /\ Fault
  /\ GitHubInDoubt(r) /\ RowInDoubt(r)
  /\ Continue(r, "redelivered")
  /\ UNCHANGED <<runs, target>>

\* Mutant: a redelivered job publishes the run it finds completed.
PublishAgain(r) ==
  /\ Job(r).pc = "redelivered"
  /\ jobs' = [jobs EXCEPT ![r] = [NoJob EXCEPT !.pc = "reading"]]
  /\ UNCHANGED <<runs, target, publications, github, used>>

\* execute_run finds the run completed and returns no outcome: nothing is published.
Redelivered(r) ==
  /\ Job(r).pc = "redelivered"
  /\ Continue(r, "ended")
  /\ UNCHANGED <<runs, target, publications, github, used>>

-----------------------------------------------------------------------------
(* The owner, and the people who work in the repository.                    *)

Change == used.targets < MaxTargets /\ used' = [used EXCEPT !.targets = @ + 1]
Edit == used.edits < MaxEdits /\ used' = [used EXCEPT !.edits = @ + 1]

\* The row keeps its id; a row created after a deletion has a new one.
upsert_target(place, mode, active) ==
  /\ Change
  /\ target' = [id |-> IF target = Null THEN used.targets ELSE target.id,
                place |-> place, mode |-> mode, active |-> active]
  /\ UNCHANGED <<runs, publications, jobs, github>>

\* Also what disconnecting the installation does to it; its rows go with it.
delete_target ==
  /\ target # Null /\ Change
  /\ target' = Null
  /\ publications' = {row \in publications : row.target # target.id}
  /\ UNCHANGED <<runs, jobs, github>>

EditFile(p, content) ==
  /\ Edit
  /\ files' = [files EXCEPT ![p] = content]
  /\ UNCHANGED <<runs, target, publications, jobs, branches, pulls, commits>>

\* A base branch that has moved on is merged, or resolved by hand.
MergePull(p, r) ==
  /\ pulls[p][r].st = "open" /\ Edit
  /\ pulls' = [pulls EXCEPT ![p][r].st = "closed"]
  /\ files' \in {[files EXCEPT ![p] = content] : content \in {branches[p][r], Edited}}
  /\ UNCHANGED <<runs, target, publications, jobs, branches, commits>>

ClosePull(p, r) ==
  /\ pulls[p][r].st = "open" /\ Edit
  /\ pulls' = [pulls EXCEPT ![p][r].st = "closed"]
  /\ UNCHANGED <<runs, target, publications, jobs, files, branches, commits>>

PublishStep(r) ==
  \/ ReadTarget(r) \/ Compare(r) \/ Commit(r) \/ CutBranch(r) \/ Reread(r) \/ Push(r) \/ Propose(r)
  \/ record_publication(r) \/ Redelivered(r)

Next ==
  \/ \E r \in Runs :
       \/ StartRun(r) \/ record_success(r) \/ StopRecorded(r)
       \/ \E text \in Texts, enriched \in BOOLEAN :
            \/ \E content \in BOOLEAN : Crawl(r, text, enriched, content)
            \/ CrawlWithoutDiff(r, text, enriched)
       \/ PublishStep(r)
       \/ ReadTargetRaises(r) \/ GitHubFails(r) \/ RecordRaises(r) \/ Interrupt(r)
  \/ \E p \in Places, mode \in {"commit", "pull_request"}, active \in BOOLEAN :
       upsert_target(p, mode, active)
  \/ delete_target
  \/ \E p \in Places : \/ EditFile(p, Edited) \/ EditFile(p, NoFile)
                       \/ \E r \in Runs : MergePull(p, r) \/ ClosePull(p, r)

Spec == Init /\ [][Next]_vars

-----------------------------------------------------------------------------
(* Properties.                                                              *)

Statuses == {"succeeded", "failed", "skipped_unchanged"}
Modes == {"commit", "pull_request"}
Targets == [id : Nat, place : Places, mode : Modes, active : BOOLEAN]
Commits == [run : Runs, place : Places, mode : Modes]
Diffs == [state : {"first_run"}]
           \cup [state : {"compared"}, pages : BOOLEAN, metadata : BOOLEAN \cup {Null},
                 content : BOOLEAN]
RunRows == [st : {"absent", "crawling", "recording", "completed"}, text : Texts \cup {Null},
            enriched : BOOLEAN, diff : Diffs \cup {Null}]
Jobs == [pc : {"none", "reading", "recording", "redelivered", "ended"} \cup Calling,
         target : Targets \cup {Null}, seen : Contents \cup {Null},
         status : Statuses \cup {Null}, commit : Commits \cup {Null}, guarded : BOOLEAN]
Rows == [run : Runs, target : Nat, status : Statuses, commit : Commits \cup {Null}]
Pulls == [st : {"none", "open", "closed"}, opened : Nat]

\* Every variable has its type; a run that has been crawled has a text, and a
\* job that calls GitHub or writes a row knows the target and the outcome it is for.
TypeOK ==
  /\ runs \in [Runs -> RunRows]
  /\ \A r \in Runs : runs[r].st \in {"recording", "completed"} => runs[r].text \in Texts
  /\ target \in Targets \cup {Null}
  /\ publications \in SUBSET Rows
  /\ jobs \in [Runs -> Jobs]
  /\ \A r \in Runs :
       /\ jobs[r].pc \in Calling \cup {"recording"} => jobs[r].target \in Targets
       /\ jobs[r].pc = "recording" => jobs[r].status \in Statuses
  /\ files \in [Places -> Contents]
  /\ branches \in [Places -> [Runs -> Contents \cup {Null}]]
  /\ pulls \in [Places -> [Runs -> Pulls]]
  /\ commits \in SUBSET Commits
  /\ used \in [faults : 0 .. MaxFaults, edits : 0 .. MaxEdits, targets : 0 .. MaxTargets]

\* A run whose job is retried, cancelled or cut off among its calls to GitHub
\* opens one pull request at most, in whichever repository its target named and
\* whatever becomes of the first one.
OnePullRequest ==
  \A r \in Runs, p, q \in Places :
    /\ pulls[p][r].opened <= 1
    /\ pulls[p][r].opened = 1 /\ pulls[q][r].opened = 1 => p = q

\* A "succeeded" row is the record of a commit of that run's text, and of an
\* open or once open pull request where one was asked for.
SucceededIsThere ==
  \A row \in publications : row.status = "succeeded" =>
    /\ row.commit \in commits /\ row.commit.run = row.run
    /\ row.commit.mode = "pull_request" => pulls[row.commit.place][row.run].opened > 0

\* A publication replaces only what it has compared with: an edit, a merge or
\* another run's commit that comes between is never overwritten unseen.
NoLostEdit ==
  [][\A p \in Places, r \in Runs :
       files'[p] # files[p] /\ jobs[r].pc = "committing" /\ jobs'[r] # jobs[r]
         => jobs[r].seen = files[p]]_vars

-----------------------------------------------------------------------------
(* What the documentation says, and the code does not keep.                 *)

\* "Nothing is committed when nothing changed, decided twice" (ARCHITECTURE.md):
\* the repository's own copy has the last word, so a run is skipped as unchanged
\* only where the repository holds its text.
SkippedMeansSame ==
  [][\A row \in publications' \ publications :
       row.status = "skipped_unchanged" =>
         Text(row.run) \in {files[Place(row.run)], jobs[row.run].seen}]_vars
=============================================================================
