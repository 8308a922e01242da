------------------------------ MODULE RunReads ------------------------------
(***************************************************************************)
(* What a client reads of a website's runs, page after page and as         *)
(* statistics, while runs are inserted, end and are deleted with their     *)
(* website.                                                                *)
(*                                                                         *)
(* started_at is the instant the inserting transaction began: rows may     *)
(* share one, and may become visible after later ones.  An instant is a    *)
(* number, an id is one of an order that has nothing to do with time.      *)
(***************************************************************************)
EXTENDS Integers, SequencesExt

CONSTANTS
  RunIds,       \* ids of runs: numbers, in the order of the UUIDs
  PageLimit,    \* the page size asked for, below MAX_LIMIT
  Step,         \* how many instants a bucket holds
  BucketCount,
  Sizes,        \* index sizes a completed run may record
  NoRun,        \* no row, no filter, no cursor, no size recorded
  MaxInstant    \* bound on time

ASSUME RunReadsAssumption ==
  /\ IsFiniteSet(RunIds) /\ RunIds \cup Sizes \subseteq Nat /\ MaxInstant \in Nat
  /\ NoRun \notin Nat /\ NoRun \notin {"open", "pending", "completed", "failed"}
  /\ NoRun \notin [at : Nat, id : Nat]
  /\ {PageLimit, Step, BucketCount} \subseteq Nat \ {0}

VARIABLES
  site,     \* whether the website exists
  table,    \* its rows of runs; open: inserted and not committed
  instant,  \* the present
  paging,   \* a client's way through the pages
  report    \* a request for statistics

readsVars == <<site, table, instant, paging, report>>

NoRow == [st |-> NoRun, at |-> 0, size |-> NoRun]
Statuses3 == {"pending", "completed", "failed"}

ReadsInit ==
  /\ site = TRUE /\ table = [r \in RunIds |-> NoRow] /\ instant = 0
  /\ paging = [at |-> "idle", status |-> NoRun, cursor |-> NoRun, shown |-> <<>>, due |-> {}]
  /\ report = [at |-> "idle", now |-> 0, first |-> 0, end |-> 0, present |-> {},
               series |-> <<>>, totals |-> [runs |-> 0, completed |-> 0], latest |-> NoRun]

-----------------------------------------------------------------------------
(* The runs themselves.                                                     *)

InsertRow(r) ==
  /\ site /\ table[r].st = NoRun
  /\ table' = [table EXCEPT ![r] = [NoRow EXCEPT !.st = "open", !.at = instant]]
  /\ UNCHANGED <<site, instant, paging, report>>

CommitRow(r) ==
  /\ table[r].st = "open"
  /\ table' = [table EXCEPT ![r].st = "pending"]
  /\ UNCHANGED <<site, instant, paging, report>>

\* A run that ended under an older version has not recorded its size.
RowEnds(r, size) ==
  /\ table[r].st = "pending"
  /\ \/ table' = [table EXCEPT ![r].st = "completed", ![r].size = size]
     \/ table' = [table EXCEPT ![r].st = "failed"] /\ size = NoRun
  /\ UNCHANGED <<site, instant, paging, report>>

\* The foreign key takes the rows along.
DeleteSite ==
  /\ site /\ site' = FALSE /\ table' = [r \in RunIds |-> NoRow]
  /\ UNCHANGED <<instant, paging, report>>

TimePasses ==
  /\ instant' \in instant + 1 .. MaxInstant
  /\ UNCHANGED <<site, table, paging, report>>

-----------------------------------------------------------------------------
(* list_runs.                                                               *)

Visible == {r \in RunIds : table[r].st \in Statuses3}
Key(r) == [at |-> table[r].at, id |-> r]
Below(a, b) == a.at < b.at \/ (a.at = b.at /\ a.id < b.id)
Newest(set) == CHOOSE r \in set : \A q \in set \ {r} : Below(Key(q), Key(r))

Matching(status) == {r \in Visible : status = NoRun \/ table[r].st = status}

\* WHERE (started_at, id) < cursor ORDER BY started_at DESC, id DESC.
list_by_website(cursor, status) ==
  LET rows == {r \in Matching(status) : cursor = NoRun \/ Below(Key(r), cursor)}
      Place(r) == Cardinality({q \in rows : Below(Key(r), Key(q))}) + 1 IN
  [i \in 1 .. Cardinality(rows) |-> CHOOSE r \in rows : Place(r) = i]

\* Mutant: the cursor is the row that tells there is a next page.
cursor_of_probe(rows) == Key(rows[PageLimit + 1])

next_cursor(rows) == Key(rows[PageLimit])

ListRuns(status) ==
  LET rows == list_by_website(paging.cursor, status) IN
  /\ \/ paging.at = "idle" /\ report.at = "idle"
     \/ paging.at = "paging" /\ paging.status = status
  /\ paging' = IF ~ site THEN [paging EXCEPT !.at = "404"]
             ELSE [at |-> IF Len(rows) > PageLimit THEN "paging" ELSE "done", status |-> status,
                   cursor |-> IF Len(rows) > PageLimit THEN next_cursor(rows) ELSE NoRun,
                   shown |-> paging.shown \o SubSeq(rows, 1, Min({PageLimit, Len(rows)})),
                   due |-> IF paging.at = "idle" THEN Matching(status) ELSE paging.due]
  /\ UNCHANGED <<site, table, instant, report>>

-----------------------------------------------------------------------------
(* get_website_stats: the window, then two statements, of which the second  *)
(* may see more than the first.                                             *)

BucketOf(t) == t \div Step
InWindow == {r \in Visible : table[r].at >= report.first * Step /\ table[r].at < report.end * Step}

\* Mutant: the window ends where the bucket of the present begins.
window_to_last_bucket(now) == [first |-> BucketOf(now) - BucketCount + 1, end |-> BucketOf(now)]

\* In buckets: the last one is the bucket the present falls in.
resolve_window(now) == [first |-> BucketOf(now) - BucketCount + 1, end |-> BucketOf(now) + 1]

GetStats ==
  /\ report.at = "idle" /\ paging.at = "idle"
  /\ report' = IF ~ site THEN [report EXCEPT !.at = "404"]
               ELSE [report EXCEPT !.at = "window", !.now = instant,
                       !.first = resolve_window(instant).first, !.end = resolve_window(instant).end]
  /\ UNCHANGED <<site, table, instant, paging>>

\* The newest run that has recorded a size.
last_index(rows) ==
  LET sized == {r \in rows : table[r].size # NoRun} IN
  IF sized = {} THEN NoRun ELSE Newest(sized)

website_stats ==
  LET In(b) == {r \in InWindow : BucketOf(table[r].at) = b}
      Completed(rows) == Cardinality({r \in rows : table[r].st = "completed"}) IN
  /\ report.at = "window"
  /\ report' = [report EXCEPT !.at = "counted", !.present = Visible,
       !.series = [b \in report.first .. report.end - 1 |->
                     [runs |-> Cardinality(In(b)), completed |-> Completed(In(b)),
                      index |-> last_index(In(b))]],
       !.totals = [runs |-> Cardinality(InWindow), completed |-> Completed(InWindow)]]
  /\ UNCHANGED <<site, table, instant, paging>>

latest_completed_index ==
  LET completed == {r \in InWindow : table[r].st = "completed"} IN
  /\ report.at = "counted"
  /\ report' = [report EXCEPT !.at = "done",
                  !.latest = IF completed = {} THEN NoRun ELSE Newest(completed)]
  /\ UNCHANGED <<site, table, instant, paging>>

ReadsNext ==
  \/ \E r \in RunIds : \/ InsertRow(r) \/ CommitRow(r)
                       \/ \E size \in Sizes \cup {NoRun} : RowEnds(r, size)
  \/ DeleteSite \/ TimePasses
  \/ \E status \in {NoRun, "pending", "completed"} : ListRuns(status)
  \/ GetStats \/ website_stats \/ latest_completed_index

ReadsSpec == ReadsInit /\ [][ReadsNext]_readsVars

-----------------------------------------------------------------------------

\* Following next_cursor to its end shows every run that was there at the first
\* page, and still matches the filter, and no run twice, whatever is inserted,
\* becomes visible late or ends meanwhile.
WalkComplete ==
  site =>
  /\ paging.at = "done" =>
       \A r \in paging.due : paging.status \in {NoRun, table[r].st} => r \in ToSet(paging.shown)
  /\ \A i \in DOMAIN paging.shown : \A j \in 1 .. i - 1 :
       Below(Key(paging.shown[i]), Key(paging.shown[j]))

\* The series and the latest snapshot are read one after the other: the snapshot is
\* never older than a run the series shows an index of, nor is it another than the
\* newest of its bucket unless it completed in between.
LatestNoOlder ==
  report.at = "done" /\ site =>
    \A b \in DOMAIN report.series :
      LET r == report.series[b].index IN
      r # NoRun => /\ report.latest # NoRun /\ ~ Below(Key(report.latest), Key(r))
                   /\ BucketOf(table[report.latest].at) = b /\ report.latest # r =>
                        \/ table[report.latest].size = NoRun
                        \/ report.series[b].completed <
                             Cardinality({q \in Visible : BucketOf(table[q].at) = b
                                                            /\ table[q].st = "completed"})

\* The series adds up to the totals, and a run that was there when they were counted
\* is among them if it started in the bucket of the present or in one of the
\* BucketCount - 1 before; and the snapshot agrees with the series.
StatsAddUp ==
  /\ LatestNoOlder
  /\ report.at \in {"counted", "done"} =>
    LET counted == {r \in report.present : /\ table[r].at <= report.now
                                           /\ BucketOf(table[r].at) > BucketOf(report.now) - BucketCount}
        buckets == DOMAIN report.series IN
    /\ report.totals.runs = MapThenSumSet(LAMBDA b : report.series[b].runs, buckets)
    /\ report.totals.completed = MapThenSumSet(LAMBDA b : report.series[b].completed, buckets)
    /\ site => report.totals.runs >= Cardinality(counted)
=============================================================================
