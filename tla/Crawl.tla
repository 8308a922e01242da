-------------------------------- MODULE Crawl --------------------------------
(***************************************************************************)
(* How one attempt of a run collects pages: sitemap discovery, one request *)
(* after the other, then crawl_site: the seed, and the frontier fetched by *)
(* concurrent tasks that share the politeness gate, the byte budget and    *)
(* the wall clock.                                                         *)
(*                                                                         *)
(* A chunk of a body is one unit of the byte budgets, and a call is a      *)
(* fetch_page.  Call 0 is made by execute_run itself (robots.txt, sitemap  *)
(* documents, the seed), call c > 0 by the frontier's c-th task.  The      *)
(* event loop runs what is ready before time passes, except that a sleeper *)
(* in the gate may wake up to MaxLate too late.                            *)
(***************************************************************************)
EXTENDS Integers, Sequences, FiniteSets

CONSTANTS
  MaxPages,         \* limits.max_pages
  Concurrency,      \* crawl_concurrency
  MaxBytes,         \* crawl_max_bytes
  ByteShare,        \* the share of it discovery may spend
  MaxDocuments,     \* crawl_sitemap_max_documents
  MaxUrls,          \* crawl_sitemap_max_urls
  PolitenessDelay,  \* crawl_politeness_delay_ms
  MaxRobotsDelay,   \* MAX_ROBOTS_CRAWL_DELAY_MS
  CrawlDelays,      \* what a robots.txt may ask for
  WallClock,        \* crawl_max_wall_clock_s
  JobTimeout,       \* arq's job_timeout
  MaxLate,          \* bound on how late a sleeper wakes up
  MaxBody,          \* bound on the chunks of a body
  MaxListed         \* bound on what one document lists

Calls == 0 .. MaxPages - 1

ASSUME CrawlAssumption ==
  /\ {MaxPages, Concurrency, MaxDocuments, MaxUrls, ByteShare} \subseteq Nat \ {0}
  /\ {MaxBytes, PolitenessDelay, MaxRobotsDelay, WallClock, JobTimeout} \subseteq Nat
  /\ {MaxLate, MaxBody, MaxListed} \subseteq Nat
  /\ CrawlDelays \subseteq Nat /\ 0 \in CrawlDelays /\ ByteShare <= MaxBytes

VARIABLES
  phase,  \* what execute_run is doing
  disc,   \* discovery: where it is, what it has spent and found
  gate,   \* the PolitenessGate
  calls,  \* call -> [at, got]: its progress and the chunks it has kept
  bytes,  \* ByteBudget.used
  walk,   \* what crawl_site has collected
  clock   \* age of the job, what is left of the wall clock, when the crawl began

crawlVars == <<phase, disc, gate, calls, bytes, walk, clock>>

Larger(a, b) == IF a > b THEN a ELSE b
Smaller(a, b) == IF a < b THEN a ELSE b

ALLOW_ALL == [allowed |-> TRUE, delay |-> 0]

effective_crawl_delay(delay) == Larger(PolitenessDelay, Smaller(delay, MaxRobotsDelay))

NewDiscovery == [at |-> "robots", child |-> FALSE, kids |-> 0, targets |-> 0, docs |-> 0,
                 urls |-> 0, used |-> 0, stop |-> FALSE, read |-> ALLOW_ALL, rules |-> ALLOW_ALL]

CrawlInit ==
  /\ phase = "discovery" /\ disc = NewDiscovery
  /\ gate = [line |-> <<>>, start |-> 0, next |-> 0, delay |-> PolitenessDelay,
             since |-> 0, gap |-> 0]
  /\ calls = [c \in Calls |-> [at |-> "ready", got |-> 0]]
  /\ bytes = 0
  /\ walk = [pages |-> 0, dropped |-> 0, frontier |-> 0,
             cap_hit |-> "none", seed_error |-> "none"]
  /\ clock = [age |-> 0, left |-> WallClock, began |-> 0]

\* The job is under way: neither finished nor cancelled, and its tasks with it.
Running == phase \in {"discovery", "seed", "frontier"}

At(c, at) == calls' = [calls EXCEPT ![c].at = at]
Done(c) == calls' = [calls EXCEPT ![c] = [at |-> "done", got |-> 0]]

-----------------------------------------------------------------------------
(* The gate.  It is a lock, held by the head of the line while it sleeps    *)
(* until start, which it computes when it gets the lock.  Times are         *)
(* relative to now; since and gap, the time since the last start and the    *)
(* delay it was to keep, are there for StartsApart.                         *)

Enter(c) == gate' = [gate EXCEPT
  !.line = Append(@, c),
  !.start = IF gate.line = <<>> THEN Larger(0, gate.next) ELSE @]

\* Mutant: the lock is released before the sleep, and the next slot is not yet
\* reserved: whoever comes meanwhile computes the same start.
wait_unlocked(c) ==
  /\ Running /\ gate.line # <<>> /\ Head(gate.line) = c /\ gate.start <= 0
  /\ gate' = [gate EXCEPT !.line = Tail(@), !.next = gate.start + gate.delay,
                          !.start = 0, !.since = 0, !.gap = gate.delay]
  /\ calls' = [calls EXCEPT ![c] = [at |-> "body", got |-> 0]]
  /\ UNCHANGED <<phase, disc, bytes, walk, clock>>

wait_for_turn(c) ==
  LET next == gate.start + gate.delay IN
  /\ Running /\ gate.line # <<>> /\ Head(gate.line) = c /\ gate.start <= 0
  /\ gate' = [gate EXCEPT !.line = Tail(@), !.next = next, !.start = Larger(0, next),
                          !.since = 0, !.gap = gate.delay]
  /\ calls' = [calls EXCEPT ![c] = [at |-> "body", got |-> 0]]
  /\ UNCHANGED <<phase, disc, bytes, walk, clock>>

-----------------------------------------------------------------------------
(* The byte budget.  Discovery charges its share first and the run's budget *)
(* second; neither is charged for a chunk that either refuses.              *)

\* Mutant: discovery spends from the run's budget without a share of its own.
FitsRun == bytes < MaxBytes

Fits == bytes < MaxBytes /\ (phase = "discovery" => disc.used < ByteShare)

Chunk(c) ==
  /\ Running /\ calls[c].at = "body" /\ calls[c].got < MaxBody /\ Fits
  /\ bytes' = bytes + 1
  /\ calls' = [calls EXCEPT ![c].got = @ + 1]
  /\ disc' = IF phase = "discovery" THEN [disc EXCEPT !.used = @ + 1] ELSE disc
  /\ UNCHANGED <<phase, gate, walk, clock>>

Refuses(c) == calls[c].at = "body" /\ calls[c].got < MaxBody /\ ~ Fits

-----------------------------------------------------------------------------
(* discover_sitemap_urls                                                    *)

Discovering == phase = "discovery" /\ disc.at # "over"
remaining_urls(d) == Larger(0, MaxUrls - d.urls)

\* The walk over the entry points and the targets, after a document at the top
\* level is done with.
NextEntry(d) ==
  CASE d.at # "robots_target" /\ (d.urls > 0 \/ d.stop) -> [d EXCEPT !.at = "over"]
    [] d.at = "sitemap" /\ d.urls = 0 /\ ~ d.stop -> [d EXCEPT !.at = "sitemap_index"]
    [] d.at = "sitemap_index" /\ d.urls = 0 /\ ~ d.stop ->
         [d EXCEPT !.at = IF d.targets = 0 THEN "over" ELSE "robots_target"]
    [] d.at = "robots_target" ->
         IF d.stop \/ remaining_urls(d) = 0 \/ d.targets = 1 THEN [d EXCEPT !.at = "over"]
         ELSE [d EXCEPT !.targets = @ - 1]

\* _collect returns: a child of an index is followed by its next sibling.
Collected(d) ==
  IF ~ d.child THEN NextEntry(d)
  ELSE IF d.kids = 1 \/ d.stop \/ remaining_urls(d) = 0
       THEN NextEntry([d EXCEPT !.child = FALSE, !.kids = 0])
       ELSE [d EXCEPT !.kids = @ - 1]

\* The document cap counts attempts; robots.txt is free.
FetchDocument ==
  /\ Discovering /\ calls[0].at = "ready" /\ (disc.at = "robots" \/ disc.docs < MaxDocuments)
  /\ disc' = IF disc.at = "robots" THEN disc ELSE [disc EXCEPT !.docs = @ + 1]
  /\ Enter(0) /\ At(0, "line")
  /\ UNCHANGED <<phase, bytes, walk, clock>>

DocumentCap ==
  /\ Discovering /\ calls[0].at = "ready" /\ disc.at # "robots" /\ disc.docs >= MaxDocuments
  /\ disc' = Collected([disc EXCEPT !.stop = TRUE])
  /\ UNCHANGED <<phase, gate, calls, bytes, walk, clock>>

\* The byte share is spent: stop, with what has been harvested.  After
\* robots.txt the first well-known probe is made all the same.
ShareSpent ==
  /\ Discovering /\ Refuses(0)
  /\ disc' = IF disc.at = "robots" THEN [disc EXCEPT !.stop = TRUE, !.at = "sitemap"]
             ELSE Collected([disc EXCEPT !.stop = TRUE])
  /\ At(0, "ready")
  /\ UNCHANGED <<phase, gate, bytes, walk, clock>>

\* No answer, a status that is not 2xx, a document that cannot be parsed or that
\* is neither a sitemap nor an index: nothing, and on to the next one.
NoDocument ==
  /\ Discovering /\ calls[0].at = "body"
  /\ disc' = IF disc.at = "robots" THEN [disc EXCEPT !.at = "sitemap"] ELSE Collected(disc)
  /\ At(0, "ready")
  /\ UNCHANGED <<phase, gate, bytes, walk, clock>>

RobotsRead(rules, targets) ==
  /\ Discovering /\ calls[0].at = "body" /\ disc.at = "robots"
  /\ disc' = [disc EXCEPT !.at = "sitemap", !.read = rules, !.rules = rules, !.targets = targets]
  /\ At(0, "ready")
  /\ UNCHANGED <<phase, gate, bytes, walk, clock>>

\* urljoin raises ValueError for a Sitemap: line such as http://[x: the except
\* clause of discover_sitemap_urls ends discovery before `rules` is assigned.
MalformedTarget(rules) ==
  /\ Discovering /\ calls[0].at = "body" /\ disc.at = "robots"
  /\ disc' = [disc EXCEPT !.at = "over", !.read = rules]
  /\ At(0, "ready")
  /\ UNCHANGED <<phase, gate, bytes, walk, clock>>

SitemapRead(listed) ==
  /\ Discovering /\ calls[0].at = "body" /\ disc.at # "robots" /\ listed > 0
  /\ LET kept == Smaller(listed, remaining_urls(disc)) IN
       disc' = Collected([disc EXCEPT !.urls = @ + kept])
  /\ At(0, "ready")
  /\ UNCHANGED <<phase, gate, bytes, walk, clock>>

IndexRead(kids) ==
  /\ Discovering /\ calls[0].at = "body" /\ disc.at # "robots" /\ ~ disc.child /\ kids > 0
  /\ disc' = [disc EXCEPT !.child = TRUE, !.kids = kids]
  /\ At(0, "ready")
  /\ UNCHANGED <<phase, gate, bytes, walk, clock>>

-----------------------------------------------------------------------------
(* execute_run, between discovery and the crawl.  Discovery's result is what *)
(* stays of it.  select_urls drops some of its URLs, or raises (Selection).  With robots.txt against it the seed is  *)
(* not fetched; otherwise it is, without the gate.                          *)

BeginCrawl(selected) ==
  /\ phase = "discovery" /\ disc.at = "over"
  /\ selected <= Smaller(disc.urls, MaxPages - 1)
  /\ gate' = [gate EXCEPT !.delay = effective_crawl_delay(disc.rules.delay)]
  /\ clock' = [clock EXCEPT !.began = clock.age]
  /\ disc' = [NewDiscovery EXCEPT !.at = "over", !.urls = disc.urls, !.read = disc.read]
  /\ IF disc.rules.allowed
     THEN /\ phase' = "seed"
          /\ calls' = [calls EXCEPT ![0] = [at |-> "body", got |-> 0]]
          /\ walk' = [walk EXCEPT !.frontier = selected]
     ELSE /\ phase' = "over"
          /\ walk' = [walk EXCEPT !.seed_error = "robots"]
          /\ UNCHANGED calls
  /\ UNCHANGED bytes

SelectRaises ==
  /\ phase = "discovery" /\ disc.at = "over" /\ disc.urls > 0
  /\ phase' = "failed"
  /\ UNCHANGED <<disc, gate, calls, bytes, walk, clock>>

-----------------------------------------------------------------------------
(* crawl_site                                                               *)

mark_cap_hit(w, cap) == IF w.cap_hit = "none" THEN [w EXCEPT !.cap_hit = cap] ELSE w

SeedFails(error) ==
  /\ phase = "seed"
  /\ IF error = "bytes" THEN Refuses(0) ELSE calls[0].at = "body"
  /\ phase' = "over" /\ At(0, "done")
  /\ walk' = [walk EXCEPT !.seed_error = error]
  /\ UNCHANGED <<disc, gate, bytes, clock>>

\* The seed's own links make the frontier if discovery found nothing at all.
SeedRead(links) ==
  LET frontier == IF disc.urls > 0 THEN walk.frontier ELSE links IN
  /\ phase = "seed" /\ calls[0].at = "body" /\ links <= MaxPages - 1
  /\ phase' = IF frontier = 0 THEN "over" ELSE "frontier"
  /\ Done(0)
  /\ walk' = [walk EXCEPT !.pages = 1, !.frontier = frontier]
  /\ UNCHANGED <<disc, gate, bytes, clock>>

Frontier == 1 .. walk.frontier
BusyFetches == {c \in Frontier : calls[c].at \in {"line", "body"}}

\* A task gets the semaphore, in the order of the frontier.  Returns after a cap.
Start(c) ==
  LET cap == IF walk.cap_hit # "none" THEN walk.cap_hit
             ELSE IF walk.pages >= MaxPages THEN "pages"
             ELSE IF clock.left = 0 THEN "wall_clock" ELSE "none" IN
  /\ phase = "frontier" /\ c \in Frontier /\ calls[c].at = "ready"
  /\ \A b \in Frontier : b < c => calls[b].at # "ready"
  /\ Cardinality(BusyFetches) < Concurrency
  /\ IF cap = "none" THEN Enter(c) /\ At(c, "line") /\ UNCHANGED walk
     ELSE Done(c) /\ walk' = mark_cap_hit(walk, cap) /\ UNCHANGED gate
  /\ UNCHANGED <<phase, disc, bytes, clock>>

\* Mutant: a refused body is dropped like any other failed fetch, uncounted.
BytesDropped(c) ==
  /\ phase = "frontier" /\ c \in Frontier /\ Refuses(c)
  /\ Done(c)
  /\ UNCHANGED <<phase, disc, gate, bytes, walk, clock>>

BytesRefused(c) ==
  /\ phase = "frontier" /\ c \in Frontier /\ Refuses(c)
  /\ Done(c) /\ walk' = mark_cap_hit(walk, "bytes")
  /\ UNCHANGED <<phase, disc, gate, bytes, clock>>

\* It failed, is blocked, has a status that is not 2xx or left the origin: the
\* four counters of the stats are one here.
PageDropped(c) ==
  /\ phase = "frontier" /\ c \in Frontier /\ calls[c].at = "body"
  /\ Done(c) /\ walk' = [walk EXCEPT !.dropped = @ + 1]
  /\ UNCHANGED <<phase, disc, gate, bytes, clock>>

PageRead(c) ==
  /\ phase = "frontier" /\ c \in Frontier /\ calls[c].at = "body"
  /\ Done(c) /\ walk' = [walk EXCEPT !.pages = @ + 1]
  /\ UNCHANGED <<phase, disc, gate, bytes, clock>>

Gathered ==
  /\ phase = "frontier" /\ \A c \in Frontier : calls[c].at = "done"
  /\ phase' = "over"
  /\ UNCHANGED <<disc, gate, calls, bytes, walk, clock>>

\* What the block of asyncio.timeout is around.
Capped == {"seed", "frontier"}

\* asyncio.timeout cancels what is still running; the sleeper's lock is released.
WallClockCap ==
  /\ phase \in Capped /\ clock.left = 0
  /\ phase' = "over"
  /\ walk' = [mark_cap_hit(walk, "wall_clock") EXCEPT
                !.seed_error = IF walk.pages = 0 THEN "timeout" ELSE "none"]
  /\ calls' = [c \in Calls |-> IF calls[c].at \in {"line", "body"}
                               THEN [at |-> "cancelled", got |-> 0] ELSE calls[c]]
  /\ gate' = [gate EXCEPT !.line = <<>>]
  /\ UNCHANGED <<disc, bytes, clock>>

-----------------------------------------------------------------------------
(* The job's own timeout, and time.                                         *)

Backstop ==
  /\ Running /\ clock.age = JobTimeout
  /\ phase' = "cancelled"
  /\ UNCHANGED <<disc, gate, calls, bytes, walk, clock>>

\* Somebody is waiting, and nobody could go on without time passing.
Waiting ==
  /\ \E c \in Calls : calls[c].at \in {"line", "body"}
  /\ gate.line # <<>> => gate.start > - MaxLate
  /\ phase = "discovery" => calls[0].at # "ready"
  /\ phase = "frontier" =>
       (Cardinality(BusyFetches) < Concurrency => \A c \in Frontier : calls[c].at # "ready")

CrawlTick ==
  /\ Running /\ clock.age < JobTimeout /\ Waiting
  /\ phase \in Capped => clock.left > 0
  /\ clock' = [clock EXCEPT !.age = @ + 1,
                            !.left = IF phase = "discovery" THEN @ ELSE Larger(0, @ - 1)]
  /\ gate' = [gate EXCEPT !.next = Larger(0, @ - 1), !.since = Smaller(gate.gap, @ + 1),
                          !.start = IF gate.line = <<>> THEN 0 ELSE @ - 1]
  /\ UNCHANGED <<phase, disc, calls, bytes, walk>>

-----------------------------------------------------------------------------

Discovery ==
  \/ FetchDocument \/ DocumentCap \/ ShareSpent \/ NoDocument
  \/ \E allowed \in BOOLEAN, delay \in CrawlDelays :
       LET rules == [allowed |-> allowed, delay |-> delay] IN
         \/ \E targets \in 0 .. MaxListed : RobotsRead(rules, targets)
         \/ MalformedTarget(rules)
  \/ \E listed \in 1 .. MaxListed : SitemapRead(listed) \/ IndexRead(listed)

Walk ==
  \/ \E n \in 0 .. MaxPages - 1 : BeginCrawl(n) \/ SeedRead(n)
  \/ SelectRaises
  \/ \E error \in {"bytes", "failed", "blocked", "http_error"} : SeedFails(error)
  \/ \E c \in Calls \ {0} :
       Start(c) \/ BytesRefused(c) \/ PageRead(c) \/ PageDropped(c)
  \/ Gathered \/ WallClockCap

CrawlNext ==
  \/ Discovery \/ Walk
  \/ \E c \in Calls : wait_for_turn(c) \/ Chunk(c)
  \/ Backstop \/ CrawlTick

CrawlSpec == CrawlInit /\ [][CrawlNext]_crawlVars

-----------------------------------------------------------------------------
(* What one attempt promises.                                               *)

Ats == {"ready", "line", "body", "done", "cancelled"}
Rules == [allowed : BOOLEAN, delay : CrawlDelays]

\* Every variable keeps its type; discovery keeps to its caps, the crawl to the
\* page cap, and both together to the byte budget.
CrawlTypeOK ==
  /\ phase \in {"discovery", "seed", "frontier", "over", "failed", "cancelled"}
  /\ disc \in [at : {"robots", "sitemap", "sitemap_index", "robots_target", "over"},
               child : BOOLEAN, kids : 0 .. MaxListed, targets : 0 .. MaxListed,
               docs : 0 .. MaxDocuments, urls : 0 .. MaxUrls, used : 0 .. ByteShare,
               stop : BOOLEAN, read : Rules, rules : Rules]
  /\ gate \in [line : Seq(Calls), start : Int, next : Int, delay : Nat, since : Nat, gap : Nat]
  /\ calls \in [Calls -> [at : Ats, got : 0 .. MaxBody]]
  /\ bytes \in 0 .. MaxBytes
  /\ walk \in [pages : 0 .. MaxPages, dropped : Nat, frontier : 0 .. MaxPages - 1,
               cap_hit : {"none", "bytes", "wall_clock", "pages"},
               seed_error : {"none", "robots", "bytes", "failed", "blocked", "http_error",
                             "timeout"}]
  /\ clock \in [age : 0 .. JobTimeout, left : 0 .. WallClock, began : 0 .. JobTimeout]

\* PolitenessGate: two gated requests start at least the delay apart that was in
\* force at the first, whatever order the callers come in; less only by as much
\* as the first sleeper woke up late.
StartsApart ==
  [][\A c \in Calls : calls[c].at = "line" /\ calls'[c].at = "body" =>
       gate.since >= gate.gap - MaxLate]_crawlVars

\* _DiscoveryBudget: whatever discovery spends, a seed that is refused by the byte
\* budget has had all of the budget that is not discovery's share.
SeedNotStarved ==
  walk.seed_error = "bytes" => calls[0].got >= MaxBytes - ByteShare

\* stats: a crawl that reports no cap has a page or a count for the seed and for
\* every URL of its frontier, whatever its concurrent tasks ran into.
EveryUrlAccounted ==
  phase = "over" /\ walk.cap_hit = "none" /\ walk.seed_error = "none" =>
    walk.pages + walk.dropped = 1 + walk.frontier

\* stats.cap_hit names a cap that was hit: a crawl is not said to have run out of
\* bytes, time or pages that it had left.
CapIsTrue ==
  /\ walk.cap_hit = "bytes" => bytes = MaxBytes
  /\ walk.cap_hit = "wall_clock" => clock.left = 0
  /\ walk.cap_hit = "pages" => walk.pages = MaxPages

\* JOB_TIMEOUT_SECONDS: arq's timeout is the backstop.  It can end a job that has
\* begun to crawl only if discovery, which the crawl's own wall clock does not
\* cover, took what the two are apart.
BackstopIsLast ==
  phase = "cancelled" /\ walk.pages > 0 => clock.began >= JobTimeout - WallClock

\* The budgets that concurrent fetches share, and what the run's stats say of them:
\* no cap is exceeded by a fetch that was under way, no fetch is refused what is
\* left, and a crawl that stopped short names the cap that stopped it.
LimitsHonest == CrawlTypeOK /\ SeedNotStarved /\ CapIsTrue /\ BackstopIsLast

\* DiscoveryResult.robots: "carries whatever robots.txt was actually read", so a
\* seed that the robots.txt that was read disallows is not fetched.
RobotsHonoured == phase \in {"seed", "frontier"} => disc.read.allowed
=============================================================================
