---------------------------- MODULE CrawlProofs -----------------------------
(***************************************************************************)
(* What an attempt at a crawl asks of the network.  The limits of one      *)
(* attempt, for every value of them: the page cap, the byte budget and     *)
(* discovery's share of it, the wall clock and the job's own timeout, and  *)
(* the gate between the starts of two requests (Crawl).  The requests sent *)
(* for one page (Fetch), and the optional pass that asks a language model  *)
(* about the pages (Enrich).                                               *)
(***************************************************************************)
EXTENDS Crawl, Fetch, Enrich, SequenceTheorems, FiniteSetTheorems, TLAPS

-----------------------------------------------------------------------------
(* The limits of one attempt.                                               *)

\* The line of the gate holds calls that wait for it, each once; under way, no
\* turn is closer to the last start than the delay that start was to keep, but
\* for the time by which its own sleeper was late.
GateInv ==
  /\ \A i \in 1 .. Len(gate.line) : calls[gate.line[i]].at = "line"
  /\ \A i, j \in 1 .. Len(gate.line) : gate.line[i] = gate.line[j] => i = j
  /\ gate.since <= gate.gap
  /\ gate.next >= gate.gap - gate.since - MaxLate
  /\ gate.line # <<>> => gate.start >= gate.gap - gate.since - MaxLate

\* Until the frontier is there nobody else makes a request, and nothing has been
\* collected.
AloneInv ==
  phase \in {"discovery", "seed"} =>
    /\ \A c \in Calls \ {0} : calls[c].at = "ready"
    /\ walk.pages = 0 /\ walk.dropped = 0 /\ walk.cap_hit = "none" /\ walk.seed_error = "none"

\* Discovery pays for its own bytes, has no request under way once it is over, and
\* an entry of its walk that it still has to return to.
DiscoveryInv ==
  phase = "discovery" =>
    /\ bytes = disc.used /\ clock.left = WallClock
    /\ disc.child => disc.kids >= 1
    /\ disc.at = "robots_target" => disc.targets >= 1
    /\ disc.at = "robots" => ~ disc.child
    /\ disc.at = "over" => calls[0].at = "ready"

\* All that was spent before the seed was discovery's share.
SeedInv ==
  phase = "seed" => calls[0].at = "body" /\ bytes <= ByteShare + calls[0].got

Finished == {c \in Frontier : calls[c].at = "done"}

\* A page or a count for the seed and for each task that is done; fewer of them
\* only after a cap.
CountInv ==
  phase = "frontier" =>
    /\ walk.seed_error = "none"
    /\ walk.pages + walk.dropped <= 1 + Cardinality(Finished)
    /\ walk.cap_hit = "none" => walk.pages + walk.dropped = 1 + Cardinality(Finished)

\* The wall clock runs from the beginning of the crawl.
ClockInv ==
  phase \in Capped => clock.age - clock.began = WallClock - clock.left

CrawlInv ==
  /\ CrawlTypeOK /\ GateInv /\ AloneInv /\ DiscoveryInv /\ SeedInv /\ CountInv /\ ClockInv
  /\ SeedNotStarved /\ CapIsTrue /\ BackstopIsLast /\ EveryUrlAccounted

-----------------------------------------------------------------------------
(* Types, and the helpers of the model.                                     *)

DiscoveryStates ==
  [at : {"robots", "sitemap", "sitemap_index", "robots_target", "over"},
   child : BOOLEAN, kids : 0 .. MaxListed, targets : 0 .. MaxListed,
   docs : 0 .. MaxDocuments, urls : 0 .. MaxUrls, used : 0 .. ByteShare,
   stop : BOOLEAN, read : Rules, rules : Rules]

GateStates == [line : Seq(Calls), start : Int, next : Int, delay : Nat, since : Nat, gap : Nat]

CallStates == [Calls -> [at : Ats, got : 0 .. MaxBody]]

\* What DiscoveryInv says of a walk over the entry points.
Walking(d) ==
  /\ d \in DiscoveryStates
  /\ d.child => d.kids >= 1
  /\ d.at = "robots_target" => d.targets >= 1
  /\ d.at = "robots" => ~ d.child

LEMMA Bounds ==
  /\ MaxPages \in Nat /\ MaxPages >= 1 /\ Concurrency \in Nat /\ MaxDocuments \in Nat
  /\ MaxUrls \in Nat /\ ByteShare \in Nat /\ MaxBytes \in Nat /\ PolitenessDelay \in Nat
  /\ MaxRobotsDelay \in Nat /\ WallClock \in Nat /\ JobTimeout \in Nat /\ MaxLate \in Nat
  /\ MaxBody \in Nat /\ MaxListed \in Nat /\ ByteShare <= MaxBytes
  /\ 0 \in Calls /\ Calls \subseteq Nat
BY CrawlAssumption DEF Calls

LEMMA AllowAllRules == ALLOW_ALL \in Rules
BY CrawlAssumption DEF ALLOW_ALL, Rules

LEMMA DelayType ==
  ASSUME NEW delay \in Nat
  PROVE  effective_crawl_delay(delay) \in Nat
BY Bounds DEF effective_crawl_delay, Larger, Smaller

\* After a document at the top level the walk goes on to the next entry.
LEMMA NextEntryWalks ==
  ASSUME NEW d, Walking(d), d.at \in {"sitemap", "sitemap_index", "robots_target"}, ~ d.child
  PROVE  /\ Walking(NextEntry(d)) /\ NextEntry(d).used = d.used
         /\ NextEntry(d).at # "robots"
<1> USE Bounds
<1>0. d.urls \in Nat
  BY DEF Walking, DiscoveryStates
<1>1. CASE d.at # "robots_target" /\ (d.urls > 0 \/ d.stop)
  <2>1. NextEntry(d) = [d EXCEPT !.at = "over"]
    BY <1>1, <1>0 DEF NextEntry
  <2> QED BY <1>0, <2>1 DEF Walking, DiscoveryStates
<1>2. CASE d.at = "sitemap" /\ ~ (d.urls > 0 \/ d.stop)
  <2>1. NextEntry(d) = [d EXCEPT !.at = "sitemap_index"]
    BY <1>0, <1>2 DEF NextEntry
  <2> QED BY <2>1 DEF Walking, DiscoveryStates
<1>3. CASE d.at = "sitemap_index" /\ ~ (d.urls > 0 \/ d.stop)
  <2>1. NextEntry(d) = [d EXCEPT !.at = IF d.targets = 0 THEN "over" ELSE "robots_target"]
    BY <1>0, <1>3 DEF NextEntry
  <2> QED BY <2>1 DEF Walking, DiscoveryStates
<1>4. CASE d.at = "robots_target"
  <2>1. NextEntry(d) = IF d.stop \/ remaining_urls(d) = 0 \/ d.targets = 1
                       THEN [d EXCEPT !.at = "over"] ELSE [d EXCEPT !.targets = @ - 1]
    BY <1>4 DEF NextEntry
  <2> QED BY <1>4, <2>1 DEF Walking, DiscoveryStates
<1> QED BY <1>0, <1>1, <1>2, <1>3, <1>4

LEMMA CollectedWalks ==
  ASSUME NEW d, Walking(d), d.at \in {"sitemap", "sitemap_index", "robots_target"}
  PROVE  /\ Walking(Collected(d)) /\ Collected(d).used = d.used
         /\ Collected(d).at # "robots"
<1> USE Bounds
<1>1. CASE ~ d.child
  BY <1>1, NextEntryWalks DEF Collected
<1>2. CASE d.child /\ (d.kids = 1 \/ d.stop \/ remaining_urls(d) = 0)
  <2> DEFINE e == [d EXCEPT !.child = FALSE, !.kids = 0]
  <2>2. Collected(d) = NextEntry(e)
    BY <1>2 DEF Collected
  <2>1. PICK f : f = [d EXCEPT !.child = FALSE]
    OBVIOUS
  <2>3. /\ f \in DiscoveryStates /\ f.at = d.at /\ f.child = FALSE /\ f.used = d.used
        /\ f.targets = d.targets
    BY <2>1 DEF Walking, DiscoveryStates
  <2>4. e = [f EXCEPT !.kids = 0]
    BY <2>1
  <2>5. /\ e \in DiscoveryStates /\ e.at = d.at /\ e.child = FALSE /\ e.used = d.used
        /\ e.targets = d.targets
    <3> HIDE DEF e
    <3> QED BY <2>3, <2>4 DEF DiscoveryStates
  <2>6. Walking(e)
    <3> HIDE DEF e
    <3> QED BY <2>5 DEF Walking
  <2> HIDE DEF e
  <2> QED BY <2>2, <2>5, <2>6, NextEntryWalks
<1>3. CASE d.child /\ ~ (d.kids = 1 \/ d.stop \/ remaining_urls(d) = 0)
  <2>1. Collected(d) = [d EXCEPT !.kids = @ - 1]
    BY <1>3 DEF Collected
  <2> QED BY <1>3, <2>1 DEF Walking, DiscoveryStates
<1> QED BY <1>1, <1>2, <1>3

\* One call changes and the others stay as they are.
LEMMA CallMoves ==
  ASSUME calls \in CallStates, NEW c \in Calls, NEW at \in Ats, At(c, at)
  PROVE  /\ calls' \in CallStates
         /\ calls'[c].at = at /\ calls'[c].got = calls[c].got
         /\ \A b \in Calls \ {c} : calls'[b] = calls[b]
BY DEF CallStates, At

LEMMA CallIsSet ==
  ASSUME calls \in CallStates, NEW c \in Calls, NEW at \in Ats,
         calls' = [calls EXCEPT ![c] = [at |-> at, got |-> 0]]
  PROVE  /\ calls' \in CallStates
         /\ calls'[c].at = at /\ calls'[c].got = 0
         /\ \A b \in Calls \ {c} : calls'[b] = calls[b]
BY Bounds DEF CallStates

LEMMA Typed ==
  ASSUME CrawlInv
  PROVE  /\ disc \in DiscoveryStates /\ gate \in GateStates /\ calls \in CallStates
         /\ bytes \in Nat /\ bytes <= MaxBytes
         /\ \A c \in Calls : calls[c].got \in Nat /\ calls[c].at \in Ats
<1>1. CrawlTypeOK
  BY DEF CrawlInv
<1>2. disc \in DiscoveryStates /\ gate \in GateStates /\ calls \in CallStates
  BY <1>1, Zenon DEF CrawlTypeOK, DiscoveryStates, GateStates, CallStates
<1>3. bytes \in Nat /\ bytes <= MaxBytes
  BY <1>1, Bounds DEF CrawlTypeOK
<1>4. \A c \in Calls : calls[c].got \in Nat /\ calls[c].at \in Ats
  BY <1>2, Bounds DEF CallStates
<1> QED BY <1>2, <1>3, <1>4

LEMMA CrawlInitInv == CrawlInit => CrawlInv
<1> SUFFICES ASSUME CrawlInit PROVE CrawlInv
  OBVIOUS
<1> USE Bounds
<1>1. disc \in DiscoveryStates
  BY AllowAllRules DEF CrawlInit, NewDiscovery, DiscoveryStates
<1>2. gate.line = <<>> /\ Len(gate.line) = 0 /\ gate \in GateStates
  BY DEF CrawlInit, GateStates
<1>3. calls \in CallStates /\ \A c \in Calls : calls[c].at = "ready"
  BY DEF CrawlInit, CallStates, Ats
<1>4. CrawlTypeOK
  BY <1>1, <1>2, <1>3 DEF CrawlInit, CrawlTypeOK, DiscoveryStates, GateStates, CallStates
<1>5. GateInv
  BY <1>2 DEF CrawlInit, GateInv
<1>6. DiscoveryInv
  BY <1>3 DEF CrawlInit, NewDiscovery, DiscoveryInv
<1> QED
  BY <1>3, <1>4, <1>5, <1>6
  DEF CrawlInit, CrawlInv, AloneInv, SeedInv, CountInv, ClockInv, Capped, SeedNotStarved,
      CapIsTrue, BackstopIsLast, EveryUrlAccounted

-----------------------------------------------------------------------------
(* The gate.                                                                *)

\* A step that leaves the gate's times alone, and the calls in its line waiting.
LEMMA GateKept ==
  ASSUME GateInv, gate \in GateStates,
         gate'.line = gate.line, gate'.start = gate.start, gate'.next = gate.next,
         gate'.since = gate.since, gate'.gap = gate.gap,
         \A c \in Calls : calls[c].at = "line" => calls'[c].at = "line"
  PROVE  GateInv'
<1>1. \A i \in 1 .. Len(gate.line) : gate.line[i] \in Calls
  BY DEF GateStates
<1> QED BY <1>1 DEF GateInv

\* A call that does not wait yet joins the line at its end.
LEMMA GateEntered ==
  ASSUME GateInv, gate \in GateStates, calls \in CallStates,
         NEW c \in Calls, calls[c].at # "line", Enter(c), At(c, "line")
  PROVE  GateInv' /\ gate' \in GateStates
<1> USE Bounds
<1> DEFINE line == gate.line
<1>1. line \in Seq(Calls) /\ Len(line) \in Nat /\ \A i \in 1 .. Len(line) : line[i] \in Calls
  BY LenProperties DEF GateStates
<1>2. /\ Append(line, c) \in Seq(Calls) /\ Len(Append(line, c)) = Len(line) + 1
      /\ \A i \in 1 .. Len(line) : Append(line, c)[i] = line[i]
      /\ Append(line, c)[Len(line) + 1] = c
  BY <1>1, AppendProperties
<1> DEFINE start == IF line = <<>> THEN Larger(0, gate.next) ELSE gate.start
           longer == Append(line, c)
<1>3. /\ gate' \in GateStates /\ gate'.line = longer /\ gate'.start = start
      /\ gate'.next = gate.next /\ gate'.since = gate.since /\ gate'.gap = gate.gap
  <2>1. gate' = [gate EXCEPT !.line = longer, !.start = start]
    BY DEF Enter
  <2>2. start \in Int /\ longer \in Seq(Calls)
    BY <1>2 DEF GateStates, Larger
  <2> HIDE DEF start, longer
  <2> QED BY <2>1, <2>2 DEF GateStates
<1>4. calls'[c].at = "line" /\ \A b \in Calls \ {c} : calls'[b] = calls[b]
  BY CallMoves DEF Ats
<1>5. \A i \in 1 .. Len(line) : line[i] # c
  BY DEF GateInv
<1>6. gate.next \in Int /\ gate.start \in Int /\ gate.since \in Nat /\ gate.gap \in Nat
  BY DEF GateStates
<1> HIDE DEF line
<1>7. /\ \A i \in 1 .. Len(gate'.line) : calls'[gate'.line[i]].at = "line"
      /\ \A i, j \in 1 .. Len(gate'.line) : gate'.line[i] = gate'.line[j] => i = j
  <2>1. \A i \in 1 .. Len(line) : calls[line[i]].at = "line"
    BY DEF GateInv, line
  <2>2. \A i, j \in 1 .. Len(line) : line[i] = line[j] => i = j
    BY DEF GateInv, line
  <2>3. \A i \in 1 .. Len(gate'.line) :
           \/ i = Len(line) + 1 /\ gate'.line[i] = c
           \/ i \in 1 .. Len(line) /\ gate'.line[i] = line[i]
    BY <1>1, <1>2, <1>3
  <2>4. ASSUME NEW i \in 1 .. Len(gate'.line)
        PROVE  calls'[gate'.line[i]].at = "line"
    <3>1. CASE i \in 1 .. Len(line) /\ gate'.line[i] = line[i]
      <4>1. line[i] \in Calls \ {c} /\ calls[line[i]].at = "line"
        BY <1>1, <1>5, <2>1, <3>1
      <4> QED BY <1>4, <3>1, <4>1
    <3> QED BY <1>4, <2>3, <3>1
  <2>5. ASSUME NEW i \in 1 .. Len(gate'.line), NEW j \in 1 .. Len(gate'.line),
               gate'.line[i] = gate'.line[j]
        PROVE  i = j
    BY <1>5, <2>2, <2>3, <2>5
  <2> QED BY <2>4, <2>5
<1>8. gate'.start >= gate'.gap - gate'.since - MaxLate
  <2>1. /\ gate.next >= gate.gap - gate.since - MaxLate
        /\ line # <<>> => gate.start >= gate.gap - gate.since - MaxLate
    BY DEF GateInv, line
  <2> QED BY <1>3, <1>6, <2>1 DEF Larger
<1> QED BY <1>3, <1>6, <1>7, <1>8 DEF GateInv

\* The head of the line gets its turn: the next start is reserved, and keeps the
\* delay from now on.
LEMMA GateTurned ==
  ASSUME GateInv, gate \in GateStates, calls \in CallStates, NEW c \in Calls, wait_for_turn(c)
  PROVE  /\ GateInv' /\ gate' \in GateStates
         /\ calls[c].at = "line" /\ gate.since >= gate.gap - MaxLate
<1> USE Bounds
<1> DEFINE line == gate.line
           next == gate.start + gate.delay
<1>1. /\ line \in Seq(Calls) /\ line # <<>> /\ Len(line) \in Nat /\ Len(line) >= 1
      /\ \A i \in 1 .. Len(line) : line[i] \in Calls
      /\ line[1] = c
  <2>1. line \in Seq(Calls) /\ line # <<>> /\ Head(line) = c
    BY DEF GateStates, wait_for_turn
  <2> HIDE DEF line
  <2>2. Len(line) \in Nat /\ Len(line) >= 1 /\ \A i \in 1 .. Len(line) : line[i] \in Calls
    BY <2>1, LenProperties, EmptySeq
  <2>3. line[1] = c
    BY <2>1, <2>2
  <2> QED BY <2>1, <2>2, <2>3
<1>2. /\ Tail(line) \in Seq(Calls) /\ Len(Tail(line)) = Len(line) - 1
      /\ \A i \in 1 .. Len(Tail(line)) : Tail(line)[i] = line[i + 1]
  BY <1>1, HeadTailProperties
<1>3. /\ gate.next \in Int /\ gate.start \in Int /\ gate.since \in Nat /\ gate.gap \in Nat
      /\ gate.delay \in Nat /\ next \in Int
  BY DEF GateStates
<1>4. /\ gate' \in GateStates /\ gate'.line = Tail(line)
      /\ gate'.start = Larger(0, next) /\ gate'.next = next /\ gate'.since = 0
      /\ gate'.gap = gate.delay
  <2>1. gate' = [gate EXCEPT !.line = Tail(line), !.next = next, !.start = Larger(0, next),
                              !.since = 0, !.gap = gate.delay]
    BY DEF wait_for_turn
  <2>2. Larger(0, next) \in Int
    BY <1>3 DEF Larger
  <2> HIDE DEF line, next
  <2> QED BY <1>2, <1>3, <2>1, <2>2 DEF GateStates
<1>5. \A b \in Calls \ {c} : calls'[b] = calls[b]
  BY CallIsSet DEF wait_for_turn, Ats
<1>6. calls[c].at = "line"
  BY <1>1 DEF GateInv
<1>7. /\ gate.start >= gate.gap - gate.since - MaxLate /\ gate.since <= gate.gap
      /\ gate.start <= 0
  BY <1>1 DEF GateInv, wait_for_turn
<1>8. /\ next >= gate.delay - MaxLate /\ gate.since >= gate.gap - MaxLate
  BY <1>3, <1>7
<1>9. /\ \A i \in 1 .. Len(line) : calls[line[i]].at = "line"
      /\ \A i, j \in 1 .. Len(line) : line[i] = line[j] => i = j
  BY DEF GateInv
<1> HIDE DEF line, next
<1>10. \A i \in 1 .. Len(gate'.line) :
          i + 1 \in 1 .. Len(line) /\ gate'.line[i] = line[i + 1] /\ line[i + 1] # c
  BY <1>1, <1>2, <1>4, <1>9
<1>11. /\ \A i \in 1 .. Len(gate'.line) : calls'[gate'.line[i]].at = "line"
       /\ \A i, j \in 1 .. Len(gate'.line) : gate'.line[i] = gate'.line[j] => i = j
  <2>1. \A i \in 1 .. Len(gate'.line) : calls'[gate'.line[i]].at = "line"
    <3> TAKE i \in 1 .. Len(gate'.line)
    <3>1. /\ i + 1 \in 1 .. Len(line) /\ gate'.line[i] = line[i + 1] /\ line[i + 1] \in Calls \ {c}
      BY <1>1, <1>10
    <3>2. calls[line[i + 1]].at = "line"
      BY <1>9, <3>1
    <3> QED BY <1>5, <3>1, <3>2
  <2>2. ASSUME NEW i \in 1 .. Len(gate'.line), NEW j \in 1 .. Len(gate'.line),
               gate'.line[i] = gate'.line[j]
        PROVE  i = j
    <3>1. i + 1 = j + 1
      BY <1>9, <1>10, <2>2
    <3> QED BY <3>1
  <2> QED BY <2>1, <2>2
<1>12. Larger(0, next) >= next /\ Larger(0, next) \in Int
  BY <1>3 DEF Larger
<1>13. /\ gate'.since <= gate'.gap
       /\ gate'.next >= gate'.gap - gate'.since - MaxLate
       /\ gate'.start >= gate'.gap - gate'.since - MaxLate
  BY ONLY <1>3, <1>4, <1>8, <1>12, Bounds
<1> QED BY <1>4, <1>6, <1>8, <1>11, <1>13 DEF GateInv

-----------------------------------------------------------------------------
(* Discovery.                                                               *)

LEMMA WalkingNow ==
  ASSUME CrawlInv, phase = "discovery"
  PROVE  Walking(disc)
BY Typed DEF CrawlInv, DiscoveryInv, Walking

\* A document is done with, whatever it held: nothing is spent, and the next one,
\* if any, has not been asked for.
LEMMA DocumentDone ==
  ASSUME CrawlInv, Discovering, calls[0].at # "line",
         calls' \in CallStates, calls'[0].at = "ready",
         \A c \in Calls \ {0} : calls'[c] = calls[c],
         Walking(disc'), disc'.used = disc.used,
         UNCHANGED <<phase, gate, bytes, walk, clock>>
  PROVE  CrawlInv'
<1> USE Bounds
<1>1. CrawlTypeOK'
  BY Zenon DEF CrawlInv, CrawlTypeOK, Walking, DiscoveryStates, CallStates
<1>2. GateInv'
  BY GateKept, Typed DEF CrawlInv
<1>3. phase = "discovery" /\ phase' = "discovery"
  BY DEF Discovering
<1>4. AloneInv' /\ SeedNotStarved' /\ CapIsTrue'
  BY <1>3 DEF CrawlInv, AloneInv, SeedNotStarved, CapIsTrue
<1>5. DiscoveryInv'
  BY <1>3 DEF CrawlInv, DiscoveryInv, Walking
<1> QED
  BY <1>1, <1>2, <1>3, <1>4, <1>5
  DEF CrawlInv, SeedInv, CountInv, ClockInv, Capped, BackstopIsLast, EveryUrlAccounted

LEMMA FetchDocumentInv == ASSUME CrawlInv, FetchDocument PROVE CrawlInv'
<1> USE Bounds
<1>1. /\ phase = "discovery" /\ phase' = "discovery" /\ calls[0].at = "ready"
      /\ Enter(0) /\ At(0, "line") /\ UNCHANGED <<phase, bytes, walk, clock>>
  BY DEF FetchDocument, Discovering
<1>2. GateInv' /\ gate' \in GateStates
  BY <1>1, GateEntered, Typed DEF CrawlInv
<1>3. /\ calls' \in CallStates /\ \A c \in Calls \ {0} : calls'[c] = calls[c]
  BY <1>1, CallMoves, Typed DEF Ats
<1>4. Walking(disc') /\ disc'.used = disc.used /\ disc'.at # "over"
  <2>1. CASE disc.at = "robots"
    BY <1>1, <2>1, WalkingNow DEF FetchDocument
  <2>2. CASE disc.at # "robots"
    <3>1. disc' = [disc EXCEPT !.docs = @ + 1] /\ disc.docs < MaxDocuments /\ disc.at # "over"
      BY <2>2 DEF FetchDocument, Discovering
    <3>2. Walking(disc)
      BY <1>1, WalkingNow
    <3> QED BY <3>1, <3>2 DEF Walking, DiscoveryStates
  <2> QED BY <2>1, <2>2
<1>5. CrawlTypeOK'
  BY <1>1, <1>2, <1>3, <1>4, Zenon
  DEF CrawlInv, CrawlTypeOK, Walking, DiscoveryStates, CallStates, GateStates
<1>6. AloneInv' /\ SeedNotStarved' /\ CapIsTrue'
  BY <1>1, <1>3 DEF CrawlInv, AloneInv, SeedNotStarved, CapIsTrue
<1>7. DiscoveryInv'
  BY <1>1, <1>4 DEF CrawlInv, DiscoveryInv, Walking
<1> QED
  BY <1>1, <1>2, <1>5, <1>6, <1>7
  DEF CrawlInv, SeedInv, CountInv, ClockInv, Capped, BackstopIsLast, EveryUrlAccounted

\* The walk over the entries while it is at a sitemap.
LEMMA AtDocument ==
  ASSUME CrawlInv, Discovering, disc.at # "robots"
  PROVE  Walking(disc) /\ disc.at \in {"sitemap", "sitemap_index", "robots_target"}
BY WalkingNow DEF Discovering, Walking, DiscoveryStates

\* The cap or the share ends the walk with what it has.
LEMMA StopWalks ==
  ASSUME NEW d, Walking(d)
  PROVE  /\ Walking([d EXCEPT !.stop = TRUE]) /\ [d EXCEPT !.stop = TRUE].at = d.at
         /\ [d EXCEPT !.stop = TRUE].used = d.used
BY DEF Walking, DiscoveryStates

LEMMA DocumentCapInv == ASSUME CrawlInv, DocumentCap PROVE CrawlInv'
<1> DEFINE d == [disc EXCEPT !.stop = TRUE]
<1>1. Discovering /\ disc.at # "robots" /\ calls[0].at = "ready"
  BY DEF DocumentCap
<1>2. Walking(d) /\ d.at \in {"sitemap", "sitemap_index", "robots_target"} /\ d.used = disc.used
  BY <1>1, AtDocument, StopWalks
<1>3. disc' = Collected(d)
  BY DEF DocumentCap
<1> HIDE DEF d
<1>4. Walking(disc') /\ disc'.used = disc.used
  BY <1>2, <1>3, CollectedWalks
<1>5. UNCHANGED <<phase, gate, calls, bytes, walk, clock>>
  BY DEF DocumentCap
<1> QED BY <1>1, <1>4, <1>5, DocumentDone, Typed

\* The actions that end a request leave call 0 ready, and the other calls alone.
LEMMA CallReady ==
  ASSUME CrawlInv, calls[0].at = "body", At(0, "ready")
  PROVE  /\ calls[0].at # "line" /\ calls' \in CallStates /\ calls'[0].at = "ready"
         /\ \A c \in Calls \ {0} : calls'[c] = calls[c]
BY CallMoves, Typed, Bounds DEF Ats

LEMMA ShareSpentInv == ASSUME CrawlInv, ShareSpent PROVE CrawlInv'
<1>1. /\ Discovering /\ calls[0].at = "body" /\ At(0, "ready")
      /\ UNCHANGED <<phase, gate, bytes, walk, clock>>
  BY DEF ShareSpent, Refuses
<1>2. Walking(disc') /\ disc'.used = disc.used
  <2>1. CASE disc.at = "robots"
    <3>1. Walking(disc)
      BY <1>1, WalkingNow DEF Discovering
    <3>2. disc' = [disc EXCEPT !.stop = TRUE, !.at = "sitemap"]
      BY <2>1 DEF ShareSpent
    <3> QED BY <2>1, <3>1, <3>2 DEF Walking, DiscoveryStates
  <2>2. CASE disc.at # "robots"
    <3> DEFINE d == [disc EXCEPT !.stop = TRUE]
    <3>1. /\ Walking(d) /\ d.at \in {"sitemap", "sitemap_index", "robots_target"}
          /\ d.used = disc.used
      BY <1>1, <2>2, AtDocument, StopWalks
    <3>2. disc' = Collected(d)
      BY <2>2 DEF ShareSpent
    <3> HIDE DEF d
    <3> QED BY <3>1, <3>2, CollectedWalks
  <2> QED BY <2>1, <2>2
<1> QED BY <1>1, <1>2, CallReady, DocumentDone

LEMMA NoDocumentInv == ASSUME CrawlInv, NoDocument PROVE CrawlInv'
<1>1. /\ Discovering /\ calls[0].at = "body" /\ At(0, "ready")
      /\ UNCHANGED <<phase, gate, bytes, walk, clock>>
  BY DEF NoDocument
<1>2. Walking(disc') /\ disc'.used = disc.used
  <2>1. CASE disc.at = "robots"
    <3>1. Walking(disc)
      BY <1>1, WalkingNow DEF Discovering
    <3>2. disc' = [disc EXCEPT !.at = "sitemap"]
      BY <2>1 DEF NoDocument
    <3> QED BY <2>1, <3>1, <3>2 DEF Walking, DiscoveryStates
  <2>2. CASE disc.at # "robots"
    <3>1. disc' = Collected(disc)
      BY <2>2 DEF NoDocument
    <3> QED BY <1>1, <2>2, <3>1, AtDocument, CollectedWalks
  <2> QED BY <2>1, <2>2
<1> QED BY <1>1, <1>2, CallReady, DocumentDone

LEMMA RobotsReadInv ==
  ASSUME CrawlInv, NEW rules \in Rules, NEW targets \in 0 .. MaxListed, RobotsRead(rules, targets)
  PROVE  CrawlInv'
<1>1. /\ Discovering /\ calls[0].at = "body" /\ At(0, "ready") /\ disc.at = "robots"
      /\ UNCHANGED <<phase, gate, bytes, walk, clock>>
  BY DEF RobotsRead
<1>2. disc' = [disc EXCEPT !.at = "sitemap", !.read = rules, !.rules = rules, !.targets = targets]
  BY DEF RobotsRead
<1>3. Walking(disc)
  BY <1>1, WalkingNow DEF Discovering
<1>4. Walking(disc') /\ disc'.used = disc.used
  BY <1>1, <1>2, <1>3 DEF Walking, DiscoveryStates
<1> QED BY <1>1, <1>4, CallReady, DocumentDone

LEMMA MalformedTargetInv ==
  ASSUME CrawlInv, NEW rules \in Rules, MalformedTarget(rules)
  PROVE  CrawlInv'
<1>1. /\ Discovering /\ calls[0].at = "body" /\ At(0, "ready") /\ disc.at = "robots"
      /\ UNCHANGED <<phase, gate, bytes, walk, clock>>
  BY DEF MalformedTarget
<1>2. disc' = [disc EXCEPT !.at = "over", !.read = rules]
  BY DEF MalformedTarget
<1>3. Walking(disc)
  BY <1>1, WalkingNow DEF Discovering
<1>4. Walking(disc') /\ disc'.used = disc.used
  BY <1>1, <1>2, <1>3 DEF Walking, DiscoveryStates
<1> QED BY <1>1, <1>4, CallReady, DocumentDone

LEMMA SitemapReadInv ==
  ASSUME CrawlInv, NEW listed \in 1 .. MaxListed, SitemapRead(listed)
  PROVE  CrawlInv'
<1> USE Bounds
<1> DEFINE kept == Smaller(listed, remaining_urls(disc))
           d == [disc EXCEPT !.urls = @ + kept]
<1>1. /\ Discovering /\ calls[0].at = "body" /\ At(0, "ready") /\ disc.at # "robots"
      /\ UNCHANGED <<phase, gate, bytes, walk, clock>>
  BY DEF SitemapRead
<1>2. disc' = Collected(d)
  BY DEF SitemapRead
<1>3. Walking(disc) /\ disc.at \in {"sitemap", "sitemap_index", "robots_target"}
  BY <1>1, AtDocument
<1>4. disc.urls + kept \in 0 .. MaxUrls
  <2>1. disc.urls \in 0 .. MaxUrls
    BY <1>3 DEF Walking, DiscoveryStates
  <2> QED BY <2>1 DEF Smaller, Larger, remaining_urls
<1> HIDE DEF kept
<1>5. Walking(d) /\ d.at = disc.at /\ d.used = disc.used
  BY <1>3, <1>4 DEF Walking, DiscoveryStates
<1> HIDE DEF d
<1>6. Walking(disc') /\ disc'.used = disc.used
  BY <1>2, <1>3, <1>5, CollectedWalks
<1> QED BY <1>1, <1>6, CallReady, DocumentDone

LEMMA IndexReadInv ==
  ASSUME CrawlInv, NEW kids \in 1 .. MaxListed, IndexRead(kids)
  PROVE  CrawlInv'
<1> USE Bounds
<1>1. /\ Discovering /\ calls[0].at = "body" /\ At(0, "ready") /\ disc.at # "robots"
      /\ UNCHANGED <<phase, gate, bytes, walk, clock>>
  BY DEF IndexRead
<1>2. disc' = [disc EXCEPT !.child = TRUE, !.kids = kids]
  BY DEF IndexRead
<1>3. Walking(disc)
  BY <1>1, AtDocument
<1>4. Walking(disc') /\ disc'.used = disc.used
  <2>1. PICK f : f = [disc EXCEPT !.child = TRUE]
    OBVIOUS
  <2>2. /\ f \in DiscoveryStates /\ f.at = disc.at /\ f.used = disc.used /\ f.targets = disc.targets
        /\ f.child = TRUE
    BY <1>3, <2>1 DEF Walking, DiscoveryStates
  <2>3. disc' = [f EXCEPT !.kids = kids]
    BY <1>2, <2>1
  <2>4. /\ disc' \in DiscoveryStates /\ disc'.at = disc.at /\ disc'.used = disc.used
        /\ disc'.targets = disc.targets /\ disc'.kids = kids
    BY <2>2, <2>3 DEF DiscoveryStates
  <2> QED BY <1>1, <1>3, <2>4 DEF Walking
<1> QED BY <1>1, <1>4, CallReady, DocumentDone

-----------------------------------------------------------------------------
(* From discovery to the frontier.                                          *)

WalkStates ==
  [pages : 0 .. MaxPages, dropped : Nat, frontier : 0 .. MaxPages - 1,
   cap_hit : {"none", "bytes", "wall_clock", "pages"},
   seed_error : {"none", "robots", "bytes", "failed", "blocked", "http_error", "timeout"}]

ClockStates == [age : 0 .. JobTimeout, left : 0 .. WallClock, began : 0 .. JobTimeout]

LEMMA TypeIs ==
  CrawlTypeOK <=>
    /\ phase \in {"discovery", "seed", "frontier", "over", "failed", "cancelled"}
    /\ disc \in DiscoveryStates /\ gate \in GateStates /\ calls \in CallStates
    /\ bytes \in 0 .. MaxBytes /\ walk \in WalkStates /\ clock \in ClockStates
BY Zenon DEF CrawlTypeOK, DiscoveryStates, GateStates, CallStates, WalkStates, ClockStates

LEMMA NextTypeIs ==
  CrawlTypeOK' <=>
    /\ phase' \in {"discovery", "seed", "frontier", "over", "failed", "cancelled"}
    /\ disc' \in DiscoveryStates /\ gate' \in GateStates /\ calls' \in CallStates
    /\ bytes' \in 0 .. MaxBytes /\ walk' \in WalkStates /\ clock' \in ClockStates
BY Zenon DEF CrawlTypeOK, DiscoveryStates, GateStates, CallStates, WalkStates, ClockStates

LEMMA BeginCrawlInv ==
  ASSUME CrawlInv, NEW selected \in 0 .. MaxPages - 1, BeginCrawl(selected)
  PROVE  CrawlInv'
<1> USE Bounds
<1>1. /\ phase = "discovery" /\ disc.at = "over" /\ UNCHANGED bytes
      /\ disc' = [NewDiscovery EXCEPT !.at = "over", !.urls = disc.urls, !.read = disc.read]
      /\ gate' = [gate EXCEPT !.delay = effective_crawl_delay(disc.rules.delay)]
      /\ clock' = [clock EXCEPT !.began = clock.age]
  BY DEF BeginCrawl
<1>2. /\ disc \in DiscoveryStates /\ gate \in GateStates /\ calls \in CallStates
      /\ bytes \in 0 .. MaxBytes /\ walk \in WalkStates /\ clock \in ClockStates
  BY TypeIs DEF CrawlInv
<1>3. /\ calls[0].at = "ready" /\ \A c \in Calls \ {0} : calls[c].at = "ready"
      /\ walk.pages = 0 /\ walk.dropped = 0 /\ walk.cap_hit = "none" /\ walk.seed_error = "none"
      /\ bytes = disc.used /\ clock.left = WallClock
  BY <1>1 DEF CrawlInv, AloneInv, DiscoveryInv
<1>4. disc' \in DiscoveryStates
  <2>1. disc.urls \in 0 .. MaxUrls /\ disc.read \in Rules
    BY <1>2 DEF DiscoveryStates
  <2>2. disc' = [at |-> "over", child |-> FALSE, kids |-> 0, targets |-> 0, docs |-> 0,
                 urls |-> disc.urls, used |-> 0, stop |-> FALSE, read |-> disc.read,
                 rules |-> ALLOW_ALL]
    BY <1>1 DEF NewDiscovery
  <2> QED BY <2>1, <2>2, AllowAllRules DEF DiscoveryStates
<1>5. /\ gate' \in GateStates /\ gate'.line = gate.line /\ gate'.start = gate.start
      /\ gate'.next = gate.next /\ gate'.since = gate.since /\ gate'.gap = gate.gap
  <2>1. disc.rules.delay \in Nat
    BY <1>2, CrawlAssumption DEF DiscoveryStates, Rules
  <2>2. effective_crawl_delay(disc.rules.delay) \in Nat
    BY <2>1, DelayType
  <2> QED BY <1>1, <1>2, <2>2 DEF GateStates
<1>6. /\ clock' \in ClockStates /\ clock'.age - clock'.began = WallClock - clock'.left
  BY <1>1, <1>2, <1>3 DEF ClockStates
<1>7. CASE disc.rules.allowed
  <2>1. /\ phase' = "seed" /\ calls' = [calls EXCEPT ![0] = [at |-> "body", got |-> 0]]
        /\ walk' = [walk EXCEPT !.frontier = selected]
    BY <1>7 DEF BeginCrawl
  <2>2. /\ calls' \in CallStates /\ calls'[0].at = "body" /\ calls'[0].got = 0
        /\ \A c \in Calls \ {0} : calls'[c] = calls[c]
    BY <1>2, <2>1, CallIsSet DEF Ats
  <2>3. /\ walk' \in WalkStates /\ walk'.pages = 0 /\ walk'.dropped = 0
        /\ walk'.cap_hit = "none" /\ walk'.seed_error = "none"
    BY <1>2, <1>3, <2>1 DEF WalkStates
  <2>4. CrawlTypeOK'
    BY <1>1, <1>2, <1>4, <1>5, <1>6, <2>1, <2>2, <2>3, NextTypeIs
  <2>5. GateInv'
    BY <1>2, <1>3, <1>5, GateKept DEF CrawlInv
  <2>6. SeedInv'
    BY <1>1, <1>2, <1>3, <2>2 DEF SeedInv, DiscoveryStates
  <2> QED
    BY <1>3, <1>6, <2>1, <2>2, <2>3, <2>4, <2>5, <2>6
    DEF CrawlInv, AloneInv, DiscoveryInv, CountInv, ClockInv, SeedNotStarved, CapIsTrue,
        BackstopIsLast, EveryUrlAccounted
<1>8. CASE ~ disc.rules.allowed
  <2>1. phase' = "over" /\ walk' = [walk EXCEPT !.seed_error = "robots"] /\ calls' = calls
    BY <1>8 DEF BeginCrawl
  <2>2. /\ walk' \in WalkStates /\ walk'.pages = 0 /\ walk'.cap_hit = "none"
        /\ walk'.seed_error = "robots"
    BY <1>2, <1>3, <2>1 DEF WalkStates
  <2>3. CrawlTypeOK'
    BY <1>1, <1>2, <1>4, <1>5, <1>6, <2>1, <2>2, NextTypeIs
  <2>4. GateInv'
    BY <1>2, <1>5, <2>1, GateKept DEF CrawlInv
  <2> QED
    BY <2>1, <2>2, <2>3, <2>4
    DEF CrawlInv, AloneInv, DiscoveryInv, SeedInv, CountInv, ClockInv, Capped, SeedNotStarved,
        CapIsTrue, BackstopIsLast, EveryUrlAccounted
<1> QED BY <1>7, <1>8

LEMMA SelectRaisesInv == ASSUME CrawlInv, SelectRaises PROVE CrawlInv'
<1>1. /\ phase = "discovery" /\ phase' = "failed"
      /\ UNCHANGED <<disc, gate, calls, bytes, walk, clock>>
  BY DEF SelectRaises
<1>2. CrawlTypeOK'
  BY <1>1, TypeIs, NextTypeIs DEF CrawlInv
<1>3. GateInv'
  BY <1>1, GateKept, Typed DEF CrawlInv
<1> QED
  BY <1>1, <1>2, <1>3
  DEF CrawlInv, AloneInv, DiscoveryInv, SeedInv, CountInv, ClockInv, Capped, SeedNotStarved,
      CapIsTrue, BackstopIsLast, EveryUrlAccounted

\* A seed that is refused by the byte budget has had what discovery could not spend.
LEMMA SeedFailsInv ==
  ASSUME CrawlInv, NEW error \in {"bytes", "failed", "blocked", "http_error"}, SeedFails(error)
  PROVE  CrawlInv'
<1> USE Bounds
<1>1. /\ phase = "seed" /\ phase' = "over" /\ At(0, "done") /\ calls[0].at = "body"
      /\ walk' = [walk EXCEPT !.seed_error = error]
      /\ UNCHANGED <<disc, gate, bytes, clock>>
      /\ error = "bytes" => ~ Fits
  BY DEF SeedFails, Refuses
<1>2. /\ calls \in CallStates /\ walk \in WalkStates /\ gate \in GateStates
      /\ bytes \in 0 .. MaxBytes
  BY TypeIs DEF CrawlInv
<1>3. /\ calls' \in CallStates /\ calls'[0].at = "done" /\ calls'[0].got = calls[0].got
      /\ \A c \in Calls \ {0} : calls'[c] = calls[c]
  BY <1>1, <1>2, CallMoves DEF Ats
<1>4. walk.pages = 0 /\ walk.cap_hit = "none" /\ bytes <= ByteShare + calls[0].got
  BY <1>1 DEF CrawlInv, AloneInv, SeedInv
<1>5. /\ walk' \in WalkStates /\ walk'.pages = 0 /\ walk'.cap_hit = "none"
      /\ walk'.seed_error = error
  BY <1>1, <1>2, <1>4 DEF WalkStates
<1>6. CrawlTypeOK'
  BY <1>1, <1>3, <1>5, TypeIs, NextTypeIs DEF CrawlInv
<1>7. GateInv'
  BY <1>1, <1>2, <1>3, GateKept DEF CrawlInv
<1>8. SeedNotStarved'
  <2>1. calls[0].got \in Nat
    BY Typed
  <2> QED BY <1>1, <1>2, <1>3, <1>4, <1>5, <2>1 DEF SeedNotStarved, Fits
<1> QED
  BY <1>1, <1>5, <1>6, <1>7, <1>8
  DEF CrawlInv, AloneInv, DiscoveryInv, SeedInv, CountInv, ClockInv, Capped, CapIsTrue,
      BackstopIsLast, EveryUrlAccounted

LEMMA SeedReadInv ==
  ASSUME CrawlInv, NEW links \in 0 .. MaxPages - 1, SeedRead(links)
  PROVE  CrawlInv'
<1> USE Bounds
<1> DEFINE frontier == IF disc.urls > 0 THEN walk.frontier ELSE links
<1>1. /\ phase = "seed" /\ phase' = (IF frontier = 0 THEN "over" ELSE "frontier")
      /\ Done(0) /\ calls[0].at = "body"
      /\ walk' = [walk EXCEPT !.pages = 1, !.frontier = frontier]
      /\ UNCHANGED <<disc, gate, bytes, clock>>
  BY DEF SeedRead
<1>2. /\ calls \in CallStates /\ walk \in WalkStates /\ gate \in GateStates
  BY TypeIs DEF CrawlInv
<1>3. frontier \in 0 .. MaxPages - 1
  BY <1>2 DEF WalkStates
<1> HIDE DEF frontier
<1>4. /\ calls' \in CallStates /\ calls'[0].at = "done"
      /\ \A c \in Calls \ {0} : calls'[c] = calls[c]
  BY <1>1, <1>2, CallIsSet DEF Done, Ats
<1>5. /\ walk.dropped = 0 /\ walk.cap_hit = "none" /\ walk.seed_error = "none"
      /\ \A c \in Calls \ {0} : calls[c].at = "ready"
      /\ clock.age - clock.began = WallClock - clock.left
  BY <1>1 DEF CrawlInv, AloneInv, ClockInv, Capped
<1>6. /\ walk' \in WalkStates /\ walk'.pages = 1 /\ walk'.frontier = frontier
      /\ walk'.dropped = 0 /\ walk'.cap_hit = "none" /\ walk'.seed_error = "none"
  <2>1. 1 \in 0 .. MaxPages
    OBVIOUS
  <2>2. PICK w : w = [walk EXCEPT !.pages = 1]
    OBVIOUS
  <2>3. /\ w \in WalkStates /\ w.pages = 1 /\ w.dropped = 0 /\ w.cap_hit = "none"
        /\ w.seed_error = "none"
    BY <1>2, <1>5, <2>1, <2>2 DEF WalkStates
  <2>4. walk' = [w EXCEPT !.frontier = frontier]
    BY <1>1, <2>2
  <2> QED BY <1>3, <2>3, <2>4 DEF WalkStates
<1>7. CrawlTypeOK'
  BY <1>1, <1>4, <1>6, TypeIs, NextTypeIs DEF CrawlInv
<1>8. GateInv'
  BY <1>1, <1>2, <1>4, GateKept DEF CrawlInv
<1>9. Finished' = {}
  <2>1. \A c \in 1 .. frontier : c \in Calls \ {0}
    BY <1>3 DEF Calls
  <2> QED BY <1>4, <1>5, <1>6, <2>1 DEF Finished, Frontier
<1>10. CountInv'
  BY <1>6, <1>9, FS_EmptySet DEF CountInv
<1> QED
  BY <1>1, <1>5, <1>6, <1>7, <1>8, <1>10
  DEF CrawlInv, AloneInv, DiscoveryInv, SeedInv, ClockInv, Capped, SeedNotStarved, CapIsTrue,
      BackstopIsLast, EveryUrlAccounted

-----------------------------------------------------------------------------
(* The frontier.                                                            *)

LEMMA FrontierSize ==
  ASSUME CrawlInv
  PROVE  IsFiniteSet(Frontier) /\ Cardinality(Frontier) = walk.frontier
<1>1. walk.frontier \in Nat
  BY TypeIs, Bounds DEF CrawlInv, WalkStates
<1>2. PICK n \in Nat : n = walk.frontier
  BY <1>1
<1>3. /\ IsFiniteSet(1 .. n)
      /\ Cardinality(1 .. n) = IF 1 > n THEN 0 ELSE n - 1 + 1
  BY FS_Interval
<1> QED BY <1>2, <1>3 DEF Frontier

LEMMA FinishedBound ==
  ASSUME CrawlInv
  PROVE  /\ IsFiniteSet(Finished) /\ Cardinality(Finished) \in Nat
         /\ Cardinality(Finished) <= walk.frontier /\ walk.frontier <= MaxPages - 1
         /\ Frontier \subseteq Calls \ {0}
         /\ Finished = Frontier => Cardinality(Finished) = walk.frontier
<1> USE Bounds
<1>1. walk.frontier \in 0 .. MaxPages - 1
  BY TypeIs DEF CrawlInv, WalkStates
<1>2. IsFiniteSet(Frontier) /\ Cardinality(Frontier) = walk.frontier
  BY FrontierSize
<1>3. Finished \in SUBSET Frontier
  BY DEF Finished
<1>4. IsFiniteSet(Finished) /\ Cardinality(Finished) <= Cardinality(Frontier)
  BY <1>2, <1>3, FS_Subset
<1>5. Cardinality(Finished) \in Nat
  BY <1>4, FS_CardinalityType
<1>6. Frontier \subseteq Calls \ {0}
  BY <1>1 DEF Frontier, Calls
<1> QED BY <1>1, <1>2, <1>4, <1>5, <1>6

\* Tasks are done when they were, if no call's being done changes.
LEMMA FinishedKept ==
  ASSUME CrawlInv, walk'.frontier = walk.frontier,
         \A c \in Calls : calls'[c].at = "done" <=> calls[c].at = "done"
  PROVE  Finished' = Finished
BY FinishedBound DEF Finished, Frontier

LEMMA MarkedWalk ==
  ASSUME NEW w \in WalkStates, NEW cap \in {"bytes", "wall_clock", "pages"}
  PROVE  /\ mark_cap_hit(w, cap) \in WalkStates
         /\ mark_cap_hit(w, cap).pages = w.pages /\ mark_cap_hit(w, cap).dropped = w.dropped
         /\ mark_cap_hit(w, cap).frontier = w.frontier
         /\ mark_cap_hit(w, cap).seed_error = w.seed_error
         /\ mark_cap_hit(w, cap).cap_hit = (IF w.cap_hit = "none" THEN cap ELSE w.cap_hit)
BY DEF mark_cap_hit, WalkStates

\* A task that is done leaves a page or a count, or a cap.
LEMMA TaskDone ==
  ASSUME CrawlInv, phase = "frontier", NEW c \in Frontier, calls[c].at \in {"ready", "body"},
         Done(c), UNCHANGED <<phase, disc, gate, bytes, clock>>,
         walk'.frontier = walk.frontier, walk'.seed_error = walk.seed_error,
         walk'.cap_hit \in {"none", "bytes", "wall_clock", "pages"},
         walk' \in [pages : Nat, dropped : Nat, frontier : 0 .. MaxPages - 1,
                    cap_hit : {"none", "bytes", "wall_clock", "pages"},
                    seed_error : {"none", "robots", "bytes", "failed", "blocked", "http_error",
                                  "timeout"}],
         walk'.pages + walk'.dropped \in
           walk.pages + walk.dropped .. walk.pages + walk.dropped + 1,
         walk'.cap_hit = "none" =>
           walk.cap_hit = "none" /\ walk'.pages + walk'.dropped = walk.pages + walk.dropped + 1,
         CapIsTrue'
  PROVE  CrawlInv'
<1> USE Bounds
<1>1. /\ calls \in CallStates /\ gate \in GateStates /\ walk \in WalkStates /\ c \in Calls
  BY TypeIs, FinishedBound DEF CrawlInv
<1>2. /\ calls' \in CallStates /\ calls'[c].at = "done"
      /\ \A b \in Calls \ {c} : calls'[b] = calls[b]
  BY <1>1, CallIsSet DEF Done, Ats
<1>3. c \notin Finished /\ Finished' = Finished \cup {c}
  BY <1>2, FinishedBound DEF Finished, Frontier
<1>4. Cardinality(Finished') = Cardinality(Finished) + 1
  BY <1>3, FinishedBound, FS_AddElement
<1>5. Cardinality(Finished') <= walk.frontier
  <2>1. Finished' \in SUBSET Frontier
    BY <1>3 DEF Finished
  <2>2. IsFiniteSet(Frontier) /\ Cardinality(Frontier) = walk.frontier
    BY FrontierSize
  <2> QED BY <2>1, <2>2, FS_Subset
<1>6. /\ walk.pages + walk.dropped <= 1 + Cardinality(Finished) /\ walk.seed_error = "none"
      /\ walk.cap_hit = "none" => walk.pages + walk.dropped = 1 + Cardinality(Finished)
  BY DEF CrawlInv, CountInv
<1>7. /\ walk'.pages \in Nat /\ walk'.dropped \in Nat /\ walk.pages \in Nat /\ walk.dropped \in Nat
      /\ Cardinality(Finished) \in Nat /\ walk.frontier \in Nat
  BY <1>1, FinishedBound DEF WalkStates
<1>8. /\ walk'.pages + walk'.dropped <= 1 + Cardinality(Finished')
      /\ walk'.cap_hit = "none" => walk'.pages + walk'.dropped = 1 + Cardinality(Finished')
  BY <1>4, <1>6, <1>7
<1>9. walk' \in WalkStates
  <2>1. walk'.pages <= MaxPages
    BY <1>4, <1>5, <1>7, <1>8, FinishedBound
  <2> QED BY <1>7, <2>1 DEF WalkStates
<1>10. CrawlTypeOK'
  BY <1>2, <1>9, TypeIs, NextTypeIs DEF CrawlInv
<1>11. GateInv'
  BY <1>1, <1>2, GateKept DEF CrawlInv
<1>12. CountInv'
  BY <1>6, <1>8 DEF CountInv
<1> QED
  BY <1>6, <1>10, <1>11, <1>12
  DEF CrawlInv, AloneInv, DiscoveryInv, SeedInv, ClockInv, SeedNotStarved, BackstopIsLast,
      EveryUrlAccounted

LEMMA PageReadInv ==
  ASSUME CrawlInv, NEW c \in Calls, PageRead(c)
  PROVE  CrawlInv'
<1> USE Bounds
<1>1. /\ phase = "frontier" /\ c \in Frontier /\ calls[c].at = "body" /\ Done(c)
      /\ walk' = [walk EXCEPT !.pages = @ + 1]
      /\ UNCHANGED <<phase, disc, gate, bytes, clock>>
  BY DEF PageRead
<1>2. walk \in WalkStates /\ calls \in CallStates /\ CapIsTrue
  BY TypeIs DEF CrawlInv
<1>3. /\ walk'.pages = walk.pages + 1 /\ walk'.dropped = walk.dropped
      /\ walk'.frontier = walk.frontier /\ walk'.seed_error = walk.seed_error
      /\ walk'.cap_hit = walk.cap_hit /\ walk.pages \in Nat /\ walk.dropped \in Nat
      /\ walk'.cap_hit \in {"none", "bytes", "wall_clock", "pages"}
      /\ walk' \in [pages : Nat, dropped : Nat, frontier : 0 .. MaxPages - 1,
                    cap_hit : {"none", "bytes", "wall_clock", "pages"},
                    seed_error : {"none", "robots", "bytes", "failed", "blocked", "http_error",
                                  "timeout"}]
  BY <1>1, <1>2 DEF WalkStates
<1>4. walk.pages # MaxPages
  <2>1. c \notin Finished
    BY <1>1 DEF Finished
  <2>2. Cardinality(Finished) # walk.frontier
    <3>1. Finished \in SUBSET Frontier
      BY DEF Finished
    <3> QED BY <1>1, <2>1, <3>1, FrontierSize, FS_Subset
  <2>3. walk.pages + walk.dropped <= 1 + Cardinality(Finished)
    BY <1>1 DEF CrawlInv, CountInv
  <2>4. walk.frontier \in 0 .. MaxPages - 1
    BY <1>2 DEF WalkStates
  <2> QED BY <1>3, <2>2, <2>3, <2>4, FinishedBound
<1>5. CapIsTrue'
  BY <1>1, <1>2, <1>3, <1>4 DEF CapIsTrue
<1> QED BY <1>1, <1>3, <1>5, TaskDone

LEMMA PageDroppedInv ==
  ASSUME CrawlInv, NEW c \in Calls, PageDropped(c)
  PROVE  CrawlInv'
<1>1. /\ phase = "frontier" /\ c \in Frontier /\ calls[c].at = "body" /\ Done(c)
      /\ walk' = [walk EXCEPT !.dropped = @ + 1]
      /\ UNCHANGED <<phase, disc, gate, bytes, clock>>
  BY DEF PageDropped
<1>2. walk \in WalkStates /\ CapIsTrue
  BY TypeIs DEF CrawlInv
<1>3. /\ walk'.pages = walk.pages /\ walk'.dropped = walk.dropped + 1
      /\ walk'.frontier = walk.frontier /\ walk'.seed_error = walk.seed_error
      /\ walk'.cap_hit = walk.cap_hit /\ walk.pages \in Nat /\ walk.dropped \in Nat
      /\ walk'.cap_hit \in {"none", "bytes", "wall_clock", "pages"}
      /\ walk' \in [pages : Nat, dropped : Nat, frontier : 0 .. MaxPages - 1,
                    cap_hit : {"none", "bytes", "wall_clock", "pages"},
                    seed_error : {"none", "robots", "bytes", "failed", "blocked", "http_error",
                                  "timeout"}]
  BY <1>1, <1>2, Bounds DEF WalkStates
<1>4. CapIsTrue'
  BY <1>1, <1>2, <1>3 DEF CapIsTrue
<1> QED BY <1>1, <1>3, <1>4, TaskDone

\* A cap is marked by the first task that meets it, and only then.
LEMMA CapMarked ==
  ASSUME CrawlInv, phase = "frontier", NEW c \in Frontier, calls[c].at \in {"ready", "body"},
         Done(c), UNCHANGED <<phase, disc, gate, bytes, clock>>,
         NEW cap \in {"bytes", "wall_clock", "pages"}, walk' = mark_cap_hit(walk, cap),
         walk.cap_hit = "none" /\ cap = "bytes" => bytes = MaxBytes,
         walk.cap_hit = "none" /\ cap = "wall_clock" => clock.left = 0,
         walk.cap_hit = "none" /\ cap = "pages" => walk.pages = MaxPages
  PROVE  CrawlInv'
<1>1. walk \in WalkStates /\ CapIsTrue
  BY TypeIs DEF CrawlInv
<1>2. /\ walk' \in WalkStates
      /\ walk'.pages = walk.pages /\ walk'.dropped = walk.dropped
      /\ walk'.frontier = walk.frontier /\ walk'.seed_error = walk.seed_error
      /\ walk'.cap_hit = (IF walk.cap_hit = "none" THEN cap ELSE walk.cap_hit)
  BY <1>1, MarkedWalk
<1>3. CapIsTrue'
  BY <1>1, <1>2 DEF CapIsTrue
<1>4. /\ walk.pages \in Nat /\ walk.dropped \in Nat
      /\ walk'.cap_hit \in {"none", "bytes", "wall_clock", "pages"} /\ walk'.cap_hit # "none"
      /\ walk' \in [pages : Nat, dropped : Nat, frontier : 0 .. MaxPages - 1,
                    cap_hit : {"none", "bytes", "wall_clock", "pages"},
                    seed_error : {"none", "robots", "bytes", "failed", "blocked", "http_error",
                                  "timeout"}]
  BY <1>1, <1>2, Bounds DEF WalkStates
<1> QED BY <1>2, <1>3, <1>4, TaskDone

LEMMA BytesRefusedInv ==
  ASSUME CrawlInv, NEW c \in Calls, BytesRefused(c)
  PROVE  CrawlInv'
<1>1. /\ phase = "frontier" /\ c \in Frontier /\ calls[c].at = "body" /\ Done(c) /\ ~ Fits
      /\ walk' = mark_cap_hit(walk, "bytes")
      /\ UNCHANGED <<phase, disc, gate, bytes, clock>>
  BY DEF BytesRefused, Refuses
<1>2. bytes = MaxBytes
  BY <1>1, Typed, Bounds DEF Fits
<1> QED BY <1>1, <1>2, CapMarked

LEMMA StartInv ==
  ASSUME CrawlInv, NEW c \in Calls, Start(c)
  PROVE  CrawlInv'
<1> USE Bounds
<1> DEFINE cap == IF walk.cap_hit # "none" THEN walk.cap_hit
                  ELSE IF walk.pages >= MaxPages THEN "pages"
                  ELSE IF clock.left = 0 THEN "wall_clock" ELSE "none"
<1>1. /\ phase = "frontier" /\ c \in Frontier /\ calls[c].at = "ready"
      /\ UNCHANGED <<phase, disc, bytes, clock>>
      /\ IF cap = "none" THEN Enter(c) /\ At(c, "line") /\ UNCHANGED walk
         ELSE Done(c) /\ walk' = mark_cap_hit(walk, cap) /\ UNCHANGED gate
  BY DEF Start
<1>2. walk \in WalkStates /\ gate \in GateStates /\ calls \in CallStates
  BY TypeIs DEF CrawlInv
<1>3. CASE cap = "none"
  <2>1. Enter(c) /\ At(c, "line") /\ UNCHANGED walk
    BY <1>1, <1>3
  <2>2. GateInv' /\ gate' \in GateStates
    BY <1>1, <1>2, <2>1, GateEntered DEF CrawlInv
  <2>3. /\ calls' \in CallStates /\ calls'[c].at = "line"
        /\ \A b \in Calls \ {c} : calls'[b] = calls[b]
    BY <1>2, <2>1, CallMoves DEF Ats
  <2>4. Finished' = Finished
    BY <1>1, <2>1, <2>3, FinishedKept
  <2>5. CrawlTypeOK'
    BY <1>1, <2>1, <2>2, <2>3, TypeIs, NextTypeIs DEF CrawlInv
  <2>6. CountInv'
    BY <1>1, <2>1, <2>4 DEF CrawlInv, CountInv
  <2> QED
    BY <1>1, <2>1, <2>2, <2>5, <2>6
    DEF CrawlInv, AloneInv, DiscoveryInv, SeedInv, CountInv, ClockInv, SeedNotStarved, CapIsTrue,
        BackstopIsLast, EveryUrlAccounted
<1>4. CASE cap # "none"
  <2>1. cap \in {"bytes", "wall_clock", "pages"}
    BY <1>2, <1>4 DEF WalkStates
  <2>2. walk.pages <= MaxPages /\ walk.pages \in Nat
    BY <1>2 DEF WalkStates
  <2>3. Done(c) /\ walk' = mark_cap_hit(walk, cap) /\ UNCHANGED gate
    BY <1>1, <1>4
  <2>4. /\ walk.cap_hit = "none" /\ cap = "wall_clock" => clock.left = 0
        /\ walk.cap_hit = "none" => cap # "bytes"
    OBVIOUS
  <2>5. walk.cap_hit = "none" /\ cap = "pages" => walk.pages = MaxPages
    BY <2>2
  <2> HIDE DEF cap
  <2> QED BY <1>1, <2>1, <2>3, <2>4, <2>5, CapMarked
<1> QED BY <1>3, <1>4

LEMMA GatheredInv == ASSUME CrawlInv, Gathered PROVE CrawlInv'
<1>1. /\ phase = "frontier" /\ phase' = "over" /\ \A c \in Frontier : calls[c].at = "done"
      /\ UNCHANGED <<disc, gate, calls, bytes, walk, clock>>
  BY DEF Gathered
<1>2. CrawlTypeOK'
  BY <1>1, TypeIs, NextTypeIs DEF CrawlInv
<1>3. GateInv'
  BY <1>1, GateKept, Typed DEF CrawlInv
<1>4. Finished = Frontier
  BY <1>1 DEF Finished
<1>5. EveryUrlAccounted'
  BY <1>1, <1>4, FinishedBound DEF CrawlInv, CountInv, EveryUrlAccounted
<1> QED
  BY <1>1, <1>2, <1>3, <1>5
  DEF CrawlInv, AloneInv, DiscoveryInv, SeedInv, CountInv, ClockInv, Capped, SeedNotStarved,
      CapIsTrue, BackstopIsLast

\* The crawl's own timeout: what was under way is cancelled, the line emptied.
LEMMA WallClockCapInv == ASSUME CrawlInv, WallClockCap PROVE CrawlInv'
<1> USE Bounds
<1> DEFINE marked == mark_cap_hit(walk, "wall_clock")
           error == IF walk.pages = 0 THEN "timeout" ELSE "none"
<1>1. /\ phase \in Capped /\ clock.left = 0 /\ phase' = "over"
      /\ walk' = [marked EXCEPT !.seed_error = error]
      /\ gate' = [gate EXCEPT !.line = <<>>]
      /\ UNCHANGED <<disc, bytes, clock>>
  BY DEF WallClockCap
<1>2. walk \in WalkStates /\ gate \in GateStates /\ calls \in CallStates /\ CapIsTrue
  BY TypeIs DEF CrawlInv
<1>3. /\ marked \in WalkStates /\ marked.pages = walk.pages
      /\ marked.cap_hit = (IF walk.cap_hit = "none" THEN "wall_clock" ELSE walk.cap_hit)
  BY <1>2, MarkedWalk
<1>4. error \in {"timeout", "none"}
  OBVIOUS
<1> HIDE DEF marked, error
<1>5. /\ walk' \in WalkStates /\ walk'.pages = walk.pages
      /\ walk'.cap_hit = (IF walk.cap_hit = "none" THEN "wall_clock" ELSE walk.cap_hit)
      /\ walk'.seed_error # "bytes"
  BY <1>1, <1>3, <1>4 DEF WalkStates
<1>6. calls' \in CallStates
  <2>1. calls' = [c \in Calls |-> IF calls[c].at \in {"line", "body"}
                                  THEN [at |-> "cancelled", got |-> 0] ELSE calls[c]]
    BY DEF WallClockCap
  <2> QED BY <1>2, <2>1 DEF CallStates, Ats
<1>7. /\ gate' \in GateStates /\ gate'.line = <<>> /\ gate'.start = gate.start
      /\ gate'.next = gate.next /\ gate'.since = gate.since /\ gate'.gap = gate.gap
  <2>1. <<>> \in Seq(Calls)
    OBVIOUS
  <2> QED BY <1>1, <1>2, <2>1 DEF GateStates
<1>8. CrawlTypeOK'
  BY <1>1, <1>5, <1>6, <1>7, TypeIs, NextTypeIs DEF CrawlInv
<1>9. GateInv'
  <2>1. Len(<<>>) = 0
    OBVIOUS
  <2> QED BY <1>7, <2>1 DEF CrawlInv, GateInv
<1>10. CapIsTrue'
  BY <1>1, <1>2, <1>5 DEF CapIsTrue
<1>11. AloneInv' /\ DiscoveryInv' /\ SeedInv' /\ CountInv' /\ ClockInv' /\ BackstopIsLast'
  BY <1>1 DEF AloneInv, DiscoveryInv, SeedInv, CountInv, ClockInv, Capped, BackstopIsLast
<1>12. SeedNotStarved'
  BY <1>5 DEF SeedNotStarved
<1>13. EveryUrlAccounted'
  BY <1>5 DEF EveryUrlAccounted
<1> QED BY <1>8, <1>9, <1>10, <1>11, <1>12, <1>13 DEF CrawlInv

-----------------------------------------------------------------------------
(* Turns, chunks, and time.                                                 *)

\* A call under way is discovery's or the seed's, or one of the frontier.
LEMMA UnderWay ==
  ASSUME CrawlInv, NEW c \in Calls, calls[c].at \in {"line", "body"}
  PROVE  /\ phase \in {"discovery", "seed"} => c = 0
         /\ phase = "discovery" => disc.at # "over"
         /\ phase = "seed" => calls[c].at = "body"
<1>1. phase \in {"discovery", "seed"} => c = 0
  BY DEF CrawlInv, AloneInv
<1> QED BY <1>1 DEF CrawlInv, DiscoveryInv, SeedInv

LEMMA TurnInv ==
  ASSUME CrawlInv, NEW c \in Calls, wait_for_turn(c)
  PROVE  CrawlInv'
<1> USE Bounds
<1>1. /\ phase \in {"discovery", "seed", "frontier"} /\ UNCHANGED <<phase, disc, bytes, walk, clock>>
      /\ calls' = [calls EXCEPT ![c] = [at |-> "body", got |-> 0]]
  BY DEF wait_for_turn, Running
<1>2. GateInv' /\ gate' \in GateStates /\ calls[c].at = "line"
  BY GateTurned, Typed DEF CrawlInv
<1>3. /\ calls' \in CallStates /\ calls'[c].at = "body"
      /\ \A b \in Calls \ {c} : calls'[b] = calls[b]
  BY <1>1, CallIsSet, Typed DEF Ats
<1>4. /\ phase = "discovery" => c = 0 /\ disc.at # "over"
      /\ phase # "seed"
  BY <1>2, UnderWay
<1>5. Finished' = Finished
  <2>1. \A b \in Calls : calls'[b].at = "done" <=> calls[b].at = "done"
    BY <1>2, <1>3
  <2> QED BY <1>1, <2>1, FinishedKept
<1>6. CrawlTypeOK'
  BY <1>1, <1>2, <1>3, TypeIs, NextTypeIs DEF CrawlInv
<1>7. AloneInv' /\ DiscoveryInv' /\ SeedInv'
  BY <1>1, <1>3, <1>4 DEF CrawlInv, AloneInv, DiscoveryInv, SeedInv
<1>8. CountInv'
  BY <1>1, <1>5 DEF CrawlInv, CountInv
<1>9. SeedNotStarved'
  <2>1. walk.seed_error = "none"
    BY <1>1 DEF CrawlInv, AloneInv, CountInv
  <2> QED BY <1>1, <2>1 DEF SeedNotStarved
<1> QED
  BY <1>1, <1>2, <1>6, <1>7, <1>8, <1>9
  DEF CrawlInv, ClockInv, Capped, CapIsTrue, BackstopIsLast, EveryUrlAccounted

\* A chunk is kept only if there is room for it in every budget it is charged to.
LEMMA ChunkInv ==
  ASSUME CrawlInv, NEW c \in Calls, Chunk(c)
  PROVE  CrawlInv'
<1> USE Bounds
<1>1. /\ phase \in {"discovery", "seed", "frontier"} /\ calls[c].at = "body"
      /\ calls[c].got < MaxBody /\ Fits /\ bytes' = bytes + 1
      /\ calls' = [calls EXCEPT ![c].got = @ + 1]
      /\ disc' = IF phase = "discovery" THEN [disc EXCEPT !.used = @ + 1] ELSE disc
      /\ UNCHANGED <<phase, gate, walk, clock>>
  BY DEF Chunk, Running
<1>2. /\ disc \in DiscoveryStates /\ calls \in CallStates /\ gate \in GateStates
      /\ bytes \in 0 .. MaxBytes
  BY TypeIs DEF CrawlInv
<1>3. /\ calls' \in CallStates /\ calls'[c].at = "body" /\ calls'[c].got = calls[c].got + 1
      /\ \A b \in Calls \ {c} : calls'[b] = calls[b]
  <2>1. calls[c].got + 1 \in 0 .. MaxBody
    BY <1>1, Typed
  <2> QED BY <1>1, <1>2, <2>1 DEF CallStates
<1>4. /\ phase \in {"discovery", "seed"} => c = 0
      /\ phase = "discovery" => disc.at # "over"
  BY <1>1, UnderWay
<1>5. /\ disc' \in DiscoveryStates /\ disc'.at = disc.at
      /\ disc'.child = disc.child /\ disc'.kids = disc.kids /\ disc'.targets = disc.targets
      /\ phase = "discovery" => disc'.used = disc.used + 1
  <2>1. CASE phase = "discovery"
    <3>1. disc.used + 1 \in 0 .. ByteShare
      BY <1>1, <1>2, <2>1 DEF Fits, DiscoveryStates
    <3> QED BY <1>1, <1>2, <2>1, <3>1 DEF DiscoveryStates
  <2>2. CASE phase # "discovery"
    BY <1>1, <1>2, <2>2
  <2> QED BY <2>1, <2>2
<1>6. bytes' \in 0 .. MaxBytes
  BY <1>1, <1>2 DEF Fits
<1>7. CrawlTypeOK'
  BY <1>1, <1>3, <1>5, <1>6, TypeIs, NextTypeIs DEF CrawlInv
<1>8. GateInv'
  BY <1>1, <1>2, <1>3, GateKept DEF CrawlInv
<1>9. Finished' = Finished
  <2>1. \A b \in Calls : calls'[b].at = "done" <=> calls[b].at = "done"
    BY <1>1, <1>3
  <2> QED BY <1>1, <2>1, FinishedKept
<1>10. AloneInv' /\ CountInv'
  BY <1>1, <1>3, <1>4, <1>9 DEF CrawlInv, AloneInv, CountInv
<1>11. DiscoveryInv'
  BY <1>1, <1>2, <1>4, <1>5 DEF CrawlInv, DiscoveryInv
<1>12. SeedInv'
  <2>1. calls[c].got \in Nat
    BY Typed
  <2> QED BY <1>1, <1>2, <1>3, <1>4, <2>1 DEF CrawlInv, SeedInv
<1>13. SeedNotStarved' /\ CapIsTrue'
  <2>1. walk.seed_error = "none" /\ walk.cap_hit # "bytes"
    BY <1>1, <1>2 DEF CrawlInv, AloneInv, CountInv, CapIsTrue, Fits
  <2> QED BY <1>1, <2>1 DEF CrawlInv, SeedNotStarved, CapIsTrue
<1> QED
  BY <1>1, <1>7, <1>8, <1>10, <1>11, <1>12, <1>13
  DEF CrawlInv, ClockInv, Capped, BackstopIsLast, EveryUrlAccounted

\* Nothing is collected before the wall clock runs, so the job's own timeout is late
\* for a crawl by what discovery took.
LEMMA BackstopInv == ASSUME CrawlInv, Backstop PROVE CrawlInv'
<1> USE Bounds
<1>1. /\ phase \in {"discovery", "seed", "frontier"} /\ phase' = "cancelled"
      /\ clock.age = JobTimeout /\ UNCHANGED <<disc, gate, calls, bytes, walk, clock>>
  BY DEF Backstop, Running
<1>2. CrawlTypeOK'
  BY <1>1, TypeIs, NextTypeIs DEF CrawlInv
<1>3. GateInv'
  BY <1>1, GateKept, Typed DEF CrawlInv
<1>4. BackstopIsLast'
  <2>1. clock \in ClockStates
    BY TypeIs DEF CrawlInv
  <2>2. walk.pages > 0 => phase = "frontier"
    BY <1>1 DEF CrawlInv, AloneInv
  <2>3. phase = "frontier" => clock.age - clock.began = WallClock - clock.left
    BY DEF CrawlInv, ClockInv, Capped
  <2> QED BY <1>1, <2>1, <2>2, <2>3 DEF BackstopIsLast, ClockStates
<1> QED
  BY <1>1, <1>2, <1>3, <1>4
  DEF CrawlInv, AloneInv, DiscoveryInv, SeedInv, CountInv, ClockInv, Capped, SeedNotStarved,
      CapIsTrue, EveryUrlAccounted

LEMMA CrawlTickInv == ASSUME CrawlInv, CrawlTick PROVE CrawlInv'
<1> USE Bounds
<1> DEFINE next == Larger(0, gate.next - 1)
           since == Smaller(gate.gap, gate.since + 1)
           start == IF gate.line = <<>> THEN 0 ELSE gate.start - 1
           left == IF phase = "discovery" THEN clock.left ELSE Larger(0, clock.left - 1)
<1>1. /\ phase \in {"discovery", "seed", "frontier"} /\ clock.age < JobTimeout
      /\ phase \in Capped => clock.left > 0
      /\ gate.line # <<>> => gate.start > - MaxLate
      /\ clock' = [clock EXCEPT !.age = @ + 1, !.left = left]
      /\ gate' = [gate EXCEPT !.next = next, !.since = since, !.start = start]
      /\ UNCHANGED <<phase, disc, calls, bytes, walk>>
  BY DEF CrawlTick, Running, Waiting
<1>2. gate \in GateStates /\ calls \in CallStates /\ clock \in ClockStates
  BY TypeIs DEF CrawlInv
<1>3. /\ gate.next \in Int /\ gate.start \in Int /\ gate.since \in Nat /\ gate.gap \in Nat
      /\ next \in Int /\ since \in Nat /\ start \in Int
  BY <1>2 DEF GateStates, Larger, Smaller
<1>4. clock.age \in 0 .. JobTimeout /\ clock.left \in 0 .. WallClock /\ left \in 0 .. WallClock
  BY <1>2 DEF ClockStates, Larger
<1>5. phase \in Capped => left = clock.left - 1
  <2> SUFFICES ASSUME phase \in Capped PROVE left = clock.left - 1
    OBVIOUS
  <2>1. clock.left > 0 /\ clock.left \in Int
    BY <1>1, <1>4
  <2>2. Larger(0, clock.left - 1) = clock.left - 1
    BY ONLY <2>1 DEF Larger
  <2> QED BY <2>2 DEF Capped
<1>6. phase = "discovery" => left = clock.left
  OBVIOUS
<1>7. /\ since <= gate.gap
      /\ next >= gate.gap - since - MaxLate
      /\ gate.line # <<>> => start >= gate.gap - since - MaxLate
  <2>1. /\ gate.since <= gate.gap /\ gate.next >= gate.gap - gate.since - MaxLate
        /\ gate.line # <<>> => gate.start >= gate.gap - gate.since - MaxLate
    BY DEF CrawlInv, GateInv
  <2>2. CASE gate.since = gate.gap
    <3>1. since = gate.gap
      BY <1>3, <2>2 DEF Smaller
    <3>2. gate.line # <<>> => start >= - MaxLate
      <4>1. gate.line # <<>> => gate.start > - MaxLate /\ start = gate.start - 1
        BY <1>1
      <4>2. gate.start \in Int /\ MaxLate \in Nat
        BY <1>3
      <4> HIDE DEF start
      <4> QED BY <4>1, <4>2
    <3>3. next >= - MaxLate
      BY <1>3 DEF Larger
    <3> HIDE DEF since, next, start
    <3> QED BY <1>3, <3>1, <3>2, <3>3
  <2>3. CASE gate.since # gate.gap
    <3>1. since = gate.since + 1 /\ gate.since + 1 <= gate.gap
      BY <1>3, <2>1, <2>3 DEF Smaller
    <3>2. next >= gate.next - 1
      BY <1>3 DEF Larger
    <3>3. gate.line # <<>> => start = gate.start - 1
      OBVIOUS
    <3>4. next >= gate.gap - (gate.since + 1) - MaxLate
      <4> HIDE DEF next, since
      <4> QED BY ONLY <1>3, <2>1, <3>2, Bounds, SMTT(30)
    <3>5. gate.line # <<>> => start >= gate.gap - (gate.since + 1) - MaxLate
      <4> HIDE DEF start, since, next
      <4> QED BY ONLY <1>3, <2>1, <3>3, Bounds
    <3> HIDE DEF since, next, start
    <3> QED BY <3>1, <3>4, <3>5
  <2> QED BY <2>2, <2>3
<1> HIDE DEF next, since, start, left
<1>8. /\ gate' \in GateStates /\ gate'.line = gate.line /\ gate'.next = next
      /\ gate'.since = since /\ gate'.start = start /\ gate'.gap = gate.gap
  BY <1>1, <1>2, <1>3 DEF GateStates
<1>9. /\ clock' \in ClockStates /\ clock'.age = clock.age + 1 /\ clock'.left = left
      /\ clock'.began = clock.began
  <2>0. clock.age < JobTimeout
    BY <1>1
  <2>1. clock.age + 1 \in 0 .. JobTimeout
    BY <1>4, <2>0
  <2> QED BY <1>1, <1>2, <1>4, <2>1 DEF ClockStates
<1>10. CrawlTypeOK'
  BY <1>1, <1>8, <1>9, TypeIs, NextTypeIs DEF CrawlInv
<1>11. GateInv'
  BY <1>1, <1>7, <1>8 DEF CrawlInv, GateInv
<1>12. ClockInv'
  <2>1. clock.began \in Nat
    BY <1>2 DEF ClockStates
  <2>2. phase \in Capped => clock.age - clock.began = WallClock - clock.left
    BY DEF CrawlInv, ClockInv
  <2>3. phase' = phase
    BY <1>1
  <2>4. ASSUME phase \in Capped
        PROVE  clock'.age - clock'.began = WallClock - clock'.left
    <3>1. left = clock.left - 1 /\ clock.age - clock.began = WallClock - clock.left
      BY <1>5, <2>2, <2>4
    <3>2. clock'.age = clock.age + 1 /\ clock'.left = clock.left - 1 /\ clock'.began = clock.began
      BY <1>9, <3>1
    <3> QED BY <1>4, <2>1, <3>1, <3>2
  <2> QED BY <2>3, <2>4 DEF ClockInv, Capped
<1>13. CapIsTrue'
  <2>1. walk.cap_hit # "wall_clock"
    <3>1. CASE phase \in Capped
      <4>1. clock.left > 0
        BY <1>1, <3>1
      <4>2. clock.left # 0
        BY <1>4, <4>1
      <4> QED BY <4>2 DEF CrawlInv, CapIsTrue
    <3>2. CASE phase = "discovery"
      BY <3>2 DEF CrawlInv, AloneInv
    <3> QED BY <1>1, <3>1, <3>2 DEF Capped
  <2> QED BY <1>1, <2>1 DEF CrawlInv, CapIsTrue
<1>14. DiscoveryInv'
  BY <1>1, <1>6, <1>9 DEF CrawlInv, DiscoveryInv
<1>15. Finished' = Finished
  BY <1>1, FinishedKept
<1> QED
  BY <1>1, <1>10, <1>11, <1>12, <1>13, <1>14, <1>15
  DEF CrawlInv, AloneInv, SeedInv, CountInv, SeedNotStarved, BackstopIsLast, EveryUrlAccounted

-----------------------------------------------------------------------------
(* The theorems.                                                            *)

LEMMA CrawlStep == CrawlInv /\ [CrawlNext]_crawlVars => CrawlInv'
<1> SUFFICES ASSUME CrawlInv, [CrawlNext]_crawlVars PROVE CrawlInv'
  OBVIOUS
<1>1. CASE Discovery
  <2>1. ASSUME NEW allowed \in BOOLEAN, NEW delay \in CrawlDelays,
               NEW rules, rules = [allowed |-> allowed, delay |-> delay],
               \/ \E targets \in 0 .. MaxListed : RobotsRead(rules, targets)
               \/ MalformedTarget(rules)
        PROVE  CrawlInv'
    <3>1. rules \in Rules
      BY <2>1 DEF Rules
    <3> QED BY <2>1, <3>1, RobotsReadInv, MalformedTargetInv
  <2>2. ASSUME NEW listed \in 1 .. MaxListed, SitemapRead(listed) \/ IndexRead(listed)
        PROVE  CrawlInv'
    BY <2>2, SitemapReadInv, IndexReadInv
  <2> QED
    BY <1>1, <2>1, <2>2, FetchDocumentInv, DocumentCapInv, ShareSpentInv, NoDocumentInv
    DEF Discovery
<1>2. CASE Walk
  BY <1>2, BeginCrawlInv, SeedReadInv, SelectRaisesInv, SeedFailsInv, StartInv, BytesRefusedInv,
     PageReadInv, PageDroppedInv, GatheredInv, WallClockCapInv
  DEF Walk
<1>3. ASSUME NEW c \in Calls, wait_for_turn(c) \/ Chunk(c)
      PROVE  CrawlInv'
  BY <1>3, TurnInv, ChunkInv
<1>4. CASE Backstop \/ CrawlTick
  BY <1>4, BackstopInv, CrawlTickInv
<1>5. CASE UNCHANGED crawlVars
  <2>1. /\ phase' = phase /\ disc' = disc /\ gate' = gate /\ calls' = calls /\ bytes' = bytes
        /\ walk' = walk /\ clock' = clock
    BY <1>5 DEF crawlVars
  <2>2. CrawlTypeOK'
    BY <2>1, TypeIs, NextTypeIs DEF CrawlInv
  <2>3. Finished' = Finished
    BY <2>1, FinishedKept
  <2> QED
    BY <2>1, <2>2, <2>3
    DEF CrawlInv, GateInv, AloneInv, DiscoveryInv, SeedInv, CountInv, ClockInv, SeedNotStarved,
        CapIsTrue, BackstopIsLast, EveryUrlAccounted
<1> QED BY <1>1, <1>2, <1>3, <1>4, <1>5 DEF CrawlNext

LEMMA CrawlAlways == CrawlSpec => []CrawlInv
BY CrawlInitInv, CrawlStep, PTL DEF CrawlSpec

\* Whatever the caps, the depth of the walk over the sitemaps and the order in which
\* the concurrent fetches of a frontier meet a cap: no budget is exceeded, the seed
\* is left what discovery may not spend, a cap is named only when it was hit, and
\* the job's own timeout cuts off a crawl only after a long discovery.
THEOREM LimitsAlwaysHonest == CrawlSpec => []LimitsHonest
<1>1. CrawlInv => LimitsHonest
  BY DEF CrawlInv, LimitsHonest
<1> QED BY <1>1, CrawlAlways, PTL

\* A crawl that names no cap has a page or a count for the seed and every URL of its
\* frontier, however large the frontier and however many tasks share it.
THEOREM UrlsAlwaysAccounted == CrawlSpec => []EveryUrlAccounted
<1>1. CrawlInv => EveryUrlAccounted
  BY DEF CrawlInv
<1> QED BY <1>1, CrawlAlways, PTL

\* The politeness gate: no step sends a gated request before the last one's delay
\* has passed, but for what the last one was itself late.
THEOREM GateKeepsApart == CrawlSpec => StartsApart
<1> DEFINE Apart == \A c \in Calls : calls[c].at = "line" /\ calls'[c].at = "body" =>
                                       gate.since >= gate.gap - MaxLate
<1>1. ASSUME CrawlInv, CrawlNext, NEW c \in Calls, calls[c].at = "line", calls'[c].at = "body"
      PROVE  gate.since >= gate.gap - MaxLate
  <2>1. calls \in CallStates /\ gate \in GateStates
    BY Typed, <1>1
  <2>2. CASE \E b \in Calls : wait_for_turn(b)
    BY <1>1, <2>1, <2>2, GateTurned DEF CrawlInv
  <2>3. CASE \E b \in Calls : Chunk(b)
    <3>1. PICK b \in Calls : calls' = [calls EXCEPT ![b].got = @ + 1]
      BY <2>3 DEF Chunk
    <3>2. calls'[c].at = calls[c].at
      BY <2>1, <3>1 DEF CallStates
    <3> QED BY <1>1, <3>2
  <2>4. CASE Discovery
    <3>1. \/ UNCHANGED calls \/ At(0, "line") \/ At(0, "ready")
      BY <2>4
      DEF Discovery, FetchDocument, DocumentCap, ShareSpent, NoDocument, RobotsRead,
          MalformedTarget, SitemapRead, IndexRead
    <3>2. calls'[c].at \in {calls[c].at, "line", "ready"}
      BY <2>1, <3>1 DEF At, CallStates
    <3> QED BY <1>1, <3>2
  <2>5. CASE Walk
    <3>1. CASE \E n \in 0 .. MaxPages - 1 : BeginCrawl(n)
      <4>1. calls[0].at # "line"
        BY <1>1, <3>1 DEF BeginCrawl, CrawlInv, DiscoveryInv
      <4>2. calls' = calls \/ calls' = [calls EXCEPT ![0] = [at |-> "body", got |-> 0]]
        BY <3>1 DEF BeginCrawl
      <4>3. c # 0 => calls'[c].at = calls[c].at
        BY <2>1, <4>2 DEF CallStates
      <4> QED BY <1>1, <4>1, <4>3
    <3>2. CASE WallClockCap
      <4>1. calls'[c].at = "cancelled"
        BY <1>1, <3>2 DEF WallClockCap
      <4> QED BY <1>1, <4>1
    <3>3. CASE ~ WallClockCap /\ ~ \E n \in 0 .. MaxPages - 1 : BeginCrawl(n)
      <4>1. \/ UNCHANGED calls
            \/ \E b \in Calls : At(b, "line") \/ At(b, "done") \/ Done(b)
        BY <2>5, <3>3, Bounds
        DEF Walk, SelectRaises, SeedFails, SeedRead, Start, BytesRefused, PageRead, PageDropped,
            Gathered
      <4>2. calls'[c].at \in {calls[c].at, "line", "done"}
        BY <2>1, <4>1 DEF At, Done, CallStates
      <4> QED BY <1>1, <4>2
    <3> QED BY <3>1, <3>2, <3>3
  <2>6. CASE Backstop \/ CrawlTick
    BY <1>1, <2>6 DEF Backstop, CrawlTick
  <2> QED BY <1>1, <2>2, <2>3, <2>4, <2>5, <2>6 DEF CrawlNext
<1>2. CrawlInv /\ [CrawlNext]_crawlVars => [Apart]_crawlVars
  BY <1>1
<1> QED BY <1>2, CrawlAlways, PTL DEF CrawlSpec, StartsApart

-----------------------------------------------------------------------------
(* The requests sent for a page.                                            *)

Requests == [url : PageUrls, ip : Addresses, answers : Seq(Addresses)]

FetchTypeOK ==
  fetch \in [at : {"validate", "request", "over"}, asked : PageUrls, url : PageUrls,
             target : PageUrls, hop : 0 .. MAX_REDIRECTS, requests : Seq(Requests),
             status : Statuses \cup {0},
             outcome : {"none", "refused", "failed", "blocked", "http_error", "off_origin", "page"}]

\* Some request so far went out over https.
Secured == \E i \in DOMAIN fetch.requests : fetch.requests[i].url.scheme = "https"

\* Every hop has its request, sent to names with public addresses only, and what
\* comes next does not go back to http.
FetchInv ==
  /\ FetchTypeOK
  /\ HttpsStays
  /\ Len(fetch.requests) <= fetch.hop + (IF fetch.at = "validate" THEN 0 ELSE 1)
  /\ \A i \in DOMAIN fetch.requests : no_reject_reason(fetch.requests[i].answers)
  /\ fetch.at = "validate" /\ Secured => fetch.url.scheme # "http"
  /\ fetch.at = "request" /\ Secured => fetch.target.scheme = "https"
  /\ fetch.at # "over" => fetch.outcome = "none"
  /\ PageIsTheSites

LEMMA FetchInitInv == FetchInit => FetchInv
<1> SUFFICES ASSUME FetchInit PROVE FetchInv
  OBVIOUS
<1>1. PICK url \in PageUrls :
        fetch = [at |-> "validate", asked |-> url, url |-> url, target |-> url, hop |-> 0,
                 requests |-> <<>>, status |-> 0, outcome |-> "none"]
  BY DEF FetchInit
<1>2. <<>> \in Seq(Requests) /\ Len(<<>>) = 0 /\ DOMAIN <<>> = {}
  OBVIOUS
<1> QED BY <1>1, <1>2, FetchAssumption DEF FetchInv, FetchTypeOK, HttpsStays, Secured, PageIsTheSites

\* A name resolves to a sequence of addresses.
LEMMA ResolvedType ==
  ASSUME NEW host \in Hosts, NEW answers \in Resolved(host)
  PROVE  answers \in Seq(Addresses)
<1>1. CASE host \in DOMAIN Literals
  <2>1. answers = <<Literals[host]>> /\ Literals[host] \in Addresses
    BY <1>1, FetchAssumption, Zenon DEF Resolved
  <2> QED BY <2>1
<1>2. CASE host \notin DOMAIN Literals
  <2>1. PICK n \in 0 .. MaxAnswers : answers \in [1 .. n -> Addresses]
    BY <1>2 DEF Resolved
  <2>2. n \in Nat
    BY FetchAssumption
  <2> QED BY <2>1, <2>2, SeqDef
<1> QED BY <1>1, <1>2

\* A step that ends the fetch for another reason than a page keeps the rest.
LEMMA EndsInv ==
  ASSUME FetchInv, fetch.at # "over", NEW outcm \in {"refused", "failed"}, Ends(outcm)
  PROVE  FetchInv'
<1>1. /\ FetchTypeOK' /\ fetch'.at = "over" /\ fetch'.outcome = outcm
      /\ fetch'.requests = fetch.requests /\ fetch'.hop = fetch.hop
  BY DEF Ends, FetchInv, FetchTypeOK
<1>2. fetch.requests \in Seq(Requests) /\ fetch.hop \in Nat
  BY FetchAssumption DEF FetchInv, FetchTypeOK
<1> QED BY <1>1, <1>2 DEF FetchInv, HttpsStays, PageIsTheSites

LEMMA FetchStep == FetchInv /\ [FetchNext]_fetchVars => FetchInv'
<1> SUFFICES ASSUME FetchInv, [FetchNext]_fetchVars PROVE FetchInv'
  OBVIOUS
<1>T. /\ FetchTypeOK /\ fetch.requests \in Seq(Requests) /\ fetch.url \in PageUrls
      /\ fetch.hop \in Nat
  BY FetchAssumption DEF FetchInv, FetchTypeOK
<1>1. ASSUME NEW answers \in Resolved(fetch.url.host), Validate(answers)
      PROVE  FetchInv'
  <2>1. CASE Ends("refused")
    BY <1>1, <2>1, EndsInv DEF Validate
  <2>2. CASE ~ Ends("refused")
    <3> DEFINE request == [url |-> fetch.url, ip |-> answers[1], answers |-> answers]
    <3>1. /\ fetch.url.scheme \in {"http", "https"} /\ answers # <<>> /\ no_reject_reason(answers)
          /\ fetch.at = "validate"
          /\ fetch' = [fetch EXCEPT !.at = "request", !.target = fetch.url,
                         !.requests = Append(@, request)]
      BY <1>1, <2>2 DEF Validate
    <3>2. answers \in Seq(Addresses) /\ answers[1] \in Addresses
      <4>1. fetch.url.host \in Hosts
        BY <1>T DEF PageUrls
      <4>2. answers \in Seq(Addresses)
        BY <4>1, ResolvedType
      <4> QED BY <3>1, <4>2
    <3>3. request \in Requests
      BY <1>T, <3>2 DEF Requests
    <3>4. request.url = fetch.url /\ request.answers = answers
      OBVIOUS
    <3> HIDE DEF request
    <3>5. /\ Append(fetch.requests, request) \in Seq(Requests)
          /\ Len(Append(fetch.requests, request)) = Len(fetch.requests) + 1
          /\ Append(fetch.requests, request)[Len(fetch.requests) + 1] = request
          /\ \A i \in DOMAIN fetch.requests : Append(fetch.requests, request)[i] = fetch.requests[i]
      BY <1>T, <3>3
    <3>6. /\ fetch'.requests = Append(fetch.requests, request) /\ fetch'.at = "request"
          /\ fetch'.target = fetch.url /\ fetch'.hop = fetch.hop /\ fetch'.outcome = fetch.outcome
      BY <1>T, <3>1 DEF FetchTypeOK
    <3>7. FetchTypeOK'
      BY <1>T, <3>1, <3>5 DEF FetchTypeOK
    <3>8. \A i \in DOMAIN fetch'.requests :
             \/ i \in DOMAIN fetch.requests /\ fetch'.requests[i] = fetch.requests[i]
             \/ fetch'.requests[i] = request /\ \A j \in DOMAIN fetch'.requests : ~ i < j
      BY <1>T, <3>5, <3>6
    <3>9. Secured => fetch.url.scheme = "https"
      BY <3>1 DEF FetchInv
    <3>10. HttpsStays'
      BY <1>T, <3>4, <3>5, <3>6, <3>8, <3>9 DEF FetchInv, HttpsStays, Secured
    <3>11. \A i \in DOMAIN fetch'.requests : no_reject_reason(fetch'.requests[i].answers)
      BY <3>1, <3>4, <3>8 DEF FetchInv
    <3>12. Secured' => fetch'.target.scheme = "https"
      BY <3>4, <3>6, <3>8, <3>9 DEF Secured
    <3> QED BY <1>T, <3>1, <3>5, <3>6, <3>7, <3>10, <3>11, <3>12 DEF FetchInv, PageIsTheSites
  <2> QED BY <2>1, <2>2
<1>2. ASSUME NEW to \in PageUrls, Redirect(to)
      PROVE  FetchInv'
  <2>1. CASE Ends("failed")
    BY <1>2, <2>1, EndsInv DEF Redirect
  <2>2. CASE ~ Ends("failed")
    <3>1. /\ fetch.at = "request" /\ fetch.hop # MAX_REDIRECTS
          /\ ~ (fetch.target.scheme = "https" /\ to.scheme = "http")
          /\ fetch' = [fetch EXCEPT !.at = "validate", !.url = to, !.hop = @ + 1]
      BY <1>2, <2>2 DEF Redirect, downgrades
    <3>2. /\ FetchTypeOK' /\ fetch'.at = "validate" /\ fetch'.url = to /\ fetch'.hop = fetch.hop + 1
          /\ fetch'.requests = fetch.requests /\ fetch'.outcome = fetch.outcome
      <4>1. fetch.hop \in 0 .. MAX_REDIRECTS /\ MAX_REDIRECTS \in Nat
        BY <1>T, FetchAssumption DEF FetchTypeOK
      <4>2. fetch.hop + 1 \in 0 .. MAX_REDIRECTS
        BY <3>1, <4>1
      <4> QED BY <1>T, <3>1, <4>2 DEF FetchTypeOK
    <3> QED BY <1>T, <3>1, <3>2 DEF FetchInv, HttpsStays, Secured, PageIsTheSites
  <2> QED BY <2>1, <2>2
<1>3. CASE NoLocationOrTimeout
  BY <1>3, EndsInv DEF NoLocationOrTimeout
<1>4. ASSUME NEW status \in Statuses, NEW mitigated \in BOOLEAN, NEW challenged \in BOOLEAN,
             Answer(status, mitigated, challenged)
      PROVE  FetchInv'
  <2> DEFINE made == page_outcome(status, classify_block(status, mitigated, challenged))
  <2>1. /\ made \in {"blocked", "http_error", "off_origin", "page"}
        /\ made = "page" => status \in 200 .. 299 /\ _same_site(fetch.target, fetch.asked)
    BY DEF page_outcome
  <2>2. fetch' = [fetch EXCEPT !.at = "over", !.status = status, !.outcome = made]
        /\ fetch.at = "request"
    BY <1>4 DEF Answer
  <2> HIDE DEF made
  <2>3. /\ FetchTypeOK' /\ fetch'.at = "over" /\ fetch'.status = status /\ fetch'.outcome = made
        /\ fetch'.requests = fetch.requests /\ fetch'.hop = fetch.hop
        /\ fetch'.target = fetch.target /\ fetch'.asked = fetch.asked
    BY <1>T, <2>1, <2>2 DEF FetchTypeOK
  <2> QED BY <1>T, <2>1, <2>2, <2>3 DEF FetchInv, HttpsStays, PageIsTheSites, _same_site
<1>5. CASE UNCHANGED fetchVars
  BY <1>5 DEF fetchVars, FetchInv, FetchTypeOK, HttpsStays, Secured, PageIsTheSites
<1> QED BY <1>1, <1>2, <1>3, <1>4, <1>5 DEF FetchNext

LEMMA FetchInvariance == FetchSpec => []FetchInv
BY FetchInitInv, FetchStep, PTL DEF FetchSpec

\* Whatever answers the names give at each hop, and wherever the redirects lead, the
\* requests go to public addresses only, MAX_REDIRECTS + 1 of them at most, and never
\* from https back to http (fetch_page, validate_url).
THEOREM RequestsPublic == FetchSpec => []RequestsGoPublic
<1>1. FetchInv => RequestsGoPublic
  <2> SUFFICES ASSUME FetchInv PROVE RequestsGoPublic
    OBVIOUS
  <2>1. fetch.requests \in Seq(Requests) /\ fetch.hop \in 0 .. MAX_REDIRECTS
    BY DEF FetchInv, FetchTypeOK
  <2>2. Len(fetch.requests) <= MAX_REDIRECTS + 1
    BY <2>1, FetchAssumption DEF FetchInv
  <2>3. ASSUME NEW i \in DOMAIN fetch.requests, NEW j \in DOMAIN fetch.requests[i].answers
        PROVE  /\ fetch.requests[i].answers[j].public
               /\ \A inner \in fetch.requests[i].answers[j].embeds : inner
    <3>0. fetch.requests[i] \in Requests
      BY <2>1
    <3>1. fetch.requests[i].answers \in Seq(Addresses)
      BY <3>0 DEF Requests
    <3>2. fetch.requests[i].answers[j] \in Addresses
      BY <3>1
    <3>3. fetch.requests[i].answers[j] \in [public : BOOLEAN, embeds : SUBSET BOOLEAN]
      BY <3>2, FetchAssumption
    <3>4. fetch.requests[i].answers[j].embeds \subseteq BOOLEAN
      BY <3>3
    <3>5. /\ fetch.requests[i].answers[j].public
          /\ FALSE \notin fetch.requests[i].answers[j].embeds
      BY Zenon DEF FetchInv, no_reject_reason
    <3> QED BY <3>4, <3>5, Zenon
  <2> QED BY <2>2, <2>3, Zenon DEF FetchInv, RequestsGoPublic
<1> QED BY <1>1, FetchInvariance, PTL

\* What the crawl keeps as a page is a success of the site it asked
\* (fetch_frontier_url, _same_site).
THEOREM PagesOfTheSite == FetchSpec => []PageIsTheSites
<1>1. FetchInv => PageIsTheSites
  BY DEF FetchInv
<1> QED BY <1>1, FetchInvariance, PTL
-----------------------------------------------------------------------------
(* The pass that asks a language model.                                     *)

RequestStates ==
  {"new", "blank", "queued", "sent", "summary", "failed", "raised", "never", "cut"}
Reasons == {"none", "deployment_disabled", "no_api_key", "started", "api_error"}

EnrichTypeOK ==
  /\ pass \in [at : {"begin", "asking", "end"}, requested : BOOLEAN, deployed : BOOLEAN,
               key : BOOLEAN]
  /\ asked_of \in [Ranks -> [url : RankedUrls, body : BOOLEAN, request : RequestStates]]

Summaries == {asked_of[p].url : p \in InState({"summary"})}

\* Once the pass has begun, whoever has a body is, or has been, in the line; before,
\* nobody is.  Nothing is given up by a deadline while anybody waits.
LineInv ==
  /\ pass.at = "begin" => InState({"new"}) = Ranks
  /\ pass.at = "asking" => InState({"new"}) = {} /\ unavailable_reason = "started"
  /\ InState({"new"}) = {} \/ InState({"new"}) = Ranks
  /\ pass.at # "end" => outcome = NotAsked
  /\ \A p \in Ranks : asked_of[p].request = "blank" => ~ asked_of[p].body
  /\ InState({"never", "cut"}) # {} => InState({"queued", "sent"}) = {}
  /\ pass.at = "asking" => InState({"never", "cut", "raised"}) = {}

\* What the pass records, of the requests it made.
RecordInv ==
  pass.at = "end" =>
    /\ outcome.applied <=> outcome.enriched # {}
    /\ outcome.enriched # {} => outcome.reason = "none"
    /\ outcome.enriched \subseteq Summaries
    /\ outcome.reason = "api_error" => InState({"failed", "raised"}) # {}
    /\ outcome.reason = "none" /\ pass.requested =>
         /\ InState({"queued", "sent"}) = {}
         /\ outcome.enriched = Summaries
    /\ outcome.reason \in {"deployment_disabled", "no_api_key"} => InState({"new"}) = Ranks

EnrichInv == EnrichTypeOK /\ LineInv /\ BestPagesFirst /\ RecordInv

LEMMA EnrichInitInv == EnrichInit => EnrichInv
BY DEF EnrichInit, EnrichInv, EnrichTypeOK, RequestStates, LineInv, BestPagesFirst, RecordInv,
     InState, Asked

\* A ranked page's request moves on: the others', the urls and the bodies stay.
LEMMA OneRequest ==
  ASSUME EnrichTypeOK, NEW p \in Ranks, NEW state \in RequestStates, SetRequest(p, state)
  PROVE  /\ asked_of' \in [Ranks -> [url : RankedUrls, body : BOOLEAN, request : RequestStates]]
         /\ asked_of'[p].request = state
         /\ \A q \in Ranks : /\ asked_of'[q].url = asked_of[q].url
                             /\ asked_of'[q].body = asked_of[q].body
                             /\ q # p => asked_of'[q].request = asked_of[q].request
<1>1. asked_of' = [asked_of EXCEPT ![p] = [asked_of[p] EXCEPT !.request = state]]
  BY DEF SetRequest
<1>2. asked_of[p] \in [url : RankedUrls, body : BOOLEAN, request : RequestStates]
  BY DEF EnrichTypeOK
<1> DEFINE r == [asked_of[p] EXCEPT !.request = state]
<1>3. /\ r \in [url : RankedUrls, body : BOOLEAN, request : RequestStates]
      /\ r.request = state /\ r.url = asked_of[p].url /\ r.body = asked_of[p].body
  BY <1>2
<1> HIDE DEF r
<1>4. asked_of' = [asked_of EXCEPT ![p] = r]
  BY <1>1 DEF r
<1> QED BY <1>3, <1>4 DEF EnrichTypeOK

\* The next in line is asked about, or somebody's request ends: what the line and
\* the record say stays true, and nobody is asked about before a better page.
LEMMA OneMoves ==
  ASSUME EnrichInv, NEW p \in Ranks, NEW state \in {"sent", "summary", "failed", "raised"},
         SetRequest(p, state), asked_of[p].request \in {"queued", "sent"},
         asked_of[p].request = "queued" => next_in_line(p),
         state \in {"summary", "failed", "raised"} => asked_of[p].request = "sent"
  PROVE  /\ asked_of' \in [Ranks -> [url : RankedUrls, body : BOOLEAN, request : RequestStates]]
         /\ BestPagesFirst'
         /\ InState({"new"})' = {} /\ InState({"new"}) = {} /\ p \notin InState({"new"})
         /\ InState({"never", "cut"})' = {}
         /\ InState({"raised"})' \subseteq InState({"raised"}) \cup {p}
         /\ \A q \in Ranks : asked_of'[q].request = "blank" => ~ asked_of'[q].body
         /\ Summaries \subseteq Summaries'
         /\ InState({"failed", "raised"}) \subseteq InState({"failed", "raised"})'
<1>1. /\ asked_of' \in [Ranks -> [url : RankedUrls, body : BOOLEAN, request : RequestStates]]
      /\ asked_of'[p].request = state
      /\ \A q \in Ranks : /\ asked_of'[q].url = asked_of[q].url
                          /\ asked_of'[q].body = asked_of[q].body
                          /\ q # p => asked_of'[q].request = asked_of[q].request
  BY OneRequest DEF EnrichInv, RequestStates
<1>2. /\ p \in InState({"queued", "sent"}) /\ p \notin InState({"new"})
      /\ InState({"new"}) = {} /\ InState({"never", "cut"}) = {}
  BY DEF EnrichInv, LineInv, InState
<1>3. /\ InState({"new"})' = {} /\ InState({"never", "cut"})' = {}
      /\ InState({"raised"})' \subseteq InState({"raised"}) \cup {p}
  BY <1>1, <1>2 DEF InState
<1>4. Summaries \subseteq Summaries'
  BY <1>1 DEF Summaries, InState
<1>5. InState({"failed", "raised"}) \subseteq InState({"failed", "raised"})'
  BY <1>1 DEF InState
<1>6. \A q \in Ranks : asked_of'[q].request = "blank" => ~ asked_of'[q].body
  BY <1>1 DEF EnrichInv, LineInv
<1>7. ASSUME NEW a \in Ranks, NEW b \in Ranks, a < b, asked_of'[a].body,
             asked_of'[b].request \in Asked
      PROVE  asked_of'[a].request \in Asked
  <2>1. asked_of[a].body
    BY <1>1, <1>7
  <2>2. CASE asked_of[b].request \in Asked
    BY <1>1, <1>7, <2>1, <2>2 DEF EnrichInv, BestPagesFirst, Asked
  <2>3. CASE asked_of[b].request \notin Asked
    <3>1. b = p /\ asked_of[p].request = "queued"
      BY <1>1, <1>7, <2>3 DEF Asked
    <3>2. a # p /\ asked_of[a].request # "queued"
      <4>1. a \in Int /\ b \in Int /\ ~ b <= a
        BY <1>7, EnrichAssumption DEF Ranks
      <4> QED BY <3>1, <4>1 DEF next_in_line, InState
    <3>3. asked_of[a].request \in RequestStates
      BY DEF EnrichInv, EnrichTypeOK
    <3>4. asked_of[a].request \notin {"new", "never", "cut", "blank"}
      BY <1>2, <2>1 DEF InState, EnrichInv, LineInv
    <3> QED BY <1>1, <3>2, <3>3, <3>4 DEF RequestStates, Asked
  <2> QED BY <2>2, <2>3
<1>8. BestPagesFirst'
  BY <1>7 DEF BestPagesFirst
<1> QED BY <1>1, <1>2, <1>3, <1>4, <1>5, <1>6, <1>8

\* The record is made of the requests that were answered.
LEMMA Recorded ==
  ASSUME apply_summaries
  PROVE  /\ outcome'.applied <=> outcome'.enriched # {}
         /\ outcome'.enriched = Summaries
         /\ outcome'.reason \in {"none", "api_error"}
         /\ outcome'.enriched # {} => outcome'.reason = "none"
         /\ outcome'.reason = "api_error" => InState({"failed"}) # {}
<1> DEFINE failures == Cardinality(InState({"failed"}))
<1>1. failures > 0 => InState({"failed"}) # {}
  <2>1. InState({"failed"}) = {} => failures = 0
    BY FS_EmptySet
  <2> QED BY <2>1
<1> HIDE DEF failures
<1>2. outcome' = result(Summaries, failures)
  BY DEF apply_summaries, enrichment, Summaries, failures
<1> QED BY <1>1, <1>2 DEF result

LEMMA EnrichStep == EnrichInv /\ [EnrichNext]_enrichVars => EnrichInv'
<1> SUFFICES ASSUME EnrichInv, [EnrichNext]_enrichVars PROVE EnrichInv'
  OBVIOUS
<1>T. EnrichTypeOK
  BY DEF EnrichInv
<1>1. CASE Unavailable
  <2>1. /\ pass' = [pass EXCEPT !.at = "end"] /\ asked_of' = asked_of
        /\ pass.at = "begin" /\ InState({"new"}) = Ranks
        /\ outcome' = [NotAsked EXCEPT !.reason = unavailable_reason]
        /\ unavailable_reason # "started"
    BY <1>1 DEF Unavailable, EndPass, EnrichInv, LineInv
  <2>2. EnrichTypeOK' /\ pass'.at = "end" /\ pass'.requested = pass.requested
    BY <1>T, <2>1 DEF EnrichTypeOK
  <2>3. outcome'.enriched = {} /\ ~ outcome'.applied /\ outcome'.reason = unavailable_reason
    BY <2>1 DEF NotAsked
  <2>4. /\ unavailable_reason = "none" => ~ pass.requested
        /\ unavailable_reason # "api_error"
    BY DEF unavailable_reason
  <2>5. RecordInv'
    BY <2>1, <2>2, <2>3, <2>4 DEF RecordInv, InState
  <2>6. LineInv' /\ BestPagesFirst'
    BY <2>1, <2>2 DEF EnrichInv, LineInv, BestPagesFirst, InState
  <2> QED BY <2>2, <2>5, <2>6 DEF EnrichInv
<1>2. CASE BeginPass
  <2>1. /\ pass' = [pass EXCEPT !.at = "asking"] /\ outcome' = outcome /\ pass.at = "begin"
        /\ unavailable_reason = "started" /\ outcome = NotAsked
    BY <1>2 DEF BeginPass, EnrichInv, LineInv
  <2>2. \A p \in Ranks :
          /\ asked_of'[p] \in [url : RankedUrls, body : BOOLEAN, request : RequestStates]
          /\ asked_of'[p].request = IF asked_of[p].body THEN "queued" ELSE "blank"
          /\ asked_of'[p].body = asked_of[p].body
    <3> SUFFICES ASSUME NEW p \in Ranks
                 PROVE  /\ asked_of'[p] \in [url : RankedUrls, body : BOOLEAN,
                                             request : RequestStates]
                        /\ asked_of'[p].request = IF asked_of[p].body THEN "queued" ELSE "blank"
                        /\ asked_of'[p].body = asked_of[p].body
      OBVIOUS
    <3>1. asked_of[p] \in [url : RankedUrls, body : BOOLEAN, request : RequestStates]
      BY <1>T DEF EnrichTypeOK
    <3> DEFINE state == IF asked_of[p].body THEN "queued" ELSE "blank"
    <3>2. asked_of'[p] = [asked_of[p] EXCEPT !.request = state]
      BY <1>2, Zenon DEF BeginPass
    <3>3. state \in RequestStates
      BY DEF RequestStates
    <3> HIDE DEF state
    <3>4. asked_of'[p].request = state /\ asked_of'[p].body = asked_of[p].body
          /\ asked_of'[p] \in [url : RankedUrls, body : BOOLEAN, request : RequestStates]
      BY <3>1, <3>2, <3>3
    <3> QED BY <3>4 DEF state
  <2>3. EnrichTypeOK' /\ pass'.at = "asking" /\ unavailable_reason' = "started"
    <3>1. asked_of' \in [Ranks -> [url : RankedUrls, body : BOOLEAN, request : RequestStates]]
      BY <1>2, <2>2 DEF BeginPass
    <3>2. /\ pass'.requested = pass.requested /\ pass'.deployed = pass.deployed
          /\ pass'.key = pass.key /\ pass'.at = "asking"
      BY <1>T, <2>1 DEF EnrichTypeOK
    <3> QED BY <1>T, <2>1, <3>1, <3>2 DEF EnrichTypeOK, unavailable_reason
  <2>4. LineInv'
    BY <2>1, <2>2, <2>3 DEF LineInv, InState
  <2>5. BestPagesFirst' /\ RecordInv'
    BY <2>2, <2>3 DEF BestPagesFirst, RecordInv, Asked
  <2> QED BY <2>3, <2>4, <2>5 DEF EnrichInv
<1>3. ASSUME NEW p \in Ranks, Send(p) \/ Summarized(p) \/ RequestFails(p)
      PROVE  EnrichInv'
  <2>1. PICK state \in {"sent", "summary", "failed"} :
          /\ SetRequest(p, state) /\ asked_of[p].request \in {"queued", "sent"}
          /\ asked_of[p].request = "queued" => next_in_line(p)
          /\ state \in {"summary", "failed"} => asked_of[p].request = "sent"
          /\ UNCHANGED <<pass, outcome>>
    BY <1>3 DEF Send, Summarized, RequestFails
  <2>2. \A q \in Ranks : q # p => asked_of'[q].request = asked_of[q].request
    BY <1>T, <2>1, OneRequest DEF RequestStates
  <2>3. p \in InState({"queued", "sent"}) /\ asked_of'[p].request = state
    BY <1>T, <2>1, OneRequest DEF InState, RequestStates
  <2>4. LineInv'
    BY <2>1, <2>2, <2>3, OneMoves DEF EnrichInv, LineInv, InState, unavailable_reason
  <2>5. RecordInv'
    BY <2>1, <2>3, OneMoves DEF EnrichInv, RecordInv
  <2> QED BY <1>T, <2>1, <2>4, <2>5, OneMoves DEF EnrichInv, EnrichTypeOK
<1>4. CASE AllAnswered
  <2>1. /\ pass' = [pass EXCEPT !.at = "end"] /\ asked_of' = asked_of /\ pass.at = "asking"
        /\ InState({"queued", "sent"}) = {}
    BY <1>4 DEF AllAnswered, EndPass
  <2>2. EnrichTypeOK' /\ pass'.at = "end" /\ UNCHANGED asked_of
    BY <1>T, <2>1 DEF EnrichTypeOK
  <2>3. LineInv' /\ BestPagesFirst'
    BY <2>1, <2>2 DEF EnrichInv, LineInv, BestPagesFirst, InState
  <2>4. RecordInv'
    BY <1>4, <2>1, <2>2, Recorded DEF AllAnswered, RecordInv, InState, Summaries
  <2> QED BY <2>2, <2>3, <2>4 DEF EnrichInv
<1>5. CASE Deadline
  <2>1. pass' = [pass EXCEPT !.at = "end"] /\ pass.at = "asking" /\ apply_summaries
    BY <1>5 DEF Deadline, EndPass
  <2> DEFINE R == [url : RankedUrls, body : BOOLEAN, request : RequestStates]
             Cut(state) == IF state = "queued" THEN "never" ELSE IF state = "sent" THEN "cut"
                           ELSE state
  <2>2. ASSUME NEW p \in Ranks
        PROVE  /\ asked_of'[p] \in R /\ asked_of'[p].request = Cut(asked_of[p].request)
               /\ asked_of'[p].url = asked_of[p].url /\ asked_of'[p].body = asked_of[p].body
    <3>1. asked_of[p] \in R /\ asked_of[p].request \in RequestStates
      BY <1>T DEF EnrichTypeOK
    <3> DEFINE state == Cut(asked_of[p].request)
    <3>2. asked_of'[p] = [asked_of[p] EXCEPT !.request = state]
      BY <1>5, Zenon DEF Deadline
    <3>3. state \in RequestStates
      BY <3>1 DEF RequestStates
    <3> HIDE DEF state
    <3>4. asked_of'[p] \in R /\ asked_of'[p].request = state
          /\ asked_of'[p].url = asked_of[p].url /\ asked_of'[p].body = asked_of[p].body
      BY <3>1, <3>2, <3>3
    <3> QED BY <3>4 DEF state
  <2>3. EnrichTypeOK' /\ pass'.at = "end"
    BY <1>5, <1>T, <2>1, <2>2 DEF Deadline, EnrichTypeOK
  <2>4. /\ InState({"queued", "sent"})' = {} /\ InState({"new"})' = {}
        /\ \A p \in Ranks : asked_of'[p].request = "blank" => ~ asked_of'[p].body
        /\ Summaries' = Summaries /\ InState({"failed"})' = InState({"failed"})
    BY <2>1, <2>2 DEF EnrichInv, LineInv, InState, Summaries
  <2>5. LineInv'
    BY <2>3, <2>4 DEF LineInv
  <2>6. BestPagesFirst'
    BY <2>2 DEF EnrichInv, BestPagesFirst, Asked
  <2>7. RecordInv'
    BY <2>1, <2>3, <2>4, Recorded DEF RecordInv, InState
  <2> QED BY <2>3, <2>5, <2>6, <2>7 DEF EnrichInv
<1>6. ASSUME NEW p \in Ranks, Unexpected(p)
      PROVE  EnrichInv'
  <2>1. SetRequest(p, "raised") /\ asked_of[p].request = "sent"
    BY <1>6 DEF Unexpected
  <2>2. \A q \in Ranks : q # p => asked_of'[q].request = asked_of[q].request
    BY <1>T, <2>1, OneRequest DEF RequestStates
  <2>3. p \in InState({"queued", "sent"}) /\ asked_of'[p].request = "raised"
        /\ p \in InState({"failed", "raised"})'
    BY <1>T, <2>1, OneRequest DEF InState, RequestStates
  <2>4. CASE pass.at = "asking"
    <3>1. pass' = [pass EXCEPT !.at = "end"] /\ outcome' = [NotAsked EXCEPT !.reason = "api_error"]
      BY <1>6, <2>4 DEF Unexpected, EndPass
    <3>2. pass'.at = "end" /\ EnrichTypeOK'
      BY <1>T, <2>1, <3>1, OneMoves DEF EnrichTypeOK
    <3>3. /\ outcome'.enriched = {} /\ ~ outcome'.applied /\ outcome'.reason = "api_error"
      BY <3>1 DEF NotAsked
    <3>4. RecordInv'
      BY <2>3, <3>2, <3>3 DEF RecordInv
    <3>5. LineInv'
      BY <2>1, <3>2, OneMoves DEF LineInv
    <3> QED BY <2>1, <3>2, <3>4, <3>5, OneMoves DEF EnrichInv
  <2>5. CASE pass.at # "asking"
    <3>1. pass.at = "end" /\ UNCHANGED <<pass, outcome>>
      BY <1>6, <1>T, <2>1, <2>5, OneMoves DEF Unexpected, EnrichTypeOK, EnrichInv, LineInv
    <3>2. LineInv'
      BY <2>1, <2>3, <3>1, OneMoves DEF EnrichInv, LineInv
    <3>3. RecordInv'
      BY <2>1, <2>3, <3>1, OneMoves DEF EnrichInv, RecordInv
    <3> QED BY <1>T, <2>1, <3>1, <3>2, <3>3, OneMoves DEF EnrichInv, EnrichTypeOK
  <2> QED BY <2>4, <2>5
<1>8. CASE UNCHANGED enrichVars
  BY <1>8 DEF enrichVars, EnrichInv, EnrichTypeOK, LineInv, BestPagesFirst, RecordInv, InState,
       Summaries, unavailable_reason
<1> QED BY <1>1, <1>2, <1>3, <1>4, <1>5, <1>6, <1>8 DEF EnrichNext

\* The record of the pass is what happened in it, and the model is asked about the
\* best pages first, however many there are and whichever fail, raise, or are cut off
\* (enrich_pages, EnrichmentOutcome).
THEOREM OutcomeTrue == EnrichSpec => []OutcomeHonest
<1>1. EnrichInv => OutcomeHonest
  <2> SUFFICES ASSUME EnrichInv PROVE OutcomeHonest
    OBVIOUS
  <2>1. outcome.reason = "api_error" => outcome.enriched = {}
    <3>1. pass.at = "end" \/ outcome = NotAsked
      BY DEF EnrichInv, LineInv
    <3> QED BY <3>1 DEF EnrichInv, RecordInv, NotAsked
  <2>2. Summaries = {} => InState({"summary"}) = {}
    BY DEF Summaries
  <2> QED BY <2>1, <2>2 DEF EnrichInv, RecordInv, OutcomeHonest, Summaries
<1> QED BY <1>1, EnrichInitInv, EnrichStep, PTL DEF EnrichSpec
=============================================================================
