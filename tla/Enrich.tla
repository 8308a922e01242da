------------------------------- MODULE Enrich -------------------------------
(***************************************************************************)
(* The optional pass that asks a language model for a title and a          *)
(* description of every page (crawl/internals/enrich.py and the two-level  *)
(* gate around it in crawl/service.py): one request per page that has a    *)
(* body, in the order the pages rank, Concurrency at a time, all of it     *)
(* under one deadline.  A page's request may fail, and may raise something *)
(* nobody expected; the run goes on in every case.                         *)
(***************************************************************************)
EXTENDS Integers, FiniteSets

CONSTANTS
    RankedPages,   \* how many pages rank_pages returns
    RankedUrls,      \* their urls: two pages may have ended on the same one
    InFlight       \* crawl_enrich_concurrency

ASSUME EnrichAssumption == RankedPages \in Nat \ {0} /\ InFlight \in Nat \ {0}

VARIABLES
    pass,      \* .at, and what the settings and the website ask for
    asked_of,  \* each ranked page: its url, whether it has a body, its request
    outcome    \* what the run records: pages enriched, failures, applied, reason

enrichVars == <<pass, asked_of, outcome>>

Ranks == 1..RankedPages
InState(states) == {p \in Ranks : asked_of[p].request \in states}

NotAsked == [enriched |-> {}, failures |-> 0, applied |-> FALSE, reason |-> "none"]

EnrichInit ==
    /\ pass \in [at : {"begin"}, requested : BOOLEAN, deployed : BOOLEAN, key : BOOLEAN]
    /\ asked_of \in [Ranks -> [url : RankedUrls, body : BOOLEAN, request : {"new"}]]
    /\ outcome = NotAsked

unavailable_reason ==
    IF ~pass.requested THEN "none"
    ELSE IF ~pass.deployed THEN "deployment_disabled"
    ELSE IF ~pass.key THEN "no_api_key" ELSE "started"

EndPass == pass' = [pass EXCEPT !.at = "end"]

Unavailable ==
    /\ pass.at = "begin" /\ unavailable_reason # "started"
    /\ EndPass
    /\ outcome' = [outcome EXCEPT !.reason = unavailable_reason]
    /\ UNCHANGED asked_of

\* asyncio.gather starts one task per page, in list order: a page without a
\* body returns before the semaphore, the others queue for it in that order.
BeginPass ==
    /\ pass.at = "begin" /\ unavailable_reason = "started"
    /\ pass' = [pass EXCEPT !.at = "asking"]
    /\ asked_of' = [p \in Ranks |-> [asked_of[p] EXCEPT !.request =
                                        IF asked_of[p].body THEN "queued" ELSE "blank"]]
    /\ UNCHANGED outcome

\* The semaphore is first come first served.
next_in_line(p) == \A q \in InState({"queued"}) : p <= q

SetRequest(p, state) == asked_of' = [asked_of EXCEPT ![p].request = state]

\* After an unexpected exception gather has let go of the tasks, which run on.
Send(p) ==
    /\ asked_of[p].request = "queued" /\ next_in_line(p)
    /\ Cardinality(InState({"sent"})) < InFlight
    /\ SetRequest(p, "sent")
    /\ UNCHANGED <<pass, outcome>>

Summarized(p) ==
    /\ asked_of[p].request = "sent"
    /\ SetRequest(p, "summary")
    /\ UNCHANGED <<pass, outcome>>

\* An API error, or an answer _parse_summary cannot use.
RequestFails(p) ==
    /\ asked_of[p].request = "sent"
    /\ SetRequest(p, "failed")
    /\ UNCHANGED <<pass, outcome>>

\* summaries is keyed by url; the counters are read when the pass is over.
result(summaries, failures) ==
    [enriched |-> summaries, failures |-> failures,
     applied |-> summaries # {},
     reason |-> IF summaries = {} /\ failures > 0 THEN "api_error" ELSE "none"]

\* Mutant: any failure is reported as the pass's own.
result_by_failures(summaries, failures) ==
    [enriched |-> summaries, failures |-> failures,
     applied |-> summaries # {},
     reason |-> IF failures > 0 THEN "api_error" ELSE "none"]

enrichment(summaries, failures) == result(summaries, failures)

apply_summaries ==
    outcome' = enrichment({asked_of[p].url : p \in InState({"summary"})},
                          Cardinality(InState({"failed"})))

AllAnswered ==
    /\ pass.at = "asking" /\ InState({"queued", "sent"}) = {}
    /\ apply_summaries /\ EndPass
    /\ UNCHANGED asked_of

\* asyncio.timeout cancels what is queued and in flight; neither is counted.
Deadline ==
    /\ pass.at = "asking" /\ InState({"queued", "sent"}) # {}
    /\ apply_summaries /\ EndPass
    /\ asked_of' = [p \in Ranks |-> [asked_of[p] EXCEPT !.request =
                        IF @ = "queued" THEN "never" ELSE IF @ = "sent" THEN "cut" ELSE @]]

\* Any other exception leaves enrich_pages at once: nothing is applied.
Unexpected(p) ==
    /\ asked_of[p].request = "sent"
    /\ SetRequest(p, "raised")
    /\ IF pass.at = "asking"
       THEN EndPass /\ outcome' = [NotAsked EXCEPT !.reason = "api_error"]
       ELSE UNCHANGED <<pass, outcome>>

EnrichNext ==
    \/ Unavailable \/ BeginPass \/ AllAnswered \/ Deadline
    \/ \E p \in Ranks : Send(p) \/ Summarized(p) \/ RequestFails(p) \/ Unexpected(p)

EnrichSpec == EnrichInit /\ [][EnrichNext]_enrichVars
-----------------------------------------------------------------------------
Asked == {"sent", "summary", "failed", "raised", "cut"}

\* Whatever the deadline cuts off, the pages asked about are the best-ranked of
\* those that have a body: a request is never sent past a page still waiting.
BestPagesFirst ==
    \A p, q \in Ranks : p < q /\ asked_of[p].body
        /\ asked_of[q].request \in Asked
        => asked_of[p].request \in Asked

\* What the run records about the pass is what happened in it: "applied" with
\* a summary in the artifact and no reason beside it, "api_error" only when a
\* request was made and no summary is used, the two settings when they forbid;
\* and the model was asked about the best pages.
OutcomeHonest ==
    /\ BestPagesFirst
    /\ pass.at = "end" =>
        /\ outcome.applied <=> outcome.enriched # {}
        /\ outcome.applied => outcome.reason = "none"
        /\ outcome.enriched \subseteq {asked_of[p].url : p \in InState({"summary"})}
        /\ outcome.reason = "api_error" =>
              InState({"failed", "raised"}) # {} /\ outcome.enriched = {}
        /\ outcome.reason = "none" /\ pass.requested /\ ~outcome.applied =>
              InState({"summary"}) = {}
        /\ outcome.reason \in {"deployment_disabled", "no_api_key"} =>
              InState({"new"}) = Ranks
=============================================================================
