------------------------------ MODULE MCParts ------------------------------
(***************************************************************************)
(* The parts of the system that share no state with one another in one     *)
(* instance: the first state chooses the part that runs, and the others    *)
(* keep an initial state of theirs.                                        *)
(***************************************************************************)
EXTENDS Crawl, MCSelection, Robots, Fetch, LlmsTxt, IndexDiff, RunReads, Admission, Jwks,
        Enrich, Websites, Tokens, TLC

VARIABLE part

-----------------------------------------------------------------------------
\* Fetch: a public address, one that embeds a private one, and a private one.
MCPublic == [public |-> TRUE, embeds |-> {}]
MCEmbedding == [public |-> TRUE, embeds |-> {FALSE}]
MCPrivate == [public |-> FALSE, embeds |-> {}]
MCAddresses == {MCPublic, MCEmbedding, MCPrivate}
MCSite == [site |-> "site", www_site |-> "site", other |-> "other", literal |-> "literal"]
MCLiterals == [literal |-> MCPrivate]

\* LlmsTxt: the root, a page at "/docs", a www. spelling, one in an optional
\* section and one deeper that two sections claim.
LOCAL U(origin, depth, claims, segment, optional, linked, priority, lastmod) ==
  [site |-> origin, depth |-> depth, claims |-> claims, segment |-> segment,
   optional |-> optional, linked |-> linked, priority |-> priority, lastmod |-> lastmod]
LOCAL B(print, buckets, paragraph, size) ==
  [print |-> print, buckets |-> buckets, paragraph |-> paragraph, size |-> size]
LOCAL P(url, title, description, body) ==
  [url |-> url, title |-> title, description |-> description, body |-> body]

MCUrlTraits == <<
  U("exact", 0, {}, Undeclared, FALSE, FALSE, Undeclared, Undeclared),
  U("exact", 1, {}, 11, FALSE, TRUE, Undeclared, 1),
  U("www", 1, {}, 11, FALSE, FALSE, 9, 3),
  U("exact", 1, {2}, Undeclared, TRUE, FALSE, Undeclared, Undeclared),
  U("exact", 2, {1, 2}, Undeclared, FALSE, FALSE, Undeclared, 3) >>
MCBodyTraits ==
  (0 :> B(0, 0, 0, 0)) @@ (1 :> B(1, 1, 2, 1)) @@ (2 :> B(1, 2, 0, 4)) @@
  (3 :> B(2, 0, 0, 2)) @@ (4 :> B(3, 0, 1, 3)) @@ (5 :> B(4, 1, 0, 1))
MCSentence == (0 :> 0) @@ (1 :> 1) @@ (2 :> 0)
MCPageKinds ==
  { P(1, 1, 1, 1), P(2, 0, 1, 3), P(2, 1, 0, 3), P(3, 0, 1, 4), P(4, 0, 2, 5), P(4, 0, 1, 0),
    P(5, 2, 1, 2), P(5, 2, 0, 4) }
MCWeights == (0 :> 180) @@ (1 :> 120) @@ (2 :> 30)

\* IndexDiff: pages whose urls differ in a trailing slash, hold a blank or hold the
\* escape that stands for one; words, bodies and sections differ one at a time.
LOCAL D(url, words, body, section) ==
  [url |-> url, words |-> words, body |-> body, section |-> section]

MCDiffPages ==
  { D(<<"a">>, 1, 1, 1), D(<<"a", "/">>, 1, 1, 1), D(<<"a">>, 2, 1, 1), D(<<"a", "/">>, 1, 2, 1),
    D(<<"b", "%20">>, 1, 3, 1), D(<<"b", "%20">>, 1, 4, 2),
    D(<<"b", " ">>, 1, 0, 2), D(<<"b", " ">>, 2, 1, 2), D(<<"b", " ">>, 2, 4, 2) }

MCEscapes == (" " :> "%20")

\* Websites: two spellings of one origin.
MCSubmittedUrls ==
  { [scheme |-> "https", host |-> <<"shop", "com">>, port |-> 0],
    [scheme |-> "https", host |-> <<"www", "shop", "com">>, port |-> 443] }

-----------------------------------------------------------------------------
MCInit ==
  /\ part \in {"crawl", "selection", "robots", "fetch", "llms_txt", "index_diff", "reads",
               "admission", "jwks", "enrich", "websites", "tokens"}
  /\ CrawlInit /\ SelectionInit /\ RobotsInit /\ LlmsInit /\ ReadsInit /\ AdmissionInit
  /\ WebsitesInit /\ TokensInit
  /\ IF part = "fetch" THEN FetchInit
     ELSE fetch = [at |-> "done", asked |-> "none", url |-> "none", target |-> "none", hop |-> 0,
                   requests |-> <<>>, status |-> 0, outcome |-> "failed"]
  /\ IF part = "index_diff" THEN IndexDiffInit
     ELSE before = [pages |-> <<>>, enriched |-> FALSE] /\ now = [pages |-> <<>>, enriched |-> FALSE]
  /\ JwksInit /\ (part = "jwks" \/ published = {})
  /\ IF part = "enrich" THEN EnrichInit
     ELSE /\ pass = [at |-> "begin", requested |-> FALSE, deployed |-> FALSE, key |-> FALSE]
          /\ asked_of = [p \in Ranks |-> [url |-> "none", body |-> FALSE, request |-> "new"]]
          /\ outcome = NotAsked

others(chosen) ==
  /\ part = chosen /\ UNCHANGED part
  /\ chosen = "crawl" \/ UNCHANGED crawlVars
  /\ chosen = "selection" \/ UNCHANGED selectionVars
  /\ chosen = "robots" \/ UNCHANGED robotsVars
  /\ chosen = "fetch" \/ UNCHANGED fetchVars
  /\ chosen = "llms_txt" \/ UNCHANGED llmsVars
  /\ chosen = "index_diff" \/ UNCHANGED diffVars
  /\ chosen = "reads" \/ UNCHANGED readsVars
  /\ chosen = "admission" \/ UNCHANGED admissionVars
  /\ chosen = "jwks" \/ UNCHANGED jwksVars
  /\ chosen = "enrich" \/ UNCHANGED enrichVars
  /\ chosen = "websites" \/ UNCHANGED websitesVars
  /\ chosen = "tokens" \/ UNCHANGED tokenVars

MCNext ==
  \/ others("crawl") /\ CrawlNext
  \/ others("selection") /\ SelectionNext
  \/ others("robots") /\ RobotsNext
  \/ others("fetch") /\ FetchNext
  \/ others("llms_txt") /\ LlmsNext
  \/ others("index_diff") /\ IndexDiffNext
  \/ others("reads") /\ ReadsNext
  \/ others("admission") /\ AdmissionNext
  \/ others("jwks") /\ JwksNext
  \/ others("enrich") /\ EnrichNext
  \/ others("websites") /\ WebsitesNext
  \/ others("tokens") /\ TokensNext

\* Admission: no step is taken from four runs that count at one time.
\* RunReads: rows start in the first bucket or in one of the last two; a client
\* pages at the first two instants, and asks for statistics at the last, whose
\* window leaves the first bucket out.  Nothing happens once it has its answer.
AskedOnce ==
  /\ Cardinality(DOMAIN started) <= 3
  /\ paging.at \notin {"done", "404"} /\ report.at \notin {"done", "404"}
  /\ instant \in {0, 3, 4}
  /\ paging.at # "idle" => instant <= 3
  /\ report.at # "idle" => instant = 4
=============================================================================
