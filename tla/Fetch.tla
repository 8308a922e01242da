-------------------------------- MODULE Fetch --------------------------------
(***************************************************************************)
(* fetch_page: one page, across the redirects that lead to it, each hop    *)
(* validated before a connection is opened; and what the crawl makes of    *)
(* the answer.                                                             *)
(*                                                                         *)
(* A URL is a scheme, a host and a port.  Names are resolved anew at every *)
(* hop, to whatever their owner answers then.  An address is what _classify*)
(* says of it ("public" or not) and of the IPv4 addresses it embeds.       *)
(***************************************************************************)
EXTENDS Integers, Sequences, FiniteSets

CONSTANTS
  Names,          \* host names; two of them may be www. spellings of one site
  Site,           \* host -> the site it is a spelling of
  Literals,       \* hosts that are IP addresses: literal -> the address
  Addresses,      \* [public, embeds]: embeds holds one BOOLEAN per embedded address
  Ports,          \* how the port of a URL is spelled, if it is
  AllowedPorts,   \* those that spell, or default to, one of ALLOWED_PORTS
  MAX_REDIRECTS,
  Statuses,       \* final statuses
  MaxAnswers      \* bound on the addresses one name resolves to

Hosts == Names \cup DOMAIN Literals
PageUrls == [scheme : {"http", "https", "other"}, host : Hosts, port : Ports]

ASSUME FetchAssumption ==
  /\ MAX_REDIRECTS \in Nat /\ MaxAnswers \in Nat /\ AllowedPorts \subseteq Ports
  /\ Addresses \subseteq [public : BOOLEAN, embeds : SUBSET BOOLEAN]
  /\ \A h \in DOMAIN Literals : Literals[h] \in Addresses
  /\ DOMAIN Site = Hosts /\ Names \cap DOMAIN Literals = {}

VARIABLE fetch   \* the fetch_page under way, or its outcome

fetchVars == <<fetch>>

\* requests is what has been sent so far: a history that the code does not keep.
FetchInit ==
  \E url \in PageUrls :
    fetch = [at |-> "validate", asked |-> url, url |-> url, target |-> url, hop |-> 0,
             requests |-> <<>>, status |-> 0, outcome |-> "none"]

Ends(outcome) == fetch' = [fetch EXCEPT !.at = "over", !.outcome = outcome]

-----------------------------------------------------------------------------
(* validate_url                                                             *)

\* Mutant: only the address that will be dialled is looked at.
first_only(answers) == answers[1].public /\ FALSE \notin answers[1].embeds

\* Every address a name has must be public, with all it embeds.
no_reject_reason(answers) ==
  \A i \in DOMAIN answers : answers[i].public /\ FALSE \notin answers[i].embeds

Resolved(host) ==
  IF host \in DOMAIN Literals THEN {<<Literals[host]>>}
  ELSE UNION {[1 .. n -> Addresses] : n \in 0 .. MaxAnswers}

Validate(answers) ==
  /\ fetch.at = "validate" /\ answers \in Resolved(fetch.url.host)
  /\ IF /\ fetch.url.scheme \in {"http", "https"} /\ fetch.url.port \in AllowedPorts
        /\ answers # <<>> /\ no_reject_reason(answers)
     THEN fetch' = [fetch EXCEPT !.at = "request", !.target = fetch.url,
                      !.requests = Append(@, [url |-> fetch.url, ip |-> answers[1],
                                              answers |-> answers])]
     ELSE Ends("refused")

-----------------------------------------------------------------------------
(* The answer.                                                              *)

downgrades(to) == fetch.target.scheme = "https" /\ to.scheme = "http"

Redirect(to) ==
  /\ fetch.at = "request"
  /\ IF downgrades(to) \/ fetch.hop = MAX_REDIRECTS THEN Ends("failed")
     ELSE fetch' = [fetch EXCEPT !.at = "validate", !.url = to, !.hop = @ + 1]

NoLocationOrTimeout == fetch.at = "request" /\ Ends("failed")

\* A challenge is recognised by its headers and title (challenged), on any status
\* that is not 2xx with cf-mitigated, on a 403 or 503 by Cloudflare's title.
classify_block(status, mitigated, challenged) ==
  LET marked == mitigated \/ (status \in {403, 503} /\ challenged) IN
  IF status \notin 200 .. 299 /\ (marked \/ status \in {401, 403}) THEN "blocked" ELSE "none"

\* Host and port as they are spelled, a leading www. aside.
_same_site(a, b) == Site[a.host] = Site[b.host] /\ a.port = b.port

\* Mutant: a page that stayed on the site is kept before its status is looked at.
page_kept_first(status, blocked) ==
  IF blocked # "none" THEN "blocked"
  ELSE IF _same_site(fetch.target, fetch.asked) THEN "page"
  ELSE IF status \notin 200 .. 299 THEN "http_error"
  ELSE "off_origin"

\* fetch_frontier_url: what becomes of the page.
page_outcome(status, blocked) ==
  IF blocked # "none" THEN "blocked"
  ELSE IF status \notin 200 .. 299 THEN "http_error"
  ELSE IF ~ _same_site(fetch.target, fetch.asked) THEN "off_origin"
  ELSE "page"

Answer(status, mitigated, challenged) ==
  /\ fetch.at = "request"
  /\ fetch' = [fetch EXCEPT !.at = "over", !.status = status,
       !.outcome = page_outcome(status, classify_block(status, mitigated, challenged))]

FetchNext ==
  \/ \E answers \in Resolved(fetch.url.host) : Validate(answers)
  \/ \E to \in PageUrls : Redirect(to)
  \/ NoLocationOrTimeout
  \/ \E status \in Statuses, mitigated, challenged \in BOOLEAN : Answer(status, mitigated, challenged)

FetchSpec == FetchInit /\ [][FetchNext]_fetchVars

-----------------------------------------------------------------------------

\* A chain of redirects that has reached https does not leave it again.
HttpsStays ==
  \A i, j \in DOMAIN fetch.requests :
    i < j /\ fetch.requests[i].url.scheme = "https" => fetch.requests[j].url.scheme = "https"

\* validate_url on every hop: whatever a name resolves to at the time, and
\* wherever a redirect leads, requests go to public addresses of names that have
\* no other ones, MAX_REDIRECTS + 1 of them at most, and not from https to http.
RequestsGoPublic ==
  /\ HttpsStays
  /\ Len(fetch.requests) <= MAX_REDIRECTS + 1
  /\ \A i \in DOMAIN fetch.requests : \A j \in DOMAIN fetch.requests[i].answers :
       LET address == fetch.requests[i].answers[j] IN
       address.public /\ \A inner \in address.embeds : inner

\* A page of the index is an answer of the site that was asked, and one that says
\* it is the page: not an error page, not another site's, not a refusal.
PageIsTheSites ==
  fetch.outcome = "page" => /\ fetch.status \in 200 .. 299
                            /\ Site[fetch.target.host] = Site[fetch.asked.host]
=============================================================================
