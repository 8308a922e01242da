------------------------------- MODULE Tokens -------------------------------
(***************************************************************************)
(* The GitHub installation tokens a process keeps (publish/internals/      *)
(* github_app.py): the API's process, which lists repositories and         *)
(* disconnects installations, and the worker's, which publishes, have a    *)
(* cache each.  Concurrent callers of one process may each exchange a      *)
(* token and overwrite each other's.  GitHub expires tokens, and may       *)
(* invalidate those it has issued at any time.                             *)
(***************************************************************************)
EXTENDS Integers, Sequences

CONSTANTS
    Callers,       \* concurrent publications and listings of one installation
    TokenTtl,      \* github_token_ttl_s, in ticks
    TokenLife,     \* how long GitHub accepts a token it issued
    MaxExchange,   \* ticks an exchange may take: _TOKEN_REQUEST_TIMEOUT_S
    MaxUse,        \* ticks a job or request uses one token: JOB_TIMEOUT_SECONDS
    MaxTokens      \* bound: tokens issued

ASSUME TokensAssumption ==
    /\ TokenTtl \in Nat \ {0} /\ {TokenLife, MaxExchange, MaxUse, MaxTokens} \subseteq Nat
    /\ TokenTtl + MaxExchange + MaxUse <= TokenLife

VARIABLES
    kept,     \* process -> the cached token (0: none) and its age since caching
    caller,   \* each caller: where it stands, its token, ticks spent there
    issued    \* token -> ticks since GitHub issued it, and whether it is accepted

tokenVars == <<kept, caller, issued>>

Kinds == {"publish", "list"}
process(kind) == IF kind = "publish" THEN "worker" ELSE "api"

Forgotten == [token |-> 0, age |-> 0]

TokensInit ==
    /\ kept = [p \in {"worker", "api"} |-> Forgotten]
    /\ caller = [c \in Callers |-> [at |-> "idle"]]
    /\ issued = <<>>

Caller(c, at) == caller[c].at = at
process_of(c) == process(caller[c].kind)
Move(c, at, token) ==
    caller' = [caller EXCEPT ![c] = [at |-> at, kind |-> caller[c].kind, token |-> token,
                                     spent |-> 0]]

forget_installation_token(p) == kept' = [kept EXCEPT ![p] = Forgotten]

unexpired(entry) == entry.token # 0 /\ entry.age < TokenTtl

\* Mutant: whatever is cached is reused.
any_cached(entry) == entry.token # 0

reusable(entry) == unexpired(entry)

\* installation_token: from the cache, or by an exchange.
installation_token(c, kind) ==
    /\ caller[c].at \in {"idle", "rejected", "over"}
    /\ caller' = [caller EXCEPT ![c] =
          IF reusable(kept[process(kind)])
          THEN [at |-> "using", kind |-> kind, token |-> kept[process(kind)].token, spent |-> 0]
          ELSE [at |-> "exchanging", kind |-> kind, token |-> 0, spent |-> 0]]
    /\ UNCHANGED <<kept, issued>>

\* GitHub answers the exchange: the answer takes its time to arrive.
GitHubIssues(c) ==
    /\ Caller(c, "exchanging") /\ caller[c].token = 0 /\ Len(issued) < MaxTokens
    /\ issued' = Append(issued, [age |-> 0, accepted |-> TRUE])
    /\ caller' = [caller EXCEPT ![c].token = Len(issued) + 1]
    /\ UNCHANGED kept

\* The age that decides its expiry starts when the answer is read.
Exchanged(c) ==
    /\ Caller(c, "exchanging") /\ caller[c].token # 0
    /\ kept' = [kept EXCEPT ![process_of(c)] = [token |-> caller[c].token, age |-> 0]]
    /\ Move(c, "using", caller[c].token)
    /\ UNCHANGED issued

\* GitHubAuthError: both callers forget what is cached meanwhile.
ExchangeFails(c) ==
    /\ Caller(c, "exchanging")
    /\ forget_installation_token(process_of(c))
    /\ Move(c, "over", 0)
    /\ UNCHANGED issued

Accepted(token) == issued[token].accepted /\ issued[token].age < TokenLife

\* One request to GitHub's API with the token; a publication makes several.
Authorized(c) ==
    /\ Caller(c, "using") /\ Accepted(caller[c].token)
    /\ Move(c, "over", 0)
    /\ UNCHANGED <<kept, issued>>

\* GitHub answers 401: list_installation_repositories forgets the token,
\* _publish_to_github lets the error become a failed publication.
Rejected(c) ==
    /\ Caller(c, "using") /\ ~Accepted(caller[c].token)
    /\ IF caller[c].kind = "list" THEN forget_installation_token("api") ELSE UNCHANGED kept
    /\ Move(c, "rejected", caller[c].token)
    /\ UNCHANGED issued

\* The installation is disconnected: the API's process drops its token.
Disconnect ==
    /\ forget_installation_token("api")
    /\ UNCHANGED <<caller, issued>>

\* GitHub invalidates what it has issued: suspension, a change of permissions.
Invalidate ==
    /\ issued' = [t \in DOMAIN issued |-> [issued[t] EXCEPT !.accepted = FALSE]]
    /\ UNCHANGED <<kept, caller>>

TokensTick ==
    /\ \A c \in Callers :
          /\ Caller(c, "exchanging") => caller[c].spent < MaxExchange
          /\ Caller(c, "using") => caller[c].spent < MaxUse
    /\ kept' = [p \in DOMAIN kept |->
                   IF kept[p].token = 0 \/ kept[p].age = TokenTtl THEN kept[p]
                   ELSE [kept[p] EXCEPT !.age = @ + 1]]
    /\ caller' = [c \in Callers |-> IF caller[c].at \in {"exchanging", "using"}
                                    THEN [caller[c] EXCEPT !.spent = @ + 1] ELSE caller[c]]
    /\ issued' = [t \in DOMAIN issued |->
                     [issued[t] EXCEPT !.age = IF @ = TokenLife THEN @ ELSE @ + 1]]

TokensNext ==
    \/ \E c \in Callers :
          \/ \E kind \in Kinds : installation_token(c, kind)
          \/ GitHubIssues(c) \/ Exchanged(c) \/ ExchangeFails(c)
          \/ Authorized(c) \/ Rejected(c)
    \/ Disconnect \/ Invalidate \/ TokensTick

TokensSpec == TokensInit /\ [][TokensNext]_tokenVars
-----------------------------------------------------------------------------
\* No caller presents a token past the life GitHub gives it, whichever of two
\* concurrent exchanges the cache kept and however late in its time to live the
\* caller took it out: what is rejected was invalidated, never merely old.
NeverPresentedExpired ==
    \A c \in Callers : Caller(c, "using") => issued[caller[c].token].age < TokenLife

\* "Called when GitHub rejects a token this process believed was good": the
\* process whose request was refused does not keep presenting that token.
RejectedIsForgotten ==
    \A c \in Callers : Caller(c, "rejected") => kept[process_of(c)].token # caller[c].token
=============================================================================
