------------------------------ MODULE Websites ------------------------------
(***************************************************************************)
(* Registering, changing and deleting websites (websites/service.py): the  *)
(* create reads for a duplicate, inserts in its own transaction under      *)
(* UNIQUE (user_id, origin), and reads once more when the constraint fires.*)
(* Update and delete fetch the row, check its owner and write in a second  *)
(* statement.  Requests of several users interleave between the statements.*)
(***************************************************************************)
EXTENDS Integers, Sequences, FiniteSets

CONSTANTS
    Users,
    WebsiteIds,    \* primary keys: numbers, given out in order; a bound on creations
    WebsiteCalls,  \* requests under way in the API
    SubmittedUrls  \* those that are accepted: scheme, labels of the host, port or 0

ASSUME WebsitesAssumption ==
    /\ WebsiteIds \subseteq Nat
    /\ SubmittedUrls \subseteq [scheme : {"http", "https"}, host : Seq(STRING) \ {<<>>}, port : Nat]

VARIABLES
    websites,   \* id -> its row, with st: "unused", "live" or "deleted"
    call        \* each request: where it stands and what it has read

websitesVars == <<websites, call>>

live(i) == websites[i].st = "live"
LiveIds == {i \in WebsiteIds : live(i)}

default_port == [http |-> 80, https |-> 443]

\* The leading www label goes only when a dotted name remains.
strip_www(host) == IF Head(host) = "www" /\ Len(host) > 2 THEN Tail(host) ELSE host

\* The origin normalize_url derives: 0 stands for a port that is not written.
normalize_url_origin(u) ==
    [scheme |-> u.scheme, host |-> strip_www(u.host),
     port |-> IF u.port = default_port[u.scheme] THEN 0 ELSE u.port]

WebsitesInit ==
    /\ websites = [i \in WebsiteIds |-> [st |-> "unused"]]
    /\ call = [c \in WebsiteCalls |-> [at |-> "idle"]]

Waiting_for_request(c) == call[c].at \in {"idle", "answered"}

At_step(c, at) == call[c].at = at

Respond(c, status, id) ==
    call' = [call EXCEPT ![c] = [at |-> "answered", op |-> call[c].op, user |-> call[c].user,
                                 url |-> call[c].url, gone |-> call[c].gone,
                                 status |-> status, id |-> id]]

\* gone gathers the (user, origin) pairs deleted while the request runs; id is
\* the row an update or a delete is about.
Request(c, op, user, url, id) ==
    /\ Waiting_for_request(c)
    /\ call' = [call EXCEPT ![c] = [at |-> "started", op |-> op, user |-> user, url |-> url,
                                    id |-> id, gone |-> {}]]
    /\ UNCHANGED websites

get_by_user_and_origin(user, origin) ==
    {i \in LiveIds : websites[i].user = user /\ websites[i].origin = origin}

Duplicates(c) == get_by_user_and_origin(call[c].user, normalize_url_origin(call[c].url))

Proceed(c, at) == call' = [call EXCEPT ![c].at = at]

CheckDuplicate(c) ==
    /\ At_step(c, "started") /\ call[c].op = "create"
    /\ UNCHANGED websites
    /\ \/ \E i \in Duplicates(c) : Respond(c, 409, i)
       \/ Duplicates(c) = {} /\ Proceed(c, "checked")

Insert(c, i) ==
    /\ At_step(c, "checked") /\ Duplicates(c) = {}
    /\ \A j \in WebsiteIds : websites[j].st = "unused" <=> j >= i
    /\ websites' = [websites EXCEPT ![i] =
           [st |-> "live", user |-> call[c].user, url |-> call[c].url,
            origin |-> normalize_url_origin(call[c].url)]]
    /\ Respond(c, 201, i)

\* UniqueViolationError is caught, and the duplicate read outside of the
\* transaction it aborted.
handle_violation(c) == Proceed(c, "violated")

\* Mutant: the violation escapes.
raise_violation(c) == Respond(c, 500, 0)

on_violation(c) == handle_violation(c)

InsertViolates(c) ==
    /\ At_step(c, "checked") /\ Duplicates(c) # {}
    /\ on_violation(c)
    /\ UNCHANGED websites

ReadDuplicate(c) ==
    /\ At_step(c, "violated")
    /\ UNCHANGED websites
    /\ \/ \E i \in Duplicates(c) : Respond(c, 409, i)
       \/ Duplicates(c) = {} /\ Respond(c, 500, 0)

\* get_website, then require_owner: 404 before 403.
Load(c) ==
    /\ At_step(c, "started") /\ call[c].op \in {"update", "delete"}
    /\ UNCHANGED websites
    /\ \/ ~live(call[c].id) /\ Respond(c, 404, call[c].id)
       \/ live(call[c].id) /\ websites[call[c].id].user # call[c].user
          /\ Respond(c, 403, call[c].id)
       \/ live(call[c].id) /\ websites[call[c].id].user = call[c].user
          /\ Proceed(c, "loaded")

UpdateRow(c) ==
    /\ At_step(c, "loaded") /\ call[c].op = "update"
    /\ UNCHANGED websites
    /\ Respond(c, IF live(call[c].id) THEN 200 ELSE 404, call[c].id)

\* DELETE of a row that is gone already affects nothing and still answers 204.
DeleteRow(c) ==
    /\ At_step(c, "loaded") /\ call[c].op = "delete"
    /\ websites' = [websites EXCEPT ![call[c].id].st = "deleted"]
    /\ LET row == websites[call[c].id]
           Told(d) == IF call[d].at = "idle" \/ ~live(call[c].id) THEN call[d]
                      ELSE [call[d] EXCEPT !.gone = @ \cup {<<row.user, row.origin>>}]
       IN  call' = [d \in WebsiteCalls |-> IF d # c THEN Told(d)
                       ELSE [at |-> "answered", op |-> "delete", user |-> call[c].user,
                             url |-> call[c].url, gone |-> {}, status |-> 204,
                             id |-> call[c].id]]

WebsitesNext ==
    \/ \E c \in WebsiteCalls, user \in Users, url \in SubmittedUrls :
          Request(c, "create", user, url, 0)
    \/ \E c \in WebsiteCalls, op \in {"update", "delete"}, user \in Users, i \in LiveIds :
          Request(c, op, user, websites[i].url, i)
    \/ \E c \in WebsiteCalls :
          \/ CheckDuplicate(c) \/ InsertViolates(c) \/ ReadDuplicate(c)
          \/ Load(c) \/ UpdateRow(c) \/ DeleteRow(c)
          \/ \E i \in WebsiteIds : Insert(c, i)

WebsitesSpec == WebsitesInit /\ [][WebsitesNext]_websitesVars
-----------------------------------------------------------------------------
Port(u) == IF u.port = 0 THEN default_port[u.scheme] ELSE u.port
\* A dotted name and its www. spelling: www.com is no spelling of com.
Spellings(host) ==
    {host} \cup IF Len(host) > 1 /\ Head(host) # "www" THEN {<<"www">> \o host} ELSE {}
SameSite(u, v) ==
    /\ u.scheme = v.scheme /\ Port(u) = Port(v)
    /\ u.host \in Spellings(v.host) \/ v.host \in Spellings(u.host)

\* However the requests interleave, no user has two live rows for one site:
\* not for two spellings that differ in the www label or in a port the scheme
\* implies, which the constraint can only tell apart by their origin.
OneRowPerSite ==
    \A i, j \in LiveIds : i # j /\ websites[i].user = websites[j].user
        => ~SameSite(websites[i].url, websites[j].url)

\* A create is answered truthfully: 409 names a row of the caller and of that
\* site that is live, or was until a delete ran meanwhile, and the only way to
\* a 500 is a duplicate that was deleted while the request ran.  And no answer
\* leaves two rows of one site.
CreateHonest ==
  /\ OneRowPerSite
  /\ \A c \in WebsiteCalls : call[c].at = "answered" /\ call[c].op = "create" =>
        LET same == <<call[c].user, normalize_url_origin(call[c].url)>>
        IN  /\ call[c].status = 409 =>
                  /\ <<websites[call[c].id].user, websites[call[c].id].origin>> = same
                  /\ live(call[c].id) \/ same \in call[c].gone
            /\ call[c].status = 500 => same \in call[c].gone
=============================================================================
