--------------------------- MODULE RequestsProofs ---------------------------
(***************************************************************************)
(* What a user's requests are answered and what they leave in the tables,  *)
(* for every number of requests that interleave between their statements:  *)
(* websites created and deleted (Websites), runs admitted under the caps   *)
(* (Admission), and runs listed page after page or counted in buckets      *)
(* while others are inserted (RunReads).                                   *)
(***************************************************************************)
EXTENDS Admission, Websites, RunReads, LoopTheorems, SequenceTheorems, FunctionTheorems,
        FiniteSetTheorems, WellFoundedInduction, TLAPS

-----------------------------------------------------------------------------
(* Websites.                                                                *)

Origins == {normalize_url_origin(u) : u \in SubmittedUrls}
Rows ==
  [st : {"unused"}]
    \cup [st : {"live", "deleted"}, user : Users, url : SubmittedUrls, origin : Origins]
Gone == SUBSET (Users \X Origins)
CallStates ==
  [at : {"idle"}]
    \cup [at : {"started", "checked", "violated", "loaded"}, op : {"create", "update", "delete"},
          user : Users, url : SubmittedUrls, id : WebsiteIds \cup {0}, gone : Gone]
    \cup [at : {"answered"}, op : {"create", "update", "delete"}, user : Users,
          url : SubmittedUrls, gone : Gone, status : Nat, id : WebsiteIds \cup {0}]

WebsitesTypeOK ==
  /\ websites \in [WebsiteIds -> Rows]
  /\ call \in [WebsiteCalls -> CallStates]

Used(i) == websites[i].st # "unused"
Same(c) == <<call[c].user, normalize_url_origin(call[c].url)>>

\* A row's origin is that of its url, and UNIQUE (user_id, origin) among the live.
TableInv ==
  /\ \A i \in WebsiteIds : Used(i) => websites[i].origin = normalize_url_origin(websites[i].url)
  /\ \A i, j \in LiveIds :
       websites[i].user = websites[j].user /\ websites[i].origin = websites[j].origin => i = j

\* What a request has read is so, or was until a delete ran.
CallInv(c) ==
  /\ call[c].at \in {"checked", "violated"} => call[c].op = "create"
  /\ call[c].at = "loaded" => call[c].op # "create"
  /\ call[c].at \in {"started", "loaded"} /\ call[c].op # "create" =>
       call[c].id \in WebsiteIds /\ Used(call[c].id)
  /\ call[c].at = "violated" => Duplicates(c) # {} \/ Same(c) \in call[c].gone
  /\ call[c].at = "answered" /\ call[c].op = "create" =>
       /\ call[c].status = 409 =>
            /\ call[c].id \in WebsiteIds /\ Used(call[c].id)
            /\ websites[call[c].id].user = call[c].user
            /\ websites[call[c].id].origin = normalize_url_origin(call[c].url)
            /\ live(call[c].id) \/ Same(c) \in call[c].gone
       /\ call[c].status = 500 => Same(c) \in call[c].gone

WebsitesInv == WebsitesTypeOK /\ TableInv /\ \A c \in WebsiteCalls : CallInv(c)

LEMMA WebsitesInitInv == WebsitesInit => WebsitesInv
BY DEF WebsitesInit, WebsitesInv, WebsitesTypeOK, Rows, CallStates, TableInv, CallInv, Used,
     LiveIds, live

\* Spellings of one site have one origin: what normalize_url is for.
LEMMA OneOrigin ==
  ASSUME NEW u \in SubmittedUrls, NEW v \in SubmittedUrls, SameSite(u, v)
  PROVE  normalize_url_origin(u) = normalize_url_origin(v)
<1> DEFINE Labels == Seq(STRING) \ {<<>>}
<1>1. ASSUME NEW a \in Labels, NEW b \in Labels, a \in Spellings(b)
      PROVE  strip_www(a) = strip_www(b)
  <2>1. CASE a = b
    BY <2>1
  <2>2. CASE a # b
    <3>1. a = <<"www">> \o b /\ Len(b) > 1 /\ Head(b) # "www"
      BY <1>1, <2>2 DEF Spellings
    <3>2. Head(a) = "www" /\ Len(a) > 2 /\ Tail(a) = b
      BY <3>1
    <3> QED BY <3>1, <3>2 DEF strip_www
  <2> QED BY <2>1, <2>2
<1>2. u.host \in Labels /\ v.host \in Labels /\ u.port \in Nat /\ v.port \in Nat
      /\ u.scheme \in {"http", "https"} /\ u.scheme = v.scheme
  BY WebsitesAssumption DEF SameSite
<1>3. strip_www(u.host) = strip_www(v.host)
  BY <1>1, <1>2 DEF SameSite
<1>4. default_port[u.scheme] \in Nat \ {0}
  BY <1>2 DEF default_port
<1>5. (IF u.port = default_port[u.scheme] THEN 0 ELSE u.port)
        = (IF v.port = default_port[v.scheme] THEN 0 ELSE v.port)
  BY <1>2, <1>4 DEF SameSite, Port
<1> QED BY <1>2, <1>3, <1>5 DEF normalize_url_origin

\* Whoever is past the first state has an operation, a user and a url.
LEMMA CallType ==
  ASSUME WebsitesTypeOK, NEW c \in WebsiteCalls, call[c].at # "idle"
  PROVE  /\ call[c].op \in {"create", "update", "delete"} /\ call[c].user \in Users
         /\ call[c].url \in SubmittedUrls /\ call[c].id \in WebsiteIds \cup {0}
         /\ call[c].gone \in Gone
         /\ normalize_url_origin(call[c].url) \in Origins
BY DEF WebsitesTypeOK, CallStates, Origins

\* One request moves and no row does: the table, and the other requests, stay right.
LEMMA CallMoves ==
  ASSUME WebsitesInv, NEW c \in WebsiteCalls, NEW state \in CallStates,
         call' = [call EXCEPT ![c] = state], UNCHANGED websites
  PROVE  /\ WebsitesTypeOK' /\ TableInv' /\ call'[c] = state
         /\ \A d \in WebsiteCalls \ {c} : CallInv(d)'
         /\ \A i : live(i)' = live(i) /\ Used(i)' = Used(i)
         /\ LiveIds' = LiveIds
<1>1. call'[c] = state /\ \A d \in WebsiteCalls \ {c} : call'[d] = call[d]
  BY DEF WebsitesInv, WebsitesTypeOK
<1>2. WebsitesTypeOK'
  BY DEF WebsitesInv, WebsitesTypeOK
<1>3. LiveIds' = LiveIds /\ \A i : live(i)' = live(i) /\ Used(i)' = Used(i)
  BY DEF LiveIds, live, Used
<1>4. TableInv'
  BY <1>3 DEF WebsitesInv, TableInv
<1>5. ASSUME NEW d \in WebsiteCalls \ {c}
      PROVE  CallInv(d)'
  <2>1. Duplicates(d)' = Duplicates(d) /\ Same(d)' = Same(d)
    BY <1>1, <1>3 DEF Duplicates, get_by_user_and_origin, Same
  <2> QED BY <1>1, <1>3, <2>1 DEF WebsitesInv, CallInv
<1> QED BY <1>1, <1>2, <1>3, <1>4, <1>5

\* An answer, and a step of a request that goes on, are such moves.
LEMMA RespondMoves ==
  ASSUME WebsitesInv, NEW c \in WebsiteCalls, call[c].at # "idle",
         NEW status \in Nat, NEW id \in WebsiteIds \cup {0}, Respond(c, status, id),
         UNCHANGED websites
  PROVE  /\ WebsitesTypeOK' /\ TableInv'
         /\ \A d \in WebsiteCalls \ {c} : CallInv(d)'
         /\ call'[c].at = "answered" /\ call'[c].op = call[c].op /\ call'[c].user = call[c].user
         /\ call'[c].url = call[c].url /\ call'[c].gone = call[c].gone
         /\ call'[c].status = status /\ call'[c].id = id /\ Same(c)' = Same(c)
<1> DEFINE state == [at |-> "answered", op |-> call[c].op, user |-> call[c].user,
                     url |-> call[c].url, gone |-> call[c].gone, status |-> status, id |-> id]
<1>1. state \in CallStates
  BY CallType DEF WebsitesInv, CallStates
<1>2. call' = [call EXCEPT ![c] = state]
  BY DEF Respond
<1>3. /\ state.at = "answered" /\ state.op = call[c].op /\ state.user = call[c].user
      /\ state.url = call[c].url /\ state.gone = call[c].gone
      /\ state.status = status /\ state.id = id
  OBVIOUS
<1> HIDE DEF state
<1> QED BY <1>1, <1>2, <1>3, CallMoves DEF Same

LEMMA ProceedMoves ==
  ASSUME WebsitesInv, NEW c \in WebsiteCalls, call[c].at \in {"started", "checked"},
         NEW at \in {"checked", "violated", "loaded"}, Proceed(c, at), UNCHANGED websites
  PROVE  /\ WebsitesTypeOK' /\ TableInv'
         /\ \A d \in WebsiteCalls \ {c} : CallInv(d)'
         /\ call'[c].at = at /\ call'[c].op = call[c].op /\ call'[c].id = call[c].id
         /\ Duplicates(c)' = Duplicates(c) /\ Used(call[c].id)' = Used(call[c].id)
<1> DEFINE state == [call[c] EXCEPT !.at = at]
<1>1. call[c] \in [at : {"started", "checked", "violated", "loaded"},
                   op : {"create", "update", "delete"}, user : Users, url : SubmittedUrls,
                   id : WebsiteIds \cup {0}, gone : Gone]
  BY DEF WebsitesInv, WebsitesTypeOK, CallStates
<1>2. /\ state \in CallStates /\ state.at = at /\ state.op = call[c].op
      /\ state.id = call[c].id /\ state.user = call[c].user /\ state.url = call[c].url
  BY <1>1 DEF CallStates
<1>3. call' = [call EXCEPT ![c] = state]
  BY DEF Proceed
<1> HIDE DEF state
<1>4. /\ WebsitesTypeOK' /\ TableInv' /\ call'[c] = state
      /\ \A d \in WebsiteCalls \ {c} : CallInv(d)'
      /\ \A i : live(i)' = live(i) /\ Used(i)' = Used(i)
      /\ LiveIds' = LiveIds
  BY <1>2, <1>3, CallMoves
<1>5. Duplicates(c)' = Duplicates(c)
  BY <1>2, <1>4 DEF Duplicates, get_by_user_and_origin
<1> QED BY <1>2, <1>4, <1>5

\* What a create finds is a live row of its user and its site.
LEMMA DuplicateRow ==
  ASSUME NEW c \in WebsiteCalls, NEW i \in Duplicates(c)
  PROVE  /\ i \in WebsiteIds /\ live(i) /\ Used(i)
         /\ websites[i].user = call[c].user
         /\ websites[i].origin = normalize_url_origin(call[c].url)
BY DEF Duplicates, get_by_user_and_origin, LiveIds, live, Used

\* A create that answers 409 with what it found, or goes on.
LEMMA FoundAnswer ==
  ASSUME WebsitesInv, NEW c \in WebsiteCalls, call[c].at # "idle",
         NEW i \in Duplicates(c), Respond(c, 409, i), UNCHANGED websites
  PROVE  WebsitesInv'
<1>1. /\ i \in WebsiteIds /\ live(i) /\ Used(i) /\ websites[i].user = call[c].user
      /\ websites[i].origin = normalize_url_origin(call[c].url)
  BY DuplicateRow
<1>2. /\ WebsitesTypeOK' /\ TableInv' /\ \A d \in WebsiteCalls \ {c} : CallInv(d)'
      /\ call'[c].at = "answered" /\ call'[c].user = call[c].user
      /\ call'[c].url = call[c].url /\ call'[c].status = 409 /\ call'[c].id = i
  BY <1>1, RespondMoves
<1>3. live(i)' /\ Used(i)'
  BY <1>1 DEF live, Used
<1>4. CallInv(c)'
  BY <1>1, <1>2, <1>3 DEF CallInv
<1> QED BY <1>2, <1>4 DEF WebsitesInv

LEMMA WebsitesStep == WebsitesInv /\ [WebsitesNext]_websitesVars => WebsitesInv'
<1> SUFFICES ASSUME WebsitesInv, [WebsitesNext]_websitesVars PROVE WebsitesInv'
  OBVIOUS
<1>T. WebsitesTypeOK
  BY DEF WebsitesInv
<1>1. ASSUME NEW c \in WebsiteCalls, NEW op \in {"create", "update", "delete"}, NEW user \in Users,
             NEW url \in SubmittedUrls, NEW id \in WebsiteIds \cup {0}, Request(c, op, user, url, id),
             op # "create" => id \in LiveIds
      PROVE  WebsitesInv'
  <2> DEFINE state == [at |-> "started", op |-> op, user |-> user, url |-> url, id |-> id,
                       gone |-> {}]
  <2>1. state \in CallStates /\ state.at = "started" /\ state.op = op /\ state.id = id
    BY DEF CallStates, Gone
  <2>2. call' = [call EXCEPT ![c] = state] /\ UNCHANGED websites
    BY <1>1 DEF Request
  <2> HIDE DEF state
  <2>3. /\ WebsitesTypeOK' /\ TableInv' /\ call'[c] = state
        /\ \A d \in WebsiteCalls \ {c} : CallInv(d)'
        /\ \A i : live(i)' = live(i) /\ Used(i)' = Used(i)
    BY ONLY WebsitesInv, <2>1, <2>2, CallMoves
  <2>4. op # "create" => id \in WebsiteIds /\ Used(id)
    BY <1>1 DEF LiveIds, live, Used
  <2>5. CallInv(c)'
    BY ONLY <2>1, <2>3, <2>4 DEF CallInv
  <2> QED BY <2>3, <2>5 DEF WebsitesInv
<1>2. ASSUME NEW c \in WebsiteCalls, CheckDuplicate(c)
      PROVE  WebsitesInv'
  <2>1. call[c].at = "started" /\ call[c].op = "create" /\ UNCHANGED websites
    BY <1>2 DEF CheckDuplicate, At_step
  <2>2. CASE \E i \in Duplicates(c) : Respond(c, 409, i)
    BY <2>1, <2>2, FoundAnswer
  <2>3. CASE Proceed(c, "checked")
    <3>1. CallInv(c)'
      BY <2>1, <2>3, ProceedMoves DEF CallInv
    <3> QED BY <2>1, <2>3, <3>1, ProceedMoves DEF WebsitesInv
  <2> QED BY <1>2, <2>2, <2>3 DEF CheckDuplicate
<1>3. ASSUME NEW c \in WebsiteCalls, InsertViolates(c)
      PROVE  WebsitesInv'
  <2>1. /\ call[c].at = "checked" /\ Duplicates(c) # {} /\ Proceed(c, "violated")
        /\ UNCHANGED websites /\ call[c].op = "create"
    BY <1>3 DEF InsertViolates, At_step, on_violation, handle_violation, WebsitesInv, CallInv
  <2>2. CallInv(c)'
    BY <2>1, ProceedMoves DEF CallInv
  <2> QED BY <2>1, <2>2, ProceedMoves DEF WebsitesInv
<1>4. ASSUME NEW c \in WebsiteCalls, ReadDuplicate(c)
      PROVE  WebsitesInv'
  <2>1. call[c].at = "violated" /\ UNCHANGED websites
    BY <1>4 DEF ReadDuplicate, At_step
  <2>2. CASE \E i \in Duplicates(c) : Respond(c, 409, i)
    BY <2>1, <2>2, FoundAnswer
  <2>3. CASE Duplicates(c) = {} /\ Respond(c, 500, 0)
    <3>1. Same(c) \in call[c].gone
      BY <2>1, <2>3 DEF WebsitesInv, CallInv
    <3>2. CallInv(c)'
      BY <2>1, <2>3, <3>1, RespondMoves DEF CallInv
    <3> QED BY <2>1, <2>3, <3>2, RespondMoves DEF WebsitesInv
  <2> QED BY <1>4, <2>2, <2>3 DEF ReadDuplicate
<1>5. ASSUME NEW c \in WebsiteCalls, Load(c)
      PROVE  WebsitesInv'
  <2>1. /\ call[c].at = "started" /\ call[c].op # "create" /\ UNCHANGED websites
        /\ call[c].id \in WebsiteIds /\ Used(call[c].id)
    BY <1>5 DEF Load, At_step, WebsitesInv, CallInv
  <2>2. CASE \E status \in {403, 404} : Respond(c, status, call[c].id)
    <3>1. CallInv(c)'
      BY <2>1, <2>2, RespondMoves DEF CallInv
    <3> QED BY <2>1, <2>2, <3>1, RespondMoves DEF WebsitesInv
  <2>3. CASE Proceed(c, "loaded")
    <3>1. CallInv(c)'
      BY <2>1, <2>3, ProceedMoves DEF CallInv
    <3> QED BY <2>1, <2>3, <3>1, ProceedMoves DEF WebsitesInv
  <2> QED BY <1>5, <2>2, <2>3 DEF Load
<1>6. ASSUME NEW c \in WebsiteCalls, UpdateRow(c)
      PROVE  WebsitesInv'
  <2>1. /\ call[c].at = "loaded" /\ call[c].op # "create" /\ UNCHANGED websites
        /\ call[c].id \in WebsiteIds
    BY <1>6 DEF UpdateRow, At_step, WebsitesInv, CallInv
  <2>2. \E status \in {200, 404} : Respond(c, status, call[c].id)
    BY <1>6 DEF UpdateRow
  <2>3. CallInv(c)'
    BY <2>1, <2>2, RespondMoves DEF CallInv
  <2> QED BY <2>1, <2>2, <2>3, RespondMoves DEF WebsitesInv
<1>7. ASSUME NEW c \in WebsiteCalls, NEW i \in WebsiteIds, Insert(c, i)
      PROVE  WebsitesInv'
  <2> DEFINE row == [st |-> "live", user |-> call[c].user, url |-> call[c].url,
                     origin |-> normalize_url_origin(call[c].url)]
             answer == [at |-> "answered", op |-> call[c].op, user |-> call[c].user,
                        url |-> call[c].url, gone |-> call[c].gone, status |-> 201, id |-> i]
  <2>1. /\ call[c].at = "checked" /\ call[c].op = "create" /\ Duplicates(c) = {}
        /\ websites' = [websites EXCEPT ![i] = row]
        /\ call' = [call EXCEPT ![c] = answer]
    BY <1>7 DEF Insert, At_step, Respond, WebsitesInv, CallInv
  <2>2. ~ Used(i)
    <3>1. i >= i
      BY WebsitesAssumption
    <3> QED BY <1>7, <3>1 DEF Insert, Used
  <2>3. row \in Rows /\ answer \in CallStates
    <3>1. /\ call[c].op \in {"create", "update", "delete"} /\ call[c].user \in Users
          /\ call[c].url \in SubmittedUrls /\ call[c].gone \in Gone
          /\ normalize_url_origin(call[c].url) \in Origins
      BY <1>T, <2>1, CallType
    <3> QED BY <3>1 DEF Rows, CallStates
  <2>4. /\ row.st = "live" /\ row.user = call[c].user /\ row.url = call[c].url
        /\ row.origin = normalize_url_origin(call[c].url)
        /\ answer.at = "answered" /\ answer.op = "create" /\ answer.status = 201
    BY <2>1
  <2> HIDE DEF row, answer
  <2>5. WebsitesTypeOK' /\ websites'[i] = row /\ call'[c] = answer
        /\ (\A j \in WebsiteIds \ {i} : websites'[j] = websites[j])
        /\ (\A d \in WebsiteCalls \ {c} : call'[d] = call[d])
    BY <1>T, <2>1, <2>3 DEF WebsitesTypeOK
  <2>6. /\ \A j \in WebsiteIds : Used(j) => j # i /\ Used(j)' /\ live(j)' = live(j)
        /\ \A j \in WebsiteIds \ {i} : Used(j)' = Used(j) /\ live(j)' = live(j)
        /\ LiveIds' = LiveIds \cup {i} /\ LiveIds \subseteq WebsiteIds \ {i}
    BY <2>2, <2>4, <2>5 DEF Used, live, LiveIds
  <2>7. \A j \in LiveIds :
          ~ (websites[j].user = row.user /\ websites[j].origin = row.origin)
    BY <2>1, <2>4 DEF Duplicates, get_by_user_and_origin
  <2>8. TableInv'
    BY <2>4, <2>5, <2>6, <2>7 DEF WebsitesInv, TableInv
  <2>9. ASSUME NEW d \in WebsiteCalls \ {c}
        PROVE  CallInv(d)'
    <3>1. Duplicates(d) \subseteq Duplicates(d)' /\ Same(d)' = Same(d)
      BY <2>5, <2>6 DEF Duplicates, get_by_user_and_origin, Same
    <3> QED BY <2>5, <2>6, <3>1 DEF WebsitesInv, CallInv
  <2>10. CallInv(c)'
    BY <2>4, <2>5 DEF CallInv
  <2> QED BY <2>5, <2>8, <2>9, <2>10 DEF WebsitesInv
<1>8. ASSUME NEW c \in WebsiteCalls, DeleteRow(c)
      PROVE  WebsitesInv'
  <2> DEFINE i == call[c].id
             row == [websites[i] EXCEPT !.st = "deleted"]
             pair == <<websites[i].user, websites[i].origin>>
             answer == [at |-> "answered", op |-> "delete", user |-> call[c].user,
                        url |-> call[c].url, gone |-> {}, status |-> 204, id |-> i]
             Told(d) == IF call[d].at = "idle" \/ ~ live(i) THEN call[d]
                        ELSE [call[d] EXCEPT !.gone = @ \cup {pair}]
  <2>1. /\ call[c].at = "loaded" /\ i \in WebsiteIds /\ Used(i)
        /\ websites' = [websites EXCEPT ![i] = row]
        /\ call' = [d \in WebsiteCalls |-> IF d # c THEN Told(d) ELSE answer]
    BY <1>8 DEF DeleteRow, At_step, WebsitesInv, CallInv
  <2>2. websites[i] \in [st : {"live", "deleted"}, user : Users, url : SubmittedUrls, origin : Origins]
    BY <1>T, <2>1 DEF WebsitesTypeOK, Rows, Used
  <2>3. /\ row \in Rows /\ row.st = "deleted" /\ row.user = websites[i].user
        /\ row.url = websites[i].url /\ row.origin = websites[i].origin
        /\ pair \in Users \X Origins
    BY <2>2 DEF Rows
  <2>4. answer \in CallStates /\ answer.at = "answered" /\ answer.op = "delete"
    BY <1>T, <2>1, CallType DEF CallStates, Gone
  <2>5. ASSUME NEW d \in WebsiteCalls
        PROVE  /\ Told(d) \in CallStates /\ Told(d).at = call[d].at
               /\ call[d].at # "idle" =>
                    /\ Told(d).op = call[d].op /\ Told(d).user = call[d].user
                    /\ Told(d).url = call[d].url /\ Told(d).id = call[d].id
                    /\ call[d].gone \subseteq Told(d).gone
                    /\ live(i) => pair \in Told(d).gone
                    /\ call[d].at = "answered" => Told(d).status = call[d].status
    <3>1. CASE call[d].at = "idle" \/ ~ live(i)
      BY <1>T, <3>1 DEF WebsitesTypeOK
    <3>2. CASE ~ (call[d].at = "idle" \/ ~ live(i))
      <4> DEFINE gone == call[d].gone \cup {pair}
                 told == [call[d] EXCEPT !.gone = gone]
      <4>1. Told(d) = told
        BY <3>2
      <4>2. gone \in Gone
        BY <1>T, <2>3, <3>2, CallType DEF Gone
      <4> HIDE DEF gone, pair
      <4>3. CASE call[d].at = "answered"
        <5>1. call[d] \in [at : {"answered"}, op : {"create", "update", "delete"}, user : Users,
                url : SubmittedUrls, gone : Gone, status : Nat, id : WebsiteIds \cup {0}]
          BY <1>T, <4>3 DEF WebsitesTypeOK, CallStates
        <5>2. /\ told \in CallStates /\ told.at = call[d].at /\ told.op = call[d].op
              /\ told.user = call[d].user /\ told.url = call[d].url /\ told.id = call[d].id
              /\ told.gone = gone /\ told.status = call[d].status
          BY <4>2, <4>3, <5>1 DEF CallStates
        <5> HIDE DEF told
        <5> QED BY <4>1, <5>2 DEF gone
      <4>4. CASE call[d].at # "answered"
        <5>1. call[d] \in [at : {"started", "checked", "violated", "loaded"},
                op : {"create", "update", "delete"}, user : Users, url : SubmittedUrls,
                id : WebsiteIds \cup {0}, gone : Gone]
          BY <1>T, <3>2, <4>4 DEF WebsitesTypeOK, CallStates
        <5>2. /\ told \in CallStates /\ told.at = call[d].at /\ told.op = call[d].op
              /\ told.user = call[d].user /\ told.url = call[d].url /\ told.id = call[d].id
              /\ told.gone = gone
          BY <4>2, <5>1 DEF CallStates
        <5> HIDE DEF told
        <5> QED BY <4>1, <4>4, <5>2 DEF gone
      <4> QED BY <4>3, <4>4
    <3> QED BY <3>1, <3>2
  <2> HIDE DEF row, answer, Told
  <2>6. /\ WebsitesTypeOK' /\ websites'[i] = row /\ call'[c] = answer
        /\ \A j \in WebsiteIds \ {i} : websites'[j] = websites[j]
        /\ \A d \in WebsiteCalls \ {c} : call'[d] = Told(d)
    BY <1>T, <2>1, <2>3, <2>4, <2>5 DEF WebsitesTypeOK
  <2> HIDE DEF pair
  <2> HIDE DEF i
  <2>7. /\ \A j \in WebsiteIds : Used(j)' = Used(j)
        /\ \A j \in WebsiteIds : /\ websites'[j].user = websites[j].user
                                 /\ websites'[j].origin = websites[j].origin
                                 /\ websites'[j].url = websites[j].url
        /\ LiveIds' = LiveIds \ {i} /\ \A j \in WebsiteIds : live(j)' <=> live(j) /\ j # i
    BY <2>1, <2>3, <2>6 DEF Used, live, LiveIds
  <2>8. TableInv'
    BY <2>7 DEF WebsitesInv, TableInv, LiveIds
  <2>9. ASSUME NEW d \in WebsiteCalls \ {c}
        PROVE  CallInv(d)'
    <3>1. CASE call[d].at = "idle"
      BY <2>5, <2>6, <3>1 DEF CallInv
    <3>2. CASE call[d].at # "idle"
      <4>1. /\ call'[d].at = call[d].at /\ call'[d].op = call[d].op /\ call'[d].id = call[d].id
            /\ call[d].gone \subseteq call'[d].gone
            /\ live(i) => pair \in call'[d].gone
            /\ call[d].at = "answered" => call'[d].status = call[d].status
            /\ call'[d].user = call[d].user /\ call'[d].url = call[d].url
            /\ Same(d)' = Same(d)
        BY <2>5, <2>6, <3>2 DEF Same
      <4>2. i \in Duplicates(d) => pair = Same(d) /\ live(i)
        BY DuplicateRow DEF Same, pair
      <4>3. Duplicates(d)' = Duplicates(d) \ {i}
        BY <2>7, <4>1 DEF Duplicates, get_by_user_and_origin, LiveIds
      <4>4. call[d].at = "violated" => Duplicates(d)' # {} \/ Same(d)' \in call'[d].gone
        BY <4>1, <4>2, <4>3 DEF WebsitesInv, CallInv
      <4>5. ASSUME call[d].at = "answered", call[d].op = "create", call[d].status = 409
            PROVE  /\ call[d].id \in WebsiteIds /\ Used(call[d].id)
                   /\ websites[call[d].id].user = call[d].user
                   /\ websites[call[d].id].origin = normalize_url_origin(call[d].url)
                   /\ live(call[d].id)' \/ Same(d)' \in call'[d].gone
        <5>1. /\ call[d].id \in WebsiteIds /\ Used(call[d].id)
              /\ websites[call[d].id].user = call[d].user
              /\ websites[call[d].id].origin = normalize_url_origin(call[d].url)
              /\ live(call[d].id) \/ Same(d) \in call[d].gone
          BY <4>5 DEF WebsitesInv, CallInv
        <5>2. call[d].id = i => pair = Same(d)
          BY <5>1 DEF Same, pair
        <5> QED BY <2>7, <4>1, <5>1, <5>2
      <4>6. call[d].at = "answered" /\ call[d].op = "create" /\ call[d].status = 500 =>
              Same(d)' \in call'[d].gone
        BY <4>1 DEF WebsitesInv, CallInv
      <4>7. /\ call[d].at \in {"checked", "violated"} => call[d].op = "create"
            /\ call[d].at = "loaded" => call[d].op # "create"
            /\ call[d].at \in {"started", "loaded"} /\ call[d].op # "create" =>
                 call[d].id \in WebsiteIds /\ Used(call[d].id)
        BY DEF WebsitesInv, CallInv
      <4> QED BY <2>7, <4>1, <4>4, <4>5, <4>6, <4>7 DEF CallInv
    <3> QED BY <3>1, <3>2
  <2>10. CallInv(c)'
    BY <2>4, <2>6 DEF CallInv
  <2> QED BY <2>6, <2>8, <2>9, <2>10 DEF WebsitesInv
<1>9. CASE UNCHANGED websitesVars
  <2>1. LiveIds' = LiveIds /\ \A c : Duplicates(c)' = Duplicates(c) /\ Same(c)' = Same(c)
    BY <1>9 DEF websitesVars, LiveIds, live, Duplicates, get_by_user_and_origin, Same
  <2> QED BY <1>9, <2>1 DEF websitesVars, WebsitesInv, WebsitesTypeOK, TableInv, CallInv, Used, live
<1> QED
  <2>1. ASSUME NEW op \in {"update", "delete"}, NEW i \in LiveIds
        PROVE  websites[i].url \in SubmittedUrls /\ i \in WebsiteIds
    BY <1>T DEF WebsitesTypeOK, Rows, LiveIds, live
  <2> QED BY <1>1, <1>2, <1>3, <1>4, <1>5, <1>6, <1>7, <1>8, <1>9, <2>1 DEF WebsitesNext

\* However the requests of several users interleave between their statements, no user
\* has two live rows for one site, and a create is answered truthfully
\* (WebsiteService.create_website, normalize_url).
THEOREM CreatesHonest == WebsitesSpec => []CreateHonest
<1>1. WebsitesInv => CreateHonest
  <2> SUFFICES ASSUME WebsitesInv PROVE CreateHonest
    OBVIOUS
  <2>1. ASSUME NEW i \in LiveIds, NEW j \in LiveIds, i # j, websites[i].user = websites[j].user
        PROVE  ~ SameSite(websites[i].url, websites[j].url)
    <3>1. /\ websites[i].url \in SubmittedUrls /\ websites[j].url \in SubmittedUrls
          /\ websites[i].origin = normalize_url_origin(websites[i].url)
          /\ websites[j].origin = normalize_url_origin(websites[j].url)
      BY DEF WebsitesInv, WebsitesTypeOK, Rows, TableInv, LiveIds, live, Used
    <3>2. websites[i].origin # websites[j].origin
      BY <2>1 DEF WebsitesInv, TableInv
    <3> QED BY <3>1, <3>2, OneOrigin
  <2>2. OneRowPerSite
    BY <2>1 DEF OneRowPerSite
  <2> QED BY <2>2 DEF CreateHonest, WebsitesInv, CallInv, Same
<1> QED BY <1>1, WebsitesInitInv, WebsitesStep, PTL DEF WebsitesSpec

-----------------------------------------------------------------------------
(* Runs admitted.                                                           *)

Runs ==
  [site : OwnSites, manual : BOOLEAN, active : BOOLEAN, age : Nat, by : TriggerRequests \cup {Nobody}]
AskedStates ==
  {NoRequest} \cup [at : {"active", "concurrent", "daily", "insert", "enqueue", "abandon", "503"},
                   site : OwnSites, lag : Nat]

AdmissionTypeOK ==
  /\ owned \subseteq OwnSites
  /\ IsFiniteSet(DOMAIN started) /\ started \in [DOMAIN started -> Runs]
  /\ asked \in [TriggerRequests -> AskedStates]
  /\ promise \in Int

Running1 == {i \in DOMAIN started : started[i].active /\ started[i].manual}
ManualOfTheDay == {i \in DOMAIN started : started[i].manual /\ started[i].age < Day}
StillThen(wait) == {i \in DOMAIN started : started[i].age + wait <= Day}
AskedAt(states) == {q \in TriggerRequests : asked[q].at \in states}

\* Whoever is past a check and has not inserted yet counts as if it had: each
\* check lets its request join when the others leave room for one below the limit.
\* What made the day's window full at a 429 stays in it until the promised time.
AdmissionInv ==
  /\ AdmissionTypeOK
  /\ Cardinality(Running1) + Cardinality(AskedAt({"daily", "insert"}))
       <= ConcurrencyLimit - 1 + Cardinality(TriggerRequests)
  /\ Cardinality(ManualOfTheDay) + Cardinality(AskedAt({"insert"}))
       <= DailyLimit - 1 + Cardinality(TriggerRequests)
  /\ promise > 0 => Cardinality(StillThen(promise)) >= DailyLimit
  /\ RefusedHoldsNoSlot

LEMMA AdmissionBounds ==
  /\ ConcurrencyLimit \in Nat \ {0} /\ DailyLimit \in Nat \ {0} /\ Day \in Nat \ {0} /\ MaxLag \in Nat
  /\ IsFiniteSet(TriggerRequests) /\ Cardinality(TriggerRequests) \in Nat
  /\ Nobody \notin TriggerRequests
BY AdmissionAssumption, FS_CardinalityType

LEMMA AdmissionInitInv == AdmissionInit => AdmissionInv
<1> SUFFICES ASSUME AdmissionInit PROVE AdmissionInv
  OBVIOUS
<1>1. DOMAIN started = {} /\ started \in [{} -> Runs] /\ IsFiniteSet({}) /\ Cardinality({}) = 0
  BY FS_EmptySet DEF AdmissionInit
<1>2. AdmissionTypeOK
  BY <1>1 DEF AdmissionInit, AdmissionTypeOK, AskedStates
<1>3. Running1 = {} /\ ManualOfTheDay = {}
  BY <1>1 DEF Running1, ManualOfTheDay
<1>4. AskedAt({"daily", "insert"}) = {} /\ AskedAt({"insert"}) = {} /\ RefusedHoldsNoSlot
  BY DEF AdmissionInit, AskedAt, RefusedHoldsNoSlot, NoRequest
<1>5. /\ Cardinality(Running1) = 0 /\ Cardinality(ManualOfTheDay) = 0
      /\ Cardinality(AskedAt({"daily", "insert"})) = 0 /\ Cardinality(AskedAt({"insert"})) = 0
  BY <1>1, <1>3, <1>4
<1> QED BY <1>2, <1>4, <1>5, AdmissionBounds DEF AdmissionInv, AdmissionInit

\* The counts of the runs and of the requests are numbers.
LEMMA CountTypes ==
  ASSUME AdmissionTypeOK
  PROVE  /\ IsFiniteSet(Running1) /\ Cardinality(Running1) \in Nat
         /\ IsFiniteSet(ManualOfTheDay) /\ Cardinality(ManualOfTheDay) \in Nat
         /\ \A wait : IsFiniteSet(StillThen(wait)) /\ Cardinality(StillThen(wait)) \in Nat
         /\ \A states : /\ IsFiniteSet(AskedAt(states)) /\ Cardinality(AskedAt(states)) \in Nat
                        /\ Cardinality(AskedAt(states)) <= Cardinality(TriggerRequests)
<1>1. /\ Running1 \in SUBSET DOMAIN started /\ ManualOfTheDay \in SUBSET DOMAIN started
      /\ \A wait : StillThen(wait) \in SUBSET DOMAIN started
      /\ \A states : AskedAt(states) \in SUBSET TriggerRequests
  BY DEF Running1, ManualOfTheDay, StillThen, AskedAt
<1>2. IsFiniteSet(DOMAIN started)
  BY DEF AdmissionTypeOK
<1> QED BY <1>1, <1>2, AdmissionBounds, FS_Subset, FS_CardinalityType

\* A request moves: what it adds to those past a check, or takes from them.
LEMMA RequestMoves ==
  ASSUME AdmissionTypeOK, NEW q \in TriggerRequests, asked' \in [TriggerRequests -> AskedStates],
         \A p \in TriggerRequests \ {q} : asked'[p] = asked[p], NEW states
  PROVE  /\ asked'[q].at \in states /\ asked[q].at \notin states =>
              Cardinality(AskedAt(states)') = Cardinality(AskedAt(states)) + 1
         /\ asked'[q].at \notin states /\ asked[q].at \in states =>
              Cardinality(AskedAt(states)') = Cardinality(AskedAt(states)) - 1
         /\ (asked'[q].at \in states <=> asked[q].at \in states) =>
              Cardinality(AskedAt(states)') = Cardinality(AskedAt(states))
         /\ Cardinality(AskedAt(states)') \in Nat
         /\ Cardinality(AskedAt(states)') <= Cardinality(TriggerRequests)
<1>1. AskedAt(states)' = IF asked'[q].at \in states THEN AskedAt(states) \cup {q}
                         ELSE AskedAt(states) \ {q}
  BY DEF AskedAt
<1>2. q \in AskedAt(states) <=> asked[q].at \in states
  BY DEF AskedAt
<1>3. IsFiniteSet(AskedAt(states)) /\ Cardinality(AskedAt(states)) \in Nat
  BY CountTypes
<1>4. AskedAt(states)' \in SUBSET TriggerRequests
  BY DEF AskedAt
<1>5. /\ Cardinality(AskedAt(states)') \in Nat
      /\ Cardinality(AskedAt(states)') <= Cardinality(TriggerRequests)
  BY <1>4, AdmissionBounds, FS_Subset, FS_CardinalityType
<1>6. /\ Cardinality(AskedAt(states) \cup {q}) =
           IF q \in AskedAt(states) THEN Cardinality(AskedAt(states)) ELSE Cardinality(AskedAt(states)) + 1
      /\ Cardinality(AskedAt(states) \ {q}) =
           IF q \in AskedAt(states) THEN Cardinality(AskedAt(states)) - 1 ELSE Cardinality(AskedAt(states))
  BY <1>3, FS_AddElement, FS_RemoveElement
<1> QED BY <1>1, <1>2, <1>3, <1>5, <1>6

\* The two ways in which a request moves on.
LEMMA MoveTypes ==
  ASSUME AdmissionTypeOK, NEW q \in TriggerRequests,
         \/ Answer1(q)
         \/ /\ asked[q].at # "none"
            /\ \E at \in {"daily", "insert", "enqueue", "abandon", "503"} : GoOn(q, at)
  PROVE  /\ asked' \in [TriggerRequests -> AskedStates]
         /\ \A p \in TriggerRequests \ {q} : asked'[p] = asked[p]
         /\ Answer1(q) => asked'[q].at = "none"
         /\ \A at : GoOn(q, at) => asked'[q].at = at
<1>1. ASSUME Answer1(q)
      PROVE  /\ asked' \in [TriggerRequests -> AskedStates]
             /\ \A p \in TriggerRequests \ {q} : asked'[p] = asked[p]
  BY <1>1 DEF Answer1, AdmissionTypeOK, AskedStates
<1>2. ASSUME asked[q].at # "none", NEW at \in {"daily", "insert", "enqueue", "abandon", "503"},
             GoOn(q, at)
      PROVE  /\ asked' \in [TriggerRequests -> AskedStates]
             /\ \A p \in TriggerRequests \ {q} : asked'[p] = asked[p]
             /\ asked'[q].at = at
  <2>1. asked[q] \in [at : {"active", "concurrent", "daily", "insert", "enqueue", "abandon", "503"},
                     site : OwnSites, lag : Nat]
    BY <1>2 DEF AdmissionTypeOK, AskedStates, NoRequest
  <2>2. asked' = [asked EXCEPT ![q] = [asked[q] EXCEPT !.at = at]]
    BY <1>2 DEF GoOn
  <2> DEFINE state == [asked[q] EXCEPT !.at = at]
  <2>3. state \in AskedStates /\ state.at = at
    BY <2>1 DEF AskedStates
  <2> HIDE DEF state
  <2>4. asked' = [asked EXCEPT ![q] = state]
    BY <2>2 DEF state
  <2> QED BY <2>3, <2>4 DEF AdmissionTypeOK
<1>3. \A at : GoOn(q, at) => asked' = [asked EXCEPT ![q].at = at] /\ asked'[q].at = at
  <2> SUFFICES ASSUME NEW at, GoOn(q, at) PROVE asked'[q].at = at
    BY DEF GoOn
  <2>1. asked[q] \in AskedStates
    BY DEF AdmissionTypeOK
  <2>2. asked' = [asked EXCEPT ![q] = [asked[q] EXCEPT !.at = at]]
    BY DEF GoOn
  <2>3. [asked[q] EXCEPT !.at = at].at = at
    BY <2>1 DEF AskedStates, NoRequest
  <2> QED BY <2>2, <2>3 DEF AdmissionTypeOK
<1>4. Answer1(q) => asked'[q].at = "none"
  BY DEF Answer1, AdmissionTypeOK, NoRequest
<1> QED BY <1>1, <1>2, <1>3, <1>4

\* There is an id that no run has.
LEMMA FreshId ==
  ASSUME AdmissionTypeOK
  PROVE  fresh_id \notin DOMAIN started
<1> DEFINE n == Cardinality(DOMAIN started)
<1>1. IsFiniteSet(DOMAIN started) /\ n \in Nat
  BY FS_CardinalityType DEF AdmissionTypeOK
<1>2. Cardinality(1 .. n + 1) = n + 1
  BY <1>1, FS_Interval
<1>3. ~ 1 .. n + 1 \in SUBSET DOMAIN started
  BY <1>1, <1>2, FS_Subset
<1> QED BY <1>3 DEF fresh_id

LEMMA InsertedRun ==
  ASSUME AdmissionTypeOK, NEW run \in Runs, started' = Inserted(run)
  PROVE  /\ fresh_id \notin DOMAIN started /\ DOMAIN started' = DOMAIN started \cup {fresh_id}
         /\ IsFiniteSet(DOMAIN started') /\ started' \in [DOMAIN started' -> Runs]
         /\ started'[fresh_id] = run
         /\ \A i \in DOMAIN started : started'[i] = started[i]
BY FreshId, FS_AddElement DEF AdmissionTypeOK, Inserted

\* The runs that count can only get fewer when runs end, age, or go.
LEMMA FewerRuns ==
  ASSUME AdmissionTypeOK, DOMAIN started' \subseteq DOMAIN started,
         \A i \in DOMAIN started' :
            /\ started'[i].manual = started[i].manual
            /\ started'[i].active => started[i].active
            /\ started'[i].age \in Nat /\ started'[i].age >= started[i].age
  PROVE  /\ IsFiniteSet(DOMAIN started')
         /\ Cardinality(Running1') \in Nat /\ Cardinality(Running1') <= Cardinality(Running1)
         /\ Cardinality(ManualOfTheDay') \in Nat
         /\ Cardinality(ManualOfTheDay') <= Cardinality(ManualOfTheDay)
<1>1. Running1' \in SUBSET Running1
  BY DEF Running1
<1>2. ManualOfTheDay' \in SUBSET ManualOfTheDay
  <2>1. \A i \in DOMAIN started : started[i].age \in Nat
    BY DEF AdmissionTypeOK, Runs
  <2> QED BY <2>1, AdmissionBounds DEF ManualOfTheDay
<1>3. IsFiniteSet(DOMAIN started')
  BY FS_Subset DEF AdmissionTypeOK
<1> QED BY <1>1, <1>2, <1>3, CountTypes, FS_Subset, FS_CardinalityType

\* The oldest of some ages below a bound.
LEMMA OldestStarted ==
  ASSUME NEW ages \in SUBSET Nat, NEW bound \in Nat, ages # {}, \A a \in ages : a < bound
  PROVE  /\ oldest_started(ages) \in ages
         /\ \A a \in ages : oldest_started(ages) >= a
<1> DEFINE T == {n \in Nat : \E a \in ages : n = bound - a}
<1>0. \A a \in ages : bound - a \in T
  OBVIOUS
<1>1. T \subseteq Nat /\ T # {}
  BY <1>0
<1>2. PICK x \in T : \A y \in T : ~ (<<y, x>> \in OpToRel(<, Nat))
  BY <1>1, NatLessThanWellFounded, WFMin
<1>3. \A y \in T : ~ y < x
  BY <1>2 DEF OpToRel
<1>4. PICK a \in ages : x = bound - a
  OBVIOUS
<1>5. \A b \in ages : a >= b
  <2> SUFFICES ASSUME NEW b \in ages PROVE a >= b
    OBVIOUS
  <2>1. bound - b \in T
    BY <1>0
  <2>2. ~ bound - b < bound - a
    BY <1>3, <1>4, <2>1
  <2> QED BY <2>2
<1> QED BY <1>5 DEF oldest_started

\* One field of a run changes.
LEMMA RunFields ==
  ASSUME NEW run \in Runs
  PROVE  /\ [run EXCEPT !.by = Nobody] \in Runs
         /\ [run EXCEPT !.by = Nobody].by = Nobody
         /\ [run EXCEPT !.by = Nobody].active = run.active
         /\ [run EXCEPT !.by = Nobody].manual = run.manual
         /\ [run EXCEPT !.by = Nobody].age = run.age
         /\ [run EXCEPT !.active = FALSE] \in Runs
         /\ ~ [run EXCEPT !.active = FALSE].active
         /\ [run EXCEPT !.active = FALSE].manual = run.manual
         /\ [run EXCEPT !.active = FALSE].age = run.age
         /\ [run EXCEPT !.active = FALSE].by = run.by
         /\ [run EXCEPT !.age = @ + 1] \in Runs
         /\ [run EXCEPT !.age = @ + 1].active = run.active
         /\ [run EXCEPT !.age = @ + 1].manual = run.manual
         /\ [run EXCEPT !.age = @ + 1].age = run.age + 1
         /\ [run EXCEPT !.age = @ + 1].by = run.by
<1>1. /\ [run EXCEPT !.by = Nobody] \in Runs
      /\ [run EXCEPT !.by = Nobody].by = Nobody
      /\ [run EXCEPT !.by = Nobody].active = run.active
      /\ [run EXCEPT !.by = Nobody].manual = run.manual
      /\ [run EXCEPT !.by = Nobody].age = run.age
  BY DEF Runs
<1>2. [run EXCEPT !.active = FALSE] \in Runs
  BY DEF Runs
<1>3. ~ [run EXCEPT !.active = FALSE].active
  BY DEF Runs
<1>4. /\ [run EXCEPT !.active = FALSE].manual = run.manual
      /\ [run EXCEPT !.active = FALSE].age = run.age
      /\ [run EXCEPT !.active = FALSE].by = run.by
  BY DEF Runs
<1>5. /\ [run EXCEPT !.age = @ + 1] \in Runs
  BY DEF Runs
<1>6. /\ [run EXCEPT !.age = @ + 1].active = run.active
      /\ [run EXCEPT !.age = @ + 1].manual = run.manual
      /\ [run EXCEPT !.age = @ + 1].age = run.age + 1
      /\ [run EXCEPT !.age = @ + 1].by = run.by
  BY DEF Runs
<1> QED BY <1>1, <1>2, <1>3, <1>4, <1>5, <1>6

\* Those a 503 left without a slot stay so.
LEMMA RefusedKept ==
  ASSUME RefusedHoldsNoSlot,
         \A p \in TriggerRequests : asked'[p].at = "503" => asked[p].at = "503",
         DOMAIN started' \subseteq DOMAIN started,
         \A i \in DOMAIN started' :
            /\ started'[i].active => started[i].active
            /\ started'[i].by \in {started[i].by, Nobody}
  PROVE  RefusedHoldsNoSlot'
BY AdmissionBounds DEF RefusedHoldsNoSlot, MineOf

\* The user's runs that are left, when some end, age, are let go of, or go.
Fading ==
  /\ started' \in [DOMAIN started' -> Runs] /\ DOMAIN started' \subseteq DOMAIN started
  /\ \A i \in DOMAIN started' :
       /\ started'[i].manual = started[i].manual
       /\ started'[i].active => started[i].active
       /\ started'[i].age >= started[i].age

\* A step that adds no run, and nobody to those past a check, keeps the caps.
LEMMA QuietStep ==
  ASSUME AdmissionInv, Fading, asked' \in [TriggerRequests -> AskedStates], owned' \subseteq OwnSites,
         \A states \in {{"daily", "insert"}, {"insert"}} :
            Cardinality(AskedAt(states)') <= Cardinality(AskedAt(states)),
         promise' \in Int, promise' > 0 => Cardinality(StillThen(promise)') >= DailyLimit,
         RefusedHoldsNoSlot'
  PROVE  AdmissionInv'
<1>1. AdmissionTypeOK
  BY DEF AdmissionInv
<1>2. /\ IsFiniteSet(DOMAIN started')
      /\ Cardinality(Running1') \in Nat /\ Cardinality(Running1') <= Cardinality(Running1)
      /\ Cardinality(ManualOfTheDay') \in Nat
      /\ Cardinality(ManualOfTheDay') <= Cardinality(ManualOfTheDay)
  <2>1. \A i \in DOMAIN started' : started'[i].age \in Nat
    BY DEF Fading, Runs
  <2> QED BY <1>1, <2>1, FewerRuns DEF Fading
<1>3. AdmissionTypeOK'
  BY <1>2 DEF Fading, AdmissionTypeOK
<1>4. \A states : Cardinality(AskedAt(states)) \in Nat /\ Cardinality(AskedAt(states)') \in Nat
  BY <1>1, <1>3, AdmissionBounds, FS_Subset, FS_CardinalityType, CountTypes DEF AskedAt
<1>5. Cardinality(Running1) \in Nat /\ Cardinality(ManualOfTheDay) \in Nat
  BY <1>1, CountTypes
<1> QED BY <1>2, <1>3, <1>4, <1>5, AdmissionBounds DEF AdmissionInv

\* The window that was full is as full as it was: ages and promise stand.
LEMMA SamePromise ==
  ASSUME AdmissionInv, DOMAIN started' = DOMAIN started, UNCHANGED promise,
         \A i \in DOMAIN started : started'[i].age = started[i].age
  PROVE  promise' \in Int /\ (promise' > 0 => Cardinality(StillThen(promise)') >= DailyLimit)
<1>1. StillThen(promise)' = StillThen(promise)
  BY DEF StillThen
<1> QED BY <1>1 DEF AdmissionInv, AdmissionTypeOK

\* The steps that let a request go on to the check or leave, and touch nothing else.
LEMMA OnlyAsked ==
  ASSUME AdmissionInv, NEW q \in TriggerRequests, asked' \in [TriggerRequests -> AskedStates],
         \A p \in TriggerRequests \ {q} : asked'[p] = asked[p],
         asked'[q].at \notin {"daily", "insert", "503"}, UNCHANGED <<owned, started, promise>>
  PROVE  AdmissionInv'
<1>1. AdmissionTypeOK
  BY DEF AdmissionInv
<1>2. ASSUME NEW states \in {{"daily", "insert"}, {"insert"}}
      PROVE  Cardinality(AskedAt(states)') <= Cardinality(AskedAt(states))
  <2>1. asked'[q].at \notin states /\ Cardinality(AskedAt(states)) \in Nat
    BY <1>1, CountTypes
  <2> QED BY <1>1, <2>1, RequestMoves
<1>3. Fading
  BY DEF Fading, AdmissionInv, AdmissionTypeOK, Runs
<1>4. RefusedHoldsNoSlot'
  BY RefusedKept DEF AdmissionInv
<1> QED BY <1>2, <1>3, <1>4, SamePromise, QuietStep DEF AdmissionInv, AdmissionTypeOK

\* The steps that let go of a request's run, or fail it, and move the request on.
LEMMA RunLetGo ==
  ASSUME AdmissionInv, NEW q \in TriggerRequests, UNCHANGED <<owned, promise>>,
         \/ Answer1(q) /\ started' = ForgotBy(q)
         \/ asked[q].at = "abandon" /\ GoOn(q, "503") /\ started' = abandoned(q)
  PROVE  AdmissionInv'
<1>1. AdmissionTypeOK
  BY DEF AdmissionInv
<1>2. /\ asked' \in [TriggerRequests -> AskedStates]
      /\ \A p \in TriggerRequests \ {q} : asked'[p] = asked[p]
      /\ asked'[q].at \notin {"daily", "insert"}
      /\ asked'[q].at = "503" => started' = abandoned(q)
  BY <1>1, MoveTypes
<1>3. /\ DOMAIN started' = DOMAIN started /\ started' = [i \in DOMAIN started |-> started'[i]]
      /\ \A i \in DOMAIN started :
            \/ started'[i] = started[i]
            \/ started'[i] = [started[i] EXCEPT !.by = Nobody]
            \/ started'[i] = [started[i] EXCEPT !.active = FALSE] /\ i \in MineOf(q)
      /\ started' = abandoned(q) =>
            \A i \in MineOf(q) : started'[i] = [started[i] EXCEPT !.active = FALSE]
  BY Zenon DEF ForgotBy, Forget, abandoned, MineOf
<1>4. ASSUME NEW i \in DOMAIN started
      PROVE  /\ started'[i] \in Runs /\ started'[i].manual = started[i].manual
             /\ started'[i].active => started[i].active
             /\ started'[i].age = started[i].age /\ started'[i].age >= started[i].age
             /\ started'[i].by \in {started[i].by, Nobody}
  <2>1. started[i] \in Runs
    BY <1>1 DEF AdmissionTypeOK
  <2>2. started[i].age \in Nat
    BY <2>1 DEF Runs
  <2>3. CASE started'[i] = started[i]
    BY <2>1, <2>2, <2>3
  <2>4. CASE started'[i] = [started[i] EXCEPT !.by = Nobody]
    <3> DEFINE run == [started[i] EXCEPT !.by = Nobody]
    <3>1. /\ run \in Runs /\ run.by = Nobody /\ run.active = started[i].active
          /\ run.manual = started[i].manual /\ run.age = started[i].age
      BY <2>1, RunFields
    <3> HIDE DEF run
    <3>2. started'[i] = run
      BY <2>4 DEF run
    <3> QED BY <2>2, <3>1, <3>2
  <2>5. CASE started'[i] = [started[i] EXCEPT !.active = FALSE]
    <3> DEFINE run == [started[i] EXCEPT !.active = FALSE]
    <3>1. /\ run \in Runs /\ run.by = started[i].by /\ ~ run.active
          /\ run.manual = started[i].manual /\ run.age = started[i].age
      BY <2>1, RunFields
    <3> HIDE DEF run
    <3>2. started'[i] = run
      BY <2>5 DEF run
    <3> QED BY <2>2, <3>1, <3>2
  <2> QED BY <1>3, <2>3, <2>4, <2>5
<1>5. Fading
  BY <1>3, <1>4 DEF Fading
<1>6. ASSUME NEW states \in {{"daily", "insert"}, {"insert"}}
      PROVE  Cardinality(AskedAt(states)') <= Cardinality(AskedAt(states))
  <2>1. asked'[q].at \notin states /\ Cardinality(AskedAt(states)) \in Nat
    BY <1>1, <1>2, CountTypes
  <2> QED BY <1>1, <1>2, <2>1, RequestMoves
<1>7. RefusedHoldsNoSlot'
  <2> SUFFICES ASSUME NEW p \in TriggerRequests, asked'[p].at = "503",
                      NEW i \in DOMAIN started', started'[i].by = p
               PROVE  ~ started'[i].active
    BY DEF RefusedHoldsNoSlot, MineOf
  <2>1. i \in DOMAIN started /\ started[i].by = p
    BY <1>3, <1>4, AdmissionBounds
  <2>2. CASE p = q
    <3>1. started[i] \in Runs /\ i \in MineOf(q)
      BY <1>1, <2>1, <2>2 DEF AdmissionTypeOK, MineOf
    <3> DEFINE run == [started[i] EXCEPT !.active = FALSE]
    <3>2. ~ run.active
      BY <3>1, RunFields
    <3> HIDE DEF run
    <3>3. started'[i] = run
      BY <1>2, <1>3, <2>2, <3>1 DEF run
    <3> QED BY <3>2, <3>3
  <2>3. CASE p # q
    BY <1>2, <1>4, <2>1, <2>3 DEF AdmissionInv, RefusedHoldsNoSlot, MineOf
  <2> QED BY <2>2, <2>3
<1> QED BY <1>2, <1>3, <1>4, <1>5, <1>6, <1>7, SamePromise, QuietStep DEF AdmissionInv, AdmissionTypeOK

\* What the checks count.
LEMMA Counted ==
  /\ active_manual = Cardinality(Running1)
  /\ Count1(LAMBDA run : run.manual /\ run.age < Day) = Cardinality(ManualOfTheDay)
  /\ Count1(LAMBDA run : run.age < Day) = Cardinality({i \in DOMAIN started : started[i].age < Day})
  /\ \A q : Count1(LAMBDA run : run.age < Day + asked[q].lag)
             = Cardinality({i \in DOMAIN started : started[i].age < Day + asked[q].lag})
BY DEF active_manual, Count1, Running1, ManualOfTheDay

\* A request that finds room for one more below the first cap joins those past it.
LEMMA ConcurrencyStep ==
  ASSUME AdmissionInv, NEW q \in TriggerRequests, count_active_manual_for_user(q)
  PROVE  AdmissionInv'
<1>1. AdmissionTypeOK /\ asked[q].at = "concurrent" /\ UNCHANGED <<owned, started, promise>>
  BY DEF AdmissionInv, count_active_manual_for_user
<1>2. CASE Answer1(q)
  BY <1>1, <1>2, MoveTypes, OnlyAsked
<1>3. CASE ~ active_manual >= ConcurrencyLimit /\ GoOn(q, "daily")
  <2>1. /\ asked' \in [TriggerRequests -> AskedStates] /\ asked'[q].at = "daily"
        /\ \A p \in TriggerRequests \ {q} : asked'[p] = asked[p]
    BY <1>1, <1>3, MoveTypes
  <2>2. /\ Cardinality(AskedAt({"daily", "insert"})') \in Nat
        /\ Cardinality(AskedAt({"daily", "insert"})') <= Cardinality(TriggerRequests)
        /\ Cardinality(AskedAt({"insert"})') = Cardinality(AskedAt({"insert"}))
    BY <1>1, <2>1, RequestMoves
  <2>3. Cardinality(Running1) \in Nat /\ Cardinality(Running1) < ConcurrencyLimit
    BY <1>1, <1>3, Counted, CountTypes, AdmissionBounds
  <2>4. Cardinality(Running1)' = Cardinality(Running1) /\ AdmissionTypeOK'
        /\ Cardinality(ManualOfTheDay)' = Cardinality(ManualOfTheDay)
    BY <1>1, <2>1 DEF Running1, ManualOfTheDay, AdmissionTypeOK
  <2>5. RefusedHoldsNoSlot'
    BY <1>1, <2>1 DEF AdmissionInv, RefusedHoldsNoSlot, MineOf
  <2>6. promise' > 0 => Cardinality(StillThen(promise)') >= DailyLimit
    BY <1>1, SamePromise DEF AdmissionInv
  <2>7. Cardinality(Running1)' + Cardinality(AskedAt({"daily", "insert"}))'
          <= ConcurrencyLimit - 1 + Cardinality(TriggerRequests)
    BY <2>2, <2>3, <2>4, AdmissionBounds
  <2> QED BY <2>2, <2>4, <2>5, <2>6, <2>7 DEF AdmissionInv
<1> QED BY <1>2, <1>3 DEF count_active_manual_for_user, at_limit

\* A request that finds the day's window full is told when the oldest run of it
\* leaves; until then the runs it found are of the day.
LEMMA DailyStep ==
  ASSUME AdmissionInv, NEW q \in TriggerRequests, count_and_oldest_since_for_user(q)
  PROVE  AdmissionInv'
<1> DEFINE window == {i \in DOMAIN started : started[i].age < Day + asked[q].lag}
           ages == {started[i].age : i \in window}
<1>1. AdmissionTypeOK /\ asked[q].at = "daily" /\ UNCHANGED <<owned, started>>
  BY DEF AdmissionInv, count_and_oldest_since_for_user
<1>2. asked[q].lag \in Nat /\ \A i \in DOMAIN started : started[i].age \in Nat
  BY <1>1 DEF AdmissionTypeOK, AskedStates, NoRequest, Runs
<1>3. IsFiniteSet(window) /\ Cardinality(window) \in Nat
  <2>1. window \in SUBSET DOMAIN started
    OBVIOUS
  <2> QED BY <1>1, <2>1, FS_Subset, FS_CardinalityType DEF AdmissionTypeOK
<1>4. CASE Cardinality(window) >= DailyLimit /\ Answer1(q) /\ promise' = Day - oldest_started(ages)
  <2>1. ages \in SUBSET Nat /\ ages # {} /\ \A a \in ages : a < Day + asked[q].lag
    <3>1. window # {}
      BY <1>3, <1>4, FS_EmptySet, AdmissionBounds
    <3> QED BY <1>2, <3>1
  <2>2. /\ oldest_started(ages) \in Nat
        /\ \A i \in window : oldest_started(ages) >= started[i].age
    <3>1. Day + asked[q].lag \in Nat
      BY <1>2, AdmissionBounds
    <3>2. oldest_started(ages) \in ages /\ \A a \in ages : oldest_started(ages) >= a
      BY <2>1, <3>1, OldestStarted
    <3> QED BY <2>1, <3>2
  <2>3. promise' \in Int
    BY <1>4, <2>2, AdmissionBounds
  <2>4. window \in SUBSET StillThen(promise)'
    BY <1>1, <1>2, <1>4, <2>2, AdmissionBounds DEF StillThen
  <2>5. /\ AdmissionTypeOK' /\ asked'[q].at = "none" /\ asked' \in [TriggerRequests -> AskedStates]
        /\ \A p \in TriggerRequests \ {q} : asked'[p] = asked[p]
    BY <1>1, <1>4, <2>3, MoveTypes DEF AdmissionTypeOK
  <2>6. Cardinality(StillThen(promise)') >= DailyLimit
    <3>1. IsFiniteSet(StillThen(promise)')
      <4>1. StillThen(promise)' \in SUBSET DOMAIN started /\ IsFiniteSet(DOMAIN started)
        BY <1>1 DEF StillThen, AdmissionTypeOK
      <4> QED BY <4>1, FS_Subset
    <3>2. Cardinality(window) <= Cardinality(StillThen(promise)')
      BY <2>4, <3>1, FS_Subset
    <3> QED BY <1>3, <1>4, <3>1, <3>2, FS_CardinalityType, AdmissionBounds
  <2>7. ASSUME NEW states \in {{"daily", "insert"}, {"insert"}}
        PROVE  Cardinality(AskedAt(states)') <= Cardinality(AskedAt(states))
    <3>1. asked'[q].at \notin states /\ Cardinality(AskedAt(states)) \in Nat
      BY <1>1, <2>5, CountTypes
    <3> QED BY <1>1, <2>5, <3>1, RequestMoves
  <2>8. Fading
    BY <1>1, <1>2 DEF Fading, AdmissionTypeOK
  <2>9. RefusedHoldsNoSlot'
    BY <1>1, <2>5, RefusedKept DEF AdmissionInv
  <2> QED BY <1>1, <2>3, <2>5, <2>6, <2>7, <2>8, <2>9, QuietStep DEF AdmissionTypeOK
<1>5. CASE ~ Cardinality(window) >= DailyLimit /\ GoOn(q, "insert") /\ UNCHANGED promise
  <2>1. /\ asked' \in [TriggerRequests -> AskedStates] /\ asked'[q].at = "insert"
        /\ \A p \in TriggerRequests \ {q} : asked'[p] = asked[p]
    BY <1>1, <1>5, MoveTypes
  <2>2. /\ Cardinality(AskedAt({"insert"})') \in Nat
        /\ Cardinality(AskedAt({"insert"})') <= Cardinality(TriggerRequests)
        /\ Cardinality(AskedAt({"daily", "insert"})') = Cardinality(AskedAt({"daily", "insert"}))
    BY <1>1, <2>1, RequestMoves
  <2>3. Cardinality(ManualOfTheDay) \in Nat /\ Cardinality(ManualOfTheDay) < DailyLimit
    <3>1. ManualOfTheDay \in SUBSET window
      BY <1>2, AdmissionBounds DEF ManualOfTheDay
    <3>2. Cardinality(ManualOfTheDay) <= Cardinality(window)
      BY <1>3, <3>1, FS_Subset
    <3> QED BY <1>1, <1>3, <1>5, <3>2, CountTypes, AdmissionBounds
  <2>4. Cardinality(Running1)' = Cardinality(Running1) /\ AdmissionTypeOK'
        /\ Cardinality(ManualOfTheDay)' = Cardinality(ManualOfTheDay)
    BY <1>1, <1>5, <2>1 DEF Running1, ManualOfTheDay, AdmissionTypeOK
  <2>5. RefusedHoldsNoSlot'
    BY <1>1, <2>1 DEF AdmissionInv, RefusedHoldsNoSlot, MineOf
  <2>6. promise' > 0 => Cardinality(StillThen(promise)') >= DailyLimit
    BY <1>1, <1>5, SamePromise DEF AdmissionInv
  <2>7. Cardinality(ManualOfTheDay)' + Cardinality(AskedAt({"insert"}))'
          <= DailyLimit - 1 + Cardinality(TriggerRequests)
    BY <2>2, <2>3, <2>4, AdmissionBounds
  <2> QED BY <2>2, <2>4, <2>5, <2>6, <2>7 DEF AdmissionInv
<1> QED BY <1>4, <1>5, Counted DEF count_and_oldest_since_for_user, at_limit

\* A run is added: by a request, which then no longer counts as one past the checks.
LEMMA RunAdded ==
  ASSUME AdmissionInv, NEW run \in Runs, started' = Inserted(run), UNCHANGED <<owned, promise>>,
         asked' \in [TriggerRequests -> AskedStates],
         \A p \in TriggerRequests : asked'[p].at = "503" => asked[p].at = "503" /\ run.by # p,
         \/ ~ run.manual /\ UNCHANGED asked
         \/ \A states \in {{"daily", "insert"}, {"insert"}} :
              Cardinality(AskedAt(states)') = Cardinality(AskedAt(states)) - 1
  PROVE  AdmissionInv'
<1>1. AdmissionTypeOK
  BY DEF AdmissionInv
<1>2. /\ fresh_id \notin DOMAIN started /\ DOMAIN started' = DOMAIN started \cup {fresh_id}
      /\ IsFiniteSet(DOMAIN started') /\ started' \in [DOMAIN started' -> Runs]
      /\ started'[fresh_id] = run
      /\ \A i \in DOMAIN started : started'[i] = started[i]
  BY <1>1, InsertedRun
<1>3. AdmissionTypeOK'
  BY <1>1, <1>2 DEF AdmissionTypeOK
<1>4. /\ Running1' \in SUBSET (Running1 \cup {fresh_id}) /\ (~ run.manual => Running1' = Running1)
      /\ ManualOfTheDay' \in SUBSET (ManualOfTheDay \cup {fresh_id})
      /\ (~ run.manual => ManualOfTheDay' = ManualOfTheDay)
      /\ StillThen(promise) \in SUBSET StillThen(promise)'
      /\ fresh_id \notin Running1 /\ fresh_id \notin ManualOfTheDay
  BY <1>2 DEF Running1, ManualOfTheDay, StillThen
<1>5. /\ IsFiniteSet(Running1 \cup {fresh_id})
      /\ Cardinality(Running1 \cup {fresh_id}) = Cardinality(Running1) + 1
      /\ IsFiniteSet(ManualOfTheDay \cup {fresh_id})
      /\ Cardinality(ManualOfTheDay \cup {fresh_id}) = Cardinality(ManualOfTheDay) + 1
  BY <1>1, <1>4, CountTypes, FS_AddElement
<1>6. /\ Cardinality(Running1') <= Cardinality(Running1) + 1
      /\ Cardinality(ManualOfTheDay') <= Cardinality(ManualOfTheDay) + 1
  BY <1>4, <1>5, FS_Subset
<1>7. /\ Cardinality(Running1) \in Nat /\ Cardinality(Running1') \in Nat
      /\ Cardinality(ManualOfTheDay) \in Nat /\ Cardinality(ManualOfTheDay') \in Nat
      /\ \A states : Cardinality(AskedAt(states)) \in Nat
  BY <1>1, <1>4, <1>5, CountTypes, FS_Subset, FS_CardinalityType
<1>8. promise' > 0 => Cardinality(StillThen(promise)') >= DailyLimit
  <2>1. IsFiniteSet(StillThen(promise)')
    <3>1. StillThen(promise)' \in SUBSET DOMAIN started'
      BY DEF StillThen
    <3> QED BY <1>2, <3>1, FS_Subset
  <2>2. Cardinality(StillThen(promise)) <= Cardinality(StillThen(promise)')
    BY <1>4, <2>1, FS_Subset
  <2>3. Cardinality(StillThen(promise)) \in Nat /\ Cardinality(StillThen(promise)') \in Nat
    BY <1>1, <2>1, CountTypes, FS_CardinalityType
  <2> QED BY <2>2, <2>3, AdmissionBounds DEF AdmissionInv
<1>9. RefusedHoldsNoSlot'
  BY <1>2 DEF AdmissionInv, RefusedHoldsNoSlot, MineOf
<1>10. CASE ~ run.manual /\ UNCHANGED asked
  <2>1. \A states : AskedAt(states)' = AskedAt(states)
    BY <1>10 DEF AskedAt
  <2> QED BY <1>3, <1>4, <1>8, <1>9, <1>10, <2>1 DEF AdmissionInv
<1>11. CASE \A states \in {{"daily", "insert"}, {"insert"}} :
              Cardinality(AskedAt(states)') = Cardinality(AskedAt(states)) - 1
  <2>1. /\ Cardinality(AskedAt({"daily", "insert"})') = Cardinality(AskedAt({"daily", "insert"})) - 1
        /\ Cardinality(AskedAt({"insert"})') = Cardinality(AskedAt({"insert"})) - 1
    BY <1>11
  <2> QED BY <1>3, <1>6, <1>7, <1>8, <1>9, <2>1, AdmissionBounds DEF AdmissionInv
<1> QED BY <1>10, <1>11

LEMMA AdmissionStep == AdmissionInv /\ [AdmissionNext]_admissionVars => AdmissionInv'
<1> SUFFICES ASSUME AdmissionInv, [AdmissionNext]_admissionVars PROVE AdmissionInv'
  OBVIOUS
<1>T. AdmissionTypeOK
  BY DEF AdmissionInv
<1>1. ASSUME NEW q \in TriggerRequests, NEW s \in OwnSites, Ask(q, s)
      PROVE  AdmissionInv'
  <2> DEFINE state == [at |-> "active", site |-> s, lag |-> 0]
  <2>1. state \in AskedStates /\ state.at = "active"
    BY DEF AskedStates
  <2>2. asked' = [asked EXCEPT ![q] = state] /\ UNCHANGED <<owned, started, promise>>
    BY <1>1 DEF Ask
  <2> HIDE DEF state
  <2> QED BY <1>T, <2>1, <2>2, OnlyAsked DEF AdmissionTypeOK
<1>2. ASSUME NEW q \in TriggerRequests, get_active_for_website(q)
      PROVE  AdmissionInv'
  <2>1. asked[q].at = "active" /\ UNCHANGED <<owned, started, promise>>
    BY <1>2 DEF get_active_for_website
  <2>2. CASE Answer1(q)
    BY <1>T, <2>1, <2>2, MoveTypes, OnlyAsked
  <2>3. CASE asked' = [asked EXCEPT ![q].at = "concurrent", ![q].lag = 0]
    <3> DEFINE state == [asked[q] EXCEPT !.at = "concurrent", !.lag = 0]
    <3>1. asked[q] \in [at : {"active", "concurrent", "daily", "insert", "enqueue", "abandon", "503"},
                       site : OwnSites, lag : Nat]
      BY <1>T, <2>1 DEF AdmissionTypeOK, AskedStates, NoRequest
    <3>2. state \in AskedStates /\ state.at = "concurrent"
      BY <3>1 DEF AskedStates
    <3>3. asked' = [asked EXCEPT ![q] = state]
      BY <1>T, <2>3 DEF AdmissionTypeOK
    <3> HIDE DEF state
    <3> QED BY <1>T, <2>1, <3>2, <3>3, OnlyAsked DEF AdmissionTypeOK
  <2> QED BY <1>2, <2>2, <2>3 DEF get_active_for_website
<1>3. ASSUME NEW q \in TriggerRequests, insert_manual(q)
      PROVE  AdmissionInv'
  <2>1. asked[q].at = "insert" /\ UNCHANGED <<owned, promise>>
    BY <1>3 DEF insert_manual
  <2>2. CASE Answer1(q) /\ UNCHANGED started
    BY <1>T, <2>1, <2>2, MoveTypes, OnlyAsked
  <2>3. CASE GoOn(q, "enqueue") /\ ~ UNCHANGED started
    <3> DEFINE run == [site |-> asked[q].site, manual |-> TRUE, active |-> TRUE, age |-> 0, by |-> q]
    <3>1. started' = Inserted(run)
      BY <1>3, <2>3 DEF insert_manual
    <3>2. asked[q].site \in OwnSites
      BY <1>T, <2>1 DEF AdmissionTypeOK, AskedStates, NoRequest
    <3>3. run \in Runs /\ run.by = q
      BY <3>2 DEF Runs
    <3> HIDE DEF run
    <3>4. /\ asked' \in [TriggerRequests -> AskedStates] /\ asked'[q].at = "enqueue"
          /\ \A p \in TriggerRequests \ {q} : asked'[p] = asked[p]
      BY <1>T, <2>1, <2>3, MoveTypes
    <3>5. \A states \in {{"daily", "insert"}, {"insert"}} :
             Cardinality(AskedAt(states)') = Cardinality(AskedAt(states)) - 1
      BY <1>T, <2>1, <3>4, RequestMoves
    <3> QED BY <2>1, <3>1, <3>3, <3>4, <3>5, RunAdded
  <2>4. GoOn(q, "enqueue") /\ UNCHANGED started => AdmissionInv'
    <3>1. ASSUME GoOn(q, "enqueue"), UNCHANGED started PROVE AdmissionInv'
      BY <1>T, <2>1, <3>1, MoveTypes, OnlyAsked
    <3> QED BY <3>1
  <2> QED BY <1>3, <2>2, <2>3, <2>4 DEF insert_manual
<1>4. ASSUME NEW q \in TriggerRequests,
             Enqueued(q) \/ AbandonFails(q) \/ Answered503(q) \/ abandon(q)
      PROVE  AdmissionInv'
  BY <1>4, RunLetGo DEF Enqueued, AbandonFails, Answered503, abandon
<1>5. ASSUME NEW q \in TriggerRequests, EnqueueRaised(q)
      PROVE  AdmissionInv'
  <2>1. asked[q].at = "enqueue" /\ GoOn(q, "abandon") /\ UNCHANGED <<owned, started, promise>>
    BY <1>5 DEF EnqueueRaised
  <2> QED BY <1>T, <2>1, MoveTypes, OnlyAsked
<1>6. ASSUME NEW s \in OwnSites, RunScheduled(s)
      PROVE  AdmissionInv'
  <2> DEFINE run == [site |-> s, manual |-> FALSE, active |-> TRUE, age |-> 0, by |-> Nobody]
  <2>1. started' = Inserted(run) /\ UNCHANGED <<owned, asked, promise>>
    BY <1>6 DEF RunScheduled
  <2>2. run \in Runs /\ ~ run.manual /\ run.by = Nobody
    BY DEF Runs
  <2> HIDE DEF run
  <2> QED BY <1>T, <2>1, <2>2, RunAdded, AdmissionBounds DEF AdmissionTypeOK
<1>7. ASSUME NEW i \in DOMAIN started, ActiveEnds(i)
      PROVE  AdmissionInv'
  <2> DEFINE run == [started[i] EXCEPT !.active = FALSE]
  <2>1. started' = [started EXCEPT ![i] = run] /\ UNCHANGED <<owned, asked, promise>>
    BY <1>7 DEF ActiveEnds
  <2>2. started[i] \in Runs /\ started \in [DOMAIN started -> Runs]
    BY <1>T DEF AdmissionTypeOK
  <2>3. /\ run \in Runs /\ run.manual = started[i].manual /\ run.age = started[i].age
        /\ run.by = started[i].by /\ ~ run.active
    BY <2>2, RunFields
  <2> HIDE DEF run
  <2>4. /\ DOMAIN started' = DOMAIN started /\ started' \in [DOMAIN started' -> Runs]
        /\ started'[i] = run /\ \A j \in DOMAIN started \ {i} : started'[j] = started[j]
    BY <2>1, <2>2, <2>3
  <2>5. Fading
    <3>1. \A j \in DOMAIN started : started[j].age >= started[j].age
      BY <2>2 DEF Runs
    <3> QED BY <2>3, <2>4, <3>1 DEF Fading
  <2>6. RefusedHoldsNoSlot'
    BY <2>1, <2>3, <2>4, RefusedKept DEF AdmissionInv
  <2>7. \A states : AskedAt(states)' = AskedAt(states) /\ Cardinality(AskedAt(states)) \in Nat
    BY <1>T, <2>1, CountTypes DEF AskedAt
  <2> QED BY <1>T, <2>1, <2>3, <2>4, <2>5, <2>6, <2>7, SamePromise, QuietStep DEF AdmissionTypeOK
<1>8. ASSUME NEW s \in OwnSites, DeleteOwned(s)
      PROVE  AdmissionInv'
  <2>1. /\ started' = [i \in {j \in DOMAIN started : started[j].site # s} |-> started[i]]
        /\ owned' = owned \ {s} /\ promise' = 0 /\ UNCHANGED asked
    BY <1>8 DEF DeleteOwned, Remaining
  <2>2. /\ DOMAIN started' \subseteq DOMAIN started /\ started' \in [DOMAIN started' -> Runs]
        /\ \A i \in DOMAIN started' : started'[i] = started[i]
    BY <1>T, <2>1 DEF AdmissionTypeOK
  <2>3. Fading
    <3>1. \A j \in DOMAIN started : started[j].age >= started[j].age
      BY <1>T DEF AdmissionTypeOK, Runs
    <3> QED BY <2>2, <3>1 DEF Fading
  <2>4. RefusedHoldsNoSlot'
    BY <2>1, <2>2, RefusedKept DEF AdmissionInv
  <2>5. \A states : AskedAt(states)' = AskedAt(states) /\ Cardinality(AskedAt(states)) \in Nat
    BY <1>T, <2>1, CountTypes DEF AskedAt
  <2> QED BY <1>T, <2>1, <2>3, <2>4, <2>5, QuietStep DEF AdmissionTypeOK
<1>9. CASE HourPasses
  <2> DEFINE left == {j \in DOMAIN started : started[j].age + 1 < Day + MaxLag}
  <2>1. /\ DOMAIN started' = left
        /\ \A i \in left : started'[i] = [started[i] EXCEPT !.age = @ + 1]
        /\ started' = [i \in left |-> started'[i]]
    BY <1>9, Zenon DEF HourPasses, Remaining
  <2>2. ASSUME NEW i \in left
        PROVE  /\ started'[i] \in Runs /\ started'[i].manual = started[i].manual
               /\ started'[i].active = started[i].active /\ started'[i].by = started[i].by
               /\ started'[i].age = started[i].age + 1 /\ started[i].age \in Nat
    <3> DEFINE run == [started[i] EXCEPT !.age = @ + 1]
    <3>1. started[i] \in Runs
      BY <1>T DEF AdmissionTypeOK
    <3>2. /\ run \in Runs /\ run.manual = started[i].manual /\ run.active = started[i].active
          /\ run.by = started[i].by /\ run.age = started[i].age + 1 /\ started[i].age \in Nat
      BY <3>1, RunFields DEF Runs
    <3> HIDE DEF run
    <3>3. started'[i] = run
      BY <2>1 DEF run
    <3> QED BY <3>2, <3>3
  <2>3. /\ started' \in [DOMAIN started' -> Runs] /\ DOMAIN started' \subseteq DOMAIN started
        /\ left \subseteq DOMAIN started
    BY <2>1, <2>2
  <2> HIDE DEF left
  <2>4. Fading
    BY <2>1, <2>2, <2>3 DEF Fading
  <2>5. ASSUME NEW q \in TriggerRequests
        PROVE  asked'[q] \in AskedStates /\ asked'[q].at = asked[q].at
    <3>1. asked'[q] = IF asked[q].at = "none" THEN asked[q] ELSE [asked[q] EXCEPT !.lag = @ + 1]
      BY <1>9, Zenon DEF HourPasses
    <3>2. CASE asked[q].at = "none"
      BY <1>T, <3>1, <3>2 DEF AdmissionTypeOK
    <3>3. CASE asked[q].at # "none"
      <4> DEFINE state == [asked[q] EXCEPT !.lag = @ + 1]
      <4>1. asked[q] \in [at : {"active", "concurrent", "daily", "insert", "enqueue", "abandon", "503"},
                         site : OwnSites, lag : Nat]
        BY <1>T, <3>3 DEF AdmissionTypeOK, AskedStates, NoRequest
      <4>2. state \in AskedStates /\ state.at = asked[q].at
        BY <4>1 DEF AskedStates
      <4> HIDE DEF state
      <4>3. asked'[q] = state
        BY <3>1, <3>3 DEF state
      <4> QED BY <4>2, <4>3
    <3> QED BY <3>2, <3>3
  <2>6. /\ asked' \in [TriggerRequests -> AskedStates] /\ UNCHANGED owned
        /\ promise' = IF promise > 0 THEN promise - 1 ELSE 0
    BY <1>9, <2>5 DEF HourPasses
  <2>7. RefusedHoldsNoSlot'
    BY <2>1, <2>2, <2>3, <2>5, RefusedKept DEF AdmissionInv
  <2>8. \A states : AskedAt(states)' = AskedAt(states) /\ Cardinality(AskedAt(states)) \in Nat
    BY <1>T, <2>5, CountTypes DEF AskedAt
  <2>9. promise' > 0 => Cardinality(StillThen(promise)') >= DailyLimit
    <3> SUFFICES ASSUME promise' > 0 PROVE Cardinality(StillThen(promise)') >= DailyLimit
      OBVIOUS
    <3>1. promise \in Int /\ promise > 1 /\ promise' = promise - 1
      BY <1>T, <2>6 DEF AdmissionTypeOK
    <3>2. \A i \in DOMAIN started : started[i].age \in Nat
      BY <1>T DEF AdmissionTypeOK, Runs
    <3>3. StillThen(promise) \in SUBSET StillThen(promise)'
      <4> SUFFICES ASSUME NEW i \in StillThen(promise) PROVE i \in StillThen(promise)'
        OBVIOUS
      <4>1. i \in DOMAIN started /\ started[i].age \in Nat /\ started[i].age + promise <= Day
        BY <3>2 DEF StillThen
      <4>2. i \in left
        BY <3>1, <4>1, AdmissionBounds DEF left
      <4>3. started'[i].age + promise' <= Day
        BY <2>2, <3>1, <4>1, <4>2, AdmissionBounds
      <4> QED BY <2>1, <4>2, <4>3 DEF StillThen
    <3>4. IsFiniteSet(StillThen(promise)')
      <4>1. StillThen(promise)' \in SUBSET DOMAIN started /\ IsFiniteSet(DOMAIN started)
        BY <1>T, <2>3 DEF StillThen, AdmissionTypeOK
      <4> QED BY <4>1, FS_Subset
    <3>5. Cardinality(StillThen(promise)) <= Cardinality(StillThen(promise)')
      BY <3>3, <3>4, FS_Subset
    <3>6. Cardinality(StillThen(promise)) \in Nat /\ Cardinality(StillThen(promise)') \in Nat
      BY <1>T, <3>4, CountTypes, FS_CardinalityType
    <3> QED BY <3>1, <3>5, <3>6, AdmissionBounds DEF AdmissionInv
  <2>10. promise' \in Int /\ owned' \subseteq OwnSites
    BY <1>T, <2>6 DEF AdmissionTypeOK
  <2> QED BY <2>4, <2>6, <2>7, <2>8, <2>9, <2>10, QuietStep
<1>10. CASE UNCHANGED admissionVars
  BY <1>10 DEF admissionVars, AdmissionInv, AdmissionTypeOK, Running1, ManualOfTheDay, StillThen,
       AskedAt, RefusedHoldsNoSlot, MineOf
<1> QED BY <1>1, <1>2, <1>3, <1>4, <1>5, <1>6, <1>7, <1>8, <1>9, <1>10, ConcurrencyStep, DailyStep
     DEF AdmissionNext

\* Triggers that race exceed the caps by fewer than there are of them; a 429 sends
\* nobody away for longer than the day's window stays full; and a 503 that could fail
\* its run leaves it no slot (RunService.trigger_run, _enforce_run_caps).
THEOREM CapsAndPromises == AdmissionSpec => []LimitsKept
<1>1. AdmissionInv => LimitsKept
  <2> SUFFICES ASSUME AdmissionInv PROVE LimitsKept
    OBVIOUS
  <2>1. AdmissionTypeOK
    BY DEF AdmissionInv
  <2>2. CapsHold
    <3>1. /\ Cardinality(Running1) \in Nat /\ Cardinality(ManualOfTheDay) \in Nat
          /\ \A states : Cardinality(AskedAt(states)) \in Nat
      BY <2>1, CountTypes
    <3>2. /\ Cardinality(Running1) <= ConcurrencyLimit - 1 + Cardinality(TriggerRequests)
          /\ Cardinality(ManualOfTheDay) <= DailyLimit - 1 + Cardinality(TriggerRequests)
      BY <3>1, AdmissionBounds DEF AdmissionInv
    <3> QED BY <3>2, Counted DEF CapsHold
  <2>3. FloorHonest
    <3> DEFINE day == {i \in DOMAIN started : started[i].age < Day}
    <3> SUFFICES ASSUME promise > 0 PROVE Cardinality(day) >= DailyLimit
      BY Counted DEF FloorHonest, at_limit
    <3>1. promise \in Int /\ \A i \in DOMAIN started : started[i].age \in Nat
      BY <2>1 DEF AdmissionTypeOK, Runs
    <3>2. StillThen(promise) \in SUBSET day
      BY <3>1, AdmissionBounds DEF StillThen
    <3>3. IsFiniteSet(day)
      <4>1. day \in SUBSET DOMAIN started /\ IsFiniteSet(DOMAIN started)
        BY <2>1 DEF AdmissionTypeOK
      <4> QED BY <4>1, FS_Subset
    <3> HIDE DEF day
    <3>4. /\ Cardinality(StillThen(promise)) <= Cardinality(day)
          /\ Cardinality(day) \in Nat /\ Cardinality(StillThen(promise)) \in Nat
      BY <2>1, <3>2, <3>3, CountTypes, FS_Subset, FS_CardinalityType
    <3> QED BY <3>4, AdmissionBounds DEF AdmissionInv
  <2> QED BY <2>2, <2>3 DEF LimitsKept, AdmissionInv
<1> QED BY <1>1, AdmissionInitInv, AdmissionStep, PTL DEF AdmissionSpec


LEMMA LeastOfTwo ==
  ASSUME NEW a \in Nat, NEW b \in Nat
  PROVE  Min({a, b}) = IF a <= b THEN a ELSE b
BY DEF Min

LEMMA FirstOnes ==
  ASSUME NEW S, NEW s \in Seq(S), NEW n \in 0 .. Len(s)
  PROVE  /\ SubSeq(s, 1, n) \in Seq(S) /\ Len(SubSeq(s, 1, n)) = n
         /\ \A i \in 1 .. n : SubSeq(s, 1, n)[i] = s[i]
OBVIOUS

\* Of two sequences over T, c is a with the first n elements of b after it.
Lengthens(T, a, b, n, c) ==
  a \in Seq(T) /\ b \in Seq(T) /\ n \in 0 .. Len(b) /\ c = a \o SubSeq(b, 1, n)

LEMMA Appended ==
  ASSUME NEW T, NEW a, NEW b, NEW n, NEW c, Lengthens(T, a, b, n, c)
  PROVE  /\ c \in Seq(T) /\ Len(c) = Len(a) + n /\ DOMAIN c = 1 .. Len(a) + n
         /\ \A i \in 1 .. Len(a) : c[i] = a[i]
         /\ \A i \in 1 .. n : c[Len(a) + i] = b[i]
         /\ \A i \in 1 .. Len(a) + n : i \in 1 .. Len(a) \/ i - Len(a) \in 1 .. n
<1> DEFINE p == SubSeq(b, 1, n)
<1>1. p \in Seq(T) /\ Len(p) = n /\ \A i \in 1 .. n : p[i] = b[i]
  BY FirstOnes DEF Lengthens
<1>2. a \in Seq(T) /\ b \in Seq(T) /\ n \in 0 .. Len(b) /\ c = a \o p
  BY DEF Lengthens
<1> HIDE DEF p
<1>3. /\ c \in Seq(T) /\ Len(c) = Len(a) + Len(p)
      /\ \A i \in 1 .. Len(a) + Len(p) : c[i] = IF i <= Len(a) THEN a[i] ELSE p[i - Len(a)]
  BY <1>1, <1>2, ConcatProperties
<1>4. Len(a) \in Nat /\ n \in Nat
  BY <1>2
<1>5. \A i \in 1 .. n : Len(a) + i \in 1 .. Len(a) + n /\ ~ (Len(a) + i <= Len(a)) /\ Len(a) + i - Len(a) = i
  BY <1>4
<1>6. \A i \in 1 .. n : c[Len(a) + i] = b[i]
  BY <1>1, <1>3, <1>5
<1> QED BY <1>1, <1>3, <1>4, <1>6

LEMMA AppendedElements ==
  ASSUME NEW T, NEW a, NEW b, NEW n, NEW c, Lengthens(T, a, b, n, c)
  PROVE  /\ c \in Seq(T) /\ ToSet(a) \subseteq ToSet(c)
         /\ \A i \in 1 .. n : b[i] \in ToSet(c)
         /\ \A x \in ToSet(c) : x \in ToSet(a) \/ \E i \in 1 .. n : b[i] = x
<1>1. /\ DOMAIN c = 1 .. Len(a) + n /\ DOMAIN a = 1 .. Len(a) /\ Len(a) \in Nat /\ n \in Nat
      /\ \A i \in 1 .. Len(a) : c[i] = a[i]
      /\ \A i \in 1 .. n : c[Len(a) + i] = b[i]
      /\ \A i \in 1 .. Len(a) + n : i \in 1 .. Len(a) \/ i - Len(a) \in 1 .. n
  BY Appended DEF Lengthens
<1>2. ASSUME NEW i \in 1 .. Len(a) + n PROVE c[i] \in ToSet(a) \cup {b[k] : k \in 1 .. n}
  <2>1. CASE i \in 1 .. Len(a)
    BY <1>1, <2>1 DEF ToSet
  <2>2. CASE i - Len(a) \in 1 .. n
    <3>1. Len(a) + (i - Len(a)) = i
      BY <1>1
    <3> QED BY <1>1, <2>2, <3>1
  <2> QED BY <1>1, <2>1, <2>2
<1>3. ASSUME NEW i \in 1 .. n PROVE b[i] \in ToSet(c)
  <2>1. Len(a) + i \in 1 .. Len(a) + n
    BY <1>1
  <2> QED BY <1>1, <2>1 DEF ToSet
<1>4. ASSUME NEW i \in 1 .. Len(a) PROVE a[i] \in ToSet(c)
  BY <1>1 DEF ToSet
<1>5. \A x \in ToSet(c) : x \in ToSet(a) \/ \E i \in 1 .. n : b[i] = x
  BY <1>1, <1>2, SMTT(30) DEF ToSet
<1>6. ToSet(a) \subseteq ToSet(c)
  BY <1>1, <1>4 DEF ToSet
<1>7. c \in Seq(T)
  BY Appended
<1> QED BY <1>3, <1>5, <1>6, <1>7

\* If both lists go by R and all of the second one comes after all of the first.
LEMMA AppendedInOrder ==
  ASSUME NEW T, NEW a, NEW b, NEW n, NEW c, Lengthens(T, a, b, n, c), NEW R, InOrder(a, R), InOrder(b, R),
         \A x \in ToSet(a), y \in ToSet(b) : <<x, y>> \in R
  PROVE  c \in Seq(T) /\ InOrder(c, R)
<1>1. /\ DOMAIN c = 1 .. Len(a) + n /\ Len(a) \in Nat /\ n \in Nat /\ n <= Len(b) /\ Len(b) \in Nat
      /\ DOMAIN a = 1 .. Len(a) /\ DOMAIN b = 1 .. Len(b)
      /\ \A i \in 1 .. Len(a) : c[i] = a[i]
      /\ \A i \in 1 .. n : c[Len(a) + i] = b[i]
      /\ \A i \in 1 .. Len(a) + n : i \in 1 .. Len(a) \/ i - Len(a) \in 1 .. n
  BY Appended DEF Lengthens
<1> SUFFICES ASSUME NEW i \in 1 .. Len(a) + n, NEW j \in 1 .. i - 1 PROVE <<c[j], c[i]>> \in R
  BY <1>1, Appended DEF InOrder
<1>2. j \in 1 .. Len(a) + n /\ j < i
  BY <1>1
<1>3. CASE i \in 1 .. Len(a)
  <2>1. j \in 1 .. Len(a)
    BY <1>1, <1>3
  <2> QED BY <1>1, <1>3, <2>1 DEF InOrder
<1>4. CASE i - Len(a) \in 1 .. n
  <2>1. Len(a) + (i - Len(a)) = i /\ i - Len(a) \in 1 .. Len(b)
    BY <1>1, <1>4
  <2>2. c[i] = b[i - Len(a)]
    BY <1>1, <1>4, <2>1
  <2>3. CASE j \in 1 .. Len(a)
    <3>1. a[j] \in ToSet(a) /\ b[i - Len(a)] \in ToSet(b)
      BY <1>1, <2>1, <2>3 DEF ToSet
    <3> QED BY <1>1, <2>2, <2>3, <3>1
  <2>4. CASE j - Len(a) \in 1 .. n
    <3>1. Len(a) + (j - Len(a)) = j /\ j - Len(a) \in 1 .. Len(b) /\ j - Len(a) < i - Len(a)
      BY <1>1, <1>2, <2>4
    <3>2. c[j] = b[j - Len(a)]
      BY <1>1, <2>4, <3>1
    <3>3. j - Len(a) \in 1 .. (i - Len(a)) - 1
      BY <1>1, <3>1
    <3>4. i - Len(a) \in DOMAIN b
      BY <1>1, <2>1
    <3> QED BY ONLY InOrder(b, R), <2>2, <3>2, <3>3, <3>4 DEF InOrder
  <2> QED BY <1>1, <1>2, <2>3, <2>4
<1> QED BY <1>1, <1>3, <1>4

-----------------------------------------------------------------------------
(* Runs, page after page.                                                   *)

RowType == [st : Statuses3 \cup {"open", NoRun}, at : Nat, size : Sizes \cup {NoRun}]

ReadsTypeOK ==
  /\ site \in BOOLEAN /\ instant \in Nat
  /\ table \in [RunIds -> RowType]
  /\ paging \in [at : {"idle", "paging", "done", "404"}, status : {NoRun, "pending", "completed"},
                 cursor : [at : Nat, id : RunIds] \cup {NoRun}, shown : Seq(RunIds), due : SUBSET RunIds]
  /\ \A r \in RunIds : table[r].size # NoRun => table[r].st = "completed"

\* The run passes the filter of the walk.
Passes(r) == paging.status \in {NoRun, table[r].st}

\* The rows shown go down, a walk stands at the last of them, and what it owes is
\* shown or further down.
WalkInv ==
  /\ paging.at = "idle" => paging.shown = <<>> /\ paging.cursor = NoRun
  /\ site =>
     /\ ToSet(paging.shown) \cup paging.due \subseteq Visible
     /\ \A i \in DOMAIN paging.shown : \A j \in 1 .. i - 1 :
          Below(Key(paging.shown[i]), Key(paging.shown[j]))
     /\ paging.at # "idle" /\ paging.status # "pending" => \A r \in paging.due : Passes(r)
     /\ paging.at = "paging" =>
          /\ paging.shown # <<>> /\ paging.cursor = Key(paging.shown[Len(paging.shown)])
          /\ \A r \in paging.due : Passes(r) =>
               r \in ToSet(paging.shown) \/ Below(Key(r), paging.cursor)
     /\ paging.at = "done" => \A r \in paging.due : Passes(r) => r \in ToSet(paging.shown)

\* The newer of two rows comes first.
NewestFirst(rows) == {p \in rows \X rows : Below(Key(p[2]), Key(p[1]))}

LEMMA NewestFirstOrder ==
  ASSUME ReadsTypeOK, NEW rows \in SUBSET RunIds
  PROVE  StrictOrder(NewestFirst(rows), rows)
<1> USE RunReadsAssumption
<1>1. \A r \in rows : r \in Nat /\ table[r].at \in Nat
  BY DEF ReadsTypeOK, RowType
<1> QED BY <1>1 DEF StrictOrder, NewestFirst, Below, Key

\* The statement's answer: the rows that match and are below the cursor, the newest
\* first.
LEMMA ListedRows ==
  ASSUME ReadsTypeOK, NEW cursor, NEW status, NEW S, NEW rows,
         S = {r \in Matching(status) : cursor = NoRun \/ Below(Key(r), cursor)},
         rows = list_by_website(cursor, status)
  PROVE  /\ rows \in Seq(S) /\ Len(rows) \in Nat /\ DOMAIN rows = 1 .. Len(rows)
         /\ \A i \in 1 .. Len(rows) : rows[i] \in S
         /\ \A r \in S : \E i \in 1 .. Len(rows) : rows[i] = r
         /\ InOrder(rows, NewestFirst(S))
<1> DEFINE R == NewestFirst(S)
           Place(r) == Cardinality({q \in S : Below(Key(r), Key(q))}) + 1
<1>1. S \in SUBSET RunIds
  BY DEF Matching, Visible
<1>2. IsFiniteSet(S) /\ StrictOrder(R, S)
  BY <1>1, RunReadsAssumption, NewestFirstOrder, FS_Subset
<1>3. rows = [i \in 1 .. Cardinality(S) |-> CHOOSE r \in S : Place(r) = i]
  BY DEF list_by_website
<1>4. ASSUME NEW r \in S PROVE Place(r) = Places(R, S)[r]
  <2>1. {q \in S : Below(Key(r), Key(q))} = {q \in S : <<q, r>> \in R}
    BY DEF NewestFirst
  <2> QED BY <2>1 DEF Places
<1> HIDE DEF Place
<1>5. ASSUME NEW i \in 1 .. Cardinality(S) PROVE rows[i] \in S /\ Places(R, S)[rows[i]] = i
  <2>1. \E r \in S : Place(r) = i
    BY <1>2, <1>4, PlacesAll
  <2>2. rows[i] = CHOOSE r \in S : Place(r) = i
    BY <1>3
  <2>3. rows[i] \in S /\ Place(rows[i]) = i
    BY <2>1, <2>2
  <2> QED BY <2>3, <1>4
<1>6. DOMAIN rows = 1 .. Cardinality(S) /\ rows = [i \in 1 .. Cardinality(S) |-> rows[i]]
  BY <1>3
<1>7. rows \in [1 .. Cardinality(S) -> S]
  BY <1>5, <1>6
<1> HIDE DEF R
<1>8. \A i \in 1 .. Cardinality(S) : Places(R, S)[rows[i]] = i
  BY <1>5
<1>9. Sorts(rows, R, S)
  BY <1>2, <1>7, <1>8, SortedBySlot
<1> QED BY <1>9 DEF Sorts, R


LEMMA ReadsInitType == ReadsInit => ReadsTypeOK
BY RunReadsAssumption DEF ReadsInit, ReadsTypeOK, RowType, NoRow, Statuses3

LEMMA ReadsStepType == ReadsTypeOK /\ [ReadsNext]_readsVars => ReadsTypeOK'
<1> SUFFICES ASSUME ReadsTypeOK, [ReadsNext]_readsVars PROVE ReadsTypeOK'
  OBVIOUS
<1> USE RunReadsAssumption
<1>1. ASSUME NEW r \in RunIds, NEW row \in RowType, row.size # NoRun => row.st = "completed",
             table' = [table EXCEPT ![r] = row], UNCHANGED <<site, instant, paging>>
      PROVE  ReadsTypeOK'
  BY <1>1 DEF ReadsTypeOK
<1>2. ASSUME NEW r \in RunIds, InsertRow(r) PROVE ReadsTypeOK'
  <2> DEFINE row == [NoRow EXCEPT !.st = "open", !.at = instant]
  <2>1. NoRow \in RowType /\ NoRow.size = NoRun
    BY DEF RowType, NoRow
  <2>2. row \in RowType /\ row.size = NoRun
    BY <2>1 DEF RowType, ReadsTypeOK
  <2>3. table' = [table EXCEPT ![r] = row] /\ UNCHANGED <<site, instant, paging>>
    BY <1>2 DEF InsertRow
  <2> QED BY <1>1, <2>2, <2>3
<1>3. ASSUME NEW r \in RunIds, CommitRow(r) PROVE ReadsTypeOK'
  <2> DEFINE row == [table[r] EXCEPT !.st = "pending"]
  <2>1. table[r] \in RowType /\ table[r].size = NoRun
    BY <1>3 DEF ReadsTypeOK, CommitRow
  <2>2. row \in RowType /\ row.size = NoRun
    BY <2>1 DEF RowType, Statuses3
  <2>3. table' = [table EXCEPT ![r] = row] /\ UNCHANGED <<site, instant, paging>>
    BY <1>3 DEF CommitRow
  <2> QED BY <1>1, <2>2, <2>3
<1>4. ASSUME NEW r \in RunIds, NEW size \in Sizes \cup {NoRun}, RowEnds(r, size) PROVE ReadsTypeOK'
  <2> DEFINE ended(st) == [table[r] EXCEPT !.st = st, !.size = size]
  <2>1. table[r] \in RowType /\ table[r].size = NoRun
    BY <1>4 DEF ReadsTypeOK, RowEnds
  <2>2. PICK st \in {"completed", "failed"} :
          /\ table' = [table EXCEPT ![r] = [table[r] EXCEPT !.st = st, !.size = size]]
          /\ size # NoRun => st = "completed"
    <3>1. CASE table' = [table EXCEPT ![r].st = "completed", ![r].size = size]
      BY <3>1 DEF ReadsTypeOK
    <3>2. CASE table' = [table EXCEPT ![r].st = "failed"] /\ size = NoRun
      <4>1. [table[r] EXCEPT !.st = "failed"] = [table[r] EXCEPT !.st = "failed", !.size = size]
        BY <2>1, <3>2 DEF RowType
      <4> QED BY <3>2, <4>1 DEF ReadsTypeOK
    <3> QED BY <1>4, <3>1, <3>2 DEF RowEnds
  <2>3. ended(st) \in RowType /\ (ended(st).size # NoRun => ended(st).st = "completed")
    BY <2>1, <2>2 DEF RowType, Statuses3
  <2> QED BY <1>1, <1>4, <2>2, <2>3 DEF RowEnds
<1>5. ASSUME DeleteSite \/ TimePasses PROVE ReadsTypeOK'
  <2>1. NoRow \in RowType /\ NoRow.size = NoRun
    BY DEF RowType, NoRow
  <2>2. CASE DeleteSite
    BY <2>1, <2>2 DEF DeleteSite, ReadsTypeOK
  <2>3. CASE TimePasses
    <3>1. instant' \in Nat
      BY <2>3 DEF TimePasses, ReadsTypeOK
    <3> QED BY <2>3, <3>1 DEF TimePasses, ReadsTypeOK
  <2> QED BY <1>5, <2>2, <2>3
<1>6. ASSUME NEW status \in {NoRun, "pending", "completed"}, ListRuns(status) PROVE ReadsTypeOK'
  <2> DEFINE rows == list_by_website(paging.cursor, status)
             S == {r \in Matching(status) : paging.cursor = NoRun \/ Below(Key(r), paging.cursor)}
  <2>1. S \subseteq RunIds /\ Matching(status) \subseteq RunIds
    BY DEF Matching, Visible
  <2>2. rows \in Seq(S) /\ Len(rows) \in Nat
    BY ListedRows
  <2>3. rows \in Seq(RunIds)
    BY <2>1, <2>2
  <2> HIDE DEF rows, S
  <2>4. Min({PageLimit, Len(rows)}) \in 0 .. Len(rows)
    BY <2>2, LeastOfTwo
  <2>5. Len(rows) > PageLimit => next_cursor(rows) \in [at : Nat, id : RunIds]
    <3>1. Len(rows) > PageLimit => rows[PageLimit] \in RunIds
      BY <2>2, <2>3
    <3>2. \A r \in RunIds : table[r].at \in Nat
      BY DEF ReadsTypeOK, RowType
    <3> QED BY <3>1, <3>2 DEF next_cursor, Key
  <2>6. paging.shown \o SubSeq(rows, 1, Min({PageLimit, Len(rows)})) \in Seq(RunIds)
    <3>1. SubSeq(rows, 1, Min({PageLimit, Len(rows)})) \in Seq(RunIds)
      BY <2>3, <2>4, FirstOnes
    <3>2. paging.shown \in Seq(RunIds)
      BY DEF ReadsTypeOK
    <3> QED BY <3>1, <3>2, ConcatProperties
  <2>7. /\ paging' = IF ~ site THEN [paging EXCEPT !.at = "404"]
             ELSE [at |-> IF Len(rows) > PageLimit THEN "paging" ELSE "done", status |-> status,
                   cursor |-> IF Len(rows) > PageLimit THEN next_cursor(rows) ELSE NoRun,
                   shown |-> paging.shown \o SubSeq(rows, 1, Min({PageLimit, Len(rows)})),
                   due |-> IF paging.at = "idle" THEN Matching(status) ELSE paging.due]
        /\ UNCHANGED <<site, table, instant, report>>
    BY <1>6 DEF ListRuns, rows
  <2>8. paging' \in [at : {"idle", "paging", "done", "404"}, status : {NoRun, "pending", "completed"},
                     cursor : [at : Nat, id : RunIds] \cup {NoRun}, shown : Seq(RunIds), due : SUBSET RunIds]
    BY <2>1, <2>5, <2>6, <2>7, Zenon DEF ReadsTypeOK
  <2> QED BY <2>7, <2>8 DEF ReadsTypeOK
<1>7. ASSUME UNCHANGED <<site, table, instant, paging>> PROVE ReadsTypeOK'
  BY <1>7 DEF ReadsTypeOK
<1> QED BY <1>1, <1>2, <1>3, <1>4, <1>5, <1>6, <1>7
        DEF ReadsNext, readsVars, GetStats, website_stats, latest_completed_index

-----------------------------------------------------------------------------

\* What happens to the rows of a site that stays: a row that is visible remains so,
\* at its place, and changes only by ending.
RowsStay ==
  \A r \in Visible :
    /\ r \in Visible' /\ table'[r].at = table[r].at
    /\ table'[r] = table[r] \/ (table[r].st = "pending" /\ table'[r].st \in {"completed", "failed"})

LEMMA RowSteps ==
  ASSUME ReadsTypeOK, NEW r \in RunIds, NEW size,
         InsertRow(r) \/ CommitRow(r) \/ RowEnds(r, size)
  PROVE  RowsStay /\ UNCHANGED <<site, instant, paging, report>>
<1>1. CASE InsertRow(r)
  BY <1>1, RunReadsAssumption DEF InsertRow, RowsStay, Visible, Statuses3, ReadsTypeOK
<1>2. CASE CommitRow(r)
  BY <1>2 DEF CommitRow, RowsStay, Visible, Statuses3, ReadsTypeOK
<1>3. CASE RowEnds(r, size)
  <2>1. \A q \in RunIds : q # r => table'[q] = table[q]
    BY <1>3 DEF RowEnds, ReadsTypeOK
  <2>2. table[r] \in RowType
    BY DEF ReadsTypeOK
  <2>3. table[r].st = "pending" /\ table'[r].st \in {"completed", "failed"} /\ table'[r].at = table[r].at
    BY <1>3, <2>2 DEF RowEnds, ReadsTypeOK, RowType
  <2>4. UNCHANGED <<site, instant, paging, report>>
    BY <1>3 DEF RowEnds
  <2>5. r \in Visible'
    BY <2>3 DEF Visible, Statuses3
  <2>6. \A q \in Visible : q # r => q \in Visible'
    BY <2>1 DEF Visible
  <2> QED BY <2>1, <2>3, <2>4, <2>5, <2>6 DEF RowsStay, Visible
<1> QED BY <1>1, <1>2, <1>3

LEMMA WalkKept ==
  ASSUME ReadsTypeOK, WalkInv, RowsStay, UNCHANGED <<site, paging>>
  PROVE  WalkInv'
<1> SUFFICES ASSUME site PROVE WalkInv'
  BY DEF WalkInv
<1>1. \A r \in Visible : Key(r)' = Key(r)
  BY DEF RowsStay, Key
<1>2. \A r \in Visible : paging.status # "pending" /\ Passes(r) => Passes(r)'
  BY RunReadsAssumption DEF RowsStay, Passes, ReadsTypeOK
<1>3. \A r \in Visible : paging.status = "pending" /\ Passes(r)' => Passes(r)
  BY RunReadsAssumption DEF RowsStay, Passes, ReadsTypeOK
<1>4. \A i \in DOMAIN paging.shown : paging.shown[i] \in Visible
  BY DEF WalkInv, ToSet
<1>5. \A r \in paging.due : r \in Visible
  BY DEF WalkInv
<1>6. Visible \subseteq Visible'
  BY DEF RowsStay
<1>7. \A r \in paging.due : paging.at # "idle" /\ Passes(r)' => Passes(r)
  BY <1>3, <1>5 DEF WalkInv
<1>8. ToSet(paging'.shown) \cup paging'.due \subseteq Visible'
  BY <1>6 DEF WalkInv
<1>9. \A i \in DOMAIN paging.shown : \A j \in 1 .. i - 1 :
        Below(Key(paging.shown[i])', Key(paging.shown[j])')
  <2> SUFFICES ASSUME NEW i \in DOMAIN paging.shown, NEW j \in 1 .. i - 1
               PROVE  Below(Key(paging.shown[i])', Key(paging.shown[j])')
    OBVIOUS
  <2>1. j \in DOMAIN paging.shown
    BY DEF ReadsTypeOK
  <2>2. Below(Key(paging.shown[i]), Key(paging.shown[j]))
    BY DEF WalkInv
  <2> QED BY <1>1, <1>4, <2>1, <2>2
<1>10. paging.at # "idle" /\ paging.status # "pending" => \A r \in paging.due : Passes(r)'
  BY <1>2, <1>5 DEF WalkInv
<1>11. paging.at = "paging" =>
         /\ paging.shown # <<>> /\ paging.cursor = Key(paging.shown[Len(paging.shown)])'
         /\ \A r \in paging.due : Passes(r)' =>
              r \in ToSet(paging.shown) \/ Below(Key(r)', paging.cursor)
  <2> SUFFICES ASSUME paging.at = "paging"
               PROVE  /\ paging.shown # <<>> /\ paging.cursor = Key(paging.shown[Len(paging.shown)])'
                      /\ \A r \in paging.due : Passes(r)' =>
                           r \in ToSet(paging.shown) \/ Below(Key(r)', paging.cursor)
    OBVIOUS
  <2>1. Len(paging.shown) \in DOMAIN paging.shown
    BY DEF WalkInv, ReadsTypeOK
  <2> QED BY <1>1, <1>4, <1>5, <1>7, <2>1 DEF WalkInv
<1>12. paging.at = "done" => \A r \in paging.due : Passes(r)' => r \in ToSet(paging.shown)
  BY <1>7 DEF WalkInv
<1> QED BY <1>8, <1>9, <1>10, <1>11, <1>12 DEF WalkInv


\* Following the cursor: the page shown is below it, and what is left is below the
\* next one.
LEMMA WalkOn ==
  ASSUME ReadsTypeOK, WalkInv, site, NEW status \in {NoRun, "pending", "completed"}, ListRuns(status)
  PROVE  WalkInv'
<1> DEFINE rows == list_by_website(paging.cursor, status)
           S == {r \in Matching(status) : paging.cursor = NoRun \/ Below(Key(r), paging.cursor)}
           size == Min({PageLimit, Len(rows)})
           old == paging.shown
           shown == paging'.shown
<1>1. /\ rows \in Seq(S) /\ Len(rows) \in Nat /\ DOMAIN rows = 1 .. Len(rows)
      /\ \A i \in 1 .. Len(rows) : rows[i] \in S
      /\ \A r \in S : \E i \in 1 .. Len(rows) : rows[i] = r
      /\ InOrder(rows, NewestFirst(S))
  BY ListedRows
<1>2. /\ paging' = [at |-> IF Len(rows) > PageLimit THEN "paging" ELSE "done", status |-> status,
                   cursor |-> IF Len(rows) > PageLimit THEN next_cursor(rows) ELSE NoRun,
                   shown |-> old \o SubSeq(rows, 1, size),
                   due |-> IF paging.at = "idle" THEN Matching(status) ELSE paging.due]
      /\ UNCHANGED <<site, table, instant, report>>
      /\ paging.at = "idle" \/ (paging.at = "paging" /\ paging.status = status)
  BY DEF ListRuns
<1>3. S \subseteq Visible /\ Visible \subseteq RunIds /\ Matching(status) \subseteq Visible
  BY DEF Matching, Visible
<1>4. \A r \in Matching(status) : r \in S <=> paging.cursor = NoRun \/ Below(Key(r), paging.cursor)
  OBVIOUS
<1> HIDE DEF rows, S
<1>5. size \in 0 .. Len(rows)
  BY <1>1, LeastOfTwo, RunReadsAssumption, SMTT(30)
<1>17. /\ PageLimit \in Nat /\ 1 <= PageLimit /\ Len(rows) \in Nat
       /\ Len(rows) > PageLimit => size = PageLimit
       /\ ~ (Len(rows) > PageLimit) => size = Len(rows)
  BY <1>1, LeastOfTwo, RunReadsAssumption, SMTT(30)
<1> HIDE DEF size
<1>6. /\ old \in Seq(RunIds) /\ rows \in Seq(RunIds)
      /\ Len(old) \in Nat /\ DOMAIN old = 1 .. Len(old)
      /\ Lengthens(RunIds, old, rows, size, shown)
  <2>1. rows \in Seq(RunIds)
    BY <1>1, <1>3
  <2>2. old \in Seq(RunIds)
    BY DEF ReadsTypeOK
  <2>3. Len(old) \in Nat /\ DOMAIN old = 1 .. Len(old)
    BY <2>2
  <2>4. shown = old \o SubSeq(rows, 1, size)
    BY <1>2
  <2>5. Lengthens(RunIds, old, rows, size, shown)
    BY ONLY <1>5, <2>1, <2>2, <2>4 DEF Lengthens
  <2> QED BY <2>1, <2>2, <2>3, <2>5
<1> HIDE DEF old, shown
<1>7. /\ shown \in Seq(RunIds) /\ Len(shown) = Len(old) + size /\ DOMAIN shown = 1 .. Len(old) + size
      /\ \A i \in 1 .. Len(old) : shown[i] = old[i]
      /\ \A i \in 1 .. size : shown[Len(old) + i] = rows[i]
  BY ONLY <1>6, Appended
<1>31. Len(old) \in Nat
  BY <1>6
<1>8. /\ ToSet(old) \subseteq ToSet(shown)
      /\ \A i \in 1 .. size : rows[i] \in ToSet(shown)
      /\ \A r \in ToSet(shown) : r \in ToSet(old) \/ \E i \in 1 .. size : rows[i] = r
  BY ONLY <1>6, AppendedElements
<1>10. paging.at = "idle" => old = <<>> /\ paging.cursor = NoRun
  BY DEF WalkInv, old
<1>11. paging.at = "paging" => Len(old) \in 1 .. Len(old) /\ paging.cursor = Key(old[Len(old)])
  BY <1>6 DEF WalkInv, old
<1>12. \A r \in RunIds : Key(r) # NoRun
  <2>1. \A r \in RunIds : Key(r) \in [at : Nat, id : Nat]
    BY RunReadsAssumption DEF Key, ReadsTypeOK, RowType
  <2> QED BY <2>1, RunReadsAssumption
\* What is shown goes down.
<1>13. InOrder(old, NewestFirst(RunIds))
  <2> SUFFICES ASSUME NEW i \in DOMAIN old, NEW j \in 1 .. i - 1
               PROVE  <<old[j], old[i]>> \in NewestFirst(RunIds)
    BY DEF InOrder
  <2>1. Below(Key(old[i]), Key(old[j]))
    BY DEF WalkInv, old
  <2>2. j \in DOMAIN old
    BY <1>6
  <2>3. old[i] \in RunIds /\ old[j] \in RunIds
    BY <1>6, <2>2
  <2> QED BY <2>1, <2>3 DEF NewestFirst
<1>14. InOrder(rows, NewestFirst(RunIds))
  BY <1>1, <1>3 DEF NewestFirst, InOrder
<1>15. ASSUME NEW q \in ToSet(old), NEW r \in ToSet(rows) PROVE <<q, r>> \in NewestFirst(RunIds)
  <2>1. PICK j \in 1 .. Len(old) : old[j] = q
    BY <1>6 DEF ToSet
  <2>2. paging.at = "paging"
    <3>1. old # <<>>
      BY <2>1
    <3> QED BY <1>2, <1>10, <3>1
  <2>3. Len(old) \in DOMAIN old /\ old[Len(old)] \in RunIds /\ q \in RunIds
    BY <1>6, <1>11, <2>1, <2>2
  <2>4. r \in S /\ r \in Matching(status) /\ r \in RunIds
    BY <1>1, <1>3 DEF ToSet, S
  <2>5. Below(Key(r), Key(old[Len(old)]))
    BY <1>4, <1>11, <1>12, <2>2, <2>3, <2>4
  <2>6. <<old[Len(old)], r>> \in NewestFirst(RunIds)
    BY <2>3, <2>4, <2>5 DEF NewestFirst
  <2>7. q = old[Len(old)] \/ <<q, old[Len(old)]>> \in NewestFirst(RunIds)
    <3>1. j = Len(old) \/ j \in 1 .. Len(old) - 1
      BY <1>31, <2>1
    <3> QED BY <1>13, <2>1, <2>3, <3>1 DEF InOrder
  <2>8. StrictOrder(NewestFirst(RunIds), RunIds)
    BY NewestFirstOrder
  <2> QED BY <2>3, <2>4, <2>6, <2>7, <2>8 DEF StrictOrder
<1>16. InOrder(shown, NewestFirst(RunIds))
  BY <1>5, <1>6, <1>13, <1>14, <1>15, AppendedInOrder
\* What is owed.
<1>18. paging'.due \subseteq Visible
  BY <1>2, <1>3 DEF WalkInv
<1>19. \A r : Passes(r)' <=> status \in {NoRun, table[r].st}
  BY <1>2 DEF Passes
<1>20. \A r \in Visible : Passes(r)' <=> r \in Matching(status)
  BY <1>19 DEF Matching
<1>21. ASSUME NEW r \in paging'.due, Passes(r)', r \notin ToSet(shown)
       PROVE  Len(rows) > PageLimit /\ Below(Key(r), Key(rows[PageLimit]))
  <2>1. r \in Matching(status)
    BY <1>18, <1>20, <1>21
  <2>2. r \in S
    <3>1. CASE paging.at = "idle"
      BY <1>4, <1>10, <2>1, <3>1
    <3>2. CASE paging.at = "paging"
      <4>1. r \in paging.due /\ Passes(r)
        BY <1>2, <1>19, <1>21, <3>2 DEF Passes
      <4>2. r \notin ToSet(old)
        BY <1>8, <1>21
      <4>3. Below(Key(r), paging.cursor)
        BY <3>2, <4>1, <4>2 DEF WalkInv, old
      <4> QED BY <1>4, <2>1, <4>3
    <3> QED BY <1>2, <3>1, <3>2
  <2>3. PICK i \in 1 .. Len(rows) : rows[i] = r
    BY <1>1, <2>2
  <2>4. i \notin 1 .. size
    BY <1>8, <1>21, <2>3
  <2>5. Len(rows) > PageLimit /\ PageLimit \in 1 .. i - 1 /\ i \in DOMAIN rows
    BY <1>1, <1>17, <2>4
  <2> QED BY <1>1, <2>3, <2>5 DEF InOrder, NewestFirst
<1>22. ToSet(shown) \subseteq Visible
  <2>1. \A i \in 1 .. size : rows[i] \in Visible
    <3>1. \A i \in 1 .. size : i \in 1 .. Len(rows)
      BY <1>5, <1>17
    <3> QED BY <1>1, <1>3, <3>1
  <2>2. ToSet(old) \subseteq Visible
    BY DEF WalkInv, old
  <2> QED BY <1>8, <2>1, <2>2
<1>23. status # "pending" => \A r \in paging'.due : Passes(r)'
  <2>1. CASE paging.at = "idle"
    BY <1>2, <1>3, <1>20, <2>1
  <2>2. CASE paging.at = "paging"
    BY <1>2, <1>19, <2>2 DEF WalkInv, Passes
  <2> QED BY <1>2, <2>1, <2>2
<1>24. Len(rows) > PageLimit => Len(shown) > 0 /\ shown[Len(shown)] = rows[PageLimit]
  <2> SUFFICES ASSUME Len(rows) > PageLimit PROVE Len(shown) > 0 /\ shown[Len(shown)] = rows[PageLimit]
    OBVIOUS
  <2>1. size = PageLimit /\ size \in 1 .. size
    BY <1>17
  <2> QED BY <1>6, <1>7, <2>1
<1>25. /\ paging'.at \in {"paging", "done"} /\ paging'.status = status /\ paging'.shown = shown
       /\ paging'.at = "paging" => Len(rows) > PageLimit /\ paging'.cursor = Key(rows[PageLimit])
       /\ paging'.at = "done" => ~ (Len(rows) > PageLimit)
  BY <1>2 DEF next_cursor, shown
<1>26. UNCHANGED <<site, table>> /\ Visible' = Visible
  BY <1>2 DEF Visible
<1>27. (\A i \in DOMAIN paging.shown : \A j \in 1 .. i - 1 :
          Below(Key(paging.shown[i]), Key(paging.shown[j])))'
  <2>1. \A i \in DOMAIN shown : \A j \in 1 .. i - 1 : Below(Key(shown[i]), Key(shown[j]))
    BY <1>16 DEF NewestFirst, InOrder
  <2> QED BY <1>25, <1>26, <2>1 DEF Key
<1>28. (paging.at = "paging" =>
         /\ paging.shown # <<>> /\ paging.cursor = Key(paging.shown[Len(paging.shown)])
         /\ \A r \in paging.due : Passes(r) =>
              r \in ToSet(paging.shown) \/ Below(Key(r), paging.cursor))'
  <2> SUFFICES ASSUME paging'.at = "paging"
      PROVE (/\ paging.shown # <<>> /\ paging.cursor = Key(paging.shown[Len(paging.shown)])
             /\ \A r \in paging.due : Passes(r) =>
                  r \in ToSet(paging.shown) \/ Below(Key(r), paging.cursor))'
    OBVIOUS
  <2>1. Len(rows) > PageLimit /\ paging'.cursor = Key(rows[PageLimit])
    BY <1>25
  <2>2. shown # <<>> /\ paging'.cursor = Key(shown[Len(shown)])
    BY <1>7, <1>24, <2>1
  <2>3. \A r \in paging'.due : Passes(r)' => r \in ToSet(shown) \/ Below(Key(r), paging'.cursor)
    BY <1>21, <2>1
  <2> QED BY <1>25, <1>26, <2>2, <2>3 DEF Key
<1>29. (paging.at = "done" => \A r \in paging.due : Passes(r) => r \in ToSet(paging.shown))'
  BY <1>21, <1>25
<1>30. paging'.at # "idle" /\ (ToSet(paging.shown) \cup paging.due \subseteq Visible)'
  BY <1>18, <1>22, <1>25, <1>26
<1>32. (paging.at # "idle" /\ paging.status # "pending" => \A r \in paging.due : Passes(r))'
  BY <1>23, <1>25
<1> QED BY <1>27, <1>28, <1>29, <1>30, <1>32 DEF WalkInv


LEMMA WalkInit == ReadsInit => WalkInv
BY DEF ReadsInit, WalkInv, Visible, Statuses3, NoRow, ToSet

LEMMA WalkStep == ReadsTypeOK /\ WalkInv /\ [ReadsNext]_readsVars => WalkInv'
<1> SUFFICES ASSUME ReadsTypeOK, WalkInv, [ReadsNext]_readsVars PROVE WalkInv'
  OBVIOUS
<1>1. ASSUME NEW r \in RunIds, NEW size, InsertRow(r) \/ CommitRow(r) \/ RowEnds(r, size) PROVE WalkInv'
  <2>1. RowsStay /\ UNCHANGED <<site, instant, paging, report>>
    BY <1>1, RowSteps
  <2> QED BY <2>1, WalkKept
<1>2. CASE DeleteSite
  BY <1>2 DEF DeleteSite, WalkInv
<1>3. ASSUME UNCHANGED <<site, table, paging>> PROVE WalkInv'
  <2>1. RowsStay
    BY <1>3 DEF RowsStay, Visible
  <2> QED BY <1>3, <2>1, WalkKept
<1>4. ASSUME NEW status \in {NoRun, "pending", "completed"}, ListRuns(status) PROVE WalkInv'
  <2>1. CASE site
    BY <1>4, <2>1, WalkOn
  <2>2. CASE ~ site
    <3>1. paging'.at = "404" /\ ~ site'
      BY <1>4, <2>2 DEF ListRuns, ReadsTypeOK
    <3> QED BY <3>1 DEF WalkInv
  <2> QED BY <2>1, <2>2
<1> QED BY <1>1, <1>2, <1>3, <1>4
        DEF ReadsNext, readsVars, TimePasses, GetStats, website_stats, latest_completed_index

\* The rows, the site and the client's way through the pages have their types.
THEOREM ReadsTyped == ReadsSpec => []ReadsTypeOK
<1>1. ReadsInit => ReadsTypeOK
  BY ReadsInitType
<1>2. ReadsTypeOK /\ [ReadsNext]_readsVars => ReadsTypeOK'
  BY ReadsStepType
<1> QED BY <1>1, <1>2, PTL DEF ReadsSpec

\* Following next_cursor to its end shows every run that was there at the first page
\* and still matches the filter, each once and the newest first.
THEOREM WalksComplete == ReadsSpec => []WalkComplete
<1>1. ReadsInit => WalkInv
  BY WalkInit
<1>2. ReadsTypeOK /\ WalkInv /\ [ReadsNext]_readsVars => WalkInv'
  BY WalkStep
<1>3. WalkInv => WalkComplete
  BY DEF WalkInv, WalkComplete, Passes
<1> QED BY <1>1, <1>2, <1>3, ReadsTyped, PTL DEF ReadsSpec


-----------------------------------------------------------------------------
(* Statistics: buckets.                                                     *)

\* A row is in a bucket from k on when its instant is not before that bucket's start.
LEMMA BucketBounds ==
  ASSUME NEW t \in Nat, NEW k \in Int
  PROVE  /\ BucketOf(t) \in Nat
         /\ k <= BucketOf(t) <=> k * Step <= t
<1>0. Step \in Nat \ {0}
  BY RunReadsAssumption
<1> DEFINE q == BucketOf(t)
           m == t % Step
<1>1. q \in Int /\ m \in 0 .. Step - 1 /\ t = q * Step + m
  BY <1>0 DEF BucketOf
<1>2. q \in Nat
  BY <1>0 DEF BucketOf
<1> HIDE DEF q, m
<1>3. ASSUME k <= q PROVE k * Step <= t
  <2>1. k * Step <= q * Step
    BY <1>0, <1>1, <1>3
  <2> QED BY <1>0, <1>1, <2>1
<1>4. ASSUME ~ (k <= q) PROVE ~ (k * Step <= t)
  <2>1. (q + 1) * Step <= k * Step
    BY <1>0, <1>1, <1>4
  <2>2. (q + 1) * Step = q * Step + Step
    BY <1>0, <1>1
  <2> QED BY <1>0, <1>1, <2>1, <2>2
<1> QED BY <1>2, <1>3, <1>4 DEF q

LEMMA LaterBucket ==
  ASSUME NEW t \in Nat, NEW u \in Nat, t <= u
  PROVE  BucketOf(t) <= BucketOf(u)
<1>1. BucketOf(t) \in Nat /\ BucketOf(u) \in Nat /\ BucketOf(t) * Step <= t
  BY BucketBounds
<1>2. BucketOf(t) * Step <= u
  BY <1>1, RunReadsAssumption
<1> QED BY <1>1, <1>2, BucketBounds


-----------------------------------------------------------------------------
(* Sums.                                                                    *)

\* Counting satisfies the recursion,
LEMMA CountingAdds ==
  ASSUME NEW W, NEW place, NEW D, NEW f, Counts(f, W, place, D)
  PROVE  Adds([s \in SUBSET D |-> Cardinality(In(W, place, s))], f, D)
<1> DEFINE g == [s \in SUBSET D |-> Cardinality(In(W, place, s))]
           pick(s) == CHOOSE x \in s : TRUE
           h == [s \in SUBSET D |-> IF s = {} THEN 0 ELSE f[pick(s)] + g[s \ {pick(s)}]]
<1>1. ASSUME NEW s \in SUBSET D PROVE g[s] = h[s]
  <2>1. CASE s = {}
    <3>1. In(W, place, s) = {}
      BY <2>1 DEF In
    <3>2. g[s] = Cardinality({})
      BY <3>1
    <3> QED BY <2>1, <3>2, FS_EmptySet
  <2>2. CASE s # {}
    <3>1. pick(s) \in s
      BY <2>2
    <3> HIDE DEF pick
    <3>2. Cardinality(In(W, place, s)) = f[pick(s)] + Cardinality(In(W, place, s \ {pick(s)}))
      BY <3>1, InOneMore
    <3>3. s \ {pick(s)} \in SUBSET D
      OBVIOUS
    <3> QED BY <2>2, <3>2, <3>3
  <2> QED BY <2>1, <2>2
<1>2. g = h
  <2>1. g = [s \in SUBSET D |-> g[s]] /\ h = [s \in SUBSET D |-> h[s]]
    OBVIOUS
  <2> HIDE DEF g, h
  <2> QED BY <1>1, <2>1
<1> QED BY <1>2, Zenon DEF Adds

\* and whatever satisfies it counts.
LEMMA AddsCounts ==
  ASSUME NEW W, NEW place, NEW D, NEW f, Counts(f, W, place, D), NEW it, Adds(it, f, D)
  PROVE  it[D] = Cardinality(In(W, place, D))
<1> DEFINE C(s) == Cardinality(In(W, place, s))
           bad == {s \in SUBSET D : it[s] # C(s)}
           pick(s) == CHOOSE x \in s : TRUE
<1>1. \A s \in SUBSET D : it[s] = IF s = {} THEN 0 ELSE f[pick(s)] + it[s \ {pick(s)}]
  BY DEF Adds
<1> SUFFICES ASSUME bad # {} PROVE FALSE
  OBVIOUS
<1>2. PICK s \in bad : \A y \in bad : y \subseteq s => y = s
  <2>1. IsFiniteSet(D) /\ bad \subseteq SUBSET D
    BY DEF Counts
  <2> HIDE DEF bad
  <2> QED BY <2>1, LeastSubset
<1>3. s \in SUBSET D /\ it[s] # C(s)
  OBVIOUS
<1>4. CASE s = {}
  <2>1. In(W, place, s) = {}
    BY <1>4 DEF In
  <2>2. C(s) = 0
    BY <2>1, FS_EmptySet
  <2>3. it[s] = 0
    BY <1>1, <1>4
  <2> QED BY <1>3, <2>2, <2>3
<1>5. CASE s # {}
  <2>1. pick(s) \in s
    BY <1>5
  <2>2. it[s] = f[pick(s)] + it[s \ {pick(s)}]
    BY <1>1, <1>3, <1>5
  <2> HIDE DEF pick
  <2>3. C(s) = f[pick(s)] + C(s \ {pick(s)})
    BY <1>3, <2>1, InOneMore
  <2>4. s \ {pick(s)} \in SUBSET D /\ s \ {pick(s)} \subseteq s /\ s \ {pick(s)} # s
    BY <1>3, <2>1
  <2>5. s \ {pick(s)} \notin bad
    BY <1>2, <2>4
  <2>6. it[s \ {pick(s)}] = C(s \ {pick(s)})
    BY <2>4, <2>5
  <2> QED BY <1>3, <2>2, <2>3, <2>6
<1> QED BY <1>4, <1>5

\* The sums of the runs and of the completed runs of a series.
LEMMA SumOfRuns ==
  ASSUME NEW series, NEW W, NEW place, NEW D,
         Counts([b \in D |-> series[b].runs], W, place, D)
  PROVE  MapThenSumSet(LAMBDA b : series[b].runs, D) = Cardinality(In(W, place, D))
<1> DEFINE f == [b \in D |-> series[b].runs]
           pick(s) == CHOOSE x \in s : TRUE
           it == CHOOSE it : it = [s \in SUBSET D |-> IF s = {} THEN 0
                                     ELSE series[pick(s)].runs + it[s \ {pick(s)}]]
<1>1. MapThenSumSet(LAMBDA b : series[b].runs, D) = it[D]
  BY DEF MapThenSumSet, MapThenFoldSet
<1>2. ASSUME NEW g PROVE Adds(g, f, D) <=> g = [s \in SUBSET D |-> IF s = {} THEN 0
                                     ELSE series[pick(s)].runs + g[s \ {pick(s)}]]
  <2>1. \A s \in SUBSET D : s # {} => pick(s) \in D
    OBVIOUS
  <2>2. \A b \in D : f[b] = series[b].runs
    OBVIOUS
  <2> DEFINE left(s) == IF s = {} THEN 0 ELSE f[pick(s)] + g[s \ {pick(s)}]
             right(s) == IF s = {} THEN 0 ELSE series[pick(s)].runs + g[s \ {pick(s)}]
  <2>3. \A s \in SUBSET D : left(s) = right(s)
    BY <2>1, <2>2
  <2>4. [s \in SUBSET D |-> left(s)] = [s \in SUBSET D |-> right(s)]
    <3> HIDE DEF left, right
    <3> QED BY <2>3
  <2> QED BY <2>4, Zenon DEF Adds
<1>3. \E g : Adds(g, f, D)
  <2> HIDE DEF f
  <2> QED BY CountingAdds DEF f
<1>4. Adds(it, f, D)
  BY <1>2, <1>3, ZenonT(40)
<1> HIDE DEF it, f
<1>5. it[D] = Cardinality(In(W, place, D))
  BY <1>4, AddsCounts DEF f
<1> QED BY <1>1, <1>5

LEMMA SumOfCompleted ==
  ASSUME NEW series, NEW W, NEW place, NEW D,
         Counts([b \in D |-> series[b].completed], W, place, D)
  PROVE  MapThenSumSet(LAMBDA b : series[b].completed, D) = Cardinality(In(W, place, D))
<1> DEFINE f == [b \in D |-> series[b].completed]
           pick(s) == CHOOSE x \in s : TRUE
           it == CHOOSE it : it = [s \in SUBSET D |-> IF s = {} THEN 0
                                     ELSE series[pick(s)].completed + it[s \ {pick(s)}]]
<1>1. MapThenSumSet(LAMBDA b : series[b].completed, D) = it[D]
  BY DEF MapThenSumSet, MapThenFoldSet
<1>2. ASSUME NEW g PROVE Adds(g, f, D) <=> g = [s \in SUBSET D |-> IF s = {} THEN 0
                                     ELSE series[pick(s)].completed + g[s \ {pick(s)}]]
  <2>1. \A s \in SUBSET D : s # {} => pick(s) \in D
    OBVIOUS
  <2>2. \A b \in D : f[b] = series[b].completed
    OBVIOUS
  <2> DEFINE left(s) == IF s = {} THEN 0 ELSE f[pick(s)] + g[s \ {pick(s)}]
             right(s) == IF s = {} THEN 0 ELSE series[pick(s)].completed + g[s \ {pick(s)}]
  <2>3. \A s \in SUBSET D : left(s) = right(s)
    BY <2>1, <2>2
  <2>4. [s \in SUBSET D |-> left(s)] = [s \in SUBSET D |-> right(s)]
    <3> HIDE DEF left, right
    <3> QED BY <2>3
  <2> QED BY <2>4, Zenon DEF Adds
<1>3. \E g : Adds(g, f, D)
  <2> HIDE DEF f
  <2> QED BY CountingAdds DEF f
<1>4. Adds(it, f, D)
  BY <1>2, <1>3, ZenonT(40)
<1> HIDE DEF it, f
<1>5. it[D] = Cardinality(In(W, place, D))
  BY <1>4, AddsCounts DEF f
<1> QED BY <1>1, <1>5


SumsUp(series, totals) ==
  /\ totals.runs = MapThenSumSet(LAMBDA b : series[b].runs, DOMAIN series)
  /\ totals.completed = MapThenSumSet(LAMBDA b : series[b].completed, DOMAIN series)

\* If every element of W and of C has its place among the entries, which count both,
\* the entries add up.
LEMMA EntriesAddUp ==
  ASSUME NEW series, NEW D, DOMAIN series = D, NEW W, NEW C, NEW place,
         Counts([b \in D |-> series[b].runs], W, place, D),
         Counts([b \in D |-> series[b].completed], C, place, D),
         \A r \in W \cup C : place[r] \in D, NEW totals,
         totals.runs = Cardinality(W), totals.completed = Cardinality(C)
  PROVE  SumsUp(series, totals)
<1>1. MapThenSumSet(LAMBDA b : series[b].runs, D) = Cardinality(In(W, place, D))
  BY SumOfRuns, ZenonT(40)
<1>2. MapThenSumSet(LAMBDA b : series[b].completed, D) = Cardinality(In(C, place, D))
  BY SumOfCompleted, ZenonT(40)
<1>3. In(W, place, D) = W /\ In(C, place, D) = C
  BY DEF In
<1>4. MapThenSumSet(LAMBDA b : series[b].runs, DOMAIN series) = totals.runs
  BY <1>1, <1>3
<1>5. MapThenSumSet(LAMBDA b : series[b].completed, DOMAIN series) = totals.completed
  BY <1>2, <1>3
<1> QED BY <1>4, <1>5 DEF SumsUp


-----------------------------------------------------------------------------
(* Statistics: what a report says of the rows, then and since.              *)

ReportTypeOK ==
  report \in [at : {"idle", "404", "window", "counted", "done"}, now : Nat, first : Int, end : Int,
              present : SUBSET RunIds, series : {report.series},
              totals : [runs : Nat, completed : Nat], latest : RunIds \cup {NoRun}]

EntryType == [runs : Nat, completed : Nat, index : RunIds \cup {NoRun}]

Buckets == report.first .. report.end - 1

\* The rows of a bucket, and the completed ones.
Bucket(b) == {r \in Visible : BucketOf(table[r].at) = b}
CompletedIn(b) == {r \in Bucket(b) : table[r].st = "completed"}

\* An entry counts no more than has completed by now; if it counts all of it, its
\* index is of the newest run that recorded one.
EntryInv(b) ==
  LET entry == report.series[b] IN
  /\ entry.completed <= Cardinality(CompletedIn(b))
  /\ entry.index # NoRun => entry.index \in CompletedIn(b) /\ table[entry.index].size # NoRun
  /\ entry.completed = Cardinality(CompletedIn(b)) =>
       \A r \in CompletedIn(b) : table[r].size # NoRun =>
         entry.index # NoRun /\ ~ Below(Key(entry.index), Key(r))

\* The rows that were there, of the bucket of the present and of those before.
Owed == {r \in report.present : /\ table[r].at <= report.now
                                /\ BucketOf(table[r].at) > BucketOf(report.now) - BucketCount}

CountedInv ==
  /\ report.series \in [Buckets -> EntryType]
  /\ SumsUp(report.series, report.totals)
  /\ site => /\ report.present \subseteq Visible
             /\ report.totals.runs >= Cardinality(Owed)
             /\ \A b \in Buckets : EntryInv(b)

LatestInv ==
  /\ report.latest # NoRun => report.latest \in Visible /\ table[report.latest].st = "completed"
  /\ \A b \in Buckets : report.series[b].index # NoRun =>
       report.latest # NoRun /\ ~ Below(Key(report.latest), Key(report.series[b].index))

ReportInv ==
  /\ report.at \in {"window", "counted", "done"} =>
       report.first = BucketOf(report.now) - BucketCount + 1 /\ report.end = BucketOf(report.now) + 1
  /\ report.at \in {"counted", "done"} => CountedInv
  /\ report.at = "done" /\ site => LatestInv

\* A set of rows that is not empty has a newest one.
LEMMA NewestOne ==
  ASSUME ReadsTypeOK, NEW rows \in SUBSET RunIds, rows # {}
  PROVE  /\ Newest(rows) \in rows
         /\ \A q \in rows : q = Newest(rows) \/ Below(Key(q), Key(Newest(rows)))
         /\ \A q \in rows : ~ Below(Key(Newest(rows)), Key(q))
<1> DEFINE R == NewestFirst(rows)
           over(r) == {q \in rows : <<q, r>> \in R}
<1>1. IsFiniteSet(rows) /\ StrictOrder(R, rows)
  BY RunReadsAssumption, NewestFirstOrder, FS_Subset
<1>2. 1 \in 1 .. Cardinality(rows)
  <2>1. Cardinality(rows) \in Nat /\ Cardinality(rows) # 0
    BY <1>1, FS_CardinalityType, FS_EmptySet
  <2> QED BY <2>1
<1>3. PICK r \in rows : Places(R, rows)[r] = 1
  <2> HIDE DEF R
  <2> QED BY <1>1, <1>2, PlacesAll
<1>4. Cardinality(over(r)) + 1 = 1 /\ IsFiniteSet(over(r))
  BY <1>1, <1>3, FS_Subset DEF Places
<1>5. over(r) = {}
  <2>1. Cardinality(over(r)) \in Nat
    BY <1>4, FS_CardinalityType
  <2>2. Cardinality(over(r)) = 0
    BY <1>4, <2>1
  <2> QED BY <1>4, <2>2, FS_EmptySet
<1>6. \A q \in rows \ {r} : Below(Key(q), Key(r))
  BY <1>1, <1>5 DEF StrictOrder, NewestFirst
<1>7. Newest(rows) \in rows /\ \A q \in rows \ {Newest(rows)} : Below(Key(q), Key(Newest(rows)))
  BY <1>6 DEF Newest
<1>8. \A p, q \in rows : ~ Below(Key(p), Key(p)) /\ (Below(Key(p), Key(q)) => ~ Below(Key(q), Key(p)))
  BY RunReadsAssumption DEF Below, Key, ReadsTypeOK, RowType
<1> QED BY <1>7, <1>8

LEMMA ReportInitOK == ReadsInit => ReportTypeOK /\ ReportInv
<1> SUFFICES ASSUME ReadsInit PROVE ReportTypeOK /\ ReportInv
  OBVIOUS
<1>1. report.at = "idle"
  BY DEF ReadsInit
<1>2. ReportInv
  BY <1>1 DEF ReportInv
<1>3. ReportTypeOK
  BY DEF ReadsInit, ReportTypeOK
<1> QED BY <1>2, <1>3

\* As the rows change, and the report does not.
LEMMA ReportKept ==
  ASSUME ReadsTypeOK, ReportTypeOK, ReportInv, RowsStay, ReadsTypeOK', UNCHANGED <<site, report>>
  PROVE  ReportTypeOK' /\ ReportInv'
<1>1. ReportTypeOK'
  BY DEF ReportTypeOK
<1>2. /\ \A r \in Visible : r \in Visible' /\ table'[r].at = table[r].at /\ Key(r)' = Key(r)
      /\ \A r \in Visible : table[r].st = "completed" => table'[r] = table[r]
  BY DEF RowsStay, Key
<1>3. ASSUME NEW b \in Int PROVE CompletedIn(b) \subseteq CompletedIn(b)'
  BY <1>2 DEF CompletedIn, Bucket
<1>4. ASSUME NEW b \in Int
      PROVE  IsFiniteSet(CompletedIn(b)') /\ Cardinality(CompletedIn(b)') \in Nat
             /\ IsFiniteSet(CompletedIn(b)) /\ Cardinality(CompletedIn(b)) \in Nat
  <2>1. CompletedIn(b)' \subseteq RunIds /\ CompletedIn(b) \subseteq RunIds
    BY DEF CompletedIn, Bucket, Visible
  <2> QED BY <2>1, RunReadsAssumption, FS_Subset, FS_CardinalityType
<1>5. ASSUME NEW b \in Int, EntryInv(b), report.series[b] \in EntryType PROVE EntryInv(b)'
  <2> DEFINE entry == report.series[b]
             n == Cardinality(CompletedIn(b))
             m == Cardinality(CompletedIn(b)')
  <2>1. n \in Nat /\ m \in Nat /\ n <= m /\ (n = m => CompletedIn(b) = CompletedIn(b)')
    BY <1>3, <1>4, FS_Subset
  <2>2. entry.completed \in Nat /\ entry.completed <= n
    BY <1>5 DEF EntryInv, EntryType
  <2>3. \A r \in CompletedIn(b) : table'[r] = table[r] /\ Key(r)' = Key(r)
    BY <1>2 DEF CompletedIn, Bucket
  <2>4. entry.index # NoRun => entry.index \in CompletedIn(b)' /\ table'[entry.index].size # NoRun
    BY <1>3, <1>5, <2>3 DEF EntryInv
  <2>5. ASSUME entry.completed = m, NEW r \in CompletedIn(b)', table'[r].size # NoRun
        PROVE  entry.index # NoRun /\ ~ Below(Key(entry.index)', Key(r)')
    <3>1. CompletedIn(b) = CompletedIn(b)' /\ entry.completed = n
      <4> HIDE DEF n, m, entry
      <4> QED BY <2>1, <2>2, <2>5
    <3>2. r \in CompletedIn(b) /\ table[r].size # NoRun
      BY <2>3, <2>5, <3>1
    <3>3. entry.index # NoRun /\ ~ Below(Key(entry.index), Key(r))
      BY <1>5, <3>1, <3>2 DEF EntryInv
    <3>4. entry.index \in CompletedIn(b)
      BY <1>5, <3>3 DEF EntryInv
    <3> QED BY <2>3, <3>2, <3>3, <3>4
  <2>6. entry.completed <= m
    <3> HIDE DEF n, m, entry
    <3> QED BY <2>1, <2>2
  <2> QED BY <2>4, <2>5, <2>6 DEF EntryInv
<1>6. ASSUME CountedInv PROVE CountedInv'
  <2>1. report'.series \in [Buckets' -> EntryType] /\ SumsUp(report'.series, report'.totals)
    BY <1>6 DEF CountedInv, Buckets
  <2>2. ASSUME site
        PROVE  /\ report'.present \subseteq Visible'
               /\ report'.totals.runs >= Cardinality(Owed')
               /\ \A b \in Buckets : EntryInv(b)'
    <3>1. report.present \subseteq Visible /\ report.totals.runs >= Cardinality(Owed)
      BY <1>6, <2>2 DEF CountedInv
    <3>2. Owed' = Owed
      BY <1>2, <3>1 DEF Owed
    <3>3. \A b \in Buckets : b \in Int /\ EntryInv(b) /\ report.series[b] \in EntryType
      BY <1>6, <2>2 DEF CountedInv, Buckets, ReportTypeOK
    <3>4. \A b \in Buckets : EntryInv(b)'
      BY <1>5, <3>3
    <3>5. report'.present \subseteq Visible'
      BY <1>2, <3>1
    <3> QED BY <3>1, <3>2, <3>4, <3>5
  <2>3. Buckets' = Buckets
    BY DEF Buckets
  <2> QED BY <2>1, <2>2, <2>3 DEF CountedInv
<1>7. ASSUME LatestInv, CountedInv, site PROVE LatestInv'
  <2>1. \A b \in Buckets : report.series[b].index # NoRun => report.series[b].index \in Visible
    BY <1>7 DEF CountedInv, EntryInv, CompletedIn, Bucket
  <2>2. Buckets' = Buckets
    BY DEF Buckets
  <2>3. report.latest # NoRun =>
          /\ report.latest \in Visible /\ report.latest \in Visible'
          /\ table'[report.latest].st = "completed" /\ Key(report.latest)' = Key(report.latest)
    BY <1>2, <1>7 DEF LatestInv
  <2>4. \A b \in Buckets : report.series[b].index # NoRun =>
          Key(report.series[b].index)' = Key(report.series[b].index)
    BY <1>2, <2>1
  <2> QED BY <1>7, <2>2, <2>3, <2>4 DEF LatestInv
<1> QED BY <1>1, <1>6, <1>7 DEF ReportInv


\* The rows of the window are those of its buckets.
LEMMA WindowBuckets ==
  ASSUME ReadsTypeOK, ReportTypeOK
  PROVE  /\ InWindow = {r \in Visible : BucketOf(table[r].at) \in Buckets}
         /\ \A b \in Buckets : {r \in InWindow : BucketOf(table[r].at) = b} = Bucket(b)
         /\ InWindow \subseteq RunIds /\ IsFiniteSet(InWindow)
<1>1. ASSUME NEW r \in Visible
      PROVE  r \in InWindow <=> BucketOf(table[r].at) \in Buckets
  <2>1. table[r].at \in Nat /\ report.first \in Int /\ report.end \in Int
    BY DEF ReadsTypeOK, ReportTypeOK, RowType, Visible
  <2>2. BucketOf(table[r].at) \in Nat
    BY <2>1, BucketBounds
  <2>3. report.first * Step <= table[r].at <=> report.first <= BucketOf(table[r].at)
    BY <2>1, BucketBounds
  <2>4. report.end * Step <= table[r].at <=> report.end <= BucketOf(table[r].at)
    BY <2>1, BucketBounds
  <2>5. report.end * Step \in Int /\ report.first * Step \in Int
    BY <2>1, RunReadsAssumption
  <2>6. r \in InWindow <=> report.first * Step <= table[r].at /\ ~ (report.end * Step <= table[r].at)
    BY <2>1, <2>5 DEF InWindow
  <2>7. BucketOf(table[r].at) \in Buckets
          <=> report.first <= BucketOf(table[r].at) /\ ~ (report.end <= BucketOf(table[r].at))
    BY <2>1, <2>2 DEF Buckets
  <2> QED BY <2>3, <2>4, <2>6, <2>7
<1>2. InWindow \subseteq Visible /\ Visible \subseteq RunIds
  BY DEF InWindow, Visible
<1>3. InWindow = {r \in Visible : BucketOf(table[r].at) \in Buckets}
  BY <1>1, <1>2
<1>4. IsFiniteSet(InWindow)
  BY <1>2, RunReadsAssumption, FS_Subset
<1> QED BY <1>2, <1>3, <1>4 DEF Bucket

LEMMA StatsCounted ==
  ASSUME ReadsTypeOK, ReportTypeOK, ReportInv, website_stats
  PROVE  ReportTypeOK' /\ ReportInv'
<1> DEFINE Inside(b) == {r \in InWindow : BucketOf(table[r].at) = b}
           Completed(rows) == {r \in rows : table[r].st = "completed"}
           series == [b \in Buckets |->
                        [runs |-> Cardinality(Inside(b)), completed |-> Cardinality(Completed(Inside(b))),
                         index |-> last_index(Inside(b))]]
           totals == [runs |-> Cardinality(InWindow), completed |-> Cardinality(Completed(InWindow))]
<1>1. /\ report.at = "window" /\ UNCHANGED <<site, table, instant, paging>>
      /\ report' = [report EXCEPT !.at = "counted", !.present = Visible, !.series = series, !.totals = totals]
  BY DEF website_stats, Buckets
<1>2. /\ report'.at = "counted" /\ report'.now = report.now /\ report'.first = report.first
      /\ report'.end = report.end /\ report'.present = Visible /\ report'.latest = report.latest
      /\ report'.series = series /\ report'.totals = totals
      /\ report' = [at |-> report'.at, now |-> report'.now, first |-> report'.first, end |-> report'.end,
                    present |-> report'.present, series |-> report'.series,
                    totals |-> report'.totals, latest |-> report'.latest]
  <2> HIDE DEF series, totals
  <2> QED BY <1>1, Zenon DEF ReportTypeOK
<1>3. UNCHANGED <<Visible, Buckets>> /\ \A b : CompletedIn(b)' = CompletedIn(b)
  BY <1>1, <1>2 DEF Visible, Buckets, CompletedIn, Bucket
<1>4. InWindow \subseteq RunIds /\ IsFiniteSet(InWindow) /\ Visible \subseteq RunIds
  BY WindowBuckets DEF Visible
<1>5. ASSUME NEW b \in Buckets
      PROVE  /\ Inside(b) = Bucket(b) /\ Completed(Inside(b)) = CompletedIn(b)
             /\ IsFiniteSet(Inside(b)) /\ Cardinality(Inside(b)) \in Nat
             /\ Cardinality(Completed(Inside(b))) \in Nat
  <2>1. Inside(b) = Bucket(b)
    BY WindowBuckets
  <2>2. IsFiniteSet(Inside(b)) /\ IsFiniteSet(Completed(Inside(b)))
    BY <1>4, FS_Subset
  <2> QED BY <2>1, <2>2, FS_CardinalityType DEF CompletedIn
<1>6. ASSUME NEW b \in Buckets
      PROVE  LET rows == Inside(b)
                 sized == {r \in rows : table[r].size # NoRun} IN
             /\ sized = {} => last_index(rows) = NoRun
             /\ sized # {} =>
                  last_index(rows) \in sized /\ \A r \in sized : ~ Below(Key(last_index(rows)), Key(r))
  <2> DEFINE sized == {r \in Inside(b) : table[r].size # NoRun}
  <2>1. sized \in SUBSET RunIds
    BY <1>4
  <2>2. last_index(Inside(b)) = IF sized = {} THEN NoRun ELSE Newest(sized)
    BY DEF last_index
  <2>3. sized # {} => Newest(sized) \in sized /\ \A r \in sized : ~ Below(Key(Newest(sized)), Key(r))
    <3> HIDE DEF sized
    <3> QED BY <2>1, NewestOne
  <2> QED BY <2>2, <2>3
<1>7. \A b \in Buckets : last_index(Inside(b)) \in RunIds \cup {NoRun}
  BY <1>4, <1>6
<1>8. series \in [Buckets -> EntryType]
  <2>1. \A b \in Buckets : series[b] \in EntryType
    <3> HIDE DEF Inside, Completed
    <3> QED BY <1>5, <1>7 DEF EntryType
  <2>2. series = [b \in Buckets |-> series[b]]
    OBVIOUS
  <2> HIDE DEF series
  <2> QED BY <2>1, <2>2
<1>9. totals \in [runs : Nat, completed : Nat]
  <2>1. IsFiniteSet(Completed(InWindow))
    BY <1>4, FS_Subset
  <2> QED BY <1>4, <2>1, FS_CardinalityType
<1>10. ReportTypeOK'
  <2> HIDE DEF series, totals
  <2> QED BY <1>2, <1>4, <1>9 DEF ReportTypeOK
<1>11. SumsUp(series, totals)
  <2> DEFINE place == [r \in InWindow |-> BucketOf(table[r].at)]
  <2>1. IsFiniteSet(Buckets)
    BY FS_Interval DEF Buckets, ReportTypeOK
  <2>2. \A r \in InWindow : place[r] \in Buckets
    BY WindowBuckets
  <2>3. IsFiniteSet(Completed(InWindow))
    BY <1>4, FS_Subset
  <2>4. ASSUME NEW b \in Buckets
        PROVE  /\ series[b].runs = Cardinality({r \in InWindow : place[r] = b})
               /\ series[b].completed = Cardinality({r \in Completed(InWindow) : place[r] = b})
    <3>1. {r \in InWindow : place[r] = b} = Inside(b)
      OBVIOUS
    <3>2. {r \in Completed(InWindow) : place[r] = b} = Completed(Inside(b))
      OBVIOUS
    <3>3. series[b].runs = Cardinality(Inside(b)) /\ series[b].completed = Cardinality(Completed(Inside(b)))
      <4> HIDE DEF Inside, Completed
      <4> QED OBVIOUS
    <3> HIDE DEF series, place, Inside, Completed
    <3> QED BY <3>1, <3>2, <3>3
  <2>5. DOMAIN series = Buckets
    OBVIOUS
  <2>6. totals.runs = Cardinality(InWindow) /\ totals.completed = Cardinality(Completed(InWindow))
    OBVIOUS
  <2>7. \A r \in InWindow \cup Completed(InWindow) : place[r] \in Buckets
    BY <2>2
  <2> HIDE DEF series, totals, place, Completed
  <2>8. Counts([b \in Buckets |-> series[b].runs], InWindow, place, Buckets)
    BY <1>4, <2>1, <2>4 DEF Counts
  <2>9. Counts([b \in Buckets |-> series[b].completed], Completed(InWindow), place, Buckets)
    BY <2>1, <2>3, <2>4 DEF Counts
  <2> QED BY <2>5, <2>6, <2>7, <2>8, <2>9, EntriesAddUp
<1>12. ASSUME NEW b \in Buckets PROVE EntryInv(b)'
  <2>1. /\ series[b].completed = Cardinality(CompletedIn(b)) /\ Cardinality(CompletedIn(b)) \in Nat
        /\ series[b].index = last_index(Inside(b))
    <3>1. series[b].completed = Cardinality(Completed(Inside(b))) /\ series[b].index = last_index(Inside(b))
      <4> HIDE DEF Inside, Completed
      <4> QED OBVIOUS
    <3> HIDE DEF series, Inside, Completed
    <3> QED BY <1>5, <3>1
  <2>2. \A r \in Inside(b) : table[r].size # NoRun => r \in CompletedIn(b)
    BY <1>4, <1>5 DEF ReadsTypeOK, CompletedIn
  <2>3. \A r \in CompletedIn(b) : r \in Inside(b)
    BY <1>5 DEF CompletedIn
  <2>4. series[b].index # NoRun => series[b].index \in CompletedIn(b) /\ table[series[b].index].size # NoRun
    <3> HIDE DEF series
    <3> QED BY <1>6, <2>1, <2>2
  <2>5. \A r \in CompletedIn(b) : table[r].size # NoRun =>
          series[b].index # NoRun /\ ~ Below(Key(series[b].index), Key(r))
    <3> SUFFICES ASSUME NEW r \in CompletedIn(b), table[r].size # NoRun
                 PROVE  series[b].index # NoRun /\ ~ Below(Key(series[b].index), Key(r))
      OBVIOUS
    <3>1. r \in {q \in Inside(b) : table[q].size # NoRun}
      BY <2>3
    <3>2. /\ last_index(Inside(b)) \in {q \in Inside(b) : table[q].size # NoRun}
          /\ ~ Below(Key(last_index(Inside(b))), Key(r))
      BY <1>6, <3>1
    <3>3. last_index(Inside(b)) \in RunIds
      BY <1>4, <3>2
    <3> HIDE DEF series
    <3> QED BY <2>1, <3>2, <3>3, RunReadsAssumption
  <2> HIDE DEF series
  <2>6. report'.series[b] = series[b] /\ table' = table
    BY <1>1, <1>2
  <2> QED BY <1>3, <2>1, <2>4, <2>5, <2>6 DEF EntryInv, Key
<1>13. totals.runs >= Cardinality(Owed')
  <2>1. Owed' = {r \in Visible : /\ table[r].at <= report.now
                                 /\ BucketOf(table[r].at) > BucketOf(report.now) - BucketCount}
    <3> HIDE DEF series, totals
    <3> QED BY <1>1, <1>2 DEF Owed
  <2>2. ASSUME NEW r \in Owed' PROVE r \in InWindow
    <3>1. r \in Visible /\ table[r].at \in Nat /\ report.now \in Nat /\ table[r].at <= report.now
      BY <2>1 DEF ReadsTypeOK, ReportTypeOK, RowType, Visible
    <3>2. BucketOf(table[r].at) <= BucketOf(report.now)
      BY <3>1, LaterBucket
    <3>3. BucketOf(table[r].at) \in Nat /\ BucketOf(report.now) \in Nat
      BY <3>1, BucketBounds
    <3>4. BucketOf(table[r].at) > BucketOf(report.now) - BucketCount
      BY <2>1
    <3>5. report.first = BucketOf(report.now) - BucketCount + 1 /\ report.end = BucketOf(report.now) + 1
      BY <1>1 DEF ReportInv
    <3>6. BucketOf(table[r].at) \in Buckets
      BY <3>2, <3>3, <3>4, <3>5, RunReadsAssumption DEF Buckets
    <3> QED BY <3>1, <3>6, WindowBuckets
  <2>3. Owed' \subseteq InWindow
    BY <2>2
  <2>4. IsFiniteSet(Owed') /\ Cardinality(Owed') <= Cardinality(InWindow)
    BY <1>4, <2>3, FS_Subset
  <2>5. totals.runs = Cardinality(InWindow)
    OBVIOUS
  <2>6. Cardinality(InWindow) \in Nat /\ Cardinality(Owed') \in Nat
    BY <1>4, <2>4, FS_CardinalityType
  <2> HIDE DEF totals
  <2> QED BY <2>4, <2>5, <2>6
<1> HIDE DEF series, totals
<1>14. CountedInv'
  BY <1>2, <1>3, <1>8, <1>11, <1>12, <1>13 DEF CountedInv
<1>15. report'.first = BucketOf(report'.now) - BucketCount + 1 /\ report'.end = BucketOf(report'.now) + 1
  BY <1>1, <1>2 DEF ReportInv
<1>16. ReportInv'
  BY <1>2, <1>14, <1>15 DEF ReportInv, BucketOf
<1> QED BY <1>10, <1>16

LEMMA StatsLatest ==
  ASSUME ReadsTypeOK, ReportTypeOK, ReportInv, latest_completed_index
  PROVE  ReportTypeOK' /\ ReportInv'
<1> DEFINE completed == {r \in InWindow : table[r].st = "completed"}
           newest == IF completed = {} THEN NoRun ELSE Newest(completed)
<1>1. /\ report.at = "counted" /\ UNCHANGED <<site, table, instant, paging>>
      /\ report' = [report EXCEPT !.at = "done", !.latest = newest]
  BY DEF latest_completed_index
<1> HIDE DEF newest
<1>2. /\ report'.at = "done" /\ report'.now = report.now /\ report'.first = report.first
      /\ report'.end = report.end /\ report'.present = report.present /\ report'.latest = newest
      /\ report'.series = report.series /\ report'.totals = report.totals
      /\ report' = [at |-> report'.at, now |-> report'.now, first |-> report'.first, end |-> report'.end,
                    present |-> report'.present, series |-> report'.series,
                    totals |-> report'.totals, latest |-> report'.latest]
  BY <1>1, Zenon DEF ReportTypeOK
<1>3. Buckets' = Buckets /\ Visible' = Visible /\ Owed' = Owed
  BY <1>1, <1>2 DEF Visible, Buckets, Owed
<1>4. completed \in SUBSET RunIds
  BY WindowBuckets
<1>5. /\ completed = {} => newest = NoRun
      /\ completed # {} => newest \in completed /\ \A r \in completed : ~ Below(Key(newest), Key(r))
  <2>1. newest = IF completed = {} THEN NoRun ELSE Newest(completed)
    BY DEF newest
  <2> HIDE DEF completed
  <2> QED BY <1>4, <2>1, NewestOne
<1>6. ReportTypeOK'
  <2>1. newest \in RunIds \cup {NoRun}
    BY <1>4, <1>5
  <2> QED BY <1>2, <2>1 DEF ReportTypeOK
<1>7. CountedInv
  BY <1>1 DEF ReportInv
<1>8. \A b \in Buckets : EntryInv(b)' = EntryInv(b)
  BY <1>1, <1>2 DEF EntryInv, CompletedIn, Bucket, Visible, Key
<1>9. CountedInv'
  BY <1>1, <1>2, <1>3, <1>7, <1>8 DEF CountedInv
<1>10. ASSUME site PROVE LatestInv'
  <2>1. newest # NoRun => newest \in Visible /\ table[newest].st = "completed"
    BY <1>5 DEF InWindow
  <2>2. ASSUME NEW b \in Buckets, report.series[b].index # NoRun
        PROVE  newest # NoRun /\ ~ Below(Key(newest), Key(report.series[b].index))
    <3>1. report.series[b].index \in CompletedIn(b)
      BY <1>7, <1>10, <2>2 DEF CountedInv, EntryInv
    <3>2. report.series[b].index \in completed
      BY <2>2, <3>1, WindowBuckets DEF CompletedIn, Bucket
    <3>3. newest \in completed
      BY <1>5, <3>2
    <3>4. newest \in RunIds
      BY <1>4, <3>3
    <3> HIDE DEF completed
    <3> QED BY <1>5, <3>2, <3>4, RunReadsAssumption
  <2>3. \A r : table'[r] = table[r]
    BY <1>1
  <2> QED BY <1>1, <1>2, <1>3, <2>1, <2>2, <2>3 DEF LatestInv, Key
<1>11. report'.first = BucketOf(report'.now) - BucketCount + 1 /\ report'.end = BucketOf(report'.now) + 1
  BY <1>1, <1>2 DEF ReportInv
<1> QED BY <1>1, <1>2, <1>6, <1>9, <1>10, <1>11 DEF ReportInv, BucketOf

LEMMA ReportStep ==
  ReadsTypeOK /\ ReportTypeOK /\ ReportInv /\ [ReadsNext]_readsVars => ReportTypeOK' /\ ReportInv'
<1> SUFFICES ASSUME ReadsTypeOK, ReportTypeOK, ReportInv, [ReadsNext]_readsVars
             PROVE  ReportTypeOK' /\ ReportInv'
  OBVIOUS
<1>1. ReadsTypeOK'
  BY ReadsStepType
<1>2. ASSUME NEW r \in RunIds, NEW size, InsertRow(r) \/ CommitRow(r) \/ RowEnds(r, size)
      PROVE  ReportTypeOK' /\ ReportInv'
  <2>1. RowsStay /\ UNCHANGED <<site, instant, paging, report>>
    BY <1>2, RowSteps
  <2> QED BY <1>1, <2>1, ReportKept
<1>3. ASSUME UNCHANGED <<site, table, report>> PROVE ReportTypeOK' /\ ReportInv'
  <2>1. RowsStay
    BY <1>3 DEF RowsStay, Visible
  <2> QED BY <1>1, <1>3, <2>1, ReportKept
<1>4. ASSUME DeleteSite PROVE ReportTypeOK' /\ ReportInv'
  <2>1. ~ site' /\ report' = report
    BY <1>4 DEF DeleteSite
  <2>2. ReportTypeOK'
    BY <2>1 DEF ReportTypeOK
  <2>3. Buckets' = Buckets
    BY <2>1 DEF Buckets
  <2>4. CountedInv => CountedInv'
    BY <2>1, <2>3 DEF CountedInv
  <2> QED BY <2>1, <2>2, <2>4 DEF ReportInv, BucketOf
<1>5. ASSUME GetStats PROVE ReportTypeOK' /\ ReportInv'
  <2>0. BucketOf(instant) \in Int /\ BucketCount \in Int /\ instant \in Nat
    BY BucketBounds, RunReadsAssumption DEF ReadsTypeOK
  <2>1. CASE site
    <3> DEFINE w == resolve_window(instant)
    <3>1. /\ w.first = BucketOf(instant) - BucketCount + 1 /\ w.end = BucketOf(instant) + 1
          /\ w.first \in Int /\ w.end \in Int
      BY <2>0 DEF resolve_window
    <3>2. report' = [report EXCEPT !.at = "window", !.now = instant, !.first = w.first, !.end = w.end]
      BY <1>5, <2>1 DEF GetStats
    <3> HIDE DEF w
    <3>3. report'.at = "window" /\ report'.now = instant /\ report'.first = w.first /\ report'.end = w.end
      BY <3>2, Zenon DEF ReportTypeOK
    <3>4. ReportTypeOK'
      BY <2>0, <3>1, <3>2 DEF ReportTypeOK
    <3> QED BY <3>1, <3>3, <3>4 DEF ReportInv, BucketOf
  <2>2. CASE ~ site
    <3>1. report' = [report EXCEPT !.at = "404"]
      BY <1>5, <2>2 DEF GetStats
    <3>2. ReportTypeOK' /\ report'.at = "404"
      BY <3>1 DEF ReportTypeOK
    <3> QED BY <3>2 DEF ReportInv
  <2> QED BY <2>1, <2>2
<1> QED BY <1>2, <1>3, <1>4, <1>5, StatsCounted, StatsLatest
        DEF ReadsNext, readsVars, TimePasses, ListRuns

\* The snapshot against the series, from what the entries say of the rows since.
LEMMA NoOlderSnapshot ==
  ASSUME ReadsTypeOK, ReportTypeOK, ReportInv, report.at = "done", site
  PROVE  LatestNoOlder
<1>1. CountedInv /\ LatestInv
  BY DEF ReportInv
<1>2. DOMAIN report.series = Buckets
  BY <1>1 DEF CountedInv
<1> SUFFICES ASSUME NEW b \in Buckets, report.series[b].index # NoRun
             PROVE  /\ report.latest # NoRun
                    /\ ~ Below(Key(report.latest), Key(report.series[b].index))
                    /\ BucketOf(table[report.latest].at) = b /\ report.latest # report.series[b].index =>
                         \/ table[report.latest].size = NoRun
                         \/ report.series[b].completed < Cardinality(CompletedIn(b))
  <2>1. \A b \in Int : CompletedIn(b) = {q \in Visible : BucketOf(table[q].at) = b
                                                        /\ table[q].st = "completed"}
    BY DEF CompletedIn, Bucket
  <2>2. Buckets \subseteq Int
    BY DEF Buckets
  <2> QED BY <1>2, <2>1, <2>2 DEF LatestNoOlder
<1>3. /\ report.latest # NoRun /\ ~ Below(Key(report.latest), Key(report.series[b].index))
      /\ report.latest \in Visible /\ table[report.latest].st = "completed"
  BY <1>1 DEF LatestInv
<1>4. EntryInv(b) /\ report.series[b].completed \in Nat
  BY <1>1 DEF CountedInv, EntryType
<1>5. ASSUME BucketOf(table[report.latest].at) = b, report.latest # report.series[b].index,
             table[report.latest].size # NoRun
      PROVE  report.series[b].completed < Cardinality(CompletedIn(b))
  <2>1. report.latest \in CompletedIn(b) /\ report.series[b].index \in CompletedIn(b)
    BY <1>3, <1>4, <1>5 DEF CompletedIn, Bucket, EntryInv
  <2>2. CompletedIn(b) \subseteq RunIds
    BY DEF CompletedIn, Bucket, Visible
  <2>3. Below(Key(report.latest), Key(report.series[b].index))
        \/ Below(Key(report.series[b].index), Key(report.latest))
    BY <1>5, <2>1, <2>2, RunReadsAssumption, SMTT(30) DEF ReadsTypeOK, RowType, Below, Key
  <2>4. report.series[b].completed # Cardinality(CompletedIn(b))
    BY <1>3, <1>4, <1>5, <2>1, <2>3 DEF EntryInv
  <2>5. Cardinality(CompletedIn(b)) \in Nat
    BY <2>2, RunReadsAssumption, FS_Subset, FS_CardinalityType
  <2>6. report.series[b].completed <= Cardinality(CompletedIn(b))
    BY <1>4 DEF EntryInv
  <2> QED BY <1>4, <2>4, <2>5, <2>6
<1> QED BY <1>3, <1>5

\* The series adds up to the totals, no run that was there is missing from them, and
\* the snapshot is never older than an index of the series.
THEOREM StatsAlwaysAddUp == ReadsSpec => []StatsAddUp
<1>1. ReadsInit => ReportTypeOK /\ ReportInv
  BY ReportInitOK
<1>2. ReadsTypeOK /\ ReportTypeOK /\ ReportInv /\ [ReadsNext]_readsVars => ReportTypeOK' /\ ReportInv'
  BY ReportStep
<1>3. ReadsTypeOK /\ ReportTypeOK /\ ReportInv => StatsAddUp
  <2> SUFFICES ASSUME ReadsTypeOK, ReportTypeOK, ReportInv PROVE StatsAddUp
    OBVIOUS
  <2>1. LatestNoOlder
    <3>1. CASE report.at = "done" /\ site
      BY <3>1, NoOlderSnapshot
    <3>2. CASE ~ (report.at = "done" /\ site)
      BY <3>2 DEF LatestNoOlder
    <3> QED BY <3>1, <3>2
  <2>2. ASSUME report.at \in {"counted", "done"}
        PROVE  /\ SumsUp(report.series, report.totals)
               /\ site => report.totals.runs >= Cardinality(Owed)
    BY <2>2 DEF ReportInv, CountedInv
  <2> QED BY <2>1, <2>2, Zenon DEF StatsAddUp, SumsUp, Owed
<1> QED BY <1>1, <1>2, <1>3, ReadsTyped, PTL DEF ReadsSpec
=============================================================================
