------------------------------ MODULE Selection ------------------------------
(***************************************************************************)
(* select_urls: which of the discovered URLs a crawl spends its pages on.  *)
(*                                                                         *)
(* A URL is a number that stands for its normalized form, in the order of  *)
(* the strings.  What the code reads off the string is given by Traits:    *)
(* the drop rules its shape meets, the URL it is a localized copy of, and  *)
(* what depth and path segments contribute to its score.  Scores are in    *)
(* tenths.                                                                 *)
(***************************************************************************)
EXTENDS Integers, SequencesExt

CONSTANTS
  Traits,         \* URL -> [rules, original, shape]
  Priorities,     \* declared <priority> values, in tenths
  Lastmods,       \* declared <lastmod> values
  Undefined,      \* neither priority nor lastmod declared, not a localized copy
  OutOfRange,     \* a lastmod that has no UTC equivalent a datetime can hold
  Limit,          \* max_pages - 1
  MaxCandidates   \* bound on what discovery finds

Urls == DOMAIN Traits

\* The drop rules that look at one URL, in the order they are tried.
Prefilters == <<"unparseable", "duplicate", "seed", "off_origin", "robots_disallowed",
  "dated_archive", "taxonomy", "pagination", "feed", "changelog">>
RULE_ORDER == Prefilters \o <<"localized_duplicate", "over_limit">>

Candidates == [url : Urls, priority : Priorities \cup {Undefined}, lastmod : Lastmods \cup {Undefined}]

ASSUME SelectionAssumption ==
  /\ Urls \subseteq Nat /\ Limit \in Nat /\ MaxCandidates \in Nat
  /\ Priorities \subseteq 0 .. 10 /\ Lastmods \subseteq Nat /\ OutOfRange \in Nat
  /\ Undefined \notin Nat
  /\ \A u \in Urls : /\ Traits[u].rules \subseteq ToSet(Prefilters) \ {"duplicate"}
                     /\ Traits[u].original \in Urls \cup {Undefined}
                     /\ Traits[u].shape \in Int

VARIABLE candidates   \* what discovery has found so far, in that order

selectionVars == <<candidates>>
SelectionInit == candidates = <<>>

Discover ==
  /\ Len(candidates) < MaxCandidates
  /\ \E c \in Candidates : candidates' = Append(candidates, c)

SelectionNext == Discover
SelectionSpec == SelectionInit /\ [][SelectionNext]_selectionVars

-----------------------------------------------------------------------------
(* Every value of the same URL counts, whichever comes first.               *)

\* Mutant: the first declared value is kept.
keep_first(a, b) == IF a = Undefined THEN b ELSE a

merge(a, b) ==
  IF a = Undefined THEN b
  ELSE IF b = Undefined \/ a >= b THEN a
  ELSE b

Count(dropped, rule) == [dropped EXCEPT ![rule] = @ + 1]
FirstRule(rules) == Prefilters[SelectInSeq(Prefilters, LAMBDA rule : rule \in rules)]

Keep(survivors, url, values) ==
  [u \in DOMAIN survivors \cup {url} |-> IF u = url THEN values ELSE survivors[u]]

\* Mutant: a duplicate of a URL that has been dropped is not counted.
PrefilterUncounted(acc, c) ==
  LET rules == Traits[c.url].rules IN
  IF "unparseable" \in rules THEN [acc EXCEPT !.dropped = Count(@, "unparseable")]
  ELSE IF c.url \in acc.seen THEN acc
  ELSE IF rules # {} THEN [acc EXCEPT !.seen = @ \cup {c.url},
                                      !.dropped = Count(@, FirstRule(rules))]
  ELSE [acc EXCEPT !.seen = @ \cup {c.url},
                   !.survivors = Keep(@, c.url, [priority |-> c.priority, lastmod |-> c.lastmod])]

\* One turn of the loop over the candidates.
Prefilter(acc, c) ==
  LET rules == Traits[c.url].rules
      merged(old) == [priority |-> merge(old.priority, c.priority),
                      lastmod |-> merge(old.lastmod, c.lastmod)] IN
  IF "unparseable" \in rules THEN [acc EXCEPT !.dropped = Count(@, "unparseable")]
  ELSE IF c.url \in acc.seen
  THEN [acc EXCEPT !.dropped = Count(@, "duplicate"),
                   !.survivors = [u \in DOMAIN @ |-> IF u = c.url THEN merged(@[u]) ELSE @[u]]]
  ELSE IF rules # {} THEN [acc EXCEPT !.seen = @ \cup {c.url},
                                      !.dropped = Count(@, FirstRule(rules))]
  ELSE [acc EXCEPT !.seen = @ \cup {c.url},
                   !.survivors = Keep(@, c.url, [priority |-> c.priority, lastmod |-> c.lastmod])]

Prefiltered(found) ==
  FoldLeft(Prefilter, [seen |-> {}, survivors |-> <<>>,
                       dropped |-> [rule \in ToSet(RULE_ORDER) |-> 0]], found)

\* astimezone(UTC) overflows: the exception leaves select_urls.
Raises(found) ==
  \E i \in DOMAIN found : /\ found[i].lastmod = OutOfRange
                          /\ found[i].url \in DOMAIN Prefiltered(found).survivors

-----------------------------------------------------------------------------

LASTMOD_WEIGHT == 4

\* Where lastmod is among those of all survivors, centred on the middle.
recency_term(lastmod, all) ==
  LET earliest == Min(all) latest == Max(all) IN
  IF lastmod = Undefined \/ earliest = latest THEN 0
  ELSE (LASTMOD_WEIGHT * (lastmod - earliest)) \div (latest - earliest) - LASTMOD_WEIGHT \div 2

score(u, survivors) ==
  LET all == {survivors[v].lastmod : v \in DOMAIN survivors} \ {Undefined}
      priority == survivors[u].priority IN
  Traits[u].shape + (IF priority = Undefined THEN 0 ELSE 2 * (priority - 5))
    + recency_term(survivors[u].lastmod, all)

Ranked(survivors) ==
  LET points == [u \in DOMAIN survivors |-> score(u, survivors)]
      Before(u, v) == points[u] > points[v] \/ (points[u] = points[v] /\ u < v)
      Place(u) == Cardinality({v \in DOMAIN survivors : Before(v, u)}) + 1 IN
  [i \in 1 .. Cardinality(DOMAIN survivors) |-> CHOOSE u \in DOMAIN survivors : Place(u) = i]

\* One turn of the walk over the ranked URLs.
Choose(acc, u) ==
  IF Traits[u].original \in ToSet(acc.selected)
  THEN [acc EXCEPT !.dropped = Count(@, "localized_duplicate")]
  ELSE IF Len(acc.selected) >= Limit THEN [acc EXCEPT !.dropped = Count(@, "over_limit")]
  ELSE [acc EXCEPT !.selected = Append(@, u)]

select_urls(found) ==
  LET kept == Prefiltered(found) IN
  FoldLeft(Choose, [selected |-> <<>>, dropped |-> kept.dropped], Ranked(kept.survivors))

-----------------------------------------------------------------------------

\* A URL is not selected after the URL it is a localized copy of.
OneCopySelected ==
  LET selected == select_urls(candidates).selected IN
  \A i \in DOMAIN selected : \A j \in 1 .. i - 1 : Traits[selected[i]].original # selected[j]

\* The reconciliation invariant: every candidate is selected or dropped under one
\* rule; none is dropped for want of room while there is room, and none takes the
\* room of another by being its copy.
SelectionReconciles ==
  candidates # <<>> =>
  LET result == select_urls(candidates) IN
  /\ OneCopySelected
  /\ Len(candidates) = Len(result.selected) + SumFunction(result.dropped)
  /\ result.dropped["over_limit"] > 0 => Len(result.selected) = Limit

\* LASTMOD_WEIGHT: recency is a tiebreaker.  A page is never ranked below one that
\* is a level deeper and has no higher priority, however fresh that one is.
RecencyOnlyBreaksTies ==
  LET kept == Prefiltered(candidates).survivors
      ranked == Ranked(kept)
      Declared(u) == IF kept[u].priority = Undefined THEN 5 ELSE kept[u].priority IN
  \A i \in DOMAIN ranked : \A j \in 1 .. i - 1 :
    ~ (/\ Traits[ranked[i]].shape >= Traits[ranked[j]].shape + 10
       /\ Declared(ranked[i]) >= Declared(ranked[j]))

\* The same URLs are selected, and the same numbers dropped, in whatever order
\* discovery found them: swapping two neighbours makes no difference.  Where their
\* scores differ, it is by what the URLs are before how fresh they are.
OrderIndependent ==
  /\ RecencyOnlyBreaksTies
  /\ \A i \in 1 .. Len(candidates) - 1 :
       LET swapped == [candidates EXCEPT ![i] = candidates[i + 1], ![i + 1] = candidates[i]] IN
       select_urls(swapped) = select_urls(candidates)

\* "Nothing discovery can do ... ever fails the run itself."
DiscoveryHarmless == ~ Raises(candidates)
=============================================================================
