------------------------------- MODULE LlmsTxt -------------------------------
(***************************************************************************)
(* llms.txt and llms-full.txt: which of the pages of a crawl are listed,   *)
(* in which order and under which heading, and what the corpus carries.    *)
(*                                                                         *)
(* URLs, titles, descriptions and bodies are numbers, in the order of the  *)
(* strings; what the code reads off them is given by functions.  Scores    *)
(* are in thirtieths.  A section is its place in the document: Overview,   *)
(* the canonical ones, those derived from a path, Other, Optional.         *)
(***************************************************************************)
EXTENDS Integers, SequencesExt

CONSTANTS
  UrlTraits,     \* URL -> [site, depth, claims, segment, optional, linked, priority, lastmod]
  BodyTraits,    \* body -> [print, buckets, paragraph, size]
  Sentence,      \* text -> the sentence printed for it, 0 if there is none
  PageKinds,     \* pages a crawl may come back with: [url, title, description, body]
  Weights,       \* canonical section -> its weight, in thirtieths
  OTHER_SECTION, \* after every section that is derived from a path
  MAX_MAIN_BODY_LINKS,
  BOILERPLATE_MIN_PAGES,
  MIN_SECTION_SIZE,
  MAX_PAGE_TEXT,     \* sizes of the corpus, in units that stand for some kilobytes
  MAX_FULL_TEXT,
  NOTICE_RESERVE,    \* what is held back for the notice that closes a cut corpus
  HEADER,            \* the size of the corpus's H1 and blockquote
  Undeclared,        \* no priority or lastmod
  MaxFetched         \* bound on the pages of a crawl

Overview == 0
OPTIONAL_SECTION == OTHER_SECTION + 1
Canonical == DOMAIN Weights

ASSUME LlmsTxtAssumption ==
  /\ {MAX_MAIN_BODY_LINKS, BOILERPLATE_MIN_PAGES, MIN_SECTION_SIZE} \subseteq Nat \ {0}
  /\ {MAX_PAGE_TEXT, MAX_FULL_TEXT, NOTICE_RESERVE, HEADER, MaxFetched} \subseteq Nat
  /\ HEADER + NOTICE_RESERVE <= MAX_FULL_TEXT
  /\ Overview \in Canonical /\ Canonical \subseteq 0 .. 10
  /\ OTHER_SECTION \in Nat /\ OTHER_SECTION > 10
  /\ Weights \in [Canonical -> Int]
  /\ PageKinds \subseteq [url : DOMAIN UrlTraits, title : DOMAIN Sentence,
                         description : DOMAIN Sentence, body : DOMAIN BodyTraits]
  /\ Sentence \in [DOMAIN Sentence -> Nat]
  /\ DOMAIN UrlTraits \cup DOMAIN Sentence \cup DOMAIN BodyTraits \subseteq Nat
  /\ UrlTraits \in [DOMAIN UrlTraits ->
       [site : {"exact", "www", "other"}, depth : Nat, claims : SUBSET Canonical,
        segment : Canonical \cup (11 .. OTHER_SECTION) \cup {Undeclared},
        optional : BOOLEAN, linked : BOOLEAN,
        priority : (0 .. 10) \cup {Undeclared}, lastmod : Nat \cup {Undeclared}]]
  /\ BodyTraits \in [DOMAIN BodyTraits ->
       [print : Nat, buckets : Nat, paragraph : DOMAIN Sentence, size : Nat]]

VARIABLE pages   \* what crawl_site has collected so far, in the order it came in

llmsVars == <<pages>>
LlmsInit == pages = <<>>

Collect == /\ Len(pages) < MaxFetched
           /\ \E p \in PageKinds : pages' = Append(pages, p)

LlmsNext == Collect
LlmsSpec == LlmsInit /\ [][LlmsNext]_llmsVars

-----------------------------------------------------------------------------

\* a comes before b: lexicographic order of two keys of one length.
Precedes(a, b) ==
  \E i \in DOMAIN a : a[i] < b[i] /\ \A j \in 1 .. i - 1 : a[j] = b[j]

\* The numbers that have a key, by their keys and then as they stand.
Sorted(keys) ==
  LET Before(i, j) == Precedes(keys[i], keys[j]) \/ (keys[i] = keys[j] /\ i < j)
      place == [i \in DOMAIN keys |-> Cardinality({j \in DOMAIN keys : Before(j, i)}) + 1] IN
  [n \in 1 .. Cardinality(DOMAIN keys) |-> CHOOSE i \in DOMAIN keys : place[i] = n]

Taken(s, places) == [n \in DOMAIN places |-> s[places[n]]]

\* sorted(s, key), of the keys of its elements: a stable sort.
SortedBy(s, keys) == Taken(s, Sorted(keys))

\* The elements of s at some of its places, in their order.
Where(s, places) == Taken(s, Sorted([i \in places |-> <<>>]))

ordering_key(p) == <<p.url, p.title, p.description, p.body>>
ordered(found) == SortedBy(found, [i \in DOMAIN found |-> ordering_key(found[i])])

\* The root page is looked for on the exact origin, empty or not.
root_page(found) ==
  LET all == ordered(found)
      AtRoot(p) == UrlTraits[p.url].depth = 0 /\ UrlTraits[p.url].site = "exact" IN
  Where(all, {i \in DOMAIN all : AtRoot(all[i])})

sentence_of(root) ==
  IF root = <<>> THEN 0
  ELSE IF Sentence[root[1].description] # 0 THEN Sentence[root[1].description]
  ELSE Sentence[BodyTraits[root[1].body].paragraph]

site_sentence(found) == sentence_of(root_page(found))

-----------------------------------------------------------------------------
(* Candidates: their section, their score.                                  *)

\* The first canonical section that claims a word of the path, or one derived
\* from its first segment.
section_for(url) ==
  LET traits == UrlTraits[url] IN
  IF traits.depth = 0 /\ traits.site = "exact" THEN Overview
  ELSE IF traits.claims # {} THEN Min(traits.claims)
  ELSE IF traits.segment = Undeclared THEN OTHER_SECTION ELSE traits.segment

\* Mutant: the identity of a page is its body and what it says of itself.
print_with_title(p) == <<BodyTraits[p.body].print, p.title, p.description>>

\* A hash of the start of the body: neither title nor description, which
\* enrichment rewrites.
fingerprint(p) == BodyTraits[p.body].print

IsCandidate(p) == p.body # 0 /\ UrlTraits[p.url].site \in {"exact", "www"}

candidates_of(found) ==
  LET all == ordered(found)
      kept == Where(all, {i \in DOMAIN all : IsCandidate(all[i])}) IN
  [i \in DOMAIN kept |-> [page |-> kept[i], url |-> kept[i].url,
                          section |-> section_for(kept[i].url),
                          optional |-> UrlTraits[kept[i].url].optional,
                          print |-> fingerprint(kept[i]), score |-> 0]]

recency_fraction(lastmod, all) ==
  IF lastmod = Undeclared \/ Cardinality(all) < 2 THEN 0
  ELSE (12 * (lastmod - Min(all))) \div (Max(all) - Min(all)) - 6

rank(c, all) ==
  LET traits == UrlTraits[c.url] IN
  120 \div (1 + traits.depth)
    + (IF traits.linked THEN 240 ELSE 0)
    + (IF c.section \in Canonical THEN Weights[c.section] ELSE 0)
    + 20 * BodyTraits[c.page.body].buckets
    + (IF traits.priority = Undeclared THEN 0 ELSE 6 * (traits.priority - 5))
    + recency_fraction(traits.lastmod, all)
    + (IF c.optional THEN -30000 ELSE 0)

score_all(cs) ==
  LET all == {UrlTraits[cs[i].url].lastmod : i \in DOMAIN cs} \ {Undeclared} IN
  [i \in DOMAIN cs |-> [cs[i] EXCEPT !.score = rank(cs[i], all)]]

-----------------------------------------------------------------------------
(* The stages of _select.                                                   *)

dedupe(scored) ==
  LET best == SortedBy(scored, [i \in DOMAIN scored |->
                <<- scored[i].score, UrlTraits[scored[i].url].depth, scored[i].url>>])
      First(i) == \A j \in DOMAIN best : j < i => best[j].print # best[i].print IN
  Where(best, {i \in DOMAIN best : First(i)})

by_score(cs) == SortedBy(cs, [i \in DOMAIN cs |-> <<- cs[i].score, cs[i].url>>])

\* The main body takes the best MAX_MAIN_BODY_LINKS that are not always optional.
partition(deduped) ==
  LET best == by_score(deduped)
      fit == {i \in DOMAIN best : ~ best[i].optional}
      main == {i \in fit : Cardinality({j \in fit : j < i}) < MAX_MAIN_BODY_LINKS} IN
  [main |-> Where(best, main), optional |-> Where(best, DOMAIN best \ main)]

\* Mutant: a site of nothing but legal pages has an index with an empty body.
leave_empty(split) == split

\* If there is nothing for the main body, it takes the best of Optional.
ensure_non_empty_main(split) ==
  LET promoted == {i \in DOMAIN split.optional : i <= MAX_MAIN_BODY_LINKS} IN
  IF split.main # <<>> THEN split
  ELSE [main |-> Where(split.optional, promoted),
        optional |-> Where(split.optional, DOMAIN split.optional \ promoted)]

\* A derived section that is too small goes to Other.
consolidate(split) ==
  LET Size(s) == Cardinality({i \in DOMAIN split.main : split.main[i].section = s})
      Folds(s) == s \notin Canonical \cup {OTHER_SECTION} /\ Size(s) < MIN_SECTION_SIZE IN
  [main |-> [i \in DOMAIN split.main |->
     IF Folds(split.main[i].section) THEN [split.main[i] EXCEPT !.section = OTHER_SECTION]
     ELSE split.main[i]],
   optional |-> split.optional]

\* The descriptions that too many of the survivors share.
boilerplate_descriptions(split) ==
  LET all == split.main \o split.optional
      Shared(d) == Cardinality({i \in DOMAIN all : all[i].page.description = d}) IN
  {d \in {all[i].page.description : i \in DOMAIN all} \ {0} : Shared(d) >= BOILERPLATE_MIN_PAGES}

\* Nothing for a shared description, for one without a sentence that fits, or for
\* one that repeats the title or the blockquote.
describe(p, boilerplate, sentence) ==
  LET said == Sentence[p.description] IN
  IF p.description \in boilerplate \/ said \in {0, p.title, sentence} THEN 0 ELSE said

by_section(cs) ==
  SortedBy(cs, [i \in DOMAIN cs |-> <<cs[i].section, - cs[i].score, cs[i].url>>])

entry(c, section, description) ==
  [section |-> section, url |-> c.url, page |-> c.page, score |-> c.score,
   forced |-> c.optional, description |-> description]

ordered_entries(split, boilerplate, sentence) ==
  LET Description(c) == describe(c.page, boilerplate, sentence)
      main == by_section(split.main)
      optional == by_score(split.optional) IN
  [i \in DOMAIN main |-> entry(main[i], main[i].section, Description(main[i]))]
    \o [i \in DOMAIN optional |-> entry(optional[i], OPTIONAL_SECTION, Description(optional[i]))]

listed(split, sentence) == ordered_entries(split, boilerplate_descriptions(split), sentence)

survivors(cs, deduped, sentence) ==
  [entries |-> listed(consolidate(ensure_non_empty_main(partition(deduped))), sentence),
   duplicate |-> Len(cs) - Len(deduped)]

select_candidates(cs, sentence) == survivors(cs, dedupe(score_all(cs)), sentence)

select(found) == select_candidates(candidates_of(found), site_sentence(found))

count_indexed_pages(selected) ==
  LET main == Cardinality({i \in DOMAIN selected.entries :
                             selected.entries[i].section # OPTIONAL_SECTION}) IN
  [main |-> main, optional |-> Len(selected.entries) - main, duplicate |-> selected.duplicate]

-----------------------------------------------------------------------------
(* llms-full.txt.                                                           *)

budget_of_pages == MAX_FULL_TEXT - NOTICE_RESERVE

Trimmed(e) == BodyTraits[e.page.body].size > MAX_PAGE_TEXT
SectionSize(e) == 1 + Min({BodyTraits[e.page.body].size, MAX_PAGE_TEXT})

\* Mutant: the page that does not fit is not among the omitted.
append_uncounted(acc, e) ==
  IF acc.closed THEN [acc EXCEPT !.truncated = @ + 1]
  ELSE IF acc.used + SectionSize(e) > budget_of_pages
  THEN [acc EXCEPT !.closed = TRUE, !.used = @ + NOTICE_RESERVE]
  ELSE [acc EXCEPT !.used = @ + SectionSize(e), !.carried = Append(@, e.url),
                   !.truncated = IF Trimmed(e) THEN @ + 1 ELSE @]

\* One turn of the loop over the entries: the first one that does not fit closes
\* the corpus with a notice, and counts with all that follow it.
append_page(acc, e) ==
  IF acc.closed THEN [acc EXCEPT !.truncated = @ + 1]
  ELSE IF acc.used + SectionSize(e) > budget_of_pages
  THEN [acc EXCEPT !.closed = TRUE, !.used = @ + NOTICE_RESERVE, !.truncated = @ + 1]
  ELSE [acc EXCEPT !.used = @ + SectionSize(e), !.carried = Append(@, e.url),
                   !.truncated = IF Trimmed(e) THEN @ + 1 ELSE @]

plan_full_txt(selected) ==
  FoldLeft(append_page, [used |-> HEADER, carried |-> <<>>, truncated |-> 0, closed |-> FALSE],
           selected.entries)

\* The pages in the order of the index, for enrichment.
urls_of(entries) == [i \in DOMAIN entries |-> entries[i].url]
rank_pages(found) == urls_of(select(found).entries)

-----------------------------------------------------------------------------

\* Whatever order the racing fetches come back in, and whichever of two fetches
\* that were redirected to one URL is first, the index is the same.
IndexOrderFree ==
  LET index == select(pages) IN
  \A i \in 1 .. Len(pages) - 1 :
    select([pages EXCEPT ![i] = pages[i + 1], ![i + 1] = pages[i]]) = index

\* "Selection is enrichment-invariant": rewriting the title or the description of
\* a page, by URL, leaves what is listed and its order alone.
EnrichmentInvariant ==
  LET order == rank_pages(pages) IN
  \A u \in {pages[i].url : i \in DOMAIN pages}, t \in DOMAIN Sentence \ {0} :
    rank_pages([i \in DOMAIN pages |-> IF pages[i].url = u
                  THEN [pages[i] EXCEPT !.title = t, !.description = t] ELSE pages[i]]) = order

\* What a run lists is a function of the site: not of the order of its fetches, nor
\* of the words a model answers with, so that a switch of enrichment alone leaves
\* the index in its order.
IndexStable == IndexOrderFree /\ EnrichmentInvariant

Accounted(selected, counts, full) ==
  /\ counts.main + counts.optional + counts.duplicate
       = Cardinality({i \in DOMAIN pages : IsCandidate(pages[i])})
  /\ full.truncated = Len(selected.entries) - Len(full.carried)
       + Cardinality({i \in DOMAIN full.carried : Trimmed(selected.entries[i])})
  /\ full.used <= MAX_FULL_TEXT

CountsAgree(selected) ==
  Accounted(selected, count_indexed_pages(selected), plan_full_txt(selected))

\* The counts of a run's stats add up: every page that may be listed is, or is a
\* duplicate; and every page of the index that is not whole in the corpus is
\* counted once.  (A run that has collected no page fails and writes no artifact.)
PagesAccounted == pages # <<>> => CountsAgree(select(pages))

\* Headings: none is printed twice, and one that is derived from a path has at
\* least MIN_SECTION_SIZE links under it.
HeadingsRead(entries) ==
  LET Under(s) == {i \in DOMAIN entries : entries[i].section = s} IN
  \A i \in DOMAIN entries :
    LET s == entries[i].section IN
    /\ \A j \in Under(s) : \A k \in i .. j : entries[k].section = s
    /\ s \in Canonical \cup {OTHER_SECTION, OPTIONAL_SECTION} \/ Cardinality(Under(s)) >= MIN_SECTION_SIZE

WellSplit(entries) ==
  LET main == {i \in DOMAIN entries : entries[i].section # OPTIONAL_SECTION}
      rest == DOMAIN entries \ main IN
  /\ rest # {} => main # {}
  /\ Cardinality(main) <= MAX_MAIN_BODY_LINKS
  /\ (\E i \in main : entries[i].forced) => \A i \in DOMAIN entries : entries[i].forced
  /\ \A i \in rest : entries[i].forced \/
       /\ Cardinality(main) = MAX_MAIN_BODY_LINKS
       /\ \A j \in main : entries[j].score >= entries[i].score

WellFormed(entries) == HeadingsRead(entries) /\ WellSplit(entries)

\* The main body: never empty, nor over its cap; it takes a page that is always
\* optional only if there is no other, and leaves one that is not to Optional
\* only if it is full of better ones; what is moved leaves no heading broken.
MainBodyFilled == pages # <<>> => WellFormed(select(pages).entries)
=============================================================================
