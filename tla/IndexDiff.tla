------------------------------ MODULE IndexDiff ------------------------------
(***************************************************************************)
(* What a run records about the run before it: both indexes are parsed     *)
(* back out of their text and compared by normalized URL, and the hashes   *)
(* of the bodies, kept beside them, tell changes of content.  The hint     *)
(* publishing goes by is read from the result.                             *)
(*                                                                         *)
(* A URL is a sequence of characters and escape sequences; words (title    *)
(* and description), bodies (0 for a blank one) and sections are numbers.  *)
(***************************************************************************)
EXTENDS Integers, SequencesExt

CONSTANTS
  DiffPages,   \* pages a crawl may come back with: [url, words, body, section]
  Escapes,     \* character -> its escape sequence
  Unknown,     \* what a row written by an older version has not recorded
  MaxPerRun    \* bound on the pages of a crawl

ASSUME IndexDiffAssumption ==
  /\ MaxPerRun \in Nat /\ Unknown \notin BOOLEAN \cup Nat
  /\ DiffPages \subseteq [url : Seq(STRING) \ {<<>>}, words : Nat, body : Nat, section : Nat]
  /\ IsInjective(Escapes) /\ DOMAIN Escapes \cap Range(Escapes) = {}
  /\ "/" \notin DOMAIN Escapes \cup Range(Escapes)

\* Two crawls of one site, in the order their pages have in the index.
VARIABLES before, now

diffVars == <<before, now>>

IndexDiffInit ==
  /\ before \in [pages : {<<>>}, enriched : BOOLEAN \cup {Unknown}]
  /\ now \in [pages : {<<>>}, enriched : BOOLEAN]

CollectBefore(p) ==
  /\ Len(before.pages) < MaxPerRun /\ now.pages = <<>>
  /\ before' = [before EXCEPT !.pages = Append(@, p)] /\ UNCHANGED now

CollectNow(p) ==
  /\ Len(now.pages) < MaxPerRun
  /\ now' = [now EXCEPT !.pages = Append(@, p)] /\ UNCHANGED before

IndexDiffNext == \E p \in DiffPages : CollectBefore(p) \/ CollectNow(p)
IndexDiffSpec == IndexDiffInit /\ [][IndexDiffNext]_diffVars

-----------------------------------------------------------------------------
(* Into the text, and back out of it.                                       *)

_escape_target(url) == [i \in DOMAIN url |-> IF url[i] \in DOMAIN Escapes THEN Escapes[url[i]] ELSE url[i]]

\* Every escape sequence becomes its character, those the URL came with too.
_unescape_target(url) ==
  LET inverse == AntiFunction(Escapes) IN
  [i \in DOMAIN url |-> IF url[i] \in DOMAIN inverse THEN inverse[url[i]] ELSE url[i]]

\* What distinguishes two spellings of one page: here, a trailing slash.
normalize_url(url) == IF Len(url) > 1 /\ Last(url) = "/" THEN Front(url) ELSE url

\* The places of the pages generate_llms_txt lists: those with a body, the first of
\* each body.
Listed(found) ==
  {i \in DOMAIN found : found[i].body # 0 /\ \A j \in 1 .. i - 1 : found[j].body # found[i].body}

_bullet(p) == [section |-> p.section, target |-> _escape_target(p.url), words |-> p.words]

\* A text is the lines at these places.
generate_index(found) == [i \in Listed(found) |-> _bullet(found[i])]

\* Mutant: an entry goes by its URL as it was listed.
key_as_listed(target) == _unescape_target(target)

entry_key(target) == normalize_url(_unescape_target(target))

parse_index(text) ==
  [i \in DOMAIN text |-> [key |-> entry_key(text[i].target), section |-> text[i].section,
                          words |-> text[i].words]]

\* The last one of several with the same key stays.
ByKey(entries) ==
  [k \in {entries[i].key : i \in DOMAIN entries} |->
     entries[Max({i \in DOMAIN entries : entries[i].key = k})]]

Hashed(found) == {i \in DOMAIN found : found[i].body # 0}

\* Mutant: a hash goes by the URL of its page.
hashes_by_url(found) ==
  [k \in {found[i].url : i \in Hashed(found)} |->
     found[Max({i \in Hashed(found) : found[i].url = k})].body]

build_content_hashes(found) ==
  [k \in {normalize_url(found[i].url) : i \in Hashed(found)} |->
     found[Max({i \in Hashed(found) : normalize_url(found[i].url) = k})].body]

-----------------------------------------------------------------------------
(* The comparison.                                                          *)

mode_changed(run, previous) == previous.enriched # Unknown /\ previous.enriched # run.enriched

_sections_delta(entries, previous) ==
  LET Sections(es) == {es[i].section : i \in DOMAIN es}
      Size(es, s) == Cardinality({i \in DOMAIN es : es[i].section = s}) IN
  [s \in Sections(entries) \cup Sections(previous) |-> Size(entries, s) - Size(previous, s)]

\* Hashes are recorded since the version that records the mode.
build_index_diff(run, previous) ==
  LET current_entries == parse_index(generate_index(run.pages))
      previous_entries == parse_index(generate_index(previous.pages))
      current == ByKey(current_entries)
      past == ByKey(previous_entries)
      common == DOMAIN current \cap DOMAIN past
      hashes == build_content_hashes(run.pages)
      past_hashes == build_content_hashes(previous.pages)
      flipped == mode_changed(run, previous) IN
  [pages_added |-> Cardinality(DOMAIN current \ DOMAIN past),
   pages_removed |-> Cardinality(DOMAIN past \ DOMAIN current),
   metadata_changed |->
     IF flipped THEN Unknown ELSE Cardinality({k \in common : current[k].words # past[k].words}),
   content_changed |->
     IF previous.enriched = Unknown THEN Unknown
     ELSE Cardinality({k \in common \cap DOMAIN hashes \cap DOMAIN past_hashes :
                         hashes[k] # past_hashes[k]}),
   sections_delta |-> _sections_delta(current_entries, previous_entries)]

\* None is falsy.
index_changed(diff) ==
  \/ diff.pages_added > 0 \/ diff.pages_removed > 0
  \/ diff.metadata_changed \notin {0, Unknown} \/ diff.content_changed \notin {0, Unknown}

-----------------------------------------------------------------------------

diff == build_index_diff(now, before)

\* Two URLs are one if they are when escape sequences are read as what they stand for.
PageKey(p) == normalize_url(_unescape_target(p.url))

Keys(found) == {PageKey(found[i]) : i \in Listed(found)}
Contents(found) ==
  {[key |-> PageKey(found[i]), words |-> found[i].words, body |-> found[i].body] : i \in Listed(found)}

\* No two pages of either crawl have one key. (Two frontier URLs that redirect to one
\* do, and so do two that differ only in that one holds an escape sequence.)
OnePagePerKey ==
  \A run \in {before, now} : \A i, j \in DOMAIN run.pages :
    PageKey(run.pages[i]) = PageKey(run.pages[j]) => i = j

\* The URLs no escape sequence is in from the start.
NoEscape(url) == ToSet(url) \cap Range(Escapes) = {}

\* A switch of the enrichment mode rewrites the words of every page: alone, it is
\* reported as not comparable and not as a change.
ModeFlipQuiet ==
  /\ OnePagePerKey /\ before.enriched = ~ now.enriched
  /\ [i \in DOMAIN now.pages |-> [now.pages[i] EXCEPT !.words = 0]]
       = [i \in DOMAIN before.pages |-> [before.pages[i] EXCEPT !.words = 0]]
  => diff.metadata_changed = Unknown /\ ~ index_changed(diff)

\* The block adds up: what sections gained and lost is what was added and removed.
DeltasAgree ==
  now.pages # <<>> /\ OnePagePerKey =>
    SumFunction(diff.sections_delta) = diff.pages_added - diff.pages_removed

\* "A trailing-slash change is not a page swap": between crawls whose listed pages
\* have the same keys, words and bodies, nothing is reported, in whatever order they
\* are listed; nor when only the words were rewritten.
UnchangedIsQuiet ==
  /\ ModeFlipQuiet
  /\ now.pages # <<>> /\ OnePagePerKey /\ Contents(now.pages) = Contents(before.pages) =>
       ~ index_changed(diff)

\* A false "unchanged" stops publishing: a page that is new or gone, or that says
\* or holds something else, is reported, unless what happened is that words alone
\* changed when the enrichment mode did, the body of a page whose URL came with an
\* escape sequence, or a body since an older version's run.  The block adds up.
ChangeIsSeen ==
  /\ DeltasAgree
  /\ now.pages # <<>> /\ OnePagePerKey =>
    LET Seen(p, q) == \/ p.words # q.words /\ ~ mode_changed(now, before)
                      \/ /\ p.body # q.body /\ before.enriched # Unknown
                         /\ NoEscape(p.url) /\ NoEscape(q.url) IN
    (\/ Keys(before.pages) # Keys(now.pages)
     \/ \E i \in Listed(before.pages), j \in Listed(now.pages) :
          PageKey(before.pages[i]) = PageKey(now.pages[j]) /\ Seen(before.pages[i], now.pages[j]))
      => index_changed(diff)
=============================================================================
