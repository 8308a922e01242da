-------------------------------- MODULE Robots --------------------------------
(***************************************************************************)
(* robots.txt: the rules of the groups that speak to this crawler, and     *)
(* whether they allow a URL.                                               *)
(*                                                                         *)
(* A line is the directive it spells; a path is a sequence of characters   *)
(* of a small alphabet, already normalized; a pattern may hold "*" and may *)
(* end in "$".                                                             *)
(***************************************************************************)
EXTENDS Integers, SequencesExt

CONSTANTS
  Letters,     \* the characters of paths, "*" and "$" aside
  Agents,      \* values of User-agent lines, "*" and Token among them
  Token,       \* this crawler's product token
  Paths,       \* patterns of Allow and Disallow lines
  Delays,      \* values of Crawl-delay lines
  MAX_RULES,
  MaxLines,    \* bound on the lines of a file
  MaxPattern,  \* bound on the length of a pattern
  MaxTarget    \* bound on the length of a path

ASSUME RobotsAssumption ==
  /\ {MAX_RULES, MaxLines, MaxPattern, MaxTarget} \subseteq Nat
  /\ {"*", Token} \subseteq Agents /\ Token # "*"
  /\ Letters \cap {"*", "$"} = {} /\ Delays \subseteq Nat

Lines == [field : {"user-agent"}, value : Agents]
           \cup [field : {"allow", "disallow"}, value : Paths]
           \cup [field : {"crawl-delay"}, value : Delays]

VARIABLES
  file,     \* the lines read so far
  groups,   \* what the scan has made of them
  pattern,  \* a pattern, its "$" included
  target    \* a path and query

robotsVars == <<file, groups, pattern, target>>

RobotsInit == file = <<>> /\ groups = <<>> /\ pattern = <<>> /\ target = <<>>

-----------------------------------------------------------------------------
(* The scan.                                                                *)

NewGroup == [agents |-> <<>>, rules |-> <<>>]
AddTo(gs, field, value) == [gs EXCEPT ![Len(gs)][field] = Append(@, value)]

\* Mutant: every User-agent line opens a group of its own.
ScanAgentAlone(gs, line) == AddTo(Append(gs, NewGroup), "agents", line.value)

\* A User-agent line opens a group unless it follows another one of a group that
\* has no rule yet.
ScanAgent(gs, line) ==
  AddTo(IF gs = <<>> \/ Last(gs).rules # <<>> THEN Append(gs, NewGroup) ELSE gs,
        "agents", line.value)

\* A rule before the first User-agent line belongs to nobody.
ScanRule(gs, line) == IF gs = <<>> THEN gs ELSE AddTo(gs, "rules", line)

ReadLine(line) ==
  /\ Len(file) < MaxLines /\ pattern = <<>> /\ target = <<>>
  /\ file' = Append(file, line)
  /\ groups' = IF line.field = "user-agent" THEN ScanAgent(groups, line) ELSE ScanRule(groups, line)
  /\ UNCHANGED <<pattern, target>>

\* The agent whose groups count: "*" only if no group names the crawler.
winning == IF \E g \in ToSet(groups) : Token \in ToSet(g.agents) THEN Token ELSE "*"

\* What its groups hold together, one after the other.
rules_of(gs, agent) ==
  LET AddGroup(acc, g) == IF agent \in ToSet(g.agents) THEN acc \o g.rules ELSE acc IN
  FoldLeft(AddGroup, <<>>, gs)

NoRules == [allow |-> <<>>, disallow |-> <<>>, delay |-> 0, kept |-> 0]

\* MAX_RULES of them at most, and the last delay.
keep_rule(acc, line) ==
  IF acc.kept >= MAX_RULES THEN acc
  ELSE IF line.field = "crawl-delay" THEN [acc EXCEPT !.delay = line.value]
  ELSE [acc EXCEPT ![line.field] = Append(@, line.value), !.kept = @ + 1]

parse_robots == FoldLeft(keep_rule, NoRules, rules_of(groups, winning))

-----------------------------------------------------------------------------
(* The match: greedy, from left to right, without going back.               *)

Anchored(p) == p # <<>> /\ Last(p) = "$"
Body(p) == IF Anchored(p) THEN Front(p) ELSE p

\* The pieces of a pattern between its stars.
_compile(p) ==
  LET Cut(acc, char) == IF char = "*" THEN Append(acc, <<>>)
                        ELSE [acc EXCEPT ![Len(acc)] = Append(@, char)] IN
  FoldLeft(Cut, <<<<>>>>, Body(p))

PieceAt(text, segment, i) == i + Len(segment) <= Len(text) /\ SubSeq(text, i + 1, i + Len(segment)) = segment

\* Where the first occurrence of segment from pos on ends; -1 if there is none.
FindEnd(text, segment, pos) ==
  LET found == {i \in pos .. Len(text) : PieceAt(text, segment, i)} IN
  IF found = {} THEN -1 ELSE Min(found) + Len(segment)

\* Mutant: an anchored last piece is looked for like any other one.
step_unanchored(segments, anchored, text, pos, i) ==
  LET end == FindEnd(text, segments[i], pos) IN
  IF i = Len(segments) /\ anchored /\ end # Len(text) THEN -1 ELSE end

\* The position after piece i, from the position after the one before it.
step(segments, anchored, text, pos, i) ==
  IF i = Len(segments) /\ anchored
  THEN LET start == Len(text) - Len(segments[i]) IN
       IF start >= pos /\ PieceAt(text, segments[i], start) THEN Len(text) ELSE -1
  ELSE FindEnd(text, segments[i], pos)

_matches(p, text) ==
  LET segments == _compile(p)
      after[i \in DOMAIN segments] ==
        IF i = 1 THEN IF PieceAt(text, segments[1], 0) THEN Len(segments[1]) ELSE -1
        ELSE IF after[i - 1] = -1 THEN -1
        ELSE step(segments, Anchored(p), text, after[i - 1], i) IN
  IF Len(segments) = 1
  THEN after[1] # -1 /\ (Anchored(p) => Len(text) = Len(segments[1]))
  ELSE after[Len(segments)] # -1

Type(char) ==
  /\ file = <<>>
  /\ \/ /\ Len(pattern) < MaxPattern /\ target = <<>> /\ ~ Anchored(pattern)
        /\ pattern' = Append(pattern, char) /\ UNCHANGED target
     \/ /\ Len(target) < MaxTarget /\ char \in Letters
        /\ target' = Append(target, char) /\ UNCHANGED pattern
  /\ UNCHANGED <<file, groups>>

RobotsNext ==
  \/ \E line \in Lines : ReadLine(line)
  \/ \E char \in Letters \cup {"*", "$"} : Type(char)

RobotsSpec == RobotsInit /\ [][RobotsNext]_robotsVars

-----------------------------------------------------------------------------

\* What "*" and "$" mean: a path matches if some split of it gives every star a
\* piece of the path and every other character itself; a pattern without "$" may
\* match a prefix.
Means(p, text) ==
  LET body == Body(p)
      fits[i \in 0 .. Len(body)] ==
        [j \in 0 .. Len(text) |->
           IF i = 0 THEN j = 0
           ELSE IF body[i] = "*" THEN \E k \in 0 .. j : fits[i - 1][k]
           ELSE j > 0 /\ body[i] = text[j] /\ fits[i - 1][j - 1]] IN
  IF Anchored(p) THEN fits[Len(body)][Len(text)]
  ELSE \E j \in 0 .. Len(text) : fits[Len(body)][j]

\* _matches never goes back over a star it has placed, and still decides what the
\* pattern means.
GreedyMatch == _matches(pattern, target) <=> Means(pattern, target)

\* The User-agent lines a rule stands under: those above it, back to the rule
\* line that ended the group before.
Governs(j, i) ==
  /\ j < i /\ file[j].field = "user-agent"
  /\ \A k \in j + 1 .. i - 1 : file[k].field # "user-agent" =>
       \A l \in k + 1 .. i - 1 : file[l].field # "user-agent"

\* parse_robots: exactly the rules that stand under the crawler's own token
\* count, wherever in the file its groups are, and those under "*" only if no
\* group names the crawler; in the file's order, up to the MAX_RULES-th, and the
\* last delay before that one wins.
RulesOfOurGroups ==
  LET ours == IF \E j \in DOMAIN file : file[j] = [field |-> "user-agent", value |-> Token]
              THEN Token ELSE "*"
      Ours(fields) == {i \in DOMAIN file : file[i].field \in fields
                         /\ \E j \in DOMAIN file : Governs(j, i) /\ file[j].value = ours}
      counted == {i \in DOMAIN file :
        Cardinality({k \in Ours({"allow", "disallow"}) : k < i}) < MAX_RULES}
      delays == Ours({"crawl-delay"}) \cap counted
      Kept(field) ==
        LET lines == Ours({field}) \cap counted
            Place(i) == Cardinality({k \in lines : k < i}) + 1 IN
        [n \in 1 .. Cardinality(lines) |-> file[CHOOSE i \in lines : Place(i) = n].value] IN
  /\ parse_robots.allow = Kept("allow") /\ parse_robots.disallow = Kept("disallow")
  /\ parse_robots.delay = IF delays = {} THEN 0 ELSE file[Max(delays)].value
=============================================================================
