--------------------------- MODULE LlmsTxtProofs ----------------------------
(***************************************************************************)
(* What llms.txt lists and in which order, and what llms-full.txt carries, *)
(* for any number of pages, in any order, with any titles and bodies, and  *)
(* for every cap on the main body, on a section and on the corpus.         *)
(*                                                                         *)
(* A stable sort is determined by its keys, and two elements with one key  *)
(* cannot be told apart by what select goes on to read of them; that what  *)
(* a crawl's order or a page's words change is nothing but such a pair is  *)
(* carried from stage to stage as "alike".                                 *)
(***************************************************************************)
EXTENDS LlmsTxt, LoopTheorems

-----------------------------------------------------------------------------
(* llms.txt: sorting.                                                       *)

\* Keys of m numbers.
KeysOf(m) == [1 .. m -> Int]

\* Keys of one length are in a total order.
LEMMA KeyOrder ==
  ASSUME NEW m \in Nat
  PROVE  /\ \A a \in KeysOf(m) : ~ Precedes(a, a)
         /\ \A a, b \in KeysOf(m) : a # b => Precedes(a, b) \/ Precedes(b, a)
         /\ \A a, b, c \in KeysOf(m) : Precedes(a, b) /\ Precedes(b, c) => Precedes(a, c)
<1>1. \A a \in KeysOf(m) : DOMAIN a = 1 .. m /\ \A i \in 1 .. m : a[i] \in Int
  BY DEF KeysOf
<1>2. ASSUME NEW a \in KeysOf(m), NEW b \in KeysOf(m), a # b
      PROVE  Precedes(a, b) \/ Precedes(b, a)
  <2> DEFINE T == {i \in 1 .. m : a[i] # b[i]}
  <2>1. T # {}
    <3>1. a = [i \in 1 .. m |-> a[i]] /\ b = [i \in 1 .. m |-> b[i]]
      BY DEF KeysOf
    <3>2. \E i \in 1 .. m : a[i] # b[i]
      BY <1>2, <3>1
    <3> QED BY <3>2
  <2>2. PICK i \in T : \A j \in T : i <= j
    <3>1. T \subseteq Nat
      OBVIOUS
    <3> HIDE DEF T
    <3> QED BY <2>1, <3>1, LeastNumber
  <2>3. i \in 1 .. m /\ a[i] # b[i]
    OBVIOUS
  <2>4. \A j \in 1 .. i - 1 : a[j] = b[j]
    <3> SUFFICES ASSUME NEW j \in 1 .. i - 1, a[j] # b[j] PROVE FALSE
      OBVIOUS
    <3>1. j \in T /\ ~ (i <= j)
      BY <2>3
    <3> HIDE DEF T
    <3> QED BY <2>2, <3>1
  <2> HIDE DEF T
  <2>5. a[i] < b[i] \/ b[i] < a[i]
    BY <1>1, <2>3
  <2> QED BY <1>1, <2>3, <2>4, <2>5 DEF Precedes
<1>3. ASSUME NEW a \in KeysOf(m), NEW b \in KeysOf(m), NEW c \in KeysOf(m),
             Precedes(a, b), Precedes(b, c)
      PROVE  Precedes(a, c)
  <2>1. PICK i \in 1 .. m : a[i] < b[i] /\ \A j \in 1 .. i - 1 : a[j] = b[j]
    BY <1>1, <1>3 DEF Precedes
  <2>2. PICK k \in 1 .. m : b[k] < c[k] /\ \A j \in 1 .. k - 1 : b[j] = c[j]
    BY <1>1, <1>3 DEF Precedes
  <2>3. CASE i <= k
    <3>1. b[i] <= c[i]
      BY <1>1, <2>2, <2>3
    <3>2. a[i] < c[i]
      BY <1>1, <2>1, <3>1
    <3>3. \A j \in 1 .. i - 1 : a[j] = c[j]
      BY <2>1, <2>2, <2>3
    <3> QED BY <1>1, <3>2, <3>3 DEF Precedes
  <2>4. CASE k < i
    <3>1. a[k] < c[k]
      BY <1>1, <2>1, <2>2, <2>4
    <3>2. \A j \in 1 .. k - 1 : a[j] = c[j]
      BY <2>1, <2>2, <2>4
    <3> QED BY <1>1, <3>1, <3>2 DEF Precedes
  <2> QED BY <2>3, <2>4
<1>4. ASSUME NEW a \in KeysOf(m), Precedes(a, a) PROVE FALSE
  BY <1>1, <1>4 DEF Precedes
<1> QED BY <1>2, <1>3, <1>4

\* The numbers of D have a key of m numbers each.
Keyed(keys, D, m) ==
  /\ m \in Nat /\ IsFiniteSet(D) /\ D \subseteq Nat /\ DOMAIN keys = D
  /\ \A i \in D : keys[i] \in KeysOf(m)

\* o names the elements of D one after the other.
Names(o, D) ==
  /\ IsFiniteSet(D) /\ Cardinality(D) \in Nat /\ o \in [1 .. Cardinality(D) -> D]
  /\ \A x \in D : \E n \in 1 .. Cardinality(D) : o[n] = x
  /\ \A k, n \in 1 .. Cardinality(D) : o[k] = o[n] => k = n

\* By their keys, and those of one key as they stand.
InKeyOrder(o, keys, n) ==
  \A i, j \in 1 .. n : i < j =>
    Precedes(keys[o[i]], keys[o[j]]) \/ (keys[o[i]] = keys[o[j]] /\ o[i] < o[j])

\* Sorted takes every number once.
LEMMA SortedNames ==
  ASSUME NEW keys, NEW D, NEW m, Keyed(keys, D, m)
  PROVE  Names(Sorted(keys), D) /\ InKeyOrder(Sorted(keys), keys, Cardinality(D))
<1> DEFINE n == Cardinality(D)
           Before(i, j) == Precedes(keys[i], keys[j]) \/ (keys[i] = keys[j] /\ i < j)
           R == {p \in D \X D : Before(p[1], p[2])}
           place == [i \in D |-> Cardinality({j \in D : Before(j, i)}) + 1]
           o == Sorted(keys)
<1>1. /\ IsFiniteSet(D) /\ n \in Nat /\ D \subseteq Nat /\ m \in Nat
      /\ DOMAIN keys = D /\ \A i \in D : keys[i] \in KeysOf(m)
  BY FS_CardinalityType DEF Keyed
<1>2. \A i, j \in D : <<i, j>> \in R <=> Before(i, j)
  OBVIOUS
<1>3. o = [k \in 1 .. n |-> CHOOSE i \in D : place[i] = k]
  BY <1>1 DEF Sorted
<1>4. ASSUME NEW i \in D PROVE place[i] = Places(R, D)[i]
  <2>1. {j \in D : <<j, i>> \in R} = {j \in D : Before(j, i)}
    BY <1>2
  <2> HIDE DEF R, Before
  <2> QED BY <2>1 DEF Places
<1> HIDE DEF R, place, o
<1>5. StrictOrder(R, D)
  <2>1. \A i \in D : ~ Before(i, i)
    BY <1>1, KeyOrder
  <2>2. \A i, j \in D : i # j => Before(i, j) \/ Before(j, i)
    BY <1>1, KeyOrder
  <2>3. ASSUME NEW i \in D, NEW j \in D, NEW k \in D, Before(i, j), Before(j, k)
        PROVE  Before(i, k)
    <3>1. keys[i] = keys[j] /\ keys[j] = keys[k] => i < k
      BY <1>1, <2>3, KeyOrder
    <3> QED BY <1>1, <2>3, <3>1, KeyOrder
  <2> HIDE DEF Before
  <2> QED BY <1>2, <2>1, <2>2, <2>3 DEF StrictOrder
<1>6. ASSUME NEW k \in 1 .. n PROVE o[k] \in D /\ Places(R, D)[o[k]] = k
  <2>1. \E i \in D : place[i] = k
    <3>1. IsFiniteSet(D) /\ k \in 1 .. Cardinality(D)
      BY <1>1
    <3> HIDE DEF n
    <3>2. \E i \in D : Places(R, D)[i] = k
      BY <1>5, <3>1, PlacesAll
    <3> QED BY <1>4, <3>2
  <2>2. o[k] = CHOOSE i \in D : place[i] = k
    BY <1>3
  <2>3. o[k] \in D /\ place[o[k]] = k
    BY <2>1, <2>2
  <2> QED BY <1>4, <2>3
<1>7. o \in [1 .. n -> D]
  BY <1>3, <1>6
<1>8. Sorts(o, R, D)
  BY <1>1, <1>5, <1>6, <1>7, SortedBySlot
<1>9. /\ \A i \in D : \E k \in 1 .. n : o[k] = i
      /\ \A i, j \in 1 .. n : i < j => <<o[i], o[j]>> \in R
  <2>1. Len(o) = n /\ DOMAIN o = 1 .. n
    BY <1>8 DEF Sorts
  <2>2. \A j \in 1 .. n : \A i \in 1 .. j - 1 : <<o[i], o[j]>> \in R
    BY <1>8, <2>1 DEF Sorts, InOrder
  <2>3. \A i, j \in 1 .. n : i < j => i \in 1 .. j - 1
    BY <1>1
  <2> QED BY <1>8, <2>1, <2>2, <2>3 DEF Sorts
<1>10. \A i, j \in 1 .. n : o[i] = o[j] => i = j
  <2>1. \A i, j \in 1 .. n : i # j => i < j \/ j < i
    BY <1>1
  <2> QED BY <1>5, <1>7, <1>9, <2>1 DEF StrictOrder
<1>11. InKeyOrder(o, keys, n)
  BY <1>2, <1>7, <1>9 DEF InKeyOrder
<1>12. Names(o, D)
  BY <1>1, <1>7, <1>9, <1>10 DEF Names
<1> QED BY <1>11, <1>12 DEF o

\* t is what s has at the places o names.
TakenAs(t, s, o, D) ==
  /\ Cardinality(D) \in Nat /\ Len(t) = Cardinality(D) /\ DOMAIN t = 1 .. Cardinality(D)
  /\ \A n \in 1 .. Cardinality(D) : o[n] \in D /\ t[n] = s[o[n]]

\* What is taken of a sequence, by places that are each named once.
LEMMA TakenIs ==
  ASSUME NEW S, NEW s \in Seq(S), NEW D, D \subseteq 1 .. Len(s), NEW o, Names(o, D)
  PROVE  Taken(s, o) \in Seq(S) /\ TakenAs(Taken(s, o), s, o, D)
<1>1. o \in [1 .. Cardinality(D) -> D] /\ Cardinality(D) \in Nat
  BY DEF Names
<1>2. Taken(s, o) = [n \in 1 .. Cardinality(D) |-> s[o[n]]]
  BY <1>1 DEF Taken
<1>0. \A i \in 1 .. Len(s) : s[i] \in S
  OBVIOUS
<1>3. \A n \in 1 .. Cardinality(D) : o[n] \in D /\ s[o[n]] \in S
  BY <1>0, <1>1
<1>4. Taken(s, o) \in [1 .. Cardinality(D) -> S]
  BY <1>2, <1>3
<1> QED BY <1>1, <1>2, <1>3, <1>4, SeqOfFunction DEF TakenAs

\* One after the other.
Rising(o, n) == \A i, j \in 1 .. n : i < j => o[i] < o[j]

\* Where keeps the order.
LEMMA WhereIs ==
  ASSUME NEW S, NEW s \in Seq(S), NEW D, D \subseteq 1 .. Len(s)
  PROVE  \E o : /\ Names(o, D) /\ Rising(o, Cardinality(D)) /\ Where(s, D) = Taken(s, o)
                /\ o = Sorted([i \in D |-> <<>>])
<1> DEFINE keys == [i \in D |-> <<>>]
           o == Sorted(keys)
<1>1. IsFiniteSet(D) /\ D \subseteq Nat
  <2>1. Len(s) \in Nat
    OBVIOUS
  <2>2. IsFiniteSet(1 .. Len(s))
    BY <2>1, FS_Interval
  <2>3. IsFiniteSet(D)
    BY <2>2, FS_Subset
  <2>4. 1 .. Len(s) \subseteq Nat
    BY <2>1
  <2> QED BY <2>3, <2>4
<1>2. Keyed(keys, D, 0)
  <2>1. <<>> \in KeysOf(0)
    BY DEF KeysOf
  <2> QED BY <1>1, <2>1 DEF Keyed
<1> HIDE DEF keys
<1>3. Names(o, D) /\ InKeyOrder(o, keys, Cardinality(D))
  BY <1>2, SortedNames
<1>4. \A i \in D : keys[i] = <<>>
  BY DEF keys
<1>5. ~ Precedes(<<>>, <<>>)
  BY DEF Precedes
<1> HIDE DEF o
<1>6. Rising(o, Cardinality(D))
  <2>1. \A i \in 1 .. Cardinality(D) : o[i] \in D
    BY <1>3 DEF Names
  <2>2. \A i, j \in 1 .. Cardinality(D) : i < j => o[i] < o[j]
    <3> SUFFICES ASSUME NEW i \in 1 .. Cardinality(D), NEW j \in 1 .. Cardinality(D), i < j
                 PROVE  o[i] < o[j]
      OBVIOUS
    <3>1. keys[o[i]] = <<>> /\ keys[o[j]] = <<>>
      BY <1>4, <2>1
    <3>2. Precedes(keys[o[i]], keys[o[j]]) \/ o[i] < o[j]
      BY <1>3 DEF InKeyOrder
    <3> QED BY <1>5, <3>1, <3>2
  <2> QED BY <2>2 DEF Rising
<1>7. Where(s, D) = Taken(s, o)
  BY DEF Where, o, keys
<1> QED BY <1>3, <1>6, <1>7 DEF o, keys

\* Paired off, one to one, there are as many of the one as of the other.
LEMMA PairedOff ==
  ASSUME NEW A, NEW B, IsFiniteSet(A), NEW g \in [A -> B],
         \A x, y \in A : g[x] = g[y] => x = y, \A z \in B : \E x \in A : g[x] = z
  PROVE  IsFiniteSet(B) /\ Cardinality(A) = Cardinality(B)
<1>1. g \in Bijection(A, B)
  BY DEF Bijection, Injection, Surjection, IsInjective
<1> QED BY <1>1, FS_Bijection DEF ExistsBijection

\* As many of the named are in C as are in D.
NamedIn(o, n, C) == {k \in 1 .. n : o[k] \in C}

\* Naming places in another order counts as many.
LEMMA CountNamed ==
  ASSUME NEW D, NEW o, Names(o, D), NEW C
  PROVE  Cardinality(NamedIn(o, Cardinality(D), C)) = Cardinality(D \cap C)
<1> DEFINE A == NamedIn(o, Cardinality(D), C)
           B == D \cap C
           g == [n \in A |-> o[n]]
<1>1. g \in [A -> B] /\ (\A k, n \in A : g[k] = g[n] => k = n) /\ \A x \in B : \E n \in A : g[n] = x
  BY DEF Names, NamedIn
<1> HIDE DEF B, g
<1>2. IsFiniteSet(A)
  <2>1. IsFiniteSet(1 .. Cardinality(D)) /\ A \subseteq 1 .. Cardinality(D)
    BY FS_Interval DEF Names, NamedIn
  <2> QED BY <2>1, FS_Subset
<1> HIDE DEF A
<1>3. Cardinality(A) = Cardinality(B)
  BY <1>1, <1>2, PairedOff
<1> QED BY <1>3 DEF A, B

\* Keys that never fall, one after the other, and how many of them come up to c.
Climbs(a, n, m) ==
  /\ n \in Nat /\ m \in Nat /\ a \in [1 .. n -> KeysOf(m)]
  /\ \A i, j \in 1 .. n : i < j => ~ Precedes(a[j], a[i])

\* The places of the keys that come no later than c.
UpTo(a, n, c) == {k \in 1 .. n : ~ Precedes(c, a[k])}

\* Two climbs that come up to every key at the same height are the same.
LEMMA ClimbBelow ==
  ASSUME NEW a, NEW b, NEW n, NEW m, Climbs(a, n, m), Climbs(b, n, m), NEW k \in 1 .. n,
         Precedes(a[k], b[k])
  PROVE  Cardinality(UpTo(a, n, a[k])) # Cardinality(UpTo(b, n, a[k]))
<1> DEFINE A == UpTo(a, n, a[k])
           B == UpTo(b, n, a[k])
<1>1. /\ n \in Nat /\ m \in Nat /\ \A i \in 1 .. n : a[i] \in KeysOf(m) /\ b[i] \in KeysOf(m)
      /\ \A i, j \in 1 .. n : i < j => ~ Precedes(a[j], a[i]) /\ ~ Precedes(b[j], b[i])
  BY DEF Climbs
<1>2. 1 .. k \subseteq A
  <2> SUFFICES ASSUME NEW i \in 1 .. k PROVE i \in 1 .. n /\ ~ Precedes(a[k], a[i])
    BY DEF UpTo
  <2>1. i \in 1 .. n /\ (i = k \/ i < k)
    BY <1>1
  <2> QED BY <1>1, <2>1, KeyOrder
<1>3. B \subseteq 1 .. k - 1
  <2> SUFFICES ASSUME NEW j \in 1 .. n, ~ Precedes(a[k], b[j]), j >= k PROVE FALSE
    BY <1>1 DEF UpTo
  <2>1. j = k \/ ~ Precedes(b[j], b[k])
    BY <1>1
  <2> QED BY <1>1, <2>1, KeyOrder
<1>4. IsFiniteSet(A)
  <2>1. IsFiniteSet(1 .. n) /\ A \subseteq 1 .. n
    BY <1>1, FS_Interval DEF UpTo
  <2> QED BY <2>1, FS_Subset
<1> HIDE DEF A, B
<1>5. Cardinality(1 .. k) = k /\ IsFiniteSet(1 .. k - 1) /\ Cardinality(1 .. k - 1) = k - 1
  BY <1>1, FS_Interval
<1>6. k <= Cardinality(A)
  BY <1>2, <1>4, <1>5, FS_Subset
<1>7. Cardinality(B) <= k - 1
  BY <1>3, <1>5, FS_Subset
<1>8. Cardinality(A) \in Nat /\ Cardinality(B) \in Nat
  BY <1>3, <1>4, <1>5, FS_CardinalityType, FS_Subset
<1>9. Cardinality(A) # Cardinality(B)
  BY <1>6, <1>7, <1>8
<1> QED BY <1>9 DEF A, B

\* Two sorted sequences of keys with as many up to each key are one.
LEMMA SameClimb ==
  ASSUME NEW a, NEW b, NEW n, NEW m, Climbs(a, n, m), Climbs(b, n, m),
         \A c \in KeysOf(m) : Cardinality(UpTo(a, n, c)) = Cardinality(UpTo(b, n, c))
  PROVE  \A k \in 1 .. n : a[k] = b[k]
<1> SUFFICES ASSUME NEW k \in 1 .. n, a[k] # b[k] PROVE FALSE
  OBVIOUS
<1>1. m \in Nat /\ a[k] \in KeysOf(m) /\ b[k] \in KeysOf(m)
  BY DEF Climbs
<1>2. Precedes(a[k], b[k]) \/ Precedes(b[k], a[k])
  BY <1>1, KeyOrder
<1> QED BY <1>1, <1>2, ClimbBelow

\* The keys of what is sorted.
KeysInTurn(keys, D) == [k \in 1 .. Cardinality(D) |-> keys[Sorted(keys)[k]]]

\* Sorted keys climb, and as many are up to each key as before.
LEMMA SortedClimbs ==
  ASSUME NEW keys, NEW D, NEW m, Keyed(keys, D, m)
  PROVE  /\ Climbs(KeysInTurn(keys, D), Cardinality(D), m)
         /\ \A c \in KeysOf(m) : Cardinality(UpTo(KeysInTurn(keys, D), Cardinality(D), c))
                                  = Cardinality({i \in D : ~ Precedes(c, keys[i])})
<1> DEFINE n == Cardinality(D)
           o == Sorted(keys)
           a == KeysInTurn(keys, D)
<1>1. m \in Nat /\ \A i \in D : keys[i] \in KeysOf(m)
  BY DEF Keyed
<1>2. Names(o, D) /\ InKeyOrder(o, keys, n)
  BY SortedNames
<1>3. n \in Nat /\ \A k \in 1 .. n : o[k] \in D
  BY <1>2 DEF Names
<1>0. a = [k \in 1 .. n |-> keys[o[k]]]
  BY DEF KeysInTurn
<1> HIDE DEF o, n, a
<1>4. \A k \in 1 .. n : a[k] = keys[o[k]] /\ a[k] \in KeysOf(m)
  BY <1>0, <1>1, <1>3
<1>5. a \in [1 .. n -> KeysOf(m)]
  BY <1>0, <1>1, <1>3
<1>6. ASSUME NEW i \in 1 .. n, NEW j \in 1 .. n, i < j PROVE ~ Precedes(a[j], a[i])
  <2>1. Precedes(a[i], a[j]) \/ a[i] = a[j]
    BY <1>2, <1>4, <1>6 DEF InKeyOrder
  <2> QED BY <1>1, <1>4, <2>1, KeyOrder
<1>7. Climbs(a, n, m)
  BY <1>1, <1>3, <1>5, <1>6 DEF Climbs
<1>8. ASSUME NEW c \in KeysOf(m)
      PROVE  Cardinality(UpTo(a, n, c)) = Cardinality({i \in D : ~ Precedes(c, keys[i])})
  <2> DEFINE C == {i \in D : ~ Precedes(c, keys[i])}
  <2>1. Cardinality(NamedIn(o, n, C)) = Cardinality(D \cap C)
    <3> HIDE DEF C
    <3> QED BY <1>2, CountNamed DEF n
  <2>2. NamedIn(o, n, C) = UpTo(a, n, c)
    BY <1>3, <1>4 DEF UpTo, NamedIn
  <2>3. D \cap C = C
    OBVIOUS
  <2> HIDE DEF C
  <2>4. Cardinality(UpTo(a, n, c)) = Cardinality(C)
    BY <2>1, <2>2, <2>3
  <2> QED BY <2>4 DEF C
<1> QED BY <1>7, <1>8 DEF a, n

-----------------------------------------------------------------------------
(* llms.txt: the pages in order.                                            *)

\* Everything a crawl may come back with.
CrawledPages == [url : DOMAIN UrlTraits, title : DOMAIN Sentence,
                 description : DOMAIN Sentence, body : DOMAIN BodyTraits]

LEMMA PageTyped ==
  ASSUME NEW p \in CrawledPages
  PROVE  /\ p.url \in DOMAIN UrlTraits /\ p.body \in DOMAIN BodyTraits
         /\ p.url \in Nat /\ p.title \in Nat /\ p.description \in Nat /\ p.body \in Nat
BY LlmsTxtAssumption DEF CrawledPages

LEMMA OrderingKey ==
  /\ \A p \in CrawledPages : ordering_key(p) \in KeysOf(4)
  /\ \A p, q \in CrawledPages : ordering_key(p) = ordering_key(q) => p = q
<1>1. \A p \in CrawledPages : ordering_key(p) \in KeysOf(4)
  BY PageTyped DEF ordering_key, KeysOf
<1>2. \A p, q \in CrawledPages : ordering_key(p) = ordering_key(q) => p = q
  BY DEF ordering_key, CrawledPages
<1> QED BY <1>1, <1>2

PageKeys(found) == [i \in DOMAIN found |-> ordering_key(found[i])]

\* ordered sorts the pages by all there is to them.
LEMMA OrderedNames ==
  ASSUME NEW found \in Seq(CrawledPages), NEW n, n = Len(found)
  PROVE  /\ n \in Nat /\ DOMAIN found = 1 .. n /\ Cardinality(1 .. n) = n
         /\ Keyed(PageKeys(found), 1 .. n, 4) /\ Names(Sorted(PageKeys(found)), 1 .. n)
         /\ ordered(found) = Taken(found, Sorted(PageKeys(found)))
         /\ ordered(found) \in Seq(CrawledPages) /\ Len(ordered(found)) = n
         /\ \A k \in 1 .. n :
              /\ Sorted(PageKeys(found))[k] \in 1 .. n
              /\ ordered(found)[k] = found[Sorted(PageKeys(found))[k]]
              /\ ordered(found)[k] \in CrawledPages
              /\ ordering_key(ordered(found)[k]) = KeysInTurn(PageKeys(found), 1 .. n)[k]
<1> DEFINE keys == PageKeys(found)
           o == Sorted(keys)
<1>1. n \in Nat /\ DOMAIN found = 1 .. n /\ \A i \in 1 .. n : found[i] \in CrawledPages
  OBVIOUS
<1>2. IsFiniteSet(1 .. n) /\ Cardinality(1 .. n) = n
  <2>1. n \in Nat
    BY <1>1
  <2> QED BY ONLY <2>1, FS_Interval
<1>3. DOMAIN keys = 1 .. n /\ \A i \in 1 .. n : keys[i] = ordering_key(found[i])
  BY <1>1 DEF PageKeys
<1>4. ordered(found) = Taken(found, o)
  BY DEF ordered, SortedBy, PageKeys
<1> HIDE DEF keys
<1>5. 1 .. n \subseteq Nat
  BY <1>1
<1>6. Keyed(keys, 1 .. n, 4)
  BY <1>1, <1>2, <1>3, <1>5, OrderingKey DEF Keyed
<1>7. Names(o, 1 .. n)
  BY <1>6, SortedNames
<1> HIDE DEF o
<1>8. /\ Taken(found, o) \in Seq(CrawledPages) /\ Len(Taken(found, o)) = n
      /\ \A k \in 1 .. n : o[k] \in 1 .. n /\ Taken(found, o)[k] = found[o[k]]
  <2>1. 1 .. n \subseteq 1 .. Len(found)
    OBVIOUS
  <2> QED BY <1>1, <1>2, <1>7, <2>1, TakenIs DEF TakenAs
<1>9. \A k \in 1 .. n : KeysInTurn(keys, 1 .. n)[k] = keys[o[k]]
  BY <1>2 DEF KeysInTurn, o
<1> QED BY <1>1, <1>2, <1>3, <1>4, <1>6, <1>7, <1>8, <1>9 DEF keys, o

\* p takes each of the places of found once.
LEMMA OrderedSame ==
  ASSUME NEW found \in Seq(CrawledPages), NEW other \in Seq(CrawledPages),
         NEW p, Names(p, DOMAIN found), Len(other) = Len(found),
         \A i \in 1 .. Len(found) : other[i] = found[p[i]]
  PROVE  ordered(other) = ordered(found)
<1> DEFINE n == Len(found)
           kf == PageKeys(found)
           kt == PageKeys(other)
           a == KeysInTurn(kf, 1 .. n)
           b == KeysInTurn(kt, 1 .. n)
<1>1. n \in Nat /\ DOMAIN found = 1 .. n /\ DOMAIN other = 1 .. n /\ Cardinality(1 .. n) = n
  BY OrderedNames
<1>2. Keyed(kf, 1 .. n, 4) /\ Keyed(kt, 1 .. n, 4)
  BY OrderedNames
<1>3. \A i \in 1 .. n : p[i] \in 1 .. n /\ kt[i] = kf[p[i]]
  BY <1>1 DEF PageKeys, Names
<1>4. /\ ordered(found) \in Seq(CrawledPages) /\ Len(ordered(found)) = n
      /\ ordered(other) \in Seq(CrawledPages) /\ Len(ordered(other)) = n
      /\ \A k \in 1 .. n :
           /\ ordered(found)[k] \in CrawledPages /\ ordering_key(ordered(found)[k]) = a[k]
           /\ ordered(other)[k] \in CrawledPages /\ ordering_key(ordered(other)[k]) = b[k]
  BY OrderedNames
<1> HIDE DEF kf, kt, n
<1>5. /\ Climbs(a, n, 4) /\ Climbs(b, n, 4)
      /\ \A c \in KeysOf(4) :
           /\ Cardinality(UpTo(a, n, c)) = Cardinality({i \in 1 .. n : ~ Precedes(c, kf[i])})
           /\ Cardinality(UpTo(b, n, c)) = Cardinality({i \in 1 .. n : ~ Precedes(c, kt[i])})
  BY <1>1, <1>2, SortedClimbs
<1>6. ASSUME NEW c \in KeysOf(4)
      PROVE  Cardinality(UpTo(a, n, c)) = Cardinality(UpTo(b, n, c))
  <2> DEFINE C == {i \in 1 .. n : ~ Precedes(c, kf[i])}
  <2>1. Cardinality(NamedIn(p, n, C)) = Cardinality((1 .. n) \cap C)
    <3>1. Names(p, 1 .. n)
      BY <1>1
    <3> HIDE DEF C
    <3>2. Cardinality(NamedIn(p, Cardinality(1 .. n), C)) = Cardinality((1 .. n) \cap C)
      BY <3>1, CountNamed, ZenonT(30)
    <3> QED BY <1>1, <3>2
  <2>2. NamedIn(p, n, C) = {i \in 1 .. n : ~ Precedes(c, kt[i])}
    BY <1>3 DEF NamedIn
  <2>3. (1 .. n) \cap C = C
    OBVIOUS
  <2> HIDE DEF a, b
  <2> QED BY <1>5, <2>1, <2>2, <2>3
<1> HIDE DEF a, b
<1>7. \A k \in 1 .. n : a[k] = b[k]
  BY <1>5, <1>6, SameClimb
<1>8. \A k \in 1 .. n : ordered(found)[k] = ordered(other)[k]
  BY <1>4, <1>7, OrderingKey, SMTT(30)
<1> QED BY <1>4, <1>8, SeqEqual

\* The pages of two fetches that came in the other way round.
LEMMA OrderedSwapped ==
  ASSUME NEW found \in Seq(CrawledPages), NEW i \in 1 .. Len(found) - 1
  PROVE  ordered([found EXCEPT ![i] = found[i + 1], ![i + 1] = found[i]]) = ordered(found)
<1> DEFINE n == Len(found)
           other == [found EXCEPT ![i] = found[i + 1], ![i + 1] = found[i]]
           p == [k \in 1 .. n |-> IF k = i THEN i + 1 ELSE IF k = i + 1 THEN i ELSE k]
<1>1. n \in Nat /\ DOMAIN found = 1 .. n /\ i \in 1 .. n /\ i + 1 \in 1 .. n
  OBVIOUS
<1>2. IsFiniteSet(1 .. n) /\ Cardinality(1 .. n) = n
  <2> HIDE DEF n
  <2> QED BY <1>1, FS_Interval
<1>3. other \in Seq(CrawledPages) /\ Len(other) = n
  <2>1. found[i] \in CrawledPages /\ found[i + 1] \in CrawledPages
    BY <1>1
  <2> QED BY <1>1, <2>1
<1>4. \A k \in 1 .. n : other[k] = found[p[k]]
  BY <1>1
<1>5. Names(p, 1 .. n)
  <2>1. p \in [1 .. n -> 1 .. n]
    BY <1>1
  <2>2. \A x \in 1 .. n : p[p[x]] = x
    BY <1>1
  <2> HIDE DEF p
  <2> QED BY <1>1, <1>2, <2>1, <2>2 DEF Names
<1> HIDE DEF n, other, p
<1>6. ordered(other) = ordered(found)
  BY <1>1, <1>3, <1>4, <1>5, OrderedSame DEF n
<1> QED BY <1>6 DEF other

\* select reads the pages in their order only.
LEMMA SelectOrdered ==
  ASSUME NEW found, NEW other, ordered(found) = ordered(other)
  PROVE  select(found) = select(other)
BY DEF select, candidates_of, site_sentence, root_page

-----------------------------------------------------------------------------
(* llms.txt: candidates and their scores.                                   *)

\* The least and the greatest of a finite set of numbers.
LEMMA LeastAndLatest ==
  ASSUME NEW S, IsFiniteSet(S), S \subseteq Nat, S # {}
  PROVE  /\ Min(S) \in S /\ Max(S) \in S
         /\ \A x \in S : Min(S) <= x /\ x <= Max(S)
<1>1. PICK i \in S : \A j \in S : i <= j
  BY LeastNumber
<1>2. Min(S) \in S /\ \A x \in S : Min(S) <= x
  BY <1>1 DEF Min
<1>3. PICK m \in S : \A x \in S : x <= m
  BY GreatestNumber
<1>4. Max(S) \in S /\ \A x \in S : x <= Max(S)
  BY <1>3 DEF Max
<1> QED BY <1>2, <1>4

\* Where a page may be listed, but for Optional.
ListedSections == Canonical \cup (11 .. OTHER_SECTION)

\* Candidates, before and after they have a score.
Listables ==
  [page : CrawledPages, url : DOMAIN UrlTraits, section : ListedSections, optional : BOOLEAN,
   print : Nat, score : Int]

\* What a candidate has of its page.
ReadOff(c) ==
  /\ c.url = c.page.url /\ c.section = section_for(c.url)
  /\ c.optional = UrlTraits[c.url].optional /\ c.print = BodyTraits[c.page.body].print

Sourced == {c \in Listables : ReadOff(c)}

LEMMA OptionalTyped == OPTIONAL_SECTION \in Nat
BY LlmsTxtAssumption DEF OPTIONAL_SECTION

LEMMA OtherListed == OTHER_SECTION \in ListedSections
BY LlmsTxtAssumption DEF ListedSections

LEMMA UrlTyped ==
  ASSUME NEW u \in DOMAIN UrlTraits
  PROVE  /\ u \in Nat /\ UrlTraits[u].depth \in Nat /\ UrlTraits[u].optional \in BOOLEAN
         /\ UrlTraits[u].priority = Undeclared \/ UrlTraits[u].priority \in Int
         /\ UrlTraits[u].lastmod = Undeclared \/ UrlTraits[u].lastmod \in Nat
         /\ section_for(u) \in ListedSections
<1> DEFINE t == UrlTraits[u]
<1>1. /\ u \in Nat /\ t.depth \in Nat /\ t.optional \in BOOLEAN /\ t.claims \in SUBSET Canonical
      /\ t.segment \in Canonical \cup (11 .. OTHER_SECTION) \cup {Undeclared}
      /\ t.priority \in (0 .. 10) \cup {Undeclared} /\ t.lastmod \in Nat \cup {Undeclared}
  BY LlmsTxtAssumption
<1>2. Overview \in Canonical /\ Canonical \subseteq Nat
  BY LlmsTxtAssumption
<1> HIDE DEF t
<1>3. t.claims # {} => Min(t.claims) \in Canonical
  <2> SUFFICES ASSUME t.claims # {} PROVE Min(t.claims) \in t.claims
    BY <1>1
  <2>1. t.claims \subseteq Nat
    BY <1>1, <1>2
  <2>2. PICK i \in t.claims : \A j \in t.claims : i <= j
    BY <2>1, LeastNumber
  <2> QED BY <2>2 DEF Min
<1>4. section_for(u) = IF t.depth = 0 /\ t.site = "exact" THEN Overview
                       ELSE IF t.claims # {} THEN Min(t.claims)
                       ELSE IF t.segment = Undeclared THEN OTHER_SECTION ELSE t.segment
  BY DEF section_for, t
<1>5. OTHER_SECTION \in ListedSections
  BY OtherListed
<1>6. section_for(u) \in ListedSections
  BY <1>1, <1>2, <1>3, <1>4, <1>5 DEF ListedSections
<1> QED BY <1>1, <1>6 DEF t

LEMMA BodyTyped ==
  ASSUME NEW b \in DOMAIN BodyTraits
  PROVE  BodyTraits[b].print \in Nat /\ BodyTraits[b].buckets \in Nat /\ BodyTraits[b].size \in Nat
BY LlmsTxtAssumption

\* The URLs and the bodies of the pages that may be listed.
Contents(found) ==
  {<<found[i].url, found[i].body>> : i \in {j \in DOMAIN found : IsCandidate(found[j])}}

\* There is one candidate for each page that may be listed.
LEMMA CandidatesAre ==
  ASSUME NEW found \in Seq(CrawledPages)
  PROVE  LET cs == candidates_of(found) IN
         /\ cs \in Seq(Sourced)
         /\ Len(cs) = Cardinality({i \in DOMAIN found : IsCandidate(found[i])})
         /\ \A k \in DOMAIN cs : <<cs[k].url, cs[k].page.body>> \in Contents(found)
         /\ \A e \in Contents(found) : \E k \in DOMAIN cs : e = <<cs[k].url, cs[k].page.body>>
<1> DEFINE n == Len(found)
           p == Sorted(PageKeys(found))
           all == ordered(found)
           C == {i \in 1 .. n : IsCandidate(found[i])}
           T == {i \in 1 .. n : IsCandidate(all[i])}
           kept == Where(all, T)
           cs == candidates_of(found)
<1>1. /\ n \in Nat /\ DOMAIN found = 1 .. n /\ Cardinality(1 .. n) = n /\ Names(p, 1 .. n)
      /\ all \in Seq(CrawledPages) /\ Len(all) = n
      /\ \A k \in 1 .. n : p[k] \in 1 .. n /\ all[k] = found[p[k]]
  BY OrderedNames
<1> HIDE DEF n, p, all
<1>2. DOMAIN all = 1 .. n
  BY <1>1
<1>3. PICK o : Names(o, T) /\ kept = Taken(all, o)
  <2>1. T \subseteq 1 .. Len(all)
    BY <1>1
  <2> HIDE DEF T
  <2> QED BY <1>1, <2>1, WhereIs
<1>4. Cardinality(T) = Cardinality(C)
  <2>1. Cardinality(NamedIn(p, Cardinality(1 .. n), C)) = Cardinality((1 .. n) \cap C)
    <3> HIDE DEF C
    <3> QED BY <1>1, CountNamed
  <2>2. NamedIn(p, n, C) = T /\ (1 .. n) \cap C = C
    BY <1>1 DEF NamedIn
  <2> HIDE DEF T, C
  <2> QED BY <1>1, <2>1, <2>2
<1>5. /\ kept \in Seq(CrawledPages) /\ Len(kept) = Cardinality(T) /\ DOMAIN kept = 1 .. Cardinality(T)
      /\ Cardinality(T) \in Nat
      /\ \A k \in 1 .. Cardinality(T) : o[k] \in T /\ kept[k] = all[o[k]]
  <2>1. T \subseteq 1 .. Len(all)
    BY <1>1
  <2> HIDE DEF T, kept
  <2>2. Names(o, T) /\ all \in Seq(CrawledPages)
    BY <1>1, <1>3
  <2>3. Taken(all, o) \in Seq(CrawledPages) /\ TakenAs(Taken(all, o), all, o, T)
    BY ONLY <2>1, <2>2, TakenIs
  <2> QED BY <1>3, <2>3 DEF TakenAs
<1>6. cs = [i \in DOMAIN kept |->
              [page |-> kept[i], url |-> kept[i].url, section |-> section_for(kept[i].url),
               optional |-> UrlTraits[kept[i].url].optional,
               print |-> BodyTraits[kept[i].body].print, score |-> 0]]
  <2>1. T = {i \in DOMAIN all : IsCandidate(all[i])}
    BY <1>2
  <2> HIDE DEF T
  <2> QED BY <2>1 DEF candidates_of, fingerprint, all
<1> HIDE DEF kept, cs
<1>7. \A k \in 1 .. Cardinality(T) : kept[k] \in CrawledPages
  BY <1>5
<1>8. ASSUME NEW k \in 1 .. Cardinality(T)
      PROVE  cs[k] \in Sourced /\ cs[k].url = kept[k].url /\ cs[k].page = kept[k]
  <2>1. /\ kept[k] \in CrawledPages /\ kept[k].url \in DOMAIN UrlTraits
        /\ kept[k].body \in DOMAIN BodyTraits
    BY <1>7, PageTyped
  <2>2. /\ section_for(kept[k].url) \in ListedSections /\ UrlTraits[kept[k].url].optional \in BOOLEAN
        /\ BodyTraits[kept[k].body].print \in Nat
    BY <2>1, UrlTyped, BodyTyped
  <2>3. cs[k] = [page |-> kept[k], url |-> kept[k].url, section |-> section_for(kept[k].url),
                 optional |-> UrlTraits[kept[k].url].optional,
                 print |-> BodyTraits[kept[k].body].print, score |-> 0]
    BY <1>5, <1>6
  <2> QED BY ONLY <2>1, <2>2, <2>3 DEF Sourced, Listables, ReadOff
<1>9. cs \in Seq(Sourced) /\ Len(cs) = Cardinality(T) /\ DOMAIN cs = 1 .. Cardinality(T)
  <2>1. cs \in [1 .. Cardinality(T) -> Sourced]
    BY <1>5, <1>6, <1>8
  <2> HIDE DEF T
  <2> QED BY <1>5, <2>1, SeqOfFunction
<1>10. ASSUME NEW k \in 1 .. Cardinality(T)
       PROVE  <<cs[k].url, cs[k].page.body>> \in Contents(found)
  <2>1. o[k] \in 1 .. n /\ IsCandidate(all[o[k]]) /\ kept[k] = all[o[k]]
    BY <1>5
  <2>2. p[o[k]] \in 1 .. n /\ kept[k] = found[p[o[k]]] /\ IsCandidate(kept[k])
    BY <1>1, <2>1
  <2>3. cs[k].url = found[p[o[k]]].url /\ cs[k].page.body = found[p[o[k]]].body
    BY <1>8, <2>2
  <2> QED BY ONLY <1>1, <2>2, <2>3 DEF Contents
<1>11. ASSUME NEW e \in Contents(found)
       PROVE  \E k \in 1 .. Cardinality(T) : e = <<cs[k].url, cs[k].page.body>>
  <2>1. PICK i \in 1 .. n : IsCandidate(found[i]) /\ e = <<found[i].url, found[i].body>>
    BY <1>1 DEF Contents
  <2>2. PICK j \in 1 .. n : p[j] = i
    BY <1>1 DEF Names
  <2>3. j \in T
    BY <1>1, <2>1, <2>2
  <2>4. PICK k \in 1 .. Cardinality(T) : o[k] = j
    BY <1>3, <2>3 DEF Names
  <2>5. kept[k] = found[i]
    BY <1>1, <1>5, <2>2, <2>4
  <2> QED BY <1>8, <2>1, <2>5
<1>12. Len(cs) = Cardinality({i \in DOMAIN found : IsCandidate(found[i])})
  BY <1>1, <1>4, <1>9
<1> QED BY <1>9, <1>10, <1>11, <1>12 DEF cs

\* The dates of those that may be listed.
DatesOf(E) == {UrlTraits[e[1]].lastmod : e \in E} \ {Undeclared}

\* What a candidate scores, by its URL and its body.
Worth(u, b, all) ==
  rank([url |-> u, section |-> section_for(u), optional |-> UrlTraits[u].optional,
        page |-> [body |-> b]], all)

\* A score is read off the URL and the body.
LEMMA RankIs ==
  ASSUME NEW c \in Sourced, NEW all
  PROVE  rank(c, all) = Worth(c.url, c.page.body, all)
<1>1. c.section = section_for(c.url) /\ c.optional = UrlTraits[c.url].optional
  BY DEF Sourced, ReadOff
<1> QED BY <1>1 DEF Worth, rank

LEMMA RecencyType ==
  ASSUME NEW all, IsFiniteSet(all), all \subseteq Nat, NEW l, l = Undeclared \/ l \in Nat
  PROVE  recency_fraction(l, all) \in Int
<1>1. CASE l = Undeclared \/ Cardinality(all) < 2
  BY <1>1 DEF recency_fraction
<1>2. CASE ~ (l = Undeclared \/ Cardinality(all) < 2)
  <2> DEFINE low == Min(all)
             high == Max(all)
             d == high - low
             x == 12 * (l - low)
  <2>1. all # {}
    BY <1>2, FS_EmptySet
  <2>2. low \in all /\ high \in all /\ \A y \in all : low <= y /\ y <= high
    BY <2>1, LeastAndLatest
  <2>3. low # high
    <3> SUFFICES ASSUME low = high PROVE FALSE
      OBVIOUS
    <3>1. \A y \in all : y = low
      <4> HIDE DEF low, high
      <4> QED BY <2>2
    <3>2. all = {low}
      BY <2>2, <3>1
    <3>3. Cardinality({low}) = 1
      <4> HIDE DEF low
      <4> QED BY FS_Singleton
    <3> QED BY <1>2, <3>2, <3>3
  <2>4. recency_fraction(l, all) = (x \div d) - 6
    BY <1>2, Zenon DEF recency_fraction
  <2> HIDE DEF low, high
  <2>5. d \in Nat \ {0} /\ x \in Int
    BY <1>2, <2>2, <2>3
  <2> HIDE DEF d, x
  <2>6. x \div d \in Int
    BY <2>5
  <2> QED BY <2>4, <2>6
<1> QED BY <1>1, <1>2

LEMMA WorthType ==
  ASSUME NEW u \in DOMAIN UrlTraits, NEW b \in DOMAIN BodyTraits,
         NEW all, IsFiniteSet(all), all \subseteq Nat
  PROVE  Worth(u, b, all) \in Int
<1> DEFINE t == UrlTraits[u]
           s == section_for(u)
           near == 120 \div (1 + t.depth)
           link == IF t.linked THEN 240 ELSE 0
           weight == IF s \in Canonical THEN Weights[s] ELSE 0
           long == 20 * BodyTraits[b].buckets
           said == IF t.priority = Undeclared THEN 0 ELSE 6 * (t.priority - 5)
           fresh == recency_fraction(t.lastmod, all)
           low == IF t.optional THEN -30000 ELSE 0
<1>1. Worth(u, b, all) = near + link + weight + long + said + fresh + low
  BY DEF Worth, rank
<1>2. near \in Int
  <2> DEFINE d == 1 + t.depth
  <2>1. d \in Nat \ {0}
    BY UrlTyped
  <2> HIDE DEF d
  <2>2. 120 \div d \in Int
    BY <2>1
  <2> QED BY <2>2 DEF d
<1>3. fresh \in Int
  BY UrlTyped, RecencyType
<1>4. weight \in Int /\ link \in Int /\ low \in Int
  BY LlmsTxtAssumption
<1>5. long \in Int /\ said \in Int
  BY UrlTyped, BodyTyped
<1> HIDE DEF near, link, weight, long, said, fresh, low
<1> QED BY <1>1, <1>2, <1>3, <1>4, <1>5

\* The candidates of a crawl, scored.
LEMMA ScoredAre ==
  ASSUME NEW found \in Seq(CrawledPages)
  PROVE  LET cs == candidates_of(found)
             E == Contents(found)
             all == DatesOf(E)
             scored == score_all(cs) IN
         /\ IsFiniteSet(all) /\ all \subseteq Nat
         /\ scored \in Seq(Sourced) /\ Len(scored) = Len(cs)
         /\ \A k \in DOMAIN scored :
              /\ <<scored[k].url, scored[k].page.body>> \in E
              /\ scored[k].score = Worth(scored[k].url, scored[k].page.body, all)
         /\ \A e \in E : \E k \in DOMAIN scored : e = <<scored[k].url, scored[k].page.body>>
<1> DEFINE cs == candidates_of(found)
           E == Contents(found)
           all == DatesOf(E)
           scored == score_all(cs)
           n == Len(cs)
<1>1. /\ cs \in Seq(Sourced)
      /\ \A k \in DOMAIN cs : <<cs[k].url, cs[k].page.body>> \in E
      /\ \A e \in E : \E k \in DOMAIN cs : e = <<cs[k].url, cs[k].page.body>>
  BY CandidatesAre
<1> HIDE DEF cs, E
<1>2. n \in Nat /\ DOMAIN cs = 1 .. n /\ \A k \in 1 .. n : cs[k] \in Sourced
  BY <1>1
<1>3. {UrlTraits[cs[i].url].lastmod : i \in DOMAIN cs} \ {Undeclared} = all
  <2>1. \A x : x \in {UrlTraits[cs[i].url].lastmod : i \in DOMAIN cs} <=>
               x \in {UrlTraits[e[1]].lastmod : e \in E}
    <3>1. ASSUME NEW i \in DOMAIN cs
          PROVE  UrlTraits[cs[i].url].lastmod \in {UrlTraits[e[1]].lastmod : e \in E}
      <4> DEFINE e == <<cs[i].url, cs[i].page.body>>
      <4>1. e \in E /\ e[1] = cs[i].url
        BY <1>1
      <4> HIDE DEF e
      <4> QED BY <4>1
    <3>2. ASSUME NEW e \in E
          PROVE  UrlTraits[e[1]].lastmod \in {UrlTraits[cs[i].url].lastmod : i \in DOMAIN cs}
      BY <1>1
    <3> QED BY <3>1, <3>2
  <2> QED BY <2>1 DEF DatesOf
<1>4. all \subseteq Nat
  <2> SUFFICES ASSUME NEW i \in DOMAIN cs, UrlTraits[cs[i].url].lastmod # Undeclared
               PROVE  UrlTraits[cs[i].url].lastmod \in Nat
    BY <1>3
  <2>1. cs[i].url \in DOMAIN UrlTraits
    BY <1>2 DEF Sourced, Listables
  <2> QED BY <2>1, UrlTyped
<1>5. IsFiniteSet(all)
  <2> DEFINE f == [i \in DOMAIN cs |-> UrlTraits[cs[i].url].lastmod]
  <2>1. IsFiniteSet(DOMAIN cs)
    BY <1>2, FS_Interval
  <2>2. IsFiniteSet({f[i] : i \in DOMAIN cs})
    <3> HIDE DEF f
    <3> QED BY <2>1, FiniteRange
  <2>3. all \subseteq {f[i] : i \in DOMAIN cs}
    BY <1>3
  <2> HIDE DEF f, all
  <2> QED BY <2>2, <2>3, FS_Subset
<1>6. scored = [i \in 1 .. n |-> [cs[i] EXCEPT !.score = rank(cs[i], all)]]
  BY <1>2, <1>3 DEF score_all
<1> HIDE DEF all, scored, n
<1>7. ASSUME NEW i \in 1 .. n
      PROVE  /\ scored[i] \in Sourced /\ scored[i].url = cs[i].url /\ scored[i].page = cs[i].page
             /\ scored[i].score = Worth(cs[i].url, cs[i].page.body, all)
  <2>1. cs[i] \in Listables /\ ReadOff(cs[i]) /\ cs[i] \in Sourced
    BY <1>2 DEF Sourced
  <2>2. cs[i].url \in DOMAIN UrlTraits /\ cs[i].page.body \in DOMAIN BodyTraits
    BY <2>1 DEF Listables, CrawledPages
  <2>3. Worth(cs[i].url, cs[i].page.body, all) \in Int
    BY <1>4, <1>5, <2>2, WorthType
  <2>4. scored[i] = [cs[i] EXCEPT !.score = Worth(cs[i].url, cs[i].page.body, all)]
    BY <1>6, <2>1, RankIs
  <2> QED BY ONLY <2>1, <2>3, <2>4 DEF Sourced, Listables, ReadOff
<1>8. scored \in Seq(Sourced) /\ Len(scored) = n /\ DOMAIN scored = 1 .. n
  <2>1. scored \in [1 .. n -> Sourced]
    BY <1>6, <1>7
  <2> QED BY <1>2, <2>1, SeqOfFunction
<1>9. /\ \A k \in DOMAIN scored :
           /\ <<scored[k].url, scored[k].page.body>> \in E
           /\ scored[k].score = Worth(scored[k].url, scored[k].page.body, all)
      /\ \A e \in E : \E k \in DOMAIN scored : e = <<scored[k].url, scored[k].page.body>>
  BY <1>1, <1>2, <1>7, <1>8
<1> QED BY <1>4, <1>5, <1>8, <1>9 DEF cs, E, all, scored, n

-----------------------------------------------------------------------------
(* llms.txt: one candidate of a print.                                      *)

\* t is s sorted by the keys: o names where each of its elements comes from.
SortedAs(t, s, o, keys, n) ==
  /\ n \in Nat /\ Len(s) = n /\ Len(t) = n /\ DOMAIN t = 1 .. n
  /\ \A k \in 1 .. n : o[k] \in 1 .. n /\ t[k] = s[o[k]]
  /\ \A x \in 1 .. n : \E k \in 1 .. n : o[k] = x
  /\ \A j, k \in 1 .. n : o[j] = o[k] => j = k
  /\ InKeyOrder(o, keys, n)

\* Sorting typed elements.
LEMMA SortedByIs ==
  ASSUME NEW S, NEW s \in Seq(S), NEW keys, NEW m, Keyed(keys, 1 .. Len(s), m)
  PROVE  /\ SortedBy(s, keys) \in Seq(S)
         /\ SortedAs(SortedBy(s, keys), s, Sorted(keys), keys, Len(s))
<1> DEFINE n == Len(s)
           o == Sorted(keys)
           t == SortedBy(s, keys)
<1>1. n \in Nat /\ 1 .. n \subseteq 1 .. Len(s)
  OBVIOUS
<1>2. t = Taken(s, o)
  BY DEF SortedBy
<1> HIDE DEF n, o, t
<1>3. Cardinality(1 .. n) = n
  BY <1>1, FS_Interval
<1>4. Names(o, 1 .. n) /\ InKeyOrder(o, keys, n)
  BY <1>3, SortedNames DEF n, o
<1>5. t \in Seq(S) /\ TakenAs(t, s, o, 1 .. n)
  BY <1>1, <1>2, <1>4, TakenIs
<1>6. SortedAs(t, s, o, keys, n)
  BY <1>1, <1>3, <1>4, <1>5 DEF SortedAs, TakenAs, Names, n
<1> QED BY <1>5, <1>6 DEF n, o, t

\* t is s at the places of D, in their order.
WhereAs(t, s, o, D, n) ==
  /\ n \in Nat /\ n = Cardinality(D) /\ IsFiniteSet(D) /\ Len(t) = n /\ DOMAIN t = 1 .. n
  /\ \A k \in 1 .. n : o[k] \in D /\ t[k] = s[o[k]]
  /\ \A x \in D : \E k \in 1 .. n : o[k] = x
  /\ \A j, k \in 1 .. n : o[j] = o[k] => j = k
  /\ \A j, k \in 1 .. n : j < k => o[j] < o[k]

\* Filtering typed elements.
LEMMA WhereMade ==
  ASSUME NEW S, NEW s \in Seq(S), NEW D, D \subseteq 1 .. Len(s)
  PROVE  /\ Where(s, D) \in Seq(S)
         /\ \E o : WhereAs(Where(s, D), s, o, D, Cardinality(D))
<1>1. PICK o : Names(o, D) /\ Rising(o, Cardinality(D)) /\ Where(s, D) = Taken(s, o)
  BY WhereIs
<1>2. Where(s, D) \in Seq(S) /\ TakenAs(Where(s, D), s, o, D)
  BY <1>1, TakenIs
<1>3. WhereAs(Where(s, D), s, o, D, Cardinality(D))
  BY <1>1, <1>2 DEF WhereAs, TakenAs, Names, Rising
<1> QED BY <1>2, <1>3

\* What a crawl decides of a candidate, and how that ranks it for dedupe.
Content(c) == <<c.url, c.page.body>>
Class(e, all) == <<- Worth(e[1], e[2], all), UrlTraits[e[1]].depth, e[1]>>

\* What is known of scored candidates.
ScoredFrom(cs, E, all) ==
  /\ IsFiniteSet(all) /\ all \subseteq Nat /\ cs \in Seq(Sourced)
  /\ \A k \in DOMAIN cs : /\ Content(cs[k]) \in E
                          /\ cs[k].score = Worth(cs[k].url, cs[k].page.body, all)

\* The class of a candidate is the key dedupe sorts it by.
LEMMA ClassType ==
  ASSUME NEW cs, NEW E, NEW all, ScoredFrom(cs, E, all), NEW k \in DOMAIN cs
  PROVE  /\ Class(Content(cs[k]), all) \in KeysOf(3)
         /\ Class(Content(cs[k]), all) = <<- cs[k].score, UrlTraits[cs[k].url].depth, cs[k].url>>
         /\ cs[k].print = BodyTraits[Content(cs[k])[2]].print
<1>1. cs[k] \in Sourced
  BY DEF ScoredFrom
<1>2. /\ cs[k].url \in DOMAIN UrlTraits /\ cs[k].score \in Int
      /\ cs[k].print = BodyTraits[cs[k].page.body].print
  BY <1>1 DEF Sourced, Listables, ReadOff
<1>3. UrlTraits[cs[k].url].depth \in Int /\ cs[k].url \in Int
  BY <1>2, UrlTyped
<1>4. Class(Content(cs[k]), all) = <<- cs[k].score, UrlTraits[cs[k].url].depth, cs[k].url>>
  BY DEF Class, Content, ScoredFrom
<1>5. <<- cs[k].score, UrlTraits[cs[k].url].depth, cs[k].url>> \in KeysOf(3)
  BY <1>2, <1>3 DEF KeysOf
<1> QED BY <1>2, <1>4, <1>5 DEF Content

\* A copy of best without those that are not the first of their print.
FirstPlaces(best) ==
  {i \in DOMAIN best : \A j \in DOMAIN best : j < i => best[j].print # best[i].print}

\* C is not left again by one that comes earlier.
ClosedBelow(C, best) ==
  \A i \in DOMAIN best : \A j \in DOMAIN best :
    j < i /\ Content(best[i]) \in C => Content(best[j]) \in C

\* The fingerprints in a set of contents, and the candidates that have one of them.
PrintsOf(C) == {BodyTraits[e[2]].print : e \in C}
Held(cs, C) == {k \in DOMAIN cs : Content(cs[k]) \in C}

\* Of each print there is one.
LEMMA FirstsCount ==
  ASSUME NEW best \in Seq(Sourced), NEW C,
         C \subseteq {Content(best[i]) : i \in DOMAIN best}, ClosedBelow(C, best)
  PROVE  Cardinality(Held(Where(best, FirstPlaces(best)), C)) = Cardinality(PrintsOf(C))
<1> DEFINE T == FirstPlaces(best)
           d == Where(best, T)
           n == Cardinality(T)
           A == Held(d, C)
           B == PrintsOf(C)
           g == [k \in A |-> d[k].print]
<1>0. Len(best) \in Nat /\ DOMAIN best = 1 .. Len(best) /\ \A i \in DOMAIN best : best[i] \in Sourced
  OBVIOUS
<1>1. PICK o : WhereAs(d, best, o, T, n)
  <2>1. T \subseteq 1 .. Len(best)
    BY <1>0 DEF FirstPlaces
  <2> HIDE DEF T
  <2> QED BY <2>1, WhereMade
<1>2. \A i \in DOMAIN best : best[i].print = BodyTraits[Content(best[i])[2]].print
  BY <1>0 DEF Sourced, ReadOff, Content
<1> HIDE DEF d, T, n
<1>3. /\ n \in Nat /\ DOMAIN d = 1 .. n
      /\ \A k \in 1 .. n : o[k] \in T /\ o[k] \in DOMAIN best /\ d[k] = best[o[k]]
      /\ \A x \in T : \E k \in 1 .. n : o[k] = x
      /\ \A j, k \in 1 .. n : o[j] = o[k] => j = k
  BY <1>1 DEF WhereAs, T, FirstPlaces
<1>4. A \subseteq 1 .. n /\ \A k \in A : Content(best[o[k]]) \in C
  BY <1>3 DEF Held
<1>5. \A i, j \in T : best[i].print = best[j].print => i = j
  <2> SUFFICES ASSUME NEW i \in T, NEW j \in T, best[i].print = best[j].print, i # j PROVE FALSE
    OBVIOUS
  <2>1. i \in 1 .. Len(best) /\ j \in 1 .. Len(best)
    BY <1>0 DEF T, FirstPlaces
  <2>2. i < j \/ j < i
    BY <2>1
  <2> QED BY <1>0, <2>1, <2>2 DEF T, FirstPlaces
<1>6. ASSUME NEW k \in A PROVE g[k] \in B
  <2>1. Content(best[o[k]]) \in C /\ k \in 1 .. n
    BY <1>4
  <2>2. g[k] = BodyTraits[Content(best[o[k]])[2]].print
    BY <1>2, <1>3, <2>1
  <2> QED BY <2>1, <2>2 DEF PrintsOf
<1>7. ASSUME NEW k \in A, NEW j \in A, g[k] = g[j] PROVE k = j
  <2>1. best[o[k]].print = best[o[j]].print
    BY <1>3, <1>4, <1>7
  <2>2. k \in 1 .. n /\ j \in 1 .. n /\ o[k] \in T /\ o[j] \in T
    BY <1>3, <1>4
  <2>3. o[k] = o[j]
    BY <1>5, <2>1, <2>2
  <2> QED BY <1>3, <2>2, <2>3
<1>8. ASSUME NEW z \in B PROVE \E k \in A : g[k] = z
  <2>1. PICK e \in C : z = BodyTraits[e[2]].print
    BY DEF PrintsOf
  <2>2. PICK i \in DOMAIN best : Content(best[i]) = e
    OBVIOUS
  <2> DEFINE Z == {j \in DOMAIN best : best[j].print = z}
  <2>3. i \in Z
    BY <1>2, <2>1, <2>2
  <2>4. PICK f \in Z : \A j \in Z : f <= j
    <3>1. Z \subseteq Nat
      BY <1>0
    <3> HIDE DEF Z
    <3> QED BY <2>3, <3>1, LeastNumber
  <2>5. f \in DOMAIN best /\ best[f].print = z /\ f \in 1 .. Len(best)
    BY <1>0
  <2>6. f \in T
    <3> SUFFICES ASSUME NEW j \in DOMAIN best, j < f, best[j].print = z PROVE FALSE
      BY <2>5 DEF T, FirstPlaces
    <3>1. j \in Z /\ j \in Nat /\ f \in Nat
      BY <1>0, <2>5
    <3> HIDE DEF Z
    <3> QED BY <2>4, <3>1
  <2>7. Content(best[f]) \in C
    <3>1. f = i \/ f < i
      BY <1>0, <2>3, <2>4, <2>5
    <3> QED BY <2>1, <2>2, <2>5, <3>1 DEF ClosedBelow
  <2>8. PICK k \in 1 .. n : o[k] = f
    BY <1>3, <2>6
  <2>9. k \in A /\ g[k] = z
    BY <1>3, <2>5, <2>7, <2>8 DEF Held
  <2> QED BY <2>9
<1>9. IsFiniteSet(A)
  <2>1. IsFiniteSet(1 .. n)
    BY <1>3, FS_Interval
  <2> HIDE DEF A
  <2> QED BY <1>4, <2>1, FS_Subset
<1>10. g \in [A -> B]
  BY <1>6
<1> HIDE DEF A, B, g
<1>11. Cardinality(A) = Cardinality(B)
  BY <1>7, <1>8, <1>9, <1>10, PairedOff
<1> QED BY <1>11 DEF A, B, d, T

ClassesOf(cs, all) == [k \in 1 .. Len(cs) |-> Class(Content(cs[k]), all)]
Below(E, all, c) == {e \in E : ~ Precedes(c, Class(e, all))}

\* The survivors, best first, are known by what may be listed.
LEMMA DedupedAre ==
  ASSUME NEW cs, NEW E, NEW all, ScoredFrom(cs, E, all),
         \A e \in E : \E k \in DOMAIN cs : e = Content(cs[k])
  PROVE  /\ ScoredFrom(dedupe(cs), E, all)
         /\ Len(dedupe(cs)) = Cardinality(PrintsOf(E))
         /\ Climbs(ClassesOf(dedupe(cs), all), Len(dedupe(cs)), 3)
         /\ \A c \in KeysOf(3) : Cardinality(UpTo(ClassesOf(dedupe(cs), all), Len(dedupe(cs)), c))
                                  = Cardinality(PrintsOf(Below(E, all, c)))
<1> DEFINE n == Len(cs)
           keys == [i \in DOMAIN cs |-> <<- cs[i].score, UrlTraits[cs[i].url].depth, cs[i].url>>]
           best == SortedBy(cs, keys)
           T == FirstPlaces(best)
           d == dedupe(cs)
           m == Len(d)
           a == ClassesOf(d, all)
<1>1. cs \in Seq(Sourced) /\ n \in Nat /\ DOMAIN cs = 1 .. n /\ \A i \in 1 .. n : cs[i] \in Sourced
  BY DEF ScoredFrom
<1>2. \A i \in 1 .. n : keys[i] = Class(Content(cs[i]), all) /\ keys[i] \in KeysOf(3)
  BY <1>1, ClassType, SMTT(30)
<1>3. d = Where(best, T)
  BY DEF dedupe, FirstPlaces
<1>4. Keyed(keys, 1 .. n, 3)
  <2>1. IsFiniteSet(1 .. n) /\ 1 .. n \subseteq Nat
    <3>1. n \in Nat
      BY <1>1
    <3> QED BY ONLY <3>1, FS_Interval
  <2>2. DOMAIN keys = 1 .. n
    BY <1>1
  <2> HIDE DEF keys
  <2> QED BY <1>2, <2>1, <2>2 DEF Keyed
<1> DEFINE o == Sorted(keys)
<1> HIDE DEF keys, n, o, best, d, T
<1>5. best \in Seq(Sourced) /\ SortedAs(best, cs, o, keys, n)
  BY <1>1, <1>4, SortedByIs DEF n, o, best
<1>6. /\ Len(best) = n /\ DOMAIN best = 1 .. n
      /\ \A i \in 1 .. n : o[i] \in 1 .. n /\ best[i] = cs[o[i]] /\ best[i] \in Sourced
      /\ \A i \in 1 .. n : \E k \in 1 .. n : o[k] = i
  BY <1>1, <1>5 DEF SortedAs
<1>7. \A i \in 1 .. n : /\ Content(best[i]) \in E /\ Class(Content(best[i]), all) \in KeysOf(3)
                       /\ Class(Content(best[i]), all) = keys[o[i]]
                       /\ best[i].score = Worth(best[i].url, best[i].page.body, all)
  <2>1. \A j \in 1 .. n : /\ Content(cs[j]) \in E
                          /\ cs[j].score = Worth(cs[j].url, cs[j].page.body, all)
    BY <1>1 DEF ScoredFrom
  <2>2. ASSUME NEW i \in 1 .. n
        PROVE  /\ Content(best[i]) \in E /\ Class(Content(best[i]), all) \in KeysOf(3)
               /\ Class(Content(best[i]), all) = keys[o[i]]
               /\ best[i].score = Worth(best[i].url, best[i].page.body, all)
    <3>1. o[i] \in 1 .. n /\ best[i] = cs[o[i]]
      BY <1>6
    <3> QED BY <1>2, <2>1, <3>1
  <2> QED BY <2>2
<1>8. \A i, j \in 1 .. n : i < j => ~ Precedes(Class(Content(best[j]), all), Class(Content(best[i]), all))
  <2> SUFFICES ASSUME NEW i \in 1 .. n, NEW j \in 1 .. n, i < j
               PROVE  ~ Precedes(keys[o[j]], keys[o[i]])
    BY <1>7
  <2>1. Precedes(keys[o[i]], keys[o[j]]) \/ keys[o[i]] = keys[o[j]]
    BY <1>5 DEF SortedAs, InKeyOrder
  <2>2. keys[o[i]] \in KeysOf(3) /\ keys[o[j]] \in KeysOf(3)
    BY <1>2, <1>6
  <2> QED BY <2>1, <2>2, KeyOrder
<1>9. E = {Content(best[i]) : i \in DOMAIN best}
  <2>1. ASSUME NEW e \in E PROVE \E i \in DOMAIN best : e = Content(best[i])
    <3>1. PICK k \in 1 .. n : e = Content(cs[k])
      BY <1>1
    <3> QED BY <1>6, <3>1, SMTT(30)
  <2> QED BY <1>6, <1>7, <2>1
<1>10. PICK w : WhereAs(d, best, w, T, Cardinality(T)) /\ d \in Seq(Sourced)
  <2>1. T \subseteq 1 .. Len(best)
    BY <1>6 DEF T, FirstPlaces
  <2> QED BY <1>3, <1>5, <2>1, WhereMade
<1>11. /\ m \in Nat /\ DOMAIN d = 1 .. m
       /\ \A k \in 1 .. m : w[k] \in 1 .. n /\ d[k] = best[w[k]] /\ d[k] \in Sourced
       /\ \A j, k \in 1 .. m : j < k => w[j] < w[k]
  <2>1. T \subseteq 1 .. n
    BY <1>6 DEF T, FirstPlaces
  <2>2. m \in Nat /\ m = Cardinality(T) /\ DOMAIN d = 1 .. m
    BY <1>10 DEF WhereAs
  <2>3. \A k \in 1 .. m : d[k] \in Sourced
    BY <1>10, <2>2
  <2> HIDE DEF m
  <2> QED BY <1>10, <2>1, <2>2, <2>3 DEF WhereAs
<1>12. ScoredFrom(d, E, all)
  <2>1. IsFiniteSet(all) /\ all \subseteq Nat
    BY DEF ScoredFrom
  <2>2. \A k \in 1 .. m : Content(d[k]) \in E /\ d[k].score = Worth(d[k].url, d[k].page.body, all)
    BY <1>7, <1>11
  <2> HIDE DEF m
  <2> QED BY <1>10, <1>11, <2>1, <2>2 DEF ScoredFrom
<1> HIDE DEF m
<1>13. /\ a = [k \in 1 .. m |-> Class(Content(d[k]), all)]
       /\ \A k \in 1 .. m : a[k] = Class(Content(d[k]), all) /\ a[k] \in KeysOf(3)
  <2>1. a = [k \in 1 .. m |-> Class(Content(d[k]), all)]
    BY DEF ClassesOf, m
  <2> HIDE DEF a
  <2> QED BY <1>7, <1>11, <2>1
<1> HIDE DEF a
<1>14. Climbs(a, m, 3)
  <2>1. \A i, j \in 1 .. m : i < j => ~ Precedes(a[j], a[i])
    BY <1>8, <1>11, <1>13
  <2>2. a \in [1 .. m -> KeysOf(3)]
    BY <1>13
  <2> QED BY <1>11, <2>1, <2>2 DEF Climbs
<1>15. ASSUME NEW C, C \subseteq E, ClosedBelow(C, best)
       PROVE  Cardinality(Held(d, C)) = Cardinality(PrintsOf(C))
  BY <1>3, <1>5, <1>9, <1>15, FirstsCount DEF T
<1>16. m = Cardinality(PrintsOf(E))
  <2>1. ClosedBelow(E, best)
    BY <1>9 DEF ClosedBelow
  <2>2. Held(d, E) = 1 .. m
    BY <1>11, <1>12 DEF Held, ScoredFrom
  <2>3. Cardinality(1 .. m) = m
    BY <1>11, FS_Interval
  <2>4. Cardinality(Held(d, E)) = Cardinality(PrintsOf(E))
    BY <1>15, <2>1
  <2> QED BY <2>2, <2>3, <2>4
<1>17. ASSUME NEW c \in KeysOf(3)
       PROVE  Cardinality(UpTo(a, m, c)) = Cardinality(PrintsOf(Below(E, all, c)))
  <2> DEFINE C == Below(E, all, c)
  <2>1. ClosedBelow(C, best)
    <3> SUFFICES ASSUME NEW i \in 1 .. n, NEW j \in 1 .. n, j < i, Content(best[i]) \in C
                 PROVE  Content(best[j]) \in C
      BY <1>6 DEF ClosedBelow
    <3> DEFINE x == Class(Content(best[i]), all)
               y == Class(Content(best[j]), all)
    <3>1. ~ Precedes(c, x)
      BY DEF Below
    <3>2. x \in KeysOf(3) /\ y \in KeysOf(3) /\ ~ Precedes(x, y) /\ Content(best[j]) \in E
      BY <1>7, <1>8
    <3> HIDE DEF x, y
    <3>3. ~ Precedes(c, y)
      BY <3>1, <3>2, KeyOrder
    <3> QED BY <3>2, <3>3 DEF Below, y
  <2>2. Held(d, C) = UpTo(a, m, c)
    <3>1. \A k \in 1 .. m : Content(d[k]) \in E
      BY <1>11, <1>12 DEF ScoredFrom
    <3> QED BY <1>11, <1>13, <3>1 DEF Held, UpTo, Below
  <2>3. C \subseteq E
    BY DEF Below
  <2> HIDE DEF C
  <2>4. Cardinality(Held(d, C)) = Cardinality(PrintsOf(C))
    BY <1>15, <2>1, <2>3
  <2> QED BY <2>2, <2>4 DEF C
<1> QED BY <1>12, <1>14, <1>16, <1>17 DEF a, m, d

\* Two that differ at most in what they say.
Alike(x, y) ==
  /\ Len(x) = Len(y)
  /\ \A k \in 1 .. Len(x) : /\ x[k].url = y[k].url /\ x[k].score = y[k].score
                            /\ x[k].section = y[k].section /\ x[k].optional = y[k].optional

SurvivorsOf(found) == dedupe(score_all(candidates_of(found)))

\* There is a survivor for each fingerprint, of the least class with it.
LEMMA SurvivorsAre ==
  ASSUME NEW found \in Seq(CrawledPages), NEW E, E = Contents(found), NEW all, all = DatesOf(E)
  PROVE  LET d == SurvivorsOf(found) IN
         /\ ScoredFrom(d, E, all) /\ Len(d) = Cardinality(PrintsOf(E))
         /\ Climbs(ClassesOf(d, all), Len(d), 3)
         /\ \A c \in KeysOf(3) : Cardinality(UpTo(ClassesOf(d, all), Len(d), c))
                                  = Cardinality(PrintsOf(Below(E, all, c)))
<1> DEFINE cs == score_all(candidates_of(found))
<1>1. ScoredFrom(cs, E, all) /\ \A e \in E : \E k \in DOMAIN cs : e = Content(cs[k])
  BY ScoredAre DEF ScoredFrom, Content
<1>2. SurvivorsOf(found) = dedupe(cs)
  BY DEF SurvivorsOf
<1> HIDE DEF cs
<1>3. /\ ScoredFrom(dedupe(cs), E, all) /\ Len(dedupe(cs)) = Cardinality(PrintsOf(E))
      /\ Climbs(ClassesOf(dedupe(cs), all), Len(dedupe(cs)), 3)
      /\ \A c \in KeysOf(3) : Cardinality(UpTo(ClassesOf(dedupe(cs), all), Len(dedupe(cs)), c))
                               = Cardinality(PrintsOf(Below(E, all, c)))
  BY ONLY <1>1, DedupedAre
<1> QED BY <1>2, <1>3

\* What survives is told by the pages' URLs and bodies.
LEMMA SurvivorsAlike ==
  ASSUME NEW found \in Seq(CrawledPages), NEW other \in Seq(CrawledPages),
         Contents(found) = Contents(other)
  PROVE  Alike(SurvivorsOf(found), SurvivorsOf(other))
<1> DEFINE E == Contents(found)
           all == DatesOf(E)
           x == SurvivorsOf(found)
           y == SurvivorsOf(other)
           n == Len(x)
           a == ClassesOf(x, all)
           b == ClassesOf(y, all)
<1>1. /\ ScoredFrom(x, E, all) /\ n = Cardinality(PrintsOf(E)) /\ Climbs(a, n, 3)
      /\ \A c \in KeysOf(3) : Cardinality(UpTo(a, n, c)) = Cardinality(PrintsOf(Below(E, all, c)))
  BY SurvivorsAre
<1>2. /\ ScoredFrom(y, E, all) /\ Len(y) = n /\ Climbs(b, n, 3)
      /\ \A c \in KeysOf(3) : Cardinality(UpTo(b, n, c)) = Cardinality(PrintsOf(Below(E, all, c)))
  BY <1>1, SurvivorsAre
<1> HIDE DEF E, all, x, y, n, a, b
<1>3. \A c \in KeysOf(3) : Cardinality(UpTo(a, n, c)) = Cardinality(UpTo(b, n, c))
  BY <1>1, <1>2
<1>4. \A k \in 1 .. n : a[k] = b[k]
  BY <1>1, <1>2, <1>3, SameClimb
<1>5. Len(x) = n /\ DOMAIN x = 1 .. n /\ DOMAIN y = 1 .. n /\ x \in Seq(Sourced) /\ y \in Seq(Sourced)
  <2>1. x \in Seq(Sourced) /\ y \in Seq(Sourced) /\ Len(x) = n
    BY <1>1, <1>2 DEF ScoredFrom, n
  <2> QED BY <1>2, <2>1
<1>6. ASSUME NEW k \in 1 .. n
      PROVE  /\ x[k].url = y[k].url /\ x[k].score = y[k].score
             /\ x[k].section = y[k].section /\ x[k].optional = y[k].optional
  <2>1. a[k] = <<- x[k].score, UrlTraits[x[k].url].depth, x[k].url>>
    BY <1>1, <1>5, ClassType DEF a, ClassesOf
  <2>2. b[k] = <<- y[k].score, UrlTraits[y[k].url].depth, y[k].url>>
    BY <1>2, <1>5, ClassType DEF b, ClassesOf
  <2>3. x[k] \in Sourced /\ y[k] \in Sourced
    BY <1>5
  <2>4. - x[k].score = - y[k].score /\ x[k].url = y[k].url
    BY <1>4, <2>1, <2>2
  <2>5. x[k].score \in Int /\ y[k].score \in Int
    BY <2>3 DEF Sourced, Listables
  <2> QED BY <2>3, <2>4, <2>5 DEF Sourced, ReadOff
<1>7. Alike(x, y)
  BY <1>2, <1>5, <1>6 DEF Alike
<1> QED BY <1>7 DEF x, y

-----------------------------------------------------------------------------
(* llms.txt: the stages of _select.                                         *)

LEMMA SourcedListable == Sourced \subseteq Listables
BY DEF Sourced

\* The keys of the last two sorts.
ScoreKeys(cs) == [i \in DOMAIN cs |-> <<- cs[i].score, cs[i].url>>]
SectionKeys(cs) == [i \in DOMAIN cs |-> <<cs[i].section, - cs[i].score, cs[i].url>>]

LEMMA ListableTyped ==
  ASSUME NEW c \in Listables
  PROVE  /\ c.url \in DOMAIN UrlTraits /\ c.url \in Nat /\ c.score \in Int /\ c.section \in Nat
         /\ c.section < OPTIONAL_SECTION /\ c.optional \in BOOLEAN /\ c.page \in CrawledPages
<1>1. /\ c.url \in DOMAIN UrlTraits /\ c.score \in Int /\ c.section \in ListedSections
      /\ c.optional \in BOOLEAN /\ c.page \in CrawledPages
  BY DEF Listables
<1>2. c.section \in Nat /\ c.section < OPTIONAL_SECTION
  BY <1>1, LlmsTxtAssumption DEF ListedSections, OPTIONAL_SECTION
<1> QED BY <1>1, <1>2, UrlTyped

LEMMA KeysTyped ==
  ASSUME NEW cs \in Seq(Listables)
  PROVE  Keyed(ScoreKeys(cs), 1 .. Len(cs), 2) /\ Keyed(SectionKeys(cs), 1 .. Len(cs), 3)
<1> DEFINE n == Len(cs)
<1>1. n \in Nat /\ DOMAIN cs = 1 .. n /\ \A i \in 1 .. n : cs[i] \in Listables
  OBVIOUS
<1> HIDE DEF n
<1>2. IsFiniteSet(1 .. n) /\ 1 .. n \subseteq Nat
  BY <1>1, FS_Interval
<1>3. ASSUME NEW i \in 1 .. n
      PROVE  ScoreKeys(cs)[i] \in KeysOf(2) /\ SectionKeys(cs)[i] \in KeysOf(3)
  <2>1. cs[i].score \in Int /\ cs[i].url \in Int /\ cs[i].section \in Int
    BY <1>1, ListableTyped
  <2>2. /\ ScoreKeys(cs)[i] = <<- cs[i].score, cs[i].url>>
        /\ SectionKeys(cs)[i] = <<cs[i].section, - cs[i].score, cs[i].url>>
    BY <1>1 DEF ScoreKeys, SectionKeys
  <2> QED BY <2>1, <2>2 DEF KeysOf
<1>4. DOMAIN ScoreKeys(cs) = 1 .. n /\ DOMAIN SectionKeys(cs) = 1 .. n
  BY <1>1 DEF ScoreKeys, SectionKeys
<1> QED BY <1>2, <1>3, <1>4 DEF Keyed, n

\* The best first; or by section, and of each section the best first.
LEMMA SortedStages ==
  ASSUME NEW cs \in Seq(Listables)
  PROVE  /\ by_score(cs) \in Seq(Listables) /\ by_section(cs) \in Seq(Listables)
         /\ SortedAs(by_score(cs), cs, Sorted(ScoreKeys(cs)), ScoreKeys(cs), Len(cs))
         /\ SortedAs(by_section(cs), cs, Sorted(SectionKeys(cs)), SectionKeys(cs), Len(cs))
<1>1. by_score(cs) = SortedBy(cs, ScoreKeys(cs)) /\ by_section(cs) = SortedBy(cs, SectionKeys(cs))
  BY DEF by_score, by_section, ScoreKeys, SectionKeys
<1> QED BY <1>1, KeysTyped, SortedByIs

\* Sorted by score, scores fall.
LEMMA FallingScores ==
  ASSUME NEW cs \in Seq(Listables)
  PROVE  \A i, j \in 1 .. Len(cs) : i < j => by_score(cs)[i].score >= by_score(cs)[j].score
<1> DEFINE n == Len(cs)
           o == Sorted(ScoreKeys(cs))
           t == by_score(cs)
<1>1. SortedAs(t, cs, o, ScoreKeys(cs), n)
  BY SortedStages
<1> HIDE DEF o, t
<1> SUFFICES ASSUME NEW i \in 1 .. n, NEW j \in 1 .. n, i < j PROVE t[i].score >= t[j].score
  BY DEF t
<1>2. o[i] \in 1 .. n /\ o[j] \in 1 .. n /\ t[i] = cs[o[i]] /\ t[j] = cs[o[j]]
  BY <1>1 DEF SortedAs
<1>3. /\ ScoreKeys(cs)[o[i]] = <<- t[i].score, t[i].url>>
      /\ ScoreKeys(cs)[o[j]] = <<- t[j].score, t[j].url>>
  BY <1>2 DEF ScoreKeys
<1>4. t[i].score \in Int /\ t[j].score \in Int
  <2>1. cs[o[i]] \in Listables /\ cs[o[j]] \in Listables
    BY <1>2
  <2> QED BY <1>2, <2>1, ListableTyped
<1>5. \/ Precedes(<<- t[i].score, t[i].url>>, <<- t[j].score, t[j].url>>)
      \/ <<- t[i].score, t[i].url>> = <<- t[j].score, t[j].url>>
  <2>1. \/ Precedes(ScoreKeys(cs)[o[i]], ScoreKeys(cs)[o[j]])
        \/ ScoreKeys(cs)[o[i]] = ScoreKeys(cs)[o[j]]
    BY <1>1 DEF SortedAs, InKeyOrder
  <2> QED BY ONLY <1>3, <2>1, Zenon
<1>6. ASSUME Precedes(<<- t[i].score, t[i].url>>, <<- t[j].score, t[j].url>>)
      PROVE  - t[i].score <= - t[j].score
  BY <1>4, <1>6 DEF Precedes
<1>7. - t[i].score <= - t[j].score
  BY <1>4, <1>5, <1>6
<1> QED BY <1>4, <1>7

\* Sorted by section, sections rise.
LEMMA RisingSections ==
  ASSUME NEW cs \in Seq(Listables)
  PROVE  \A i, j \in 1 .. Len(cs) : i < j => by_section(cs)[i].section <= by_section(cs)[j].section
<1> DEFINE n == Len(cs)
           o == Sorted(SectionKeys(cs))
           t == by_section(cs)
           key(c) == <<c.section, - c.score, c.url>>
<1>1. SortedAs(t, cs, o, SectionKeys(cs), n)
  BY SortedStages
<1> HIDE DEF o, t
<1> SUFFICES ASSUME NEW i \in 1 .. n, NEW j \in 1 .. n, i < j PROVE t[i].section <= t[j].section
  BY DEF t
<1>2. o[i] \in 1 .. n /\ o[j] \in 1 .. n /\ t[i] = cs[o[i]] /\ t[j] = cs[o[j]]
  BY <1>1 DEF SortedAs
<1>3. SectionKeys(cs)[o[i]] = key(t[i]) /\ SectionKeys(cs)[o[j]] = key(t[j])
  BY <1>2 DEF SectionKeys
<1>4. t[i].section \in Int /\ t[j].section \in Int
  <2>1. cs[o[i]] \in Listables /\ cs[o[j]] \in Listables
    BY <1>2
  <2> QED BY <1>2, <2>1, ListableTyped
<1>5. Precedes(key(t[i]), key(t[j])) \/ key(t[i]) = key(t[j])
  <2>1. \/ Precedes(SectionKeys(cs)[o[i]], SectionKeys(cs)[o[j]])
        \/ SectionKeys(cs)[o[i]] = SectionKeys(cs)[o[j]]
    BY <1>1 DEF SortedAs, InKeyOrder
  <2> HIDE DEF key
  <2> QED BY ONLY <1>3, <2>1, Zenon
<1>6. ASSUME Precedes(key(t[i]), key(t[j])) PROVE t[i].section <= t[j].section
  BY <1>4, <1>6 DEF Precedes
<1> QED BY <1>4, <1>5, <1>6

\* Sequences that are alike are so in any common order, filtered by place, and as sorted.
LEMMA ReorderAlike ==
  ASSUME NEW x \in Seq(Listables), NEW y \in Seq(Listables), Alike(x, y),
         NEW keys, NEW m, Keyed(keys, 1 .. Len(x), m)
  PROVE  Alike(SortedBy(x, keys), SortedBy(y, keys))
<1>1. Len(x) = Len(y)
  BY DEF Alike
<1>2. /\ SortedAs(SortedBy(x, keys), x, Sorted(keys), keys, Len(x))
      /\ SortedAs(SortedBy(y, keys), y, Sorted(keys), keys, Len(x))
  BY <1>1, SortedByIs
<1> DEFINE n == Len(x)
           o == Sorted(keys)
           v == SortedBy(x, keys)
           w == SortedBy(y, keys)
<1> HIDE DEF n, o, v, w
<1>3. /\ Len(v) = n /\ Len(w) = n
      /\ \A k \in 1 .. n : o[k] \in 1 .. n /\ v[k] = x[o[k]] /\ w[k] = y[o[k]]
  BY <1>2 DEF SortedAs, n, o, v, w
<1>4. \A i \in 1 .. n : /\ x[i].url = y[i].url /\ x[i].score = y[i].score
                       /\ x[i].section = y[i].section /\ x[i].optional = y[i].optional
  BY DEF Alike, n
<1>5. Alike(v, w)
  BY ONLY <1>3, <1>4 DEF Alike
<1> QED BY <1>5 DEF v, w

LEMMA WhereAlike ==
  ASSUME NEW x \in Seq(Listables), NEW y \in Seq(Listables), Alike(x, y),
         NEW D, D \subseteq 1 .. Len(x)
  PROVE  Alike(Where(x, D), Where(y, D))
<1> DEFINE o == Sorted([i \in D |-> <<>>])
<1>1. Len(x) = Len(y)
  BY DEF Alike
<1>2. Names(o, D) /\ Where(x, D) = Taken(x, o) /\ Where(y, D) = Taken(y, o)
  BY WhereIs DEF Where
<1> HIDE DEF o
<1>3. TakenAs(Taken(x, o), x, o, D) /\ TakenAs(Taken(y, o), y, o, D)
  BY <1>1, <1>2, TakenIs
<1>4. Alike(Taken(x, o), Taken(y, o))
  <2> DEFINE n == Cardinality(D)
             v == Taken(x, o)
             w == Taken(y, o)
  <2>1. /\ Len(v) = n /\ Len(w) = n
        /\ \A k \in 1 .. n : o[k] \in 1 .. Len(x) /\ v[k] = x[o[k]] /\ w[k] = y[o[k]]
    BY <1>3 DEF TakenAs
  <2>2. \A i \in 1 .. Len(x) : /\ x[i].url = y[i].url /\ x[i].score = y[i].score
                              /\ x[i].section = y[i].section /\ x[i].optional = y[i].optional
    BY DEF Alike
  <2> HIDE DEF n, v, w
  <2>3. Alike(v, w)
    BY ONLY <2>1, <2>2 DEF Alike
  <2> QED BY <2>3 DEF v, w
<1> QED BY <1>2, <1>4

LEMMA StagesAlike ==
  ASSUME NEW x \in Seq(Listables), NEW y \in Seq(Listables), Alike(x, y)
  PROVE  Alike(by_score(x), by_score(y)) /\ Alike(by_section(x), by_section(y))
<1>1. /\ Len(x) = Len(y) /\ DOMAIN x = 1 .. Len(x) /\ DOMAIN y = 1 .. Len(x)
      /\ \A i \in 1 .. Len(x) : x[i].url = y[i].url /\ x[i].score = y[i].score /\ x[i].section = y[i].section
  BY DEF Alike
<1>2. ScoreKeys(x) = ScoreKeys(y)
  BY <1>1 DEF ScoreKeys
<1>3. SectionKeys(x) = SectionKeys(y)
  BY <1>1 DEF SectionKeys
<1>4. /\ by_score(x) = SortedBy(x, ScoreKeys(x)) /\ by_score(y) = SortedBy(y, ScoreKeys(x))
      /\ by_section(x) = SortedBy(x, SectionKeys(x)) /\ by_section(y) = SortedBy(y, SectionKeys(x))
  <2>1. /\ by_score(x) = SortedBy(x, ScoreKeys(x)) /\ by_score(y) = SortedBy(y, ScoreKeys(y))
        /\ by_section(x) = SortedBy(x, SectionKeys(x)) /\ by_section(y) = SortedBy(y, SectionKeys(y))
    BY DEF by_score, by_section, ScoreKeys, SectionKeys
  <2> QED BY <1>2, <1>3, <2>1
<1> QED BY <1>4, KeysTyped, ReorderAlike

\* The main body and Optional.
Splits == [main : Seq(Listables), optional : Seq(Listables)]
AlikeSplits(p, q) == Alike(p.main, q.main) /\ Alike(p.optional, q.optional)

FitPlaces(best) == {i \in DOMAIN best : ~ best[i].optional}
MainPlaces(best) ==
  {i \in FitPlaces(best) : Cardinality({j \in FitPlaces(best) : j < i}) < MAX_MAIN_BODY_LINKS}

\* What is at some places of a sequence, and what is at the others.
SplitAt(s, D) == [main |-> Where(s, D), optional |-> Where(s, DOMAIN s \ D)]

LEMMA SplitAtIs ==
  ASSUME NEW s \in Seq(Listables), NEW D, D \subseteq 1 .. Len(s)
  PROVE  /\ SplitAt(s, D) \in Splits /\ Len(SplitAt(s, D).main) = Cardinality(D)
         /\ Len(SplitAt(s, D).main) + Len(SplitAt(s, D).optional) = Len(s)
<1> DEFINE n == Len(s)
           F == (1 .. n) \ D
           p == SplitAt(s, D)
<1>1. n \in Nat /\ DOMAIN s = 1 .. n
  OBVIOUS
<1>2. D \subseteq 1 .. n /\ F \subseteq 1 .. n /\ p.main = Where(s, D) /\ p.optional = Where(s, F)
  BY <1>1 DEF SplitAt
<1>0. p = [main |-> p.main, optional |-> p.optional]
  BY DEF SplitAt
<1> HIDE DEF p
<1>3. ASSUME NEW G, G \subseteq 1 .. n
      PROVE  Where(s, G) \in Seq(Listables) /\ Len(Where(s, G)) = Cardinality(G)
  <2>1. PICK o : WhereAs(Where(s, G), s, o, G, Cardinality(G)) /\ Where(s, G) \in Seq(Listables)
    BY <1>3, WhereMade
  <2> QED BY <2>1 DEF WhereAs
<1>4. /\ p.main \in Seq(Listables) /\ Len(p.main) = Cardinality(D)
      /\ p.optional \in Seq(Listables) /\ Len(p.optional) = Cardinality(F)
  BY <1>2, <1>3
<1>5. Cardinality(D) + Cardinality(F) = n
  <2> HIDE DEF n
  <2>1. IsFiniteSet(1 .. n) /\ Cardinality(1 .. n) = n
    BY <1>1, FS_Interval
  <2>2. IsFiniteSet(D) /\ IsFiniteSet(F)
    BY <1>2, <2>1, FS_Subset
  <2>3. D \cup F = 1 .. n /\ D \cap F = {}
    BY <1>2
  <2> HIDE DEF F
  <2>4. Cardinality(D \cup F) = Cardinality(D) + Cardinality(F) - Cardinality(D \cap F)
    BY <2>2, FS_Union
  <2>5. Cardinality({}) = 0 /\ Cardinality(D) \in Nat /\ Cardinality(F) \in Nat
    BY <2>2, FS_EmptySet, FS_CardinalityType
  <2>6. Cardinality(D \cup F) = n /\ Cardinality(D \cap F) = 0
    BY <2>1, <2>3, <2>5
  <2> QED BY ONLY <2>4, <2>5, <2>6
<1>6. p \in Splits
  BY <1>0, <1>4 DEF Splits
<1> QED BY <1>4, <1>5, <1>6 DEF p

LEMMA SplitAtAlike ==
  ASSUME NEW x \in Seq(Listables), NEW y \in Seq(Listables), Alike(x, y),
         NEW D, D \subseteq 1 .. Len(x)
  PROVE  AlikeSplits(SplitAt(x, D), SplitAt(y, D))
<1>1. DOMAIN x = 1 .. Len(x) /\ DOMAIN y = 1 .. Len(x)
  BY DEF Alike
<1>2. (1 .. Len(x)) \ D \subseteq 1 .. Len(x)
  OBVIOUS
<1>3. Alike(Where(x, D), Where(y, D)) /\ Alike(Where(x, (1 .. Len(x)) \ D), Where(y, (1 .. Len(x)) \ D))
  <2> DEFINE F == (1 .. Len(x)) \ D
  <2>1. Alike(Where(x, D), Where(y, D))
    BY WhereAlike
  <2>2. F \subseteq 1 .. Len(x)
    OBVIOUS
  <2> HIDE DEF F
  <2>3. Alike(Where(x, F), Where(y, F))
    BY <2>2, WhereAlike
  <2> QED BY <2>1, <2>3 DEF F
<1> QED BY <1>1, <1>3 DEF SplitAt, AlikeSplits

\* partition divides the candidates, best first.
LEMMA PartitionIs ==
  ASSUME NEW d \in Seq(Listables)
  PROVE  /\ partition(d) = SplitAt(by_score(d), MainPlaces(by_score(d)))
         /\ MainPlaces(by_score(d)) \subseteq 1 .. Len(by_score(d))
         /\ by_score(d) \in Seq(Listables) /\ Len(by_score(d)) = Len(d)
         /\ partition(d) \in Splits
         /\ Len(partition(d).main) + Len(partition(d).optional) = Len(d)
<1>1. partition(d) = SplitAt(by_score(d), MainPlaces(by_score(d)))
  BY DEF partition, SplitAt, MainPlaces, FitPlaces
<1>2. by_score(d) \in Seq(Listables) /\ Len(by_score(d)) = Len(d)
  BY SortedStages DEF SortedAs
<1>3. MainPlaces(by_score(d)) \subseteq 1 .. Len(by_score(d))
  BY <1>2 DEF MainPlaces, FitPlaces
<1> QED BY <1>1, <1>2, <1>3, SplitAtIs

LEMMA PartitionAlike ==
  ASSUME NEW x \in Seq(Listables), NEW y \in Seq(Listables), Alike(x, y)
  PROVE  AlikeSplits(partition(x), partition(y))
<1> DEFINE v == by_score(x)
           w == by_score(y)
<1>1. v \in Seq(Listables) /\ w \in Seq(Listables) /\ Alike(v, w)
  BY StagesAlike, PartitionIs
<1>2. /\ partition(x) = SplitAt(v, MainPlaces(v)) /\ partition(y) = SplitAt(w, MainPlaces(w))
      /\ MainPlaces(v) \subseteq 1 .. Len(v)
  BY PartitionIs
<1> HIDE DEF v, w
<1>3. FitPlaces(v) = FitPlaces(w)
  <2>1. /\ DOMAIN v = 1 .. Len(v) /\ DOMAIN w = 1 .. Len(v)
        /\ \A i \in 1 .. Len(v) : v[i].optional = w[i].optional
    BY <1>1 DEF Alike
  <2> QED BY <2>1 DEF FitPlaces
<1>4. MainPlaces(v) = MainPlaces(w)
  BY <1>3 DEF MainPlaces
<1> QED BY <1>1, <1>2, <1>4, SplitAtAlike

\* What ensure_non_empty_main moves up.
Promoted(cs) == {i \in DOMAIN cs : i <= MAX_MAIN_BODY_LINKS}

LEMMA EnsureIs ==
  ASSUME NEW p \in Splits
  PROVE  /\ ensure_non_empty_main(p) \in Splits
         /\ Len(ensure_non_empty_main(p).main) + Len(ensure_non_empty_main(p).optional)
              = Len(p.main) + Len(p.optional)
         /\ p.main # <<>> => ensure_non_empty_main(p) = p
         /\ p.main = <<>> => ensure_non_empty_main(p) = SplitAt(p.optional, Promoted(p.optional))
<1>1. p.main \in Seq(Listables) /\ p.optional \in Seq(Listables)
  BY DEF Splits
<1>2. CASE p.main # <<>>
  BY <1>2 DEF ensure_non_empty_main
<1>3. CASE p.main = <<>>
  <2>1. ensure_non_empty_main(p) = SplitAt(p.optional, Promoted(p.optional))
    BY <1>3 DEF ensure_non_empty_main, SplitAt, Promoted
  <2>2. Promoted(p.optional) \subseteq 1 .. Len(p.optional)
    BY <1>1 DEF Promoted
  <2>3. Len(p.main) = 0 /\ Len(p.optional) \in Nat
    BY <1>1, <1>3
  <2>4. /\ SplitAt(p.optional, Promoted(p.optional)) \in Splits
        /\ Len(SplitAt(p.optional, Promoted(p.optional)).main)
             + Len(SplitAt(p.optional, Promoted(p.optional)).optional) = Len(p.optional)
    <3> DEFINE s == p.optional
               D == Promoted(s)
    <3>1. s \in Seq(Listables) /\ D \subseteq 1 .. Len(s)
      BY <1>1, <2>2
    <3> HIDE DEF s, D
    <3>2. SplitAt(s, D) \in Splits /\ Len(SplitAt(s, D).main) + Len(SplitAt(s, D).optional) = Len(s)
      BY ONLY <3>1, SplitAtIs
    <3> QED BY <3>2 DEF s, D
  <2>5. Len(p.main) + Len(p.optional) = Len(p.optional)
    BY <2>3
  <2> QED BY ONLY <1>3, <2>1, <2>4, <2>5
<1> QED BY <1>2, <1>3

LEMMA EnsureAlike ==
  ASSUME NEW p \in Splits, NEW q \in Splits, AlikeSplits(p, q)
  PROVE  AlikeSplits(ensure_non_empty_main(p), ensure_non_empty_main(q))
<1>1. /\ p.main \in Seq(Listables) /\ p.optional \in Seq(Listables)
      /\ q.main \in Seq(Listables) /\ q.optional \in Seq(Listables)
      /\ Alike(p.main, q.main) /\ Alike(p.optional, q.optional)
  BY DEF Splits, AlikeSplits
<1>2. p.main = <<>> <=> q.main = <<>>
  <2>1. Len(p.main) = Len(q.main)
    BY <1>1 DEF Alike
  <2> QED BY <1>1, <2>1
<1>3. CASE p.main # <<>>
  BY <1>2, <1>3, EnsureIs
<1>4. CASE p.main = <<>>
  <2>1. Promoted(p.optional) = Promoted(q.optional) /\ Promoted(p.optional) \subseteq 1 .. Len(p.optional)
    BY <1>1 DEF Promoted, Alike
  <2>2. /\ ensure_non_empty_main(p) = SplitAt(p.optional, Promoted(p.optional))
        /\ ensure_non_empty_main(q) = SplitAt(q.optional, Promoted(q.optional))
    BY <1>2, <1>4, EnsureIs
  <2> QED BY <1>1, <2>1, <2>2, SplitAtAlike
<1> QED BY <1>3, <1>4

\* consolidate, section by section.
UnderSection(cs, s) == {i \in DOMAIN cs : cs[i].section = s}
FoldsInto(cs, s) ==
  s \notin Canonical \cup {OTHER_SECTION} /\ Cardinality(UnderSection(cs, s)) < MIN_SECTION_SIZE
NewSection(cs, s) == IF FoldsInto(cs, s) THEN OTHER_SECTION ELSE s

LEMMA ConsolidateIs ==
  ASSUME NEW p \in Splits
  PROVE  /\ consolidate(p) \in Splits /\ consolidate(p).optional = p.optional
         /\ Len(consolidate(p).main) = Len(p.main)
         /\ \A i \in 1 .. Len(p.main) :
              LET c == p.main[i] f == consolidate(p).main[i] IN
              /\ f.url = c.url /\ f.score = c.score /\ f.optional = c.optional
              /\ f.section = NewSection(p.main, c.section)
<1> DEFINE m == p.main
           q == consolidate(p)
           n == Len(m)
<1>1. /\ m \in Seq(Listables) /\ p.optional \in Seq(Listables) /\ n \in Nat /\ DOMAIN m = 1 .. n
      /\ \A i \in 1 .. n : m[i] \in Listables
  BY DEF Splits
<1> HIDE DEF m, n
<1>2. /\ q = [main |-> q.main, optional |-> p.optional]
      /\ q.main = [i \in 1 .. n |-> IF FoldsInto(m, m[i].section)
                                    THEN [m[i] EXCEPT !.section = OTHER_SECTION] ELSE m[i]]
  BY <1>1 DEF consolidate, m, FoldsInto, UnderSection
<1>3. ASSUME NEW i \in 1 .. n
      PROVE  /\ q.main[i] \in Listables /\ q.main[i].url = m[i].url /\ q.main[i].score = m[i].score
             /\ q.main[i].optional = m[i].optional /\ q.main[i].section = NewSection(m, m[i].section)
  <2>1. m[i] \in Listables /\ OTHER_SECTION \in ListedSections
    BY <1>1, OtherListed
  <2>2. q.main[i] = IF FoldsInto(m, m[i].section)
                    THEN [m[i] EXCEPT !.section = OTHER_SECTION] ELSE m[i]
    BY <1>2
  <2>3. CASE FoldsInto(m, m[i].section)
    BY <2>1, <2>2, <2>3 DEF Listables, NewSection
  <2>4. CASE ~ FoldsInto(m, m[i].section)
    BY <2>1, <2>2, <2>4 DEF NewSection
  <2> QED BY <2>3, <2>4
<1> HIDE DEF q
<1>4. q.main \in Seq(Listables) /\ Len(q.main) = n
  <2>1. q.main \in [1 .. n -> Listables]
    BY <1>2, <1>3
  <2> QED BY <1>1, <2>1, SeqOfFunction
<1>5. q \in Splits /\ q.optional = p.optional
  <2>1. q.optional = p.optional
    BY <1>2
  <2> QED BY <1>1, <1>2, <1>4, <2>1 DEF Splits
<1> QED BY <1>3, <1>4, <1>5 DEF m, n, q

LEMMA ConsolidateAlike ==
  ASSUME NEW p \in Splits, NEW q \in Splits, AlikeSplits(p, q)
  PROVE  AlikeSplits(consolidate(p), consolidate(q))
<1> DEFINE n == Len(p.main)
<1>1. /\ p.main \in Seq(Listables) /\ q.main \in Seq(Listables) /\ Len(q.main) = n
      /\ DOMAIN p.main = 1 .. n /\ DOMAIN q.main = 1 .. n /\ Alike(p.optional, q.optional)
      /\ \A i \in 1 .. n :
           /\ p.main[i].url = q.main[i].url /\ p.main[i].score = q.main[i].score
           /\ p.main[i].section = q.main[i].section /\ p.main[i].optional = q.main[i].optional
  BY DEF Splits, AlikeSplits, Alike
<1> HIDE DEF n
<1>2. ASSUME NEW s PROVE NewSection(p.main, s) = NewSection(q.main, s)
  <2>1. UnderSection(p.main, s) = UnderSection(q.main, s)
    BY <1>1 DEF UnderSection
  <2> QED BY <2>1 DEF NewSection, FoldsInto
<1>3. /\ Len(consolidate(p).main) = n /\ Len(consolidate(q).main) = n
      /\ consolidate(p).optional = p.optional /\ consolidate(q).optional = q.optional
  BY <1>1, ConsolidateIs DEF n
<1>4. ASSUME NEW i \in 1 .. n
      PROVE  LET f == consolidate(p).main[i] g == consolidate(q).main[i] IN
             f.url = g.url /\ f.score = g.score /\ f.section = g.section /\ f.optional = g.optional
  <2>1. LET c == p.main[i] f == consolidate(p).main[i] IN
        /\ f.url = c.url /\ f.score = c.score /\ f.optional = c.optional
        /\ f.section = NewSection(p.main, c.section)
    BY ConsolidateIs DEF n
  <2>2. LET c == q.main[i] f == consolidate(q).main[i] IN
        /\ f.url = c.url /\ f.score = c.score /\ f.optional = c.optional
        /\ f.section = NewSection(q.main, c.section)
    BY <1>1, ConsolidateIs
  <2> QED BY <1>1, <1>2, <2>1, <2>2
<1> QED BY <1>1, <1>3, <1>4 DEF AlikeSplits, Alike

\* What an entry has of its candidate.
EntryOf(e, c, s) ==
  /\ e.section = s /\ e.url = c.url /\ e.page = c.page /\ e.score = c.score /\ e.forced = c.optional

Entries ==
  [section : Nat, url : DOMAIN UrlTraits, page : CrawledPages, score : Int, forced : BOOLEAN,
   description : Nat]

LEMMA EntryTyped ==
  ASSUME NEW c \in Listables, NEW s \in Nat, NEW b, NEW sentence
  PROVE  /\ entry(c, s, describe(c.page, b, sentence)) \in Entries
         /\ EntryOf(entry(c, s, describe(c.page, b, sentence)), c, s)
<1>1. /\ c.url \in DOMAIN UrlTraits /\ c.page \in CrawledPages /\ c.score \in Int
      /\ c.optional \in BOOLEAN
  BY ListableTyped
<1>2. c.page.description \in DOMAIN Sentence
  BY <1>1 DEF CrawledPages
<1>3. describe(c.page, b, sentence) \in Nat
  BY <1>2, LlmsTxtAssumption DEF describe
<1> QED BY <1>1, <1>3 DEF entry, Entries, EntryOf

\* The entries of the main body, then those of Optional.
EntriesAs(e, m, r, n) ==
  /\ n = Len(m) /\ n \in Nat /\ Len(r) \in Nat /\ e \in Seq(Entries) /\ Len(e) = n + Len(r)
  /\ \A i \in 1 .. n : e[i] \in Entries /\ EntryOf(e[i], m[i], m[i].section)
  /\ \A i \in n + 1 .. Len(e) : e[i] \in Entries /\ EntryOf(e[i], r[i - n], OPTIONAL_SECTION)

\* The entries are those of the main body, sorted, and those of Optional after them.
LEMMA EntriesAre ==
  ASSUME NEW p \in Splits, NEW b, NEW sentence
  PROVE  /\ EntriesAs(ordered_entries(p, b, sentence), by_section(p.main), by_score(p.optional),
                      Len(p.main))
         /\ Len(by_score(p.optional)) = Len(p.optional)
<1> DEFINE m == by_section(p.main)
           r == by_score(p.optional)
           n == Len(m)
           k == Len(r)
           D(c) == describe(c.page, b, sentence)
           x == [i \in DOMAIN m |-> entry(m[i], m[i].section, D(m[i]))]
           y == [i \in DOMAIN r |-> entry(r[i], OPTIONAL_SECTION, D(r[i]))]
           e == ordered_entries(p, b, sentence)
<1>1. m \in Seq(Listables) /\ n = Len(p.main) /\ r \in Seq(Listables) /\ k = Len(p.optional)
  <2>1. p.main \in Seq(Listables) /\ p.optional \in Seq(Listables)
    BY DEF Splits
  <2> QED BY <2>1, SortedStages DEF SortedAs
<1>2. e = x \o y
  BY DEF ordered_entries
<1> HIDE DEF m, r, e
<1>3. /\ n \in Nat /\ k \in Nat /\ DOMAIN m = 1 .. n /\ DOMAIN r = 1 .. k
      /\ \A i \in 1 .. n : m[i] \in Listables
      /\ \A i \in 1 .. k : r[i] \in Listables
  BY <1>1
<1> HIDE DEF n, k
<1>4. \A i \in 1 .. n : x[i] \in Entries /\ EntryOf(x[i], m[i], m[i].section)
  <2> SUFFICES ASSUME NEW i \in 1 .. n PROVE x[i] \in Entries /\ EntryOf(x[i], m[i], m[i].section)
    OBVIOUS
  <2>1. m[i] \in Listables /\ m[i].section \in Nat /\ x[i] = entry(m[i], m[i].section, D(m[i]))
    BY <1>3, ListableTyped
  <2> HIDE DEF x
  <2> QED BY <2>1, EntryTyped
<1>5. \A i \in 1 .. k : y[i] \in Entries /\ EntryOf(y[i], r[i], OPTIONAL_SECTION)
  <2> SUFFICES ASSUME NEW i \in 1 .. k PROVE y[i] \in Entries /\ EntryOf(y[i], r[i], OPTIONAL_SECTION)
    OBVIOUS
  <2>1. r[i] \in Listables /\ OPTIONAL_SECTION \in Nat /\ y[i] = entry(r[i], OPTIONAL_SECTION, D(r[i]))
    BY <1>3, OptionalTyped
  <2> HIDE DEF y
  <2> QED BY <2>1, EntryTyped
<1>6. x \in Seq(Entries) /\ Len(x) = n /\ y \in Seq(Entries) /\ Len(y) = k
  <2>1. x = [i \in 1 .. n |-> x[i]] /\ y = [i \in 1 .. k |-> y[i]]
    BY <1>3
  <2> HIDE DEF x, y
  <2>2. x \in [1 .. n -> Entries] /\ y \in [1 .. k -> Entries]
    BY <1>4, <1>5, <2>1
  <2> QED BY <1>3, <2>2, SeqOfFunction
<1> HIDE DEF x, y
<1>7. /\ e \in Seq(Entries) /\ Len(e) = n + k
      /\ \A i \in 1 .. n + k : e[i] = IF i <= n THEN x[i] ELSE y[i - n]
  BY ONLY <1>2, <1>6, ConcatProperties
<1>8. \A i \in 1 .. n : e[i] = x[i]
  BY <1>3, <1>7
<1>9. \A i \in n + 1 .. n + k : i - n \in 1 .. k /\ e[i] = y[i - n]
  BY <1>3, <1>7
<1>10. EntriesAs(e, m, r, n)
  <2>1. \A i \in n + 1 .. Len(e) : e[i] \in Entries /\ EntryOf(e[i], r[i - n], OPTIONAL_SECTION)
    BY <1>5, <1>7, <1>9
  <2> QED BY <1>3, <1>4, <1>7, <1>8, <2>1 DEF EntriesAs, n, k
<1> QED BY <1>1, <1>10 DEF m, r, n, k, e

\* A listing that may say something else has the same URLs.
LEMMA UrlsAlike ==
  ASSUME NEW p \in Splits, NEW q \in Splits, AlikeSplits(p, q), NEW b, NEW c, NEW s, NEW t
  PROVE  urls_of(ordered_entries(p, b, s)) = urls_of(ordered_entries(q, c, t))
<1> DEFINE e == ordered_entries(p, b, s)
           f == ordered_entries(q, c, t)
           m == by_section(p.main)
           r == by_score(p.optional)
           v == by_section(q.main)
           w == by_score(q.optional)
           n == Len(p.main)
<1>1. /\ EntriesAs(e, m, r, n) /\ EntriesAs(f, v, w, Len(q.main))
  BY EntriesAre
<1>2. Alike(m, v) /\ Alike(r, w) /\ Len(q.main) = n
  <2>1. /\ p.main \in Seq(Listables) /\ q.main \in Seq(Listables) /\ Alike(p.main, q.main)
        /\ p.optional \in Seq(Listables) /\ q.optional \in Seq(Listables)
        /\ Alike(p.optional, q.optional)
    BY DEF Splits, AlikeSplits
  <2>2. Len(q.main) = n
    BY <2>1 DEF Alike
  <2> QED BY <2>1, <2>2, StagesAlike
<1> HIDE DEF e, f, m, r, v, w, n
<1>3. /\ n \in Nat /\ Len(r) \in Nat /\ Len(w) = Len(r) /\ n = Len(m)
      /\ Len(e) = n + Len(r) /\ Len(f) = n + Len(r)
      /\ e \in Seq(Entries) /\ f \in Seq(Entries)
      /\ \A i \in 1 .. n : e[i].url = m[i].url /\ f[i].url = v[i].url /\ m[i].url = v[i].url
      /\ \A i \in n + 1 .. Len(e) : e[i].url = r[i - n].url /\ f[i].url = w[i - n].url
      /\ \A i \in 1 .. Len(r) : r[i].url = w[i].url
  BY <1>1, <1>2 DEF EntriesAs, EntryOf, Alike
<1>4. DOMAIN e = 1 .. Len(e) /\ DOMAIN f = 1 .. Len(e)
  BY <1>3
<1>5. ASSUME NEW i \in 1 .. Len(e) PROVE e[i].url = f[i].url
  <2>1. CASE i \in 1 .. n
    BY <1>3, <2>1
  <2>2. CASE i \in n + 1 .. Len(e)
    <3>1. i - n \in 1 .. Len(r)
      BY <1>3, <2>2
    <3> QED BY <1>3, <2>2, <3>1
  <2> QED BY <1>3, <2>1, <2>2
<1> QED BY <1>4, <1>5 DEF urls_of, e, f

Settled(d) == consolidate(ensure_non_empty_main(partition(d)))

\* The split that is printed has its types, and loses nothing.
LEMMA SettledIs ==
  ASSUME NEW d \in Seq(Listables)
  PROVE  /\ Settled(d) \in Splits /\ Len(Settled(d).main) + Len(Settled(d).optional) = Len(d)
         /\ ensure_non_empty_main(partition(d)) \in Splits /\ partition(d) \in Splits
<1> DEFINE p == partition(d)
           q == ensure_non_empty_main(p)
<1>1. p \in Splits /\ Len(p.main) + Len(p.optional) = Len(d)
  BY PartitionIs
<1> HIDE DEF p
<1>2. q \in Splits /\ Len(q.main) + Len(q.optional) = Len(d)
  BY <1>1, EnsureIs
<1> HIDE DEF q
<1>3. /\ consolidate(q) \in Splits /\ consolidate(q).optional = q.optional
      /\ Len(consolidate(q).main) = Len(q.main)
  BY <1>2, ConsolidateIs
<1> QED BY <1>1, <1>2, <1>3 DEF Settled, p, q

LEMMA SettledAlike ==
  ASSUME NEW x \in Seq(Listables), NEW y \in Seq(Listables), Alike(x, y)
  PROVE  AlikeSplits(Settled(x), Settled(y))
<1>1. AlikeSplits(partition(x), partition(y)) /\ partition(x) \in Splits /\ partition(y) \in Splits
  BY PartitionAlike, SettledIs
<1>2. /\ AlikeSplits(ensure_non_empty_main(partition(x)), ensure_non_empty_main(partition(y)))
      /\ ensure_non_empty_main(partition(x)) \in Splits /\ ensure_non_empty_main(partition(y)) \in Splits
  BY <1>1, EnsureAlike, SettledIs
<1> QED BY <1>2, ConsolidateAlike DEF Settled

\* What select makes of a crawl.
LEMMA ListingIs ==
  ASSUME NEW found \in Seq(CrawledPages)
  PROVE  LET d == SurvivorsOf(found) IN
         /\ d \in Seq(Listables)
         /\ select(found).duplicate = Len(candidates_of(found)) - Len(d)
         /\ \E b, s : select(found).entries = ordered_entries(Settled(d), b, s)
<1>1. SurvivorsOf(found) \in Seq(Sourced)
  BY SurvivorsAre DEF ScoredFrom
<1>2. SurvivorsOf(found) \in Seq(Listables)
  <2> DEFINE d == SurvivorsOf(found)
  <2>1. d \in Seq(Sourced)
    BY <1>1
  <2> HIDE DEF d
  <2>2. Len(d) \in Nat /\ \A i \in 1 .. Len(d) : d[i] \in Listables
    BY <2>1, SourcedListable
  <2>3. d = [i \in 1 .. Len(d) |-> d[i]]
    BY <2>1
  <2>4. d \in [1 .. Len(d) -> Listables]
    BY <2>2, <2>3
  <2>5. d \in Seq(Listables)
    BY <2>2, <2>4, SeqOfFunction
  <2> QED BY <2>5 DEF d
<1>3. /\ select(found).duplicate = Len(candidates_of(found)) - Len(SurvivorsOf(found))
      /\ select(found).entries = listed(Settled(SurvivorsOf(found)), site_sentence(found))
  BY DEF select, select_candidates, survivors, SurvivorsOf, Settled
<1> QED BY <1>2, <1>3 DEF listed

LEMMA RanksAlike ==
  ASSUME NEW found \in Seq(CrawledPages), NEW other \in Seq(CrawledPages),
         Contents(found) = Contents(other)
  PROVE  rank_pages(found) = rank_pages(other)
<1> DEFINE d == SurvivorsOf(found)
           f == SurvivorsOf(other)
<1>1. d \in Seq(Listables) /\ f \in Seq(Listables) /\ Alike(d, f)
  BY ListingIs, SurvivorsAlike
<1>2. PICK b, s : select(found).entries = ordered_entries(Settled(d), b, s)
  BY ListingIs
<1>3. PICK c, t : select(other).entries = ordered_entries(Settled(f), c, t)
  BY ListingIs
<1> HIDE DEF d, f
<1>4. Settled(d) \in Splits /\ Settled(f) \in Splits /\ AlikeSplits(Settled(d), Settled(f))
  BY <1>1, SettledIs, SettledAlike
<1>5. urls_of(ordered_entries(Settled(d), b, s)) = urls_of(ordered_entries(Settled(f), c, t))
  BY ONLY <1>4, UrlsAlike
<1> QED BY <1>2, <1>3, <1>5 DEF rank_pages

\* An answer of the model about one URL.
Enriched(found, u, t) ==
  [i \in DOMAIN found |-> IF found[i].url = u
     THEN [found[i] EXCEPT !.title = t, !.description = t] ELSE found[i]]

\* Other titles and descriptions leave the contents as they are.
LEMMA SameContents ==
  ASSUME NEW found \in Seq(CrawledPages), NEW u, NEW t \in DOMAIN Sentence
  PROVE  Enriched(found, u, t) \in Seq(CrawledPages) /\ Contents(Enriched(found, u, t)) = Contents(found)
<1> DEFINE n == Len(found)
           g == Enriched(found, u, t)
<1>1. n \in Nat /\ DOMAIN found = 1 .. n /\ \A i \in 1 .. n : found[i] \in CrawledPages
  OBVIOUS
<1>2. g = [i \in 1 .. n |-> IF found[i].url = u
             THEN [found[i] EXCEPT !.title = t, !.description = t] ELSE found[i]]
  BY <1>1 DEF Enriched
<1> HIDE DEF n, g
<1>3. ASSUME NEW i \in 1 .. n
      PROVE  g[i] \in CrawledPages /\ g[i].url = found[i].url /\ g[i].body = found[i].body
  <2>1. g[i] = IF found[i].url = u THEN [found[i] EXCEPT !.title = t, !.description = t] ELSE found[i]
    BY <1>2
  <2>2. found[i] \in CrawledPages
    BY <1>1
  <2> QED BY ONLY <2>1, <2>2, t \in DOMAIN Sentence DEF CrawledPages
<1>4. g \in Seq(CrawledPages) /\ Len(g) = n /\ DOMAIN g = 1 .. n
  <2>1. g \in [1 .. n -> CrawledPages]
    BY <1>2, <1>3
  <2> QED BY <1>1, <2>1, SeqOfFunction
<1>5. \A i \in 1 .. n : IsCandidate(g[i]) <=> IsCandidate(found[i])
  BY <1>3 DEF IsCandidate
<1>6. Contents(g) = Contents(found)
  <2>1. {j \in 1 .. n : IsCandidate(g[j])} = {j \in 1 .. n : IsCandidate(found[j])}
    BY <1>5
  <2> DEFINE J == {j \in 1 .. n : IsCandidate(found[j])}
  <2>2. J \subseteq 1 .. n
    OBVIOUS
  <2> HIDE DEF J
  <2>3. {<<g[i].url, g[i].body>> : i \in J} = {<<found[i].url, found[i].body>> : i \in J}
    BY <1>3, <2>2
  <2> QED BY <1>1, <1>4, <2>1, <2>3 DEF Contents, J
<1> QED BY <1>4, <1>6 DEF g

\* The pages of a crawl, at any time.
LEMMA CrawlTyped == LlmsSpec => [](pages \in Seq(CrawledPages))
<1> DEFINE Inv == pages \in Seq(CrawledPages)
<1>1. LlmsInit => Inv
  BY DEF LlmsInit
<1>2. Inv /\ [LlmsNext]_llmsVars => Inv'
  <2> SUFFICES ASSUME Inv, [LlmsNext]_llmsVars PROVE Inv'
    OBVIOUS
  <2>1. CASE Collect
    <3>1. PICK p \in PageKinds : pages' = Append(pages, p)
      BY <2>1 DEF Collect
    <3>2. p \in CrawledPages
      BY LlmsTxtAssumption DEF CrawledPages
    <3> QED BY <3>1, <3>2
  <2>2. CASE UNCHANGED llmsVars
    BY <2>2 DEF llmsVars
  <2> QED BY <2>1, <2>2 DEF LlmsNext
<1> QED BY <1>1, <1>2, PTL DEF LlmsSpec

\* select's result depends neither on the order in which the racing fetches of a
\* crawl came back, nor rank_pages' on the titles and descriptions a model wrote.
THEOREM IndexKeepsItsOrder == LlmsSpec => []IndexStable
<1>1. ASSUME pages \in Seq(CrawledPages) PROVE IndexOrderFree
  <2> SUFFICES ASSUME NEW i \in 1 .. Len(pages) - 1
               PROVE  select([pages EXCEPT ![i] = pages[i + 1], ![i + 1] = pages[i]]) = select(pages)
    BY DEF IndexOrderFree
  <2> QED BY <1>1, OrderedSwapped, SelectOrdered
<1>2. ASSUME pages \in Seq(CrawledPages) PROVE EnrichmentInvariant
  <2> SUFFICES ASSUME NEW u, NEW t \in DOMAIN Sentence
               PROVE  rank_pages(Enriched(pages, u, t)) = rank_pages(pages)
    BY DEF EnrichmentInvariant, Enriched
  <2> QED BY <1>2, SameContents, RanksAlike
<1>3. pages \in Seq(CrawledPages) => IndexStable
  BY <1>1, <1>2 DEF IndexStable
<1> QED BY <1>3, CrawlTyped, PTL

-----------------------------------------------------------------------------
(* llms.txt: the corpus.                                                    *)

\* The loop of plan_full_txt: its accumulator, its turn.
FullTexts == [used : Int, carried : Seq(DOMAIN UrlTraits), truncated : Int, closed : BOOLEAN]

Carry == [x \in FullTexts \X Entries |-> append_page(x[1], x[2])]

LEMMA SectionSizeType ==
  ASSUME NEW e \in Entries
  PROVE  SectionSize(e) \in Int
<1> DEFINE S == {BodyTraits[e.page.body].size, MAX_PAGE_TEXT}
<1>1. e.page.body \in DOMAIN BodyTraits
  BY DEF Entries, CrawledPages
<1>2. S \subseteq Nat /\ S # {}
  BY <1>1, BodyTyped, LlmsTxtAssumption
<1>3. SectionSize(e) = 1 + Min(S)
  BY DEF SectionSize
<1> HIDE DEF S
<1>4. PICK i \in S : \A j \in S : i <= j
  BY <1>2, LeastNumber
<1>5. Min(S) \in Nat
  BY <1>2, <1>4 DEF Min
<1> QED BY <1>3, <1>5

LEMMA AppendType ==
  ASSUME NEW acc \in FullTexts, NEW e \in Entries
  PROVE  append_page(acc, e) \in FullTexts
<1>1. /\ acc.used \in Int /\ acc.carried \in Seq(DOMAIN UrlTraits) /\ acc.truncated \in Int
      /\ acc.closed \in BOOLEAN /\ e.url \in DOMAIN UrlTraits
  BY DEF FullTexts, Entries
<1>2. SectionSize(e) \in Int /\ NOTICE_RESERVE \in Int
  BY SectionSizeType, LlmsTxtAssumption
<1>3. CASE acc.closed
  BY <1>1, <1>3 DEF append_page, FullTexts
<1>4. CASE ~ acc.closed /\ acc.used + SectionSize(e) > budget_of_pages
  <2>1. append_page(acc, e) = [acc EXCEPT !.closed = TRUE, !.used = acc.used + NOTICE_RESERVE,
                                          !.truncated = acc.truncated + 1]
    BY <1>4 DEF append_page
  <2>2. acc.used + NOTICE_RESERVE \in Int /\ acc.truncated + 1 \in Int
    BY <1>1, <1>2
  <2> QED BY ONLY acc \in FullTexts, <2>1, <2>2 DEF FullTexts
<1>5. CASE ~ acc.closed /\ ~ (acc.used + SectionSize(e) > budget_of_pages)
  <2>1. append_page(acc, e) =
          [acc EXCEPT !.used = acc.used + SectionSize(e), !.carried = Append(acc.carried, e.url),
                      !.truncated = IF Trimmed(e) THEN acc.truncated + 1 ELSE acc.truncated]
    BY <1>5 DEF append_page
  <2>2. Append(acc.carried, e.url) \in Seq(DOMAIN UrlTraits)
    BY <1>1
  <2>3. (IF Trimmed(e) THEN acc.truncated + 1 ELSE acc.truncated) \in Int
    BY <1>1
  <2>4. acc.used + SectionSize(e) \in Int
    BY <1>1, <1>2
  <2> QED BY ONLY acc \in FullTexts, <2>1, <2>2, <2>3, <2>4 DEF FullTexts
<1> QED BY <1>3, <1>4, <1>5

LEMMA CarryType == Carry \in [FullTexts \X Entries -> FullTexts]
<1>1. \A x \in FullTexts \X Entries : x[1] \in FullTexts /\ x[2] \in Entries
  OBVIOUS
<1>2. \A x \in FullTexts \X Entries : append_page(x[1], x[2]) \in FullTexts
  BY <1>1, AppendType
<1> QED BY <1>2 DEF Carry

\* The turns of the loop.
LEMMA Carried ==
  ASSUME NEW s \in Seq(Entries), NEW base \in FullTexts
  PROVE  \E q : /\ Turns(q, FullTexts, Carry, base, s, Len(s))
                /\ q[Len(s)] = FoldLeft(append_page, base, s)
<1> DEFINE n == Len(s)
           rhs(it) == [T \in SUBSET (1 .. n) |-> IF T = {} THEN base
                                               ELSE append_page(it[T \ {Max(T)}], s[Max(T)])]
           it == CHOOSE it : it = rhs(it)
<1>1. n \in Nat /\ DOMAIN s = 1 .. n
  OBVIOUS
<1>2. Holds(s, n, Entries)
  BY <1>1 DEF Holds
<1>3. FoldLeft(append_page, base, s) = it[1 .. n]
  <2>1. FoldLeft(append_page, base, s) =
          LET i == CHOOSE i : i = [T \in SUBSET (DOMAIN s) |-> IF T = {} THEN base
                                     ELSE append_page(i[T \ {Max(T)}], s[Max(T)])] IN i[DOMAIN s]
    BY DEF FoldLeft, MapThenFoldSet
  <2> HIDE DEF n
  <2> QED BY <1>1, <2>1
<1>4. PICK g \in [SUBSET (1 .. n) -> FullTexts] : FoldsAll(g, Carry, base, s, n)
  <2> HIDE DEF n
  <2> QED BY <1>1, <1>2, CarryType, FoldExists
<1>5. \A T \in SUBSET (1 .. n) : T # {} => T \ {Max(T)} \in SUBSET (1 .. n) /\ Max(T) \in 1 .. n
  <2> HIDE DEF n
  <2> QED BY <1>1, LargestIn
<1>6. ASSUME NEW a \in FullTexts, NEW e \in Entries PROVE append_page(a, e) = Carry[<<a, e>>]
  BY <1>6 DEF Carry
<1>7. g = rhs(g)
  <2>1. ASSUME NEW T \in SUBSET (1 .. n)
        PROVE  g[T] = IF T = {} THEN base ELSE append_page(g[T \ {Max(T)}], s[Max(T)])
    <3>1. T = {} => g[T] = base
      BY <1>4 DEF FoldsAll
    <3>2. T # {} => g[T] = Carry[<<g[T \ {Max(T)}], s[Max(T)]>>]
      BY <1>4 DEF FoldsAll
    <3>3. T # {} => g[T \ {Max(T)}] \in FullTexts /\ s[Max(T)] \in Entries
      BY <1>2, <1>5 DEF Holds
    <3>4. T # {} => append_page(g[T \ {Max(T)}], s[Max(T)]) = Carry[<<g[T \ {Max(T)}], s[Max(T)]>>]
      <4> HIDE DEF n
      <4> QED BY <1>6, <3>3
    <3> QED BY <3>1, <3>2, <3>4
  <2>2. g = [T \in SUBSET (1 .. n) |-> g[T]]
    OBVIOUS
  <2> HIDE DEF n
  <2> QED BY <2>1, <2>2
<1>8. it = rhs(it)
  <2> HIDE DEF rhs
  <2> QED BY <1>7
<1> HIDE DEF it
<1>9. Follows(it, FullTexts, Carry, base, s, n)
  <2> SUFFICES ASSUME NEW T \in SUBSET (1 .. n)
               PROVE  /\ T = {} => it[T] = base
                      /\ T # {} /\ it[T \ {Max(T)}] \in FullTexts =>
                           it[T] = Carry[<<it[T \ {Max(T)}], s[Max(T)]>>]
    BY DEF Follows
  <2>1. it[T] = IF T = {} THEN base ELSE append_page(it[T \ {Max(T)}], s[Max(T)])
    <3> HIDE DEF n
    <3> QED BY <1>8
  <2>2. T # {} => s[Max(T)] \in Entries
    BY <1>2, <1>5 DEF Holds
  <2> HIDE DEF n
  <2> QED BY <1>6, <2>1, <2>2
<1>10. Turns(ByTurns(it, n), FullTexts, Carry, base, s, n)
  <2> HIDE DEF n
  <2> QED BY <1>1, <1>2, <1>9, CarryType, FollowedTurns
<1>11. ByTurns(it, n)[n] = it[1 .. n]
  BY <1>1 DEF ByTurns
<1> QED BY <1>3, <1>10, <1>11

\* How many of the first m entries are cut to MAX_PAGE_TEXT.
TrimmedOf(s, m) == {i \in 1 .. m : Trimmed(s[i])}

\* One entry more may be one trimmed entry more.
LEMMA OneMoreTrimmed ==
  ASSUME NEW s, NEW k \in Nat \ {0}
  PROVE  /\ Cardinality(TrimmedOf(s, k - 1)) \in Nat
         /\ Cardinality(TrimmedOf(s, k)) = IF Trimmed(s[k]) THEN Cardinality(TrimmedOf(s, k - 1)) + 1
                                           ELSE Cardinality(TrimmedOf(s, k - 1))
<1> DEFINE A == TrimmedOf(s, k - 1)
           B == TrimmedOf(s, k)
<1>1. IsFiniteSet(A)
  <2>1. IsFiniteSet(1 .. k - 1) /\ A \subseteq 1 .. k - 1
    BY FS_Interval DEF TrimmedOf
  <2> HIDE DEF A
  <2> QED BY <2>1, FS_Subset
<1>2. Trimmed(s[k]) => B = A \cup {k} /\ k \notin A
  BY DEF TrimmedOf
<1>3. ~ Trimmed(s[k]) => B = A
  BY DEF TrimmedOf
<1> HIDE DEF A, B
<1>4. k \notin A => Cardinality(A \cup {k}) = Cardinality(A) + 1
  BY <1>1, FS_AddElement
<1>5. Cardinality(A) \in Nat
  BY <1>1, FS_CardinalityType
<1>6. Cardinality(B) = IF Trimmed(s[k]) THEN Cardinality(A) + 1 ELSE Cardinality(A)
  BY <1>2, <1>3, <1>4
<1> QED BY <1>5, <1>6 DEF A, B

\* What holds of the corpus after k turns: every page it does not carry is counted,
\* and each of those it carries that is cut.
Booked(s, k, a) ==
  /\ Len(a.carried) <= k
  /\ a.truncated = k - Len(a.carried) + Cardinality(TrimmedOf(s, Len(a.carried)))
  /\ ~ a.closed => Len(a.carried) = k /\ a.used <= budget_of_pages
  /\ a.closed => a.used <= MAX_FULL_TEXT

\* A turn keeps the books.
LEMMA AppendBooks ==
  ASSUME NEW s \in Seq(Entries), NEW k \in 1 .. Len(s), NEW a \in FullTexts, Booked(s, k - 1, a)
  PROVE  Booked(s, k, append_page(a, s[k]))
<1> DEFINE e == s[k]
           c == Len(a.carried)
           z == SectionSize(e)
           T(m) == Cardinality(TrimmedOf(s, m))
<1>1. /\ e \in Entries /\ k \in Nat \ {0} /\ a.used \in Int /\ a.carried \in Seq(DOMAIN UrlTraits)
      /\ a.truncated \in Int /\ a.closed \in BOOLEAN /\ c \in Nat /\ e.url \in DOMAIN UrlTraits
      /\ a = [used |-> a.used, carried |-> a.carried, truncated |-> a.truncated, closed |-> a.closed]
  <2>1. e \in Entries /\ k \in Nat \ {0}
    OBVIOUS
  <2>2. /\ a.used \in Int /\ a.carried \in Seq(DOMAIN UrlTraits)
        /\ a.truncated \in Int /\ a.closed \in BOOLEAN
        /\ a = [used |-> a.used, carried |-> a.carried, truncated |-> a.truncated, closed |-> a.closed]
    BY ONLY a \in FullTexts DEF FullTexts
  <2>3. e.url \in DOMAIN UrlTraits
    BY ONLY <2>1 DEF Entries
  <2>4. c \in Nat
    BY ONLY <2>2
  <2> QED BY ONLY <2>1, <2>2, <2>3, <2>4
<1>2. /\ z \in Int /\ NOTICE_RESERVE \in Nat /\ MAX_FULL_TEXT \in Nat
      /\ budget_of_pages = MAX_FULL_TEXT - NOTICE_RESERVE
  BY <1>1, SectionSizeType, LlmsTxtAssumption DEF budget_of_pages
<1>3. T(k - 1) \in Nat /\ T(k) = IF Trimmed(e) THEN T(k - 1) + 1 ELSE T(k - 1)
  BY <1>1, OneMoreTrimmed
<1>4. T(c) \in Nat
  <2> DEFINE x == c + 1
  <2>1. x \in Nat \ {0} /\ x - 1 = c
    BY <1>1
  <2> HIDE DEF c, x
  <2>2. Cardinality(TrimmedOf(s, x - 1)) \in Nat
    BY ONLY <2>1, OneMoreTrimmed
  <2> QED BY ONLY <2>1, <2>2
<1>5. /\ c <= k - 1 /\ a.truncated = (k - 1) - c + T(c)
      /\ ~ a.closed => c = k - 1 /\ a.used <= budget_of_pages
      /\ a.closed => a.used <= MAX_FULL_TEXT
  BY DEF Booked
<1> DEFINE b == append_page(a, e)
<1>6. CASE a.closed
  <2>1. b = [a EXCEPT !.truncated = a.truncated + 1]
    BY <1>6 DEF append_page
  <2>2. b.carried = a.carried /\ b.closed = a.closed /\ b.used = a.used /\ b.truncated = a.truncated + 1
    BY <1>1, <2>1
  <2> HIDE DEF b, T, e
  <2>3. Booked(s, k, b)
    BY <1>1, <1>4, <1>5, <1>6, <2>2 DEF Booked, T
  <2> QED BY <2>3 DEF b, e
<1>7. CASE ~ a.closed /\ a.used + z > budget_of_pages
  <2>1. b = [a EXCEPT !.closed = TRUE, !.used = a.used + NOTICE_RESERVE, !.truncated = a.truncated + 1]
    BY <1>7 DEF append_page
  <2>2. /\ b.carried = a.carried /\ b.closed = TRUE /\ b.used = a.used + NOTICE_RESERVE
        /\ b.truncated = a.truncated + 1
    BY <1>1, <2>1
  <2> HIDE DEF b, T, e
  <2>3. b.used <= MAX_FULL_TEXT
    BY <1>1, <1>2, <1>5, <1>7, <2>2
  <2>5. b.truncated = k - c + T(c) /\ c <= k
    <3> DEFINE t == T(c)
    <3>1. t \in Nat /\ a.truncated = (k - 1) - c + t
      BY <1>4, <1>5
    <3> DEFINE x == a.truncated
               y == b.truncated
    <3>2. x = (k - 1) - c + t /\ y = x + 1 /\ c \in Nat /\ k \in Nat /\ t \in Nat /\ c <= k - 1
      BY <1>1, <1>5, <2>2, <3>1
    <3> HIDE DEF t, c, x, y
    <3>3. y = k - c + t /\ c <= k
      BY ONLY <3>2
    <3> QED BY <3>3 DEF t, y
  <2>4. Booked(s, k, b)
    BY <2>2, <2>3, <2>5 DEF Booked, T
  <2> QED BY <2>4 DEF b, e
<1>8. CASE ~ a.closed /\ ~ (a.used + z > budget_of_pages)
  <2>1. b = [a EXCEPT !.used = a.used + z, !.carried = Append(a.carried, e.url),
                      !.truncated = IF Trimmed(e) THEN a.truncated + 1 ELSE a.truncated]
    BY <1>8 DEF append_page
  <2>2. /\ b.carried = Append(a.carried, e.url) /\ b.closed = a.closed /\ b.used = a.used + z
        /\ b.truncated = IF Trimmed(e) THEN a.truncated + 1 ELSE a.truncated
    BY <1>1, <2>1
  <2>3. Len(b.carried) = k
    BY <1>1, <1>5, <1>8, <2>2
  <2> HIDE DEF b, z
  <2>4. b.used <= budget_of_pages
    BY <1>1, <1>2, <1>8, <2>2
  <2>5. b.truncated = T(k)
    <3>1. c = k - 1 /\ a.truncated = T(c)
      BY <1>1, <1>4, <1>5, <1>8
    <3> HIDE DEF T, e, c
    <3>2. a.truncated = T(k - 1)
      BY <3>1
    <3> QED BY <1>3, <2>2, <3>2
  <2>6. T(k) \in Nat
    BY <1>3
  <2> HIDE DEF e
  <2>7. Booked(s, k, b)
    <3> SUFFICES b.truncated = k - k + T(k)
      BY <1>1, <1>8, <2>2, <2>3, <2>4 DEF Booked
    <3> HIDE DEF T
    <3> QED BY <1>1, <2>5, <2>6
  <2> QED BY <2>7 DEF b, e
<1> QED BY <1>6, <1>7, <1>8

\* The whole corpus is booked.
LEMMA CorpusBooked ==
  ASSUME NEW selected, selected.entries \in Seq(Entries)
  PROVE  /\ Booked(selected.entries, Len(selected.entries), plan_full_txt(selected))
         /\ plan_full_txt(selected) \in FullTexts
<1> DEFINE s == selected.entries
           n == Len(s)
           base == [used |-> HEADER, carried |-> <<>>, truncated |-> 0, closed |-> FALSE]
           J == {x \in Nat \X FullTexts : Booked(s, x[1], x[2])}
<1>1. base \in FullTexts
  BY LlmsTxtAssumption DEF FullTexts
<1>2. Booked(s, 0, base)
  <2>1. HEADER <= budget_of_pages
    BY LlmsTxtAssumption DEF budget_of_pages
  <2>2. TrimmedOf(s, 0) = {}
    BY DEF TrimmedOf
  <2>3. Cardinality(TrimmedOf(s, 0)) = 0
    BY <2>2, FS_EmptySet
  <2> QED BY <2>1, <2>3 DEF Booked
<1>3. plan_full_txt(selected) = FoldLeft(append_page, base, s)
  BY DEF plan_full_txt
<1> HIDE DEF base
<1>4. PICK q : Turns(q, FullTexts, Carry, base, s, n) /\ q[n] = FoldLeft(append_page, base, s)
  BY <1>1, Carried
<1>5. s \in Seq(Entries) /\ n \in Nat /\ \A k \in 1 .. n : s[k] \in Entries
  OBVIOUS
<1> HIDE DEF s
<1>6. /\ q[0] = base /\ \A k \in 0 .. n : q[k] \in FullTexts
      /\ \A k \in 1 .. n : q[k] = Carry[<<q[k - 1], s[k]>>]
  BY <1>4 DEF Turns
<1>7. \A k \in Nat, a \in FullTexts : <<k, a>> \in J <=> Booked(s, k, a)
  OBVIOUS
<1> HIDE DEF J
<1>8. <<0, q[0]>> \in J
  BY <1>1, <1>2, <1>6, <1>7
<1>9. ASSUME NEW k \in 1 .. n, <<k - 1, q[k - 1]>> \in J PROVE <<k, q[k]>> \in J
  <2>1. k - 1 \in 0 .. n /\ k \in 0 .. n /\ k - 1 \in Nat /\ k \in Nat
    BY <1>5
  <2>2. q[k - 1] \in FullTexts /\ q[k] \in FullTexts /\ s[k] \in Entries
    BY <1>5, <1>6, <2>1
  <2>3. q[k] = append_page(q[k - 1], s[k])
    BY <1>6, <2>2 DEF Carry
  <2>4. Booked(s, k - 1, q[k - 1])
    BY <1>7, <1>9, <2>1, <2>2
  <2>5. Booked(s, k, append_page(q[k - 1], s[k]))
    BY <1>5, <2>2, <2>4, AppendBooks
  <2> QED BY <1>7, <2>1, <2>2, <2>3, <2>5
<1>10. <<n, q[n]>> \in J /\ n \in 0 .. n
  <2> HIDE DEF n
  <2>1. n \in 0 .. n
    BY <1>5
  <2>2. \A k \in 0 .. n : <<k, q[k]>> \in J
    BY <1>5, <1>8, <1>9, LoopKeeps
  <2> QED BY <2>1, <2>2
<1>11. Booked(s, n, q[n]) /\ q[n] \in FullTexts
  BY <1>5, <1>6, <1>7, <1>10
<1> QED BY <1>3, <1>4, <1>11 DEF s

\* The counts a run records beside its index: of the candidates of _candidates each is
\* listed or a duplicate, and of the entries each that _plan_full_txt does not carry
\* whole is counted as truncated, in a corpus that keeps to its budget.
THEOREM PagesAddUp == LlmsSpec => []PagesAccounted
<1>1. ASSUME pages \in Seq(CrawledPages) PROVE PagesAccounted
  <2> DEFINE S == select(pages)
             d == SurvivorsOf(pages)
             e == S.entries
             full == plan_full_txt(S)
             m == {i \in DOMAIN e : e[i].section # OPTIONAL_SECTION}
             C == {i \in DOMAIN pages : IsCandidate(pages[i])}
  <2>1. /\ d \in Seq(Listables) /\ S.duplicate = Len(candidates_of(pages)) - Len(d)
        /\ \E b, s : e = ordered_entries(Settled(d), b, s)
    BY <1>1, ListingIs
  <2>2. Len(candidates_of(pages)) = Cardinality(C) /\ Len(candidates_of(pages)) \in Nat
    <3> DEFINE cs == candidates_of(pages)
    <3>1. cs \in Seq(Sourced) /\ Len(cs) = Cardinality(C)
      BY <1>1, CandidatesAre
    <3> HIDE DEF cs, C
    <3> QED BY <3>1 DEF cs
  <2> HIDE DEF S, d, C
  <2>3. e \in Seq(Entries) /\ Len(e) = Len(d)
    <3>1. PICK b, s : e = ordered_entries(Settled(d), b, s)
      BY <2>1
    <3>2. Settled(d) \in Splits /\ Len(Settled(d).main) + Len(Settled(d).optional) = Len(d)
      BY <2>1, SettledIs
    <3> HIDE DEF e
    <3> QED BY <3>1, <3>2, EntriesAre DEF EntriesAs
  <2>4. IsFiniteSet(m) /\ Cardinality(m) \in Nat
    <3>1. DOMAIN e = 1 .. Len(e) /\ Len(e) \in Nat
      BY <2>3
    <3>2. IsFiniteSet(1 .. Len(e)) /\ m \subseteq 1 .. Len(e)
      BY <3>1, FS_Interval
    <3> HIDE DEF m
    <3> QED BY <3>2, FS_Subset, FS_CardinalityType
  <2>5. Booked(e, Len(e), full) /\ full \in FullTexts
    BY <2>3, CorpusBooked
  <2>6. full.used <= MAX_FULL_TEXT
    <3>1. full.used \in Int /\ full.closed \in BOOLEAN
      BY <2>5 DEF FullTexts
    <3>2. full.used <= budget_of_pages \/ full.used <= MAX_FULL_TEXT
      BY <2>5, <3>1 DEF Booked
    <3> HIDE DEF full
    <3> QED BY <3>1, <3>2, LlmsTxtAssumption DEF budget_of_pages
  <2>7. full.truncated = Len(e) - Len(full.carried)
                         + Cardinality({i \in DOMAIN full.carried : Trimmed(e[i])})
    <3>1. full.carried \in Seq(DOMAIN UrlTraits)
      BY <2>5 DEF FullTexts
    <3>2. DOMAIN full.carried = 1 .. Len(full.carried)
      BY <3>1
    <3> HIDE DEF full
    <3> QED BY <2>5, <3>2 DEF Booked, TrimmedOf
  <2>8. count_indexed_pages(S) = [main |-> Cardinality(m), optional |-> Len(e) - Cardinality(m),
                                  duplicate |-> S.duplicate]
    BY DEF count_indexed_pages
  <2>9. LET counts == count_indexed_pages(S) IN
        counts.main + counts.optional + counts.duplicate = Cardinality(C)
    <3> DEFINE x == Cardinality(m)
               y == Len(d)
               z == Len(candidates_of(pages))
    <3>1. x \in Nat /\ y \in Nat /\ z \in Nat /\ z = Cardinality(C) /\ Len(e) = y /\ S.duplicate = z - y
      BY <2>1, <2>2, <2>3, <2>4
    <3> HIDE DEF x, y, z, e
    <3> QED BY <2>8, <3>1 DEF x
  <2>10. Accounted(S, count_indexed_pages(S), full)
    <3> HIDE DEF full
    <3> QED BY <2>6, <2>7, <2>9 DEF Accounted, C
  <2> QED BY <2>10 DEF PagesAccounted, CountsAgree, S
<1> QED BY <1>1, CrawlTyped, PTL

-----------------------------------------------------------------------------
(* llms.txt: the main body.                                                 *)

\* As many of those that fit as there is room for.
LEMMA MainCount ==
  ASSUME NEW s \in Seq(Listables)
  PROVE  /\ Cardinality(MainPlaces(s)) \in Nat /\ Cardinality(MainPlaces(s)) <= MAX_MAIN_BODY_LINKS
         /\ \A i \in FitPlaces(s) : i \notin MainPlaces(s) =>
              /\ Cardinality(MainPlaces(s)) = MAX_MAIN_BODY_LINKS
              /\ \A k \in MainPlaces(s) : k < i
<1> DEFINE L == FitPlaces(s)
           M == MainPlaces(s)
           n == Cardinality(L)
           K == {x \in 1 .. n : x <= MAX_MAIN_BODY_LINKS}
           g == [i \in M |-> PlaceIn(L, i)]
<1>1. MAX_MAIN_BODY_LINKS \in Nat /\ Len(s) \in Nat /\ DOMAIN s = 1 .. Len(s)
  BY LlmsTxtAssumption
<1>2. IsFiniteSet(L) /\ L \subseteq Nat
  <2>1. IsFiniteSet(1 .. Len(s)) /\ L \subseteq 1 .. Len(s)
    BY <1>1, FS_Interval DEF FitPlaces
  <2> HIDE DEF L
  <2>2. IsFiniteSet(L)
    BY <2>1, FS_Subset
  <2>3. L \subseteq Nat
    BY <1>1, <2>1
  <2> QED BY <2>2, <2>3
<1>3. M = {i \in L : Cardinality({j \in L : j < i}) < MAX_MAIN_BODY_LINKS}
  BY DEF MainPlaces
<1> HIDE DEF L, M
<1>4. /\ \A i \in L : PlaceIn(L, i) \in 1 .. n
      /\ \A i, j \in L : PlaceIn(L, i) = PlaceIn(L, j) => i = j
      /\ \A x \in 1 .. n : \E i \in L : PlaceIn(L, i) = x
  BY <1>2, Placed
<1>5. n \in Nat
  BY <1>2, FS_CardinalityType
<1>6. ASSUME NEW i \in L
      PROVE  /\ PlaceIn(L, i) = Cardinality({j \in L : j < i}) + 1
             /\ Cardinality({j \in L : j < i}) \in Nat
  <2>1. PlaceIn(L, i) = Cardinality({j \in L : j < i}) + 1
    BY DEF PlaceIn
  <2>2. IsFiniteSet({j \in L : j < i})
    BY <1>2, FS_Subset
  <2> QED BY <2>1, <2>2, FS_CardinalityType
<1>7. \A i \in L : i \in M <=> PlaceIn(L, i) <= MAX_MAIN_BODY_LINKS
  <2> SUFFICES ASSUME NEW i \in L PROVE i \in M <=> PlaceIn(L, i) <= MAX_MAIN_BODY_LINKS
    OBVIOUS
  <2> DEFINE c == Cardinality({j \in L : j < i})
  <2>1. PlaceIn(L, i) = c + 1 /\ c \in Nat /\ (i \in M <=> c < MAX_MAIN_BODY_LINKS)
    BY <1>3, <1>6
  <2> HIDE DEF c
  <2> QED BY <1>1, <2>1
<1>8. M \subseteq L /\ IsFiniteSet(M)
  BY <1>2, <1>3, FS_Subset
<1>9. Cardinality(M) = Cardinality(K)
  <2>1. \A i \in M : g[i] \in K /\ g[i] = PlaceIn(L, i)
    BY <1>4, <1>7, <1>8
  <2>2. \A x \in K : \E i \in M : g[i] = x
    <3> SUFFICES ASSUME NEW x \in 1 .. n, x <= MAX_MAIN_BODY_LINKS PROVE \E i \in M : g[i] = x
      OBVIOUS
    <3>1. PICK i \in L : PlaceIn(L, i) = x
      BY <1>4
    <3> QED BY <1>7, <3>1
  <2>3. \A i, j \in M : g[i] = g[j] => i = j
    BY <1>4, <1>8
  <2>4. g \in [M -> K]
    BY <2>1
  <2> HIDE DEF g, K
  <2> QED BY <1>8, <2>2, <2>3, <2>4, PairedOff
<1>10. n <= MAX_MAIN_BODY_LINKS => K = 1 .. n
  BY <1>1, <1>5
<1>11. MAX_MAIN_BODY_LINKS <= n => K = 1 .. MAX_MAIN_BODY_LINKS
  BY <1>1, <1>5
<1> HIDE DEF K, n
<1>12. Cardinality(1 .. n) = n /\ Cardinality(1 .. MAX_MAIN_BODY_LINKS) = MAX_MAIN_BODY_LINKS
  <2> DEFINE x == MAX_MAIN_BODY_LINKS
  <2>1. n \in Nat /\ x \in Nat
    BY <1>1, <1>5
  <2> HIDE DEF x
  <2>2. Cardinality(1 .. n) = n
    BY ONLY <2>1, FS_Interval
  <2>3. Cardinality(1 .. x) = x
    BY ONLY <2>1, FS_Interval
  <2> QED BY <2>2, <2>3 DEF x
<1>13. /\ Cardinality(M) \in Nat /\ Cardinality(M) <= MAX_MAIN_BODY_LINKS
       /\ MAX_MAIN_BODY_LINKS <= n => Cardinality(M) = MAX_MAIN_BODY_LINKS
  BY <1>1, <1>5, <1>9, <1>10, <1>11, <1>12
<1>14. ASSUME NEW i \in L, i \notin M PROVE MAX_MAIN_BODY_LINKS <= n
  BY <1>1, <1>4, <1>5, <1>7, <1>14
<1>15. ASSUME NEW i \in L, i \notin M, NEW k \in M PROVE k < i
  <2> SUFFICES ASSUME ~ (k < i) PROVE FALSE
    OBVIOUS
  <2> DEFINE A == {j \in L : j < i}
             B == {j \in L : j < k}
  <2>1. k \in L /\ k \in Nat /\ i \in Nat
    BY <1>2, <1>8
  <2>2. A \subseteq B
    <3> SUFFICES ASSUME NEW j \in L, j < i PROVE j < k
      OBVIOUS
    <3>1. j \in Nat
      BY <1>2
    <3> QED BY <2>1, <3>1
  <2>3. IsFiniteSet(B)
    BY <1>2, FS_Subset
  <2>4. Cardinality(A) <= Cardinality(B) /\ Cardinality(B) < MAX_MAIN_BODY_LINKS
    <3>1. Cardinality(B) < MAX_MAIN_BODY_LINKS
      BY <1>3
    <3> HIDE DEF A, B
    <3> QED BY <2>2, <2>3, <3>1, FS_Subset
  <2>5. Cardinality(A) \in Nat /\ Cardinality(B) \in Nat /\ ~ (Cardinality(A) < MAX_MAIN_BODY_LINKS)
    BY <1>3, <1>6, <1>15, <2>1
  <2> HIDE DEF A, B
  <2> QED BY <1>1, <2>4, <2>5
<1> QED BY <1>13, <1>14, <1>15 DEF L, M

\* The main body is from the places of D, the rest from the others.
DividedAt(p, s, D) ==
  /\ \A i \in 1 .. Len(p.main) : \E k \in D : p.main[i] = s[k]
  /\ \A i \in 1 .. Len(p.optional) : \E k \in (1 .. Len(s)) \ D : p.optional[i] = s[k]

\* What is divided by places stays what it was.
LEMMA SplitAtHas ==
  ASSUME NEW s \in Seq(Listables), NEW D, D \subseteq 1 .. Len(s)
  PROVE  DividedAt(SplitAt(s, D), s, D)
<1>1. ASSUME NEW G, G \subseteq 1 .. Len(s)
      PROVE  \A i \in 1 .. Len(Where(s, G)) : \E k \in G : Where(s, G)[i] = s[k]
  <2>1. PICK o : WhereAs(Where(s, G), s, o, G, Cardinality(G))
    BY <1>1, WhereMade
  <2> QED BY <2>1 DEF WhereAs
<1>2. /\ SplitAt(s, D).main = Where(s, D) /\ SplitAt(s, D).optional = Where(s, (1 .. Len(s)) \ D)
  <2>1. DOMAIN s = 1 .. Len(s)
    OBVIOUS
  <2> QED BY <2>1 DEF SplitAt
<1> DEFINE F == (1 .. Len(s)) \ D
<1>3. F \subseteq 1 .. Len(s)
  OBVIOUS
<1>4. \A i \in 1 .. Len(Where(s, F)) : \E k \in F : Where(s, F)[i] = s[k]
  <2> HIDE DEF F
  <2> QED BY ONLY <1>1, <1>3
<1>5. \A i \in 1 .. Len(Where(s, D)) : \E k \in D : Where(s, D)[i] = s[k]
  BY <1>1
<1>6. SplitAt(s, D).optional = Where(s, F)
  BY <1>2
<1>7. /\ \A i \in 1 .. Len(SplitAt(s, D).main) : \E k \in D : SplitAt(s, D).main[i] = s[k]
      /\ \A i \in 1 .. Len(SplitAt(s, D).optional) : \E k \in F : SplitAt(s, D).optional[i] = s[k]
  <2> HIDE DEF F
  <2> QED BY <1>2, <1>4, <1>5, <1>6
<1> QED BY <1>7 DEF DividedAt

\* What is left to Optional is always optional, or no better than a full main body.
Outranked(p) ==
  \A i \in 1 .. Len(p.optional) : p.optional[i].optional \/
    /\ Len(p.main) = MAX_MAIN_BODY_LINKS
    /\ \A j \in 1 .. Len(p.main) : p.main[j].score >= p.optional[i].score

\* A split that says of candidates what WellSplit says of entries.
AllForced(cs) == \A i \in 1 .. Len(cs) : cs[i].optional

Balanced(p) ==
  /\ p.main = <<>> => p.optional = <<>>
  /\ Len(p.main) <= MAX_MAIN_BODY_LINKS
  /\ (\E i \in 1 .. Len(p.main) : p.main[i].optional) => AllForced(p.main) /\ AllForced(p.optional)
  /\ Outranked(p)

\* partition makes a balanced split, the next stages keep it balanced.
LEMMA PartitionBalanced ==
  ASSUME NEW d \in Seq(Listables)
  PROVE  LET p == partition(d) IN
         /\ p \in Splits /\ Len(p.main) <= MAX_MAIN_BODY_LINKS
         /\ \A i \in 1 .. Len(p.main) : ~ p.main[i].optional
         /\ Outranked(p)
<1> DEFINE s == by_score(d)
           M == MainPlaces(s)
           p == partition(d)
<1>1. p = SplitAt(s, M) /\ M \subseteq 1 .. Len(s) /\ s \in Seq(Listables) /\ Len(s) = Len(d) /\ p \in Splits
  BY PartitionIs
<1>2. \A i, j \in 1 .. Len(s) : i < j => s[i].score >= s[j].score
  BY <1>1, FallingScores
<1> HIDE DEF s, p
<1>3. /\ Len(p.main) = Cardinality(M)
      /\ \A i \in 1 .. Len(p.main) : \E k \in M : p.main[i] = s[k]
      /\ \A i \in 1 .. Len(p.optional) : \E k \in (1 .. Len(s)) \ M : p.optional[i] = s[k]
  <2> HIDE DEF M
  <2>1. s \in Seq(Listables) /\ M \subseteq 1 .. Len(s)
    BY <1>1
  <2>2. Len(SplitAt(s, M).main) = Cardinality(M)
    BY ONLY <2>1, SplitAtIs
  <2>3. DividedAt(SplitAt(s, M), s, M)
    BY ONLY <2>1, SplitAtHas
  <2> QED BY <1>1, <2>2, <2>3 DEF DividedAt
<1>4. /\ M \subseteq FitPlaces(s) /\ \A k \in FitPlaces(s) : ~ s[k].optional
      /\ \A k \in 1 .. Len(s) : s[k].optional \/ k \in FitPlaces(s)
  BY <1>1 DEF MainPlaces, FitPlaces
<1>5. /\ Cardinality(M) <= MAX_MAIN_BODY_LINKS
      /\ \A i \in FitPlaces(s) : i \notin M =>
           Cardinality(M) = MAX_MAIN_BODY_LINKS /\ \A k \in M : k < i
  BY <1>1, MainCount
<1> HIDE DEF M
<1>6. Outranked(p)
  <2> SUFFICES ASSUME NEW i \in 1 .. Len(p.optional), ~ p.optional[i].optional
               PROVE  /\ Len(p.main) = MAX_MAIN_BODY_LINKS
                      /\ \A j \in 1 .. Len(p.main) : p.main[j].score >= p.optional[i].score
    BY DEF Outranked
  <2>1. PICK k \in (1 .. Len(s)) \ M : p.optional[i] = s[k]
    BY <1>3
  <2>2. k \in FitPlaces(s) /\ k \notin M
    BY <1>4, <2>1
  <2>3. Cardinality(M) = MAX_MAIN_BODY_LINKS /\ \A x \in M : x < k
    BY <1>5, <2>2
  <2>4. ASSUME NEW j \in 1 .. Len(p.main) PROVE p.main[j].score >= p.optional[i].score
    <3>1. PICK x \in M : p.main[j] = s[x]
      BY <1>3
    <3>2. x < k /\ x \in 1 .. Len(s)
      BY <1>1, <2>3
    <3> QED BY <1>2, <2>1, <3>1, <3>2
  <2> QED BY <1>3, <2>3, <2>4
<1> QED BY <1>1, <1>3, <1>4, <1>5, <1>6 DEF p

LEMMA EnsureBalanced ==
  ASSUME NEW d \in Seq(Listables)
  PROVE  Balanced(ensure_non_empty_main(partition(d)))
<1> DEFINE p == partition(d)
           q == ensure_non_empty_main(p)
<1>1. /\ p \in Splits /\ Len(p.main) <= MAX_MAIN_BODY_LINKS /\ Outranked(p)
      /\ \A i \in 1 .. Len(p.main) : ~ p.main[i].optional
  BY PartitionBalanced
<1> HIDE DEF p
<1>2. CASE p.main # <<>>
  <2>1. q = p
    BY <1>1, <1>2, EnsureIs
  <2> QED BY <1>1, <1>2, <2>1 DEF Balanced, p
<1>3. CASE p.main = <<>>
  <2> DEFINE s == p.optional
             D == Promoted(s)
  <2>1. q = SplitAt(s, D)
    BY <1>1, <1>3, EnsureIs
  <2>2. s \in Seq(Listables) /\ Len(s) \in Nat /\ DOMAIN s = 1 .. Len(s)
    BY <1>1 DEF Splits
  <2>3. MAX_MAIN_BODY_LINKS \in Nat \ {0}
    BY LlmsTxtAssumption
  <2>4. \A i \in 1 .. Len(s) : s[i].optional
    <3>1. Len(p.main) = 0
      BY <1>3
    <3> QED BY <1>1, <2>3, <3>1 DEF Outranked
  <2> HIDE DEF q, s
  <2>5. D \subseteq 1 .. Len(s) /\ D \subseteq 1 .. MAX_MAIN_BODY_LINKS /\ (Len(s) # 0 => 1 \in D)
    BY <2>2, <2>3 DEF Promoted
  <2>6. IsFiniteSet(D) /\ Cardinality(D) \in Nat /\ Cardinality(D) <= MAX_MAIN_BODY_LINKS
    <3>1. IsFiniteSet(1 .. MAX_MAIN_BODY_LINKS) /\ Cardinality(1 .. MAX_MAIN_BODY_LINKS) = MAX_MAIN_BODY_LINKS
      BY <2>3, FS_Interval
    <3> HIDE DEF D
    <3>2. IsFiniteSet(D) /\ Cardinality(D) <= Cardinality(1 .. MAX_MAIN_BODY_LINKS)
      BY <2>5, <3>1, FS_Subset
    <3> QED BY <3>1, <3>2, FS_CardinalityType
  <2> HIDE DEF D
  <2>7. /\ q \in Splits /\ Len(q.main) = Cardinality(D)
        /\ Len(q.main) + Len(q.optional) = Len(s)
        /\ \A i \in 1 .. Len(q.main) : \E k \in D : q.main[i] = s[k]
        /\ \A i \in 1 .. Len(q.optional) : \E k \in (1 .. Len(s)) \ D : q.optional[i] = s[k]
    <3>1. s \in Seq(Listables) /\ D \subseteq 1 .. Len(s)
      BY <2>2, <2>5
    <3>2. /\ SplitAt(s, D) \in Splits /\ Len(SplitAt(s, D).main) = Cardinality(D)
          /\ Len(SplitAt(s, D).main) + Len(SplitAt(s, D).optional) = Len(s)
      BY ONLY <3>1, SplitAtIs
    <3>3. DividedAt(SplitAt(s, D), s, D)
      BY ONLY <3>1, SplitAtHas
    <3> QED BY <2>1, <3>2, <3>3 DEF DividedAt
  <2>8. AllForced(q.main) /\ AllForced(q.optional)
    BY <2>4, <2>5, <2>7 DEF AllForced
  <2>9. q.main = <<>> => q.optional = <<>>
    <3> SUFFICES ASSUME q.main = <<>> PROVE q.optional = <<>>
      OBVIOUS
    <3>1. D = {}
      BY <2>6, <2>7, FS_EmptySet
    <3>2. Len(s) = 0
      BY <2>5, <3>1
    <3>3. q.optional \in Seq(Listables) /\ Len(q.optional) = 0
      BY <2>2, <2>7, <3>2 DEF Splits
    <3> QED BY <3>3
  <2>10. Outranked(q)
    BY <2>8 DEF Outranked, AllForced
  <2>11. Balanced(q)
    BY <2>6, <2>7, <2>8, <2>9, <2>10 DEF Balanced
  <2> QED BY <2>11 DEF q, p
<1> QED BY <1>2, <1>3

LEMMA SettledBalanced ==
  ASSUME NEW d \in Seq(Listables)
  PROVE  Balanced(Settled(d))
<1> DEFINE q == ensure_non_empty_main(partition(d))
           r == consolidate(q)
<1>1. q \in Splits /\ Balanced(q)
  BY SettledIs, EnsureBalanced
<1> HIDE DEF q
<1>2. /\ r.optional = q.optional /\ Len(r.main) = Len(q.main) /\ r \in Splits
      /\ \A i \in 1 .. Len(q.main) :
           r.main[i].score = q.main[i].score /\ r.main[i].optional = q.main[i].optional
  BY <1>1, ConsolidateIs
<1> HIDE DEF r
<1>3. r.main = <<>> => q.main = <<>>
  <2>1. r.main = <<>> => Len(q.main) = 0
    BY <1>2
  <2> QED BY <1>1, <2>1 DEF Splits
<1>4. Balanced(r)
  BY <1>1, <1>2, <1>3 DEF Balanced, AllForced, Outranked
<1> QED BY <1>4 DEF r, q, Settled

-----------------------------------------------------------------------------
(* llms.txt: the headings.                                                  *)

\* Sorting leaves each section its size.
LEMMA SizesKept ==
  ASSUME NEW cs \in Seq(Listables), NEW s
  PROVE  Cardinality(UnderSection(by_section(cs), s)) = Cardinality(UnderSection(cs, s))
<1> DEFINE t == by_section(cs)
           o == Sorted(SectionKeys(cs))
           n == Len(cs)
           A == UnderSection(t, s)
           B == UnderSection(cs, s)
           g == [k \in A |-> o[k]]
<1>1. SortedAs(t, cs, o, SectionKeys(cs), n)
  BY SortedStages
<1> HIDE DEF t, o
<1>2. DOMAIN cs = 1 .. n /\ n \in Nat
  OBVIOUS
<1> HIDE DEF n
<1>3. /\ DOMAIN t = 1 .. n
      /\ \A k \in 1 .. n : o[k] \in 1 .. n /\ t[k] = cs[o[k]]
      /\ \A x \in 1 .. n : \E k \in 1 .. n : o[k] = x
      /\ \A j, k \in 1 .. n : o[j] = o[k] => j = k
  BY <1>1 DEF SortedAs
<1>4. A \subseteq 1 .. n /\ \A k \in A : o[k] \in B
  BY <1>2, <1>3 DEF UnderSection
<1>5. ASSUME NEW z \in B PROVE \E k \in A : o[k] = z
  <2>1. z \in 1 .. n /\ cs[z].section = s
    BY <1>2 DEF UnderSection
  <2>2. PICK k \in 1 .. n : o[k] = z
    BY <1>3, <2>1
  <2>3. t[k].section = s
    BY <1>3, <2>1, <2>2
  <2> QED BY <1>3, <2>2, <2>3 DEF UnderSection
<1>6. IsFiniteSet(A)
  <2>1. IsFiniteSet(1 .. n)
    BY <1>2, FS_Interval
  <2> HIDE DEF A
  <2> QED BY <1>4, <2>1, FS_Subset
<1> HIDE DEF A, B
<1>7. g \in [A -> B] /\ (\A j, k \in A : g[j] = g[k] => j = k) /\ \A z \in B : \E k \in A : g[k] = z
  BY <1>3, <1>4, <1>5
<1> HIDE DEF g
<1>8. Cardinality(A) = Cardinality(B)
  BY <1>6, <1>7, PairedOff
<1> QED BY <1>8 DEF A, B, t

\* A section that is left is large enough, or is one that may be small.
Roomy(cs) ==
  \A i \in 1 .. Len(cs) :
    \/ cs[i].section \in Canonical \cup {OTHER_SECTION}
    \/ Cardinality(UnderSection(cs, cs[i].section)) >= MIN_SECTION_SIZE

\* No derived section is left too small.
LEMMA ConsolidateRoomy ==
  ASSUME NEW p \in Splits
  PROVE  Roomy(consolidate(p).main)
<1> DEFINE m == p.main
           f == consolidate(p).main
           n == Len(m)
<1>1. /\ m \in Seq(Listables) /\ f \in Seq(Listables) /\ Len(f) = n
      /\ \A i \in 1 .. n : f[i].section = NewSection(m, m[i].section)
  BY ConsolidateIs DEF Splits
<1>2. MIN_SECTION_SIZE \in Nat
  BY LlmsTxtAssumption
<1> HIDE DEF m, f
<1>3. DOMAIN m = 1 .. n /\ DOMAIN f = 1 .. n /\ n \in Nat
  BY <1>1
<1> HIDE DEF n
<1> SUFFICES ASSUME NEW i \in 1 .. n, f[i].section \notin Canonical \cup {OTHER_SECTION}
             PROVE  Cardinality(UnderSection(f, f[i].section)) >= MIN_SECTION_SIZE
  BY <1>1 DEF Roomy, f
<1> DEFINE s == f[i].section
<1>4. m[i].section = s /\ ~ FoldsInto(m, s)
  BY <1>1 DEF NewSection
<1>5. UnderSection(f, s) = UnderSection(m, s)
  <2>1. ASSUME NEW j \in 1 .. n PROVE f[j].section = s <=> m[j].section = s
    <3>1. f[j].section = NewSection(m, m[j].section) /\ s # OTHER_SECTION
      BY <1>1
    <3> HIDE DEF s
    <3> QED BY <1>4, <3>1 DEF NewSection
  <2> HIDE DEF s
  <2> QED BY <1>3, <2>1 DEF UnderSection
<1>6. ~ (Cardinality(UnderSection(m, s)) < MIN_SECTION_SIZE)
  BY <1>4 DEF FoldsInto
<1>7. Cardinality(UnderSection(m, s)) \in Nat
  <2>1. IsFiniteSet(1 .. n) /\ UnderSection(m, s) \subseteq 1 .. n
    BY <1>3, FS_Interval DEF UnderSection
  <2> QED BY <2>1, FS_Subset, FS_CardinalityType
<1> HIDE DEF s
<1>8. Cardinality(UnderSection(f, s)) >= MIN_SECTION_SIZE
  BY <1>2, <1>5, <1>6, <1>7
<1> QED BY <1>8 DEF s

\* The document that a settled split is printed as.
LEMMA HeadingsOf ==
  ASSUME NEW p \in Splits, Roomy(p.main), NEW b, NEW t
  PROVE  HeadingsRead(ordered_entries(p, b, t))
<1> DEFINE e == ordered_entries(p, b, t)
           m == by_section(p.main)
           r == by_score(p.optional)
           n == Len(p.main)
           k == Len(r)
           Under(s) == {i \in DOMAIN e : e[i].section = s}
<1>1. EntriesAs(e, m, r, n)
  BY EntriesAre
<1>2. /\ p.main \in Seq(Listables) /\ m \in Seq(Listables) /\ Len(m) = n
      /\ SortedAs(m, p.main, Sorted(SectionKeys(p.main)), SectionKeys(p.main), n)
  <2>1. p.main \in Seq(Listables)
    BY DEF Splits
  <2> QED BY <2>1, SortedStages DEF SortedAs
<1>3. \A i, j \in 1 .. n : i < j => m[i].section <= m[j].section
  BY <1>2, RisingSections
<1>4. \A s : Cardinality(UnderSection(m, s)) = Cardinality(UnderSection(p.main, s))
  BY <1>2, SizesKept
<1> HIDE DEF e, m, r, n
<1>5. /\ n \in Nat /\ k \in Nat /\ Len(e) = n + k /\ DOMAIN e = 1 .. n + k /\ DOMAIN m = 1 .. n
      /\ \A i \in 1 .. n : e[i].section = m[i].section
      /\ \A i \in n + 1 .. n + k : e[i].section = OPTIONAL_SECTION
      /\ \A i \in 1 .. n + k : e[i].section \in Nat
  <2>1. /\ n \in Nat /\ k \in Nat /\ e \in Seq(Entries) /\ Len(e) = n + k
        /\ \A i \in 1 .. n : e[i].section = m[i].section
        /\ \A i \in n + 1 .. n + k : e[i].section = OPTIONAL_SECTION
    BY <1>1 DEF EntriesAs, EntryOf
  <2> HIDE DEF k
  <2>2. DOMAIN e = 1 .. n + k /\ \A i \in 1 .. n + k : e[i] \in Entries
    BY <2>1
  <2>3. \A x \in Entries : x.section \in Nat
    BY DEF Entries
  <2>4. DOMAIN m = 1 .. n
    BY <1>2
  <2> QED BY <2>1, <2>2, <2>3, <2>4
<1> HIDE DEF k
<1>6. \A i \in 1 .. n : m[i] \in Listables /\ m[i].section \in Nat /\ m[i].section < OPTIONAL_SECTION
  <2>1. \A i \in 1 .. n : m[i] \in Listables
    BY <1>2
  <2> QED BY <2>1, ListableTyped
<1>7. ASSUME NEW i \in 1 .. n + k, NEW j \in 1 .. n + k, i <= j
      PROVE  e[i].section <= e[j].section
  <2>1. CASE j \in 1 .. n
    <3>1. i \in 1 .. n /\ (i = j \/ i < j)
      BY <1>5, <1>7, <2>1
    <3> QED BY <1>3, <1>5, <1>6, <2>1, <3>1
  <2>2. CASE j \in n + 1 .. n + k /\ i \in 1 .. n
    <3>1. e[j].section = OPTIONAL_SECTION /\ e[i].section < OPTIONAL_SECTION
      BY <1>5, <1>6, <2>2
    <3> QED BY <1>5, <3>1, OptionalTyped
  <2>3. CASE j \in n + 1 .. n + k /\ i \in n + 1 .. n + k
    BY <1>5, <2>3, OptionalTyped
  <2>4. /\ j \in 1 .. n \/ j \in n + 1 .. n + k
        /\ i \in 1 .. n \/ i \in n + 1 .. n + k
    BY <1>5
  <2> QED BY <2>1, <2>2, <2>3, <2>4
<1>8. ASSUME NEW i \in 1 .. n + k, NEW j \in 1 .. n + k, e[j].section = e[i].section,
             NEW x \in i .. j
      PROVE  e[x].section = e[i].section
  <2>1. x \in 1 .. n + k /\ i <= x /\ x <= j
    BY <1>5
  <2>2. e[i].section <= e[x].section /\ e[x].section <= e[j].section
    BY <1>7, <2>1
  <2>3. e[i].section \in Nat /\ e[x].section \in Nat
    BY <1>5, <2>1
  <2> QED BY <1>8, <2>2, <2>3
<1>9. ASSUME NEW i \in 1 .. n + k,
             e[i].section \notin Canonical \cup {OTHER_SECTION, OPTIONAL_SECTION}
      PROVE  Cardinality(Under(e[i].section)) >= MIN_SECTION_SIZE
  <2> DEFINE s == e[i].section
             o == Sorted(SectionKeys(p.main))
  <2>1. i \in 1 .. n
    BY <1>5, <1>9
  <2>2. s = m[i].section
    BY <1>5, <2>1
  <2>3. Under(s) = UnderSection(m, s)
    <3>1. s # OPTIONAL_SECTION
      BY <1>9
    <3>2. \A j \in 1 .. n + k : e[j].section = s <=> j \in 1 .. n /\ m[j].section = s
      <4> SUFFICES ASSUME NEW j \in 1 .. n + k
                   PROVE  e[j].section = s <=> j \in 1 .. n /\ m[j].section = s
        OBVIOUS
      <4>1. j \in 1 .. n \/ j \in n + 1 .. n + k
        BY <1>5
      <4>2. j \in n + 1 .. n + k => j \notin 1 .. n
        BY <1>5
      <4> HIDE DEF s
      <4> QED BY <1>5, <3>1, <4>1, <4>2
    <3>3. \A j \in 1 .. n : j \in 1 .. n + k
      BY <1>5
    <3> HIDE DEF s
    <3> QED BY <1>5, <3>2, <3>3 DEF UnderSection
  <2>4. o[i] \in 1 .. n /\ m[i] = p.main[o[i]]
    BY <1>2, <2>1 DEF SortedAs
  <2>5. s = p.main[o[i]].section /\ s \notin Canonical \cup {OTHER_SECTION}
    BY <1>9, <2>2, <2>4
  <2>6. Cardinality(UnderSection(p.main, s)) >= MIN_SECTION_SIZE
    <3>1. Len(p.main) = n
      BY DEF n
    <3> HIDE DEF s, o
    <3> QED BY <2>4, <2>5, <3>1 DEF Roomy
  <2> HIDE DEF s, Under
  <2>7. Cardinality(Under(s)) >= MIN_SECTION_SIZE
    BY <1>4, <2>3, <2>6
  <2> QED BY <2>7 DEF s
<1>10. HeadingsRead(e)
  <2> SUFFICES ASSUME NEW i \in 1 .. n + k
               PROVE  /\ \A j \in Under(e[i].section) : \A x \in i .. j : e[x].section = e[i].section
                      /\ \/ e[i].section \in Canonical \cup {OTHER_SECTION, OPTIONAL_SECTION}
                         \/ Cardinality(Under(e[i].section)) >= MIN_SECTION_SIZE
    BY <1>5 DEF HeadingsRead
  <2>1. ASSUME NEW j \in Under(e[i].section) PROVE \A x \in i .. j : e[x].section = e[i].section
    <3>1. j \in 1 .. n + k /\ e[j].section = e[i].section
      BY <1>5
    <3> QED BY <1>8, <3>1
  <2> QED BY <1>9, <2>1
<1> QED BY <1>10 DEF e

\* What holds of the balanced split holds of its entries.
LEMMA SplitOf ==
  ASSUME NEW p \in Splits, Balanced(p), NEW b, NEW t
  PROVE  WellSplit(ordered_entries(p, b, t))
<1> DEFINE e == ordered_entries(p, b, t)
           m == by_section(p.main)
           r == by_score(p.optional)
           n == Len(p.main)
           k == Len(p.optional)
           o == Sorted(SectionKeys(p.main))
           q == Sorted(ScoreKeys(p.optional))
           main == {i \in DOMAIN e : e[i].section # OPTIONAL_SECTION}
           rest == DOMAIN e \ main
<1>1. EntriesAs(e, m, r, n) /\ Len(r) = k
  BY EntriesAre
<1>2. /\ p.main \in Seq(Listables) /\ p.optional \in Seq(Listables) /\ m \in Seq(Listables)
      /\ SortedAs(m, p.main, o, SectionKeys(p.main), n)
      /\ SortedAs(r, p.optional, q, ScoreKeys(p.optional), k)
  <2>1. p.main \in Seq(Listables) /\ p.optional \in Seq(Listables)
    BY DEF Splits
  <2> QED BY <2>1, SortedStages
<1> HIDE DEF e, m, r, n, k, o, q
<1>3. /\ n \in Nat /\ k \in Nat /\ DOMAIN e = 1 .. n + k
      /\ \A i \in 1 .. n : /\ o[i] \in 1 .. n /\ e[i].section = p.main[o[i]].section
                          /\ e[i].score = p.main[o[i]].score /\ e[i].forced = p.main[o[i]].optional
      /\ \A i \in n + 1 .. n + k :
           /\ q[i - n] \in 1 .. k /\ e[i].section = OPTIONAL_SECTION
           /\ e[i].score = p.optional[q[i - n]].score /\ e[i].forced = p.optional[q[i - n]].optional
  <2>1. n \in Nat /\ k \in Nat /\ Len(e) = n + k /\ e \in Seq(Entries)
    BY <1>1 DEF EntriesAs
  <2>2. ASSUME NEW i \in 1 .. n
        PROVE  /\ o[i] \in 1 .. n /\ e[i].section = p.main[o[i]].section
               /\ e[i].score = p.main[o[i]].score /\ e[i].forced = p.main[o[i]].optional
    <3>1. o[i] \in 1 .. n /\ m[i] = p.main[o[i]]
      BY <1>2 DEF SortedAs
    <3>2. EntryOf(e[i], m[i], m[i].section)
      BY <1>1 DEF EntriesAs
    <3> QED BY <3>1, <3>2 DEF EntryOf
  <2>3. ASSUME NEW i \in n + 1 .. n + k
        PROVE  /\ q[i - n] \in 1 .. k /\ e[i].section = OPTIONAL_SECTION
               /\ e[i].score = p.optional[q[i - n]].score
               /\ e[i].forced = p.optional[q[i - n]].optional
    <3>1. i - n \in 1 .. k
      BY <2>1
    <3>2. q[i - n] \in 1 .. k /\ r[i - n] = p.optional[q[i - n]]
      BY <1>2, <3>1 DEF SortedAs
    <3>3. EntryOf(e[i], r[i - n], OPTIONAL_SECTION)
      BY <1>1, <2>1 DEF EntriesAs
    <3> QED BY <3>2, <3>3 DEF EntryOf
  <2>4. DOMAIN e = 1 .. n + k
    BY <2>1
  <2> QED BY <2>1, <2>2, <2>3, <2>4
<1>4. \A i \in 1 .. n : p.main[i].section < OPTIONAL_SECTION /\ p.main[i].section \in Nat
  <2>1. \A i \in 1 .. n : p.main[i] \in Listables
    BY <1>2 DEF n
  <2> QED BY <2>1, ListableTyped
<1>5. main = 1 .. n /\ rest = n + 1 .. n + k
  <2>1. \A i \in 1 .. n : e[i].section # OPTIONAL_SECTION
    <3> SUFFICES ASSUME NEW i \in 1 .. n PROVE e[i].section # OPTIONAL_SECTION
      OBVIOUS
    <3>1. o[i] \in 1 .. n /\ e[i].section = p.main[o[i]].section
      BY <1>3
    <3> QED BY <1>4, <3>1, OptionalTyped
  <2>2. \A i \in 1 .. n + k : i \in 1 .. n \/ i \in n + 1 .. n + k
    BY <1>3
  <2>3. \A i \in 1 .. n : i \in 1 .. n + k /\ i \notin n + 1 .. n + k
    BY <1>3
  <2>4. \A i \in n + 1 .. n + k : i \in 1 .. n + k
    BY <1>3
  <2>5. main = 1 .. n
    BY <1>3, <2>1, <2>2, <2>3
  <2> QED BY <1>3, <2>2, <2>3, <2>4, <2>5
<1> HIDE DEF main, rest
<1>6. Cardinality(main) = n
  BY <1>3, <1>5, FS_Interval
<1>7. /\ n = 0 => k = 0
      /\ n <= MAX_MAIN_BODY_LINKS
      /\ (\E i \in 1 .. n : p.main[i].optional) =>
           /\ \A i \in 1 .. n : p.main[i].optional
           /\ \A i \in 1 .. k : p.optional[i].optional
      /\ \A i \in 1 .. k : p.optional[i].optional \/
           (n = MAX_MAIN_BODY_LINKS /\ \A j \in 1 .. n : p.main[j].score >= p.optional[i].score)
  <2>1. n = 0 => p.main = <<>>
    BY <1>2 DEF n
  <2>2. p.optional = <<>> => k = 0
    BY DEF k
  <2>3. n = Len(p.main) /\ k = Len(p.optional)
    BY DEF n, k
  <2>4. n = 0 => k = 0
    BY <2>1, <2>2 DEF Balanced
  <2>5. n <= MAX_MAIN_BODY_LINKS
    BY <2>3 DEF Balanced
  <2>6. (\E i \in 1 .. n : p.main[i].optional) =>
          /\ \A i \in 1 .. n : p.main[i].optional
          /\ \A i \in 1 .. k : p.optional[i].optional
    BY <2>3 DEF Balanced, AllForced
  <2>7. \A i \in 1 .. k : p.optional[i].optional \/
          (n = MAX_MAIN_BODY_LINKS /\ \A j \in 1 .. n : p.main[j].score >= p.optional[i].score)
    <3>1. Outranked(p)
      BY DEF Balanced
    <3>2. \A i \in 1 .. Len(p.optional) : p.optional[i].optional \/
            /\ Len(p.main) = MAX_MAIN_BODY_LINKS
            /\ \A j \in 1 .. Len(p.main) : p.main[j].score >= p.optional[i].score
      BY ONLY <3>1, Zenon DEF Outranked
    <3> QED BY ONLY <3>2 DEF n, k
  <2> QED BY <2>4, <2>5, <2>6, <2>7
<1>8. rest # {} => main # {}
  BY <1>3, <1>5, <1>7
<1>9. (\E i \in main : e[i].forced) => \A i \in DOMAIN e : e[i].forced
  <2> SUFFICES ASSUME NEW i \in 1 .. n, e[i].forced, NEW j \in 1 .. n + k PROVE e[j].forced
    BY <1>3, <1>5
  <2>1. p.main[o[i]].optional /\ o[i] \in 1 .. n
    BY <1>3
  <2>2. j \in 1 .. n \/ j \in n + 1 .. n + k
    BY <1>3
  <2> QED BY <1>3, <1>7, <2>1, <2>2
<1>10. ASSUME NEW i \in rest, ~ e[i].forced
       PROVE  n = MAX_MAIN_BODY_LINKS /\ \A j \in main : e[j].score >= e[i].score
  <2>1. q[i - n] \in 1 .. k /\ ~ p.optional[q[i - n]].optional /\ e[i].score = p.optional[q[i - n]].score
    BY <1>3, <1>5, <1>10
  <2>2. /\ n = MAX_MAIN_BODY_LINKS
        /\ \A j \in 1 .. n : p.main[j].score >= p.optional[q[i - n]].score
    BY <1>7, <2>1
  <2>3. \A j \in 1 .. n : o[j] \in 1 .. n /\ e[j].score = p.main[o[j]].score
    BY <1>3
  <2> QED BY <1>5, <2>1, <2>2, <2>3
<1>11. WellSplit(e)
  <2>1. Cardinality(main) <= MAX_MAIN_BODY_LINKS
    BY <1>6, <1>7
  <2>2. \A i \in rest : e[i].forced \/
          (Cardinality(main) = MAX_MAIN_BODY_LINKS /\ \A j \in main : e[j].score >= e[i].score)
    BY <1>6, <1>10
  <2> QED BY <1>8, <1>9, <2>1, <2>2 DEF WellSplit, main, rest
<1> QED BY <1>11 DEF e

\* _partition, _ensure_non_empty_main and _consolidate, one after the other, leave a
\* main body that is filled up to its cap with the best, under headings that are
\* printed once and are long enough.
THEOREM MainBodyAlwaysFilled == LlmsSpec => []MainBodyFilled
<1>1. ASSUME pages \in Seq(CrawledPages) PROVE MainBodyFilled
  <2> DEFINE d == SurvivorsOf(pages)
             p == ensure_non_empty_main(partition(d))
  <2>1. PICK b, s : select(pages).entries = ordered_entries(Settled(d), b, s)
    BY <1>1, ListingIs
  <2>2. d \in Seq(Listables)
    BY <1>1, ListingIs
  <2> HIDE DEF d
  <2>3. Settled(d) \in Splits /\ Balanced(Settled(d)) /\ p \in Splits
    BY <2>2, SettledIs, SettledBalanced
  <2>4. Roomy(Settled(d).main)
    BY <2>3, ConsolidateRoomy DEF Settled
  <2>5. WellFormed(ordered_entries(Settled(d), b, s))
    BY <2>3, <2>4, HeadingsOf, SplitOf DEF WellFormed
  <2> QED BY <2>1, <2>5 DEF MainBodyFilled
<1> QED BY <1>1, CrawlTyped, PTL
=============================================================================
