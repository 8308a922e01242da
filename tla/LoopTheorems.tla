---------------------------- MODULE LoopTheorems ----------------------------
(***************************************************************************)
(* What the library's recursive operators compute, for every finite set    *)
(* and every sequence: least elements, sorting by counting, sums, and      *)
(* loops over a sequence (FoldLeft).                                       *)
(***************************************************************************)
EXTENDS Integers, SequencesExt, SequenceTheorems, FunctionTheorems, FiniteSetTheorems,
        WellFoundedInduction, TLAPS

-----------------------------------------------------------------------------
(* Induction without an operator: of the subsets of a finite set, or of the *)
(* numbers, that refute a claim there is a least.                           *)

LEMMA LeastSubset ==
  ASSUME NEW S, IsFiniteSet(S), NEW T, T \subseteq SUBSET S, T # {}
  PROVE  \E x \in T : \A y \in T : y \subseteq x => y = x
<1>1. IsWellFoundedOn(StrictSubsetOrdering(S), SUBSET S)
  BY FS_StrictSubsetOrderingWellFounded, FS_FiniteSubsetsOfFinite
<1>2. \E x \in T : \A y \in T : ~ (<<y, x>> \in StrictSubsetOrdering(S))
  BY <1>1, WFMin, Zenon
<1>3. \A x, y \in T : y \subseteq x /\ y # x => <<y, x>> \in StrictSubsetOrdering(S)
  BY DEF StrictSubsetOrdering
<1> QED BY <1>2, <1>3

LEMMA LeastNumber ==
  ASSUME NEW T, T \subseteq Nat, T # {}
  PROVE  \E n \in T : \A m \in T : n <= m
<1>1. IsWellFoundedOn(OpToRel(<, Nat), Nat)
  BY NatLessThanWellFounded
<1>2. \E n \in T : \A m \in T : ~ (<<m, n>> \in OpToRel(<, Nat))
  BY <1>1, WFMin, Zenon
<1>3. \A n, m \in T : m < n => <<m, n>> \in OpToRel(<, Nat)
  BY DEF OpToRel
<1>4. \A n, m \in T : ~ (m < n) => n <= m
  OBVIOUS
<1> QED BY <1>2, <1>3, <1>4

\* R orders D, with any two of its elements one way or the other.
LEMMA Greatest ==
  ASSUME NEW D, IsFiniteSet(D), D # {}, NEW R,
         \A x, y \in D : <<x, y>> \in R \/ <<y, x>> \in R,
         \A x, y, z \in D : <<x, y>> \in R /\ <<y, z>> \in R => <<x, z>> \in R
  PROVE  \E m \in D : \A x \in D : <<x, m>> \in R
<1> DEFINE Has(A) == \E m \in A : \A x \in A : <<x, m>> \in R
           bad == {A \in SUBSET D : A # {} /\ ~ Has(A)}
<1>1. bad = {}
  <2> SUFFICES ASSUME bad # {} PROVE FALSE
    OBVIOUS
  <2>1. PICK A \in bad : \A y \in bad : y \subseteq A => y = A
    <3>1. bad \subseteq SUBSET D
      OBVIOUS
    <3> HIDE DEF bad
    <3> QED BY <3>1, LeastSubset
  <2>2. A \in SUBSET D /\ A # {} /\ ~ Has(A)
    OBVIOUS
  <2>3. PICK t \in A : TRUE
    BY <2>2
  <2>4. A \ {t} \in SUBSET D /\ A \ {t} # A /\ A \ {t} \subseteq A
    BY <2>2, <2>3
  <2>5. A \ {t} \notin bad
    BY <2>1, <2>4
  <2>6. A \ {t} # {}
    BY <2>2, <2>3
  <2>7. PICK m \in A \ {t} : \A x \in A \ {t} : <<x, m>> \in R
    BY <2>4, <2>5, <2>6
  <2>8. <<t, t>> \in R /\ (<<t, m>> \in R \/ <<m, t>> \in R)
    BY <2>2
  <2>9. CASE <<t, m>> \in R
    BY <2>2, <2>7, <2>9
  <2>10. CASE <<m, t>> \in R
    <3>1. \A x \in A : <<x, t>> \in R
      BY <2>2, <2>7, <2>8, <2>10
    <3> QED BY <2>2, <3>1
  <2> QED BY <2>8, <2>9, <2>10
<1>2. D \in SUBSET D /\ D \notin bad
  BY <1>1
<1> QED BY <1>2

\* A finite set of numbers has a greatest.
LEMMA GreatestNumber ==
  ASSUME NEW S, IsFiniteSet(S), S \subseteq Nat, S # {}
  PROVE  \E m \in S : \A x \in S : x <= m
<1> DEFINE R == {p \in S \X S : p[1] <= p[2]}
<1>1. \A x, y \in S : <<x, y>> \in R <=> x <= y
  OBVIOUS
<1>2. \A x \in S : x \in Nat
  OBVIOUS
<1> HIDE DEF R
<1>3. /\ \A x, y \in S : <<x, y>> \in R \/ <<y, x>> \in R
      /\ \A x, y, z \in S : <<x, y>> \in R /\ <<y, z>> \in R => <<x, z>> \in R
  BY <1>1, <1>2
<1>4. \E m \in S : \A x \in S : <<x, m>> \in R
  BY <1>3, Greatest
<1> QED BY <1>1, <1>4

-----------------------------------------------------------------------------
(* Sorting by counting: the place of an element is one more than the number *)
(* of those before it.                                                      *)

LEMMA FiniteRange ==
  ASSUME NEW D, IsFiniteSet(D), NEW f
  PROVE  IsFiniteSet({f[x] : x \in D})
<1> DEFINE T == {f[x] : x \in D}
           g == [x \in D |-> f[x]]
<1>1. g \in [D -> T] /\ \A t \in T : \E x \in D : g[x] = t
  OBVIOUS
<1> HIDE DEF g, T
<1>2. g \in Surjection(D, T)
  BY <1>1 DEF Surjection
<1>3. IsFiniteSet(T)
  BY <1>2, FS_Surjection
<1> QED BY <1>3 DEF T

LEMMA SeqOfFunction ==
  ASSUME NEW S, NEW n \in Nat, NEW s \in [1 .. n -> S]
  PROVE  s \in Seq(S) /\ Len(s) = n /\ DOMAIN s = 1 .. n
BY SeqDef

StrictOrder(R, S) ==
  /\ \A x \in S : <<x, x>> \notin R
  /\ \A x, y \in S : x # y => <<x, y>> \in R \/ <<y, x>> \in R
  /\ \A x, y, z \in S : <<x, y>> \in R /\ <<y, z>> \in R => <<x, z>> \in R

Places(R, S) == [x \in S |-> Cardinality({y \in S : <<y, x>> \in R}) + 1]

LEMMA PlacesIncrease ==
  ASSUME NEW S, IsFiniteSet(S), NEW R, StrictOrder(R, S)
  PROVE  /\ Places(R, S) \in [S -> 1 .. Cardinality(S)]
         /\ \A x, y \in S : <<x, y>> \in R => Places(R, S)[x] < Places(R, S)[y]
<1> DEFINE Under(x) == {y \in S : <<y, x>> \in R}
<1>1. ASSUME NEW x \in S
      PROVE  IsFiniteSet(Under(x)) /\ Cardinality(Under(x)) \in 0 .. Cardinality(S) - 1
  <2>1. IsFiniteSet(Under(x)) /\ Cardinality(Under(x)) <= Cardinality(S)
    BY FS_Subset
  <2>2. x \notin Under(x)
    BY DEF StrictOrder
  <2>3. Under(x) # S
    BY <2>2
  <2>4. Cardinality(Under(x)) # Cardinality(S)
    BY <2>3, FS_Subset
  <2> QED BY <2>1, <2>4, FS_CardinalityType
<1>2. ASSUME NEW x \in S, NEW y \in S, <<x, y>> \in R
      PROVE  Cardinality(Under(x)) < Cardinality(Under(y))
  <2>1. Under(x) \subseteq Under(y) /\ x \in Under(y) /\ x \notin Under(x)
    BY <1>2 DEF StrictOrder
  <2>2. Cardinality(Under(x)) <= Cardinality(Under(y)) /\ Cardinality(Under(x)) # Cardinality(Under(y))
    BY <1>1, <2>1, FS_Subset
  <2>3. Cardinality(Under(x)) \in Nat /\ Cardinality(Under(y)) \in Nat
    BY <1>1, FS_CardinalityType
  <2> HIDE DEF Under
  <2> QED BY <2>2, <2>3
<1>3. Cardinality(S) \in Nat
  BY FS_CardinalityType
<1>4. \A x \in S : Places(R, S)[x] = Cardinality(Under(x)) + 1
  BY DEF Places
<1>5. DOMAIN Places(R, S) = S /\ Places(R, S) = [x \in S |-> Places(R, S)[x]]
  BY DEF Places
<1> HIDE DEF Under
<1>6. \A x \in S : Places(R, S)[x] \in 1 .. Cardinality(S)
  BY <1>1, <1>3, <1>4
<1>7. ASSUME NEW x \in S, NEW y \in S, <<x, y>> \in R
      PROVE  Places(R, S)[x] < Places(R, S)[y]
  <2>1. Cardinality(Under(x)) < Cardinality(Under(y))
    BY <1>2, <1>7
  <2>2. Cardinality(Under(x)) \in Nat /\ Cardinality(Under(y)) \in Nat
    BY <1>1, FS_CardinalityType
  <2> QED BY <2>1, <2>2, <1>4
<1> QED BY <1>5, <1>6, <1>7

LEMMA PlacesAll ==
  ASSUME NEW S, IsFiniteSet(S), NEW R, StrictOrder(R, S), NEW i \in 1 .. Cardinality(S)
  PROVE  \E x \in S : Places(R, S)[x] = i
<1> DEFINE f == Places(R, S)
           n == Cardinality(S)
<1>1. n \in Nat /\ f \in [S -> 1 .. n]
  BY PlacesIncrease, FS_CardinalityType
<1>2. ASSUME NEW x \in S, NEW y \in S, f[x] = f[y] PROVE x = y
  <2>1. ~ (f[x] < f[y]) /\ ~ (f[y] < f[x])
    BY <1>1, <1>2
  <2> QED BY <2>1, PlacesIncrease DEF StrictOrder
<1>3. f \in Injection(S, 1 .. n)
  BY <1>1, <1>2, Fun_IsInj
<1>4. IsFiniteSet(1 .. n) /\ Cardinality(1 .. n) = n
  BY <1>1, FS_Interval
<1>5. f \in Surjection(S, 1 .. n)
  BY <1>3, <1>4, FS_Injection
<1> QED BY <1>5 DEF Surjection

\* The place of i among the numbers of a set.
PlaceIn(L, i) == Cardinality({k \in L : k < i}) + 1

LEMMA Placed ==
  ASSUME NEW L, IsFiniteSet(L), L \subseteq Nat
  PROVE  /\ \A i \in L : PlaceIn(L, i) \in 1 .. Cardinality(L)
         /\ \A i, j \in L : PlaceIn(L, i) = PlaceIn(L, j) => i = j
         /\ \A n \in 1 .. Cardinality(L) : \E i \in L : PlaceIn(L, i) = n
<1> DEFINE R == {p \in L \X L : p[1] < p[2]}
<1>1. \A i, j \in L : <<i, j>> \in R <=> i < j
  OBVIOUS
<1>2. \A i \in L : i \in Nat
  OBVIOUS
<1>3. ASSUME NEW i \in L PROVE Places(R, L)[i] = PlaceIn(L, i)
  <2>1. {k \in L : <<k, i>> \in R} = {k \in L : k < i}
    BY <1>1
  <2> HIDE DEF R
  <2> QED BY <2>1 DEF Places, PlaceIn
<1> HIDE DEF R
<1>4. StrictOrder(R, L)
  <2>1. \A i \in L : ~ (i < i)
    BY <1>2
  <2>2. \A i, j \in L : i # j => i < j \/ j < i
    BY <1>2
  <2>3. \A i, j, k \in L : i < j /\ j < k => i < k
    BY <1>2
  <2> QED BY <1>1, <2>1, <2>2, <2>3 DEF StrictOrder
<1>5. \A i \in L : Places(R, L)[i] \in 1 .. Cardinality(L)
  BY <1>4, PlacesIncrease
<1>6. \A i, j \in L : i < j => Places(R, L)[i] < Places(R, L)[j]
  BY <1>1, <1>4, PlacesIncrease
<1>7. ASSUME NEW i \in L, NEW j \in L, PlaceIn(L, i) = PlaceIn(L, j) PROVE i = j
  <2>1. Cardinality(L) \in Nat
    BY FS_CardinalityType
  <2>2. PlaceIn(L, i) \in Nat
    BY <1>3, <1>5, <2>1
  <2>3. ~ (i < j) /\ ~ (j < i)
    BY <1>3, <1>6, <1>7, <2>2
  <2> QED BY <1>2, <2>3
<1>8. \A n \in 1 .. Cardinality(L) : \E i \in L : Places(R, L)[i] = n
  BY <1>4, PlacesAll
<1> QED BY <1>3, <1>5, <1>7, <1>8

\* Whatever comes earlier in s is before it by R.
InOrder(s, R) == \A i \in DOMAIN s : \A j \in 1 .. i - 1 : <<s[j], s[i]>> \in R

\* s holds every element of S, in the order R.
Sorts(s, R, S) ==
  /\ s \in Seq(S) /\ Len(s) = Cardinality(S) /\ Len(s) \in Nat /\ DOMAIN s = 1 .. Len(s)
  /\ \A i \in 1 .. Len(s) : s[i] \in S
  /\ \A x \in S : \E i \in 1 .. Len(s) : s[i] = x
  /\ InOrder(s, R)

\* A sequence that has every element at its place is sorted.
LEMMA SortedBySlot ==
  ASSUME NEW S, IsFiniteSet(S), NEW R, StrictOrder(R, S),
         NEW s \in [1 .. Cardinality(S) -> S],
         \A i \in 1 .. Cardinality(S) : Places(R, S)[s[i]] = i
  PROVE  Sorts(s, R, S)
<1> DEFINE f == Places(R, S)
           n == Cardinality(S)
<1>1. n \in Nat
  BY FS_CardinalityType
<1>2. \A i \in 1 .. n : s[i] \in S /\ f[s[i]] = i
  OBVIOUS
<1>4. s \in Seq(S) /\ Len(s) = n /\ DOMAIN s = 1 .. n
  BY <1>1, SeqOfFunction
<1>5. \A x \in S : f[x] \in 1 .. n
  BY PlacesIncrease
<1>6. \A i, j \in 1 .. n : i < j => <<s[i], s[j]>> \in R
  <2> SUFFICES ASSUME NEW i \in 1 .. n, NEW j \in 1 .. n, i < j PROVE <<s[i], s[j]>> \in R
    OBVIOUS
  <2>1. s[i] # s[j] /\ ~ (f[s[j]] < f[s[i]])
    BY <1>1, <1>2
  <2> QED BY <2>1, <1>2, PlacesIncrease DEF StrictOrder
<1>7. \A x \in S : s[f[x]] = x
  <2> SUFFICES ASSUME NEW x \in S, s[f[x]] # x PROVE FALSE
    OBVIOUS
  <2>1. f[x] \in 1 .. n /\ s[f[x]] \in S /\ f[s[f[x]]] = f[x]
    BY <1>2, <1>5
  <2>2. ~ (f[s[f[x]]] < f[x]) /\ ~ (f[x] < f[s[f[x]]])
    BY <2>1, <1>1
  <2> QED BY <2>1, <2>2, PlacesIncrease, ZenonT(40) DEF StrictOrder
<1>8. \A x \in S : \E i \in 1 .. n : s[i] = x
  BY <1>5, <1>7
<1>9. Len(s) = n
  BY <1>4
<1> HIDE DEF f, n
<1>10. \A i \in 1 .. Len(s) : s[i] \in S /\ f[s[i]] = i
  BY <1>2, <1>9
<1>11. InOrder(s, R)
  <2> SUFFICES ASSUME NEW i \in 1 .. n, NEW j \in 1 .. i - 1 PROVE <<s[j], s[i]>> \in R
    BY <1>4 DEF InOrder
  <2>1. j \in 1 .. n /\ j < i
    BY <1>1
  <2> QED BY <1>6, <2>1
<1> QED BY <1>1, <1>4, <1>8, <1>9, <1>10, <1>11 DEF f, n, Sorts

-----------------------------------------------------------------------------
(* Sums: the library adds f up over the subsets of D.                       *)

\* The recursion by which it does.
Adds(it, f, D) ==
  it = [s \in SUBSET D |-> IF s = {} THEN 0
                           ELSE f[CHOOSE x \in s : TRUE] + it[s \ {CHOOSE x \in s : TRUE}]]

\* The same whichever element is taken out.
AddsAny(g, f, D) ==
  /\ g[{}] = 0
  /\ \A s \in SUBSET D : g[s] \in Int /\ \A x \in s : g[s] = f[x] + g[s \ {x}]

LEMMA AnyOrder ==
  ASSUME NEW D, IsFiniteSet(D), NEW f \in [D -> Int], NEW it, Adds(it, f, D)
  PROVE  AddsAny(it, f, D)
<1> DEFINE pick(s) == CHOOSE x \in s : TRUE
           Good(s) == it[s] \in Int /\ \A x \in s : it[s] = f[x] + it[s \ {x}]
           bad == {s \in SUBSET D : ~ Good(s)}
<1>1. \A s \in SUBSET D : it[s] = IF s = {} THEN 0 ELSE f[pick(s)] + it[s \ {pick(s)}]
  BY DEF Adds
<1>2. \A s \in SUBSET D : s # {} => pick(s) \in s
  OBVIOUS
<1> HIDE DEF pick
<1>3. it[{}] = 0
  BY <1>1
<1>4. bad = {}
  <2> SUFFICES ASSUME bad # {} PROVE FALSE
    OBVIOUS
  <2>1. PICK s \in bad : \A y \in bad : y \subseteq s => y = s
    <3>1. bad \subseteq SUBSET D
      OBVIOUS
    <3> HIDE DEF bad
    <3> QED BY <3>1, LeastSubset
  <2>2. s \in SUBSET D /\ ~ Good(s)
    OBVIOUS
  <2>3. \A x \in s : s \ {x} \in SUBSET D /\ Good(s \ {x})
    BY <2>1, <2>2
  <2>4. s # {}
    <3>1. Good({})
      BY <1>3
    <3> HIDE DEF Good
    <3> QED BY <2>2, <3>1
  <2> DEFINE c == pick(s)
  <2>5. c \in s /\ it[s] = f[c] + it[s \ {c}] /\ f[c] \in Int
    BY <1>1, <1>2, <2>2, <2>4
  <2> HIDE DEF c
  <2>6. it[s] \in Int
    <3>1. it[s \ {c}] \in Int
      BY <2>3, <2>5
    <3> HIDE DEF Good, bad
    <3> QED BY <2>5, <3>1
  <2>7. ASSUME NEW x \in s, x # c PROVE it[s] = f[x] + it[s \ {x}]
    <3>1. x \in s \ {c} /\ c \in s \ {x} /\ (s \ {c}) \ {x} = (s \ {x}) \ {c}
      BY <2>5, <2>7
    <3>2. it[s \ {c}] = f[x] + it[(s \ {c}) \ {x}]
      BY <2>3, <2>5, <3>1
    <3>3. it[s \ {x}] = f[c] + it[(s \ {x}) \ {c}]
      BY <2>3, <3>1
    <3>4. f[x] \in Int
      BY <2>2
    <3>5. it[(s \ {c}) \ {x}] \in Int
      <4>1. it[s \ {c}] \in Int /\ it[s \ {x}] \in Int
        BY <2>3, <2>5
      <4>2. (s \ {c}) \ {x} \in SUBSET D /\ (s \ {c}) \ {x} \subseteq s /\ (s \ {c}) \ {x} # s
        BY <2>2, <2>5
      <4>3. (s \ {c}) \ {x} \notin bad
        BY <2>1, <4>2
      <4> QED BY <4>2, <4>3
    <3> DEFINE rest == it[(s \ {c}) \ {x}]
    <3>6. it[s \ {c}] = f[x] + rest /\ it[s \ {x}] = f[c] + rest /\ rest \in Int
      BY <3>1, <3>2, <3>3, <3>5
    <3> HIDE DEF rest
    <3>7. f[c] + (f[x] + rest) = f[x] + (f[c] + rest)
      BY <2>5, <3>4, <3>6
    <3> QED BY <2>5, <3>6, <3>7
  <2> QED BY <2>2, <2>5, <2>6, <2>7
<1> QED BY <1>3, <1>4 DEF AddsAny

LEMMA SumExists ==
  ASSUME NEW D, IsFiniteSet(D), NEW f \in [D -> Int]
  PROVE  \E it : Adds(it, f, D)
<1> DEFINE Has(T) == \E g : Adds(g, f, T)
           bad == {T \in SUBSET D : ~ Has(T)}
           pick(s) == CHOOSE x \in s : TRUE
<1>0. ASSUME NEW T, NEW g, g = [s \in SUBSET T |-> g[s]],
             \A s \in SUBSET T : g[s] = IF s = {} THEN 0 ELSE f[pick(s)] + g[s \ {pick(s)}]
      PROVE  Adds(g, f, T)
  <2> DEFINE rhs(s) == IF s = {} THEN 0 ELSE f[pick(s)] + g[s \ {pick(s)}]
  <2>1. [s \in SUBSET T |-> g[s]] = [s \in SUBSET T |-> rhs(s)]
    <3> HIDE DEF rhs
    <3>1. \A s \in SUBSET T : g[s] = rhs(s)
      BY <1>0 DEF rhs
    <3> QED BY <3>1
  <2>2. g = [s \in SUBSET T |-> rhs(s)]
    BY <1>0, <2>1, Zenon
  <2> QED BY <2>2, Zenon DEF Adds
<1> SUFFICES ASSUME bad # {} PROVE FALSE
  OBVIOUS
<1>1. PICK T \in bad : \A y \in bad : y \subseteq T => y = T
  <2>1. bad \subseteq SUBSET D
    OBVIOUS
  <2> HIDE DEF bad
  <2> QED BY <2>1, LeastSubset
<1>2. T \in SUBSET D /\ ~ Has(T)
  OBVIOUS
<1>3. CASE T = {}
  <2> DEFINE g == [s \in SUBSET T |-> 0]
  <2>1. \A s \in SUBSET T : s = {} /\ g[s] = 0
    BY <1>3
  <2>2. g = [s \in SUBSET T |-> g[s]]
    OBVIOUS
  <2> HIDE DEF g
  <2>3. Adds(g, f, T)
    BY <1>0, <2>1, <2>2
  <2> QED BY <1>2, <2>3
<1>4. CASE T # {}
  <2>1. PICK x \in T : TRUE
    BY <1>4
  <2> DEFINE U == T \ {x}
  <2>2. U \in SUBSET D /\ U \subseteq T /\ U # T
    BY <1>2, <2>1
  <2>3. Has(U)
    <3>1. U \notin bad
      BY <1>1, <2>2
    <3> QED BY <2>2, <3>1
  <2>4. PICK h : Adds(h, f, U)
    BY <2>3
  <2>5. AddsAny(h, f, U)
    <3> DEFINE fU == [u \in U |-> f[u]]
    <3>1. fU \in [U -> Int] /\ \A u \in U : fU[u] = f[u]
      BY <2>2
    <3>2. Adds(h, fU, U)
      <4>1. \A s \in SUBSET U : s # {} => pick(s) \in U
        OBVIOUS
      <4> DEFINE left(s) == IF s = {} THEN 0 ELSE f[pick(s)] + h[s \ {pick(s)}]
                 right(s) == IF s = {} THEN 0 ELSE fU[pick(s)] + h[s \ {pick(s)}]
      <4> HIDE DEF fU
      <4>2. ASSUME NEW s \in SUBSET U PROVE left(s) = right(s)
        <5> HIDE DEF pick, U
        <5>1. s # {} => f[pick(s)] = fU[pick(s)]
          BY <3>1, <4>1
        <5> QED BY <5>1
      <4>3. [s \in SUBSET U |-> left(s)] = [s \in SUBSET U |-> right(s)]
        <5> HIDE DEF left, right, U
        <5> QED BY <4>2
      <4> HIDE DEF U
      <4> QED BY <2>4, <4>3, Zenon DEF Adds
    <3>3. IsFiniteSet(U)
      BY <2>2, FS_Subset
    <3> HIDE DEF fU, U
    <3>4. AddsAny(h, fU, U)
      BY <3>1, <3>2, <3>3, AnyOrder
    <3> QED BY <3>1, <3>4 DEF AddsAny
  <2> DEFINE g == [s \in SUBSET T |-> IF x \in s THEN f[x] + h[s \ {x}] ELSE h[s]]
  <2>6. \A s \in SUBSET T : /\ x \in s => g[s] = f[x] + h[s \ {x}]
                            /\ x \notin s => g[s] = h[s]
    OBVIOUS
  <2>7. g = [s \in SUBSET T |-> g[s]]
    OBVIOUS
  <2> HIDE DEF g
  <2>8. ASSUME NEW s \in SUBSET T
        PROVE  g[s] = IF s = {} THEN 0 ELSE f[pick(s)] + g[s \ {pick(s)}]
    <3>1. CASE s = {}
      <4>1. g[s] = h[s]
        BY <2>6, <3>1
      <4> QED BY <2>5, <3>1, <4>1 DEF AddsAny
    <3>2. CASE s # {}
      <4> DEFINE c == pick(s)
      <4>1. c \in s
        BY <3>2
      <4> HIDE DEF c
      <4>2. CASE x \notin s
        <5>1. s \in SUBSET U /\ s \ {c} \in SUBSET T /\ x \notin s \ {c}
          BY <4>2
        <5>2. h[s] = f[c] + h[s \ {c}]
          BY <2>5, <4>1, <5>1 DEF AddsAny
        <5>3. g[s] = h[s] /\ g[s \ {c}] = h[s \ {c}]
          BY <2>6, <4>2, <5>1
        <5> QED BY <3>2, <5>2, <5>3 DEF c
      <4>3. CASE x = c
        <5>1. s \ {c} \in SUBSET T /\ x \notin s \ {c}
          BY <4>3
        <5>2. g[s] = f[x] + h[s \ {x}] /\ g[s \ {c}] = h[s \ {c}]
          BY <2>6, <4>1, <4>3, <5>1
        <5> QED BY <3>2, <4>3, <5>2 DEF c
      <4>4. CASE x \in s /\ x # c
        <5>1. /\ s \ {c} \in SUBSET T /\ x \in s \ {c} /\ s \ {x} \in SUBSET U
              /\ c \in s \ {x} /\ (s \ {x}) \ {c} = (s \ {c}) \ {x}
          BY <4>1, <4>4
        <5> DEFINE rest == h[(s \ {x}) \ {c}]
        <5>2. h[s \ {x}] = f[c] + rest
          BY <2>5, <5>1 DEF AddsAny
        <5>3. rest \in Int /\ f[x] \in Int /\ f[c] \in Int
          <6>1. (s \ {x}) \ {c} \in SUBSET U /\ x \in D /\ c \in D
            BY <1>2, <4>1, <4>4, <5>1
          <6> QED BY <2>5, <6>1 DEF AddsAny
        <5>4. g[s] = f[x] + h[s \ {x}]
          BY <2>6, <4>4
        <5>5. g[s \ {c}] = f[x] + rest
          BY <2>6, <5>1
        <5> HIDE DEF rest
        <5>6. g[s] = f[c] + g[s \ {c}]
          BY <5>2, <5>3, <5>4, <5>5
        <5> QED BY <3>2, <5>6 DEF c
      <4> QED BY <4>2, <4>3, <4>4
    <3> QED BY <3>1, <3>2
  <2>9. Adds(g, f, T)
    BY <1>0, <2>7, <2>8
  <2> QED BY <1>2, <2>9
<1> QED BY <1>3, <1>4

\* Two functions that add the same up agree.
LEMMA SumUnique ==
  ASSUME NEW D, IsFiniteSet(D), NEW f, NEW g, NEW h, AddsAny(g, f, D), AddsAny(h, f, D)
  PROVE  \A s \in SUBSET D : g[s] = h[s]
<1> DEFINE bad == {s \in SUBSET D : g[s] # h[s]}
<1> SUFFICES ASSUME bad # {} PROVE FALSE
  OBVIOUS
<1>1. PICK s \in bad : \A y \in bad : y \subseteq s => y = s
  <2>1. bad \subseteq SUBSET D
    OBVIOUS
  <2> HIDE DEF bad
  <2> QED BY <2>1, LeastSubset
<1>2. s \in SUBSET D /\ g[s] # h[s]
  OBVIOUS
<1>3. s # {}
  BY <1>2 DEF AddsAny
<1>4. PICK x \in s : TRUE
  BY <1>3
<1>5. s \ {x} \in SUBSET D /\ s \ {x} \subseteq s /\ s \ {x} # s
  BY <1>2, <1>4
<1>6. g[s \ {x}] = h[s \ {x}]
  <2>1. s \ {x} \notin bad
    BY <1>1, <1>5
  <2> QED BY <1>5, <2>1
<1>7. g[s] = f[x] + g[s \ {x}] /\ h[s] = f[x] + h[s \ {x}]
  BY <1>2, <1>4 DEF AddsAny
<1> QED BY <1>2, <1>6, <1>7

\* What the library's sum of a function is.
LEMMA SumIs ==
  ASSUME NEW D, IsFiniteSet(D), NEW f \in [D -> Int]
  PROVE  \E it : AddsAny(it, f, D) /\ SumFunction(f) = it[D]
<1> DEFINE it == CHOOSE it : Adds(it, f, D)
<1>1. Adds(it, f, D)
  <2> HIDE DEF it
  <2> QED BY SumExists DEF it
<1>2. DOMAIN f = D
  OBVIOUS
<1>3. SumFunction(f) = it[D]
  BY <1>2, Zenon DEF SumFunction, SumFunctionOnSet, FoldFunctionOnSet, MapThenFoldSet, Adds
<1> HIDE DEF it
<1> QED BY <1>1, <1>3, AnyOrder

LEMMA SumBy ==
  ASSUME NEW D, IsFiniteSet(D), NEW f \in [D -> Int], NEW g, AddsAny(g, f, D)
  PROVE  SumFunction(f) = g[D] /\ SumFunction(f) \in Int
<1>1. PICK it : AddsAny(it, f, D) /\ SumFunction(f) = it[D]
  BY SumIs
<1>2. D \in SUBSET D
  OBVIOUS
<1>3. it[D] = g[D]
  BY <1>1, <1>2, SumUnique
<1> QED BY <1>1, <1>2, <1>3 DEF AddsAny

\* The elements of W whose place is in s.
In(W, place, s) == {r \in W : place[r] \in s}

\* f counts the elements of W at each place.
Counts(f, W, place, D) ==
  /\ IsFiniteSet(W) /\ IsFiniteSet(D)
  /\ \A b \in D : f[b] = Cardinality({r \in W : place[r] = b})

LEMMA InOneMore ==
  ASSUME NEW W, NEW place, NEW D, NEW f, Counts(f, W, place, D), NEW s \in SUBSET D, NEW x \in s
  PROVE  Cardinality(In(W, place, s)) = f[x] + Cardinality(In(W, place, s \ {x}))
<1> DEFINE A == {r \in W : place[r] = x}
           B == In(W, place, s \ {x})
<1>1. IsFiniteSet(A) /\ IsFiniteSet(B)
  BY FS_Subset DEF Counts, In
<1>2. A \cap B = {} /\ A \cup B = In(W, place, s)
  BY DEF In
<1>3. f[x] = Cardinality(A)
  BY DEF Counts
<1> HIDE DEF A, B
<1>4. Cardinality(A \cup B) = Cardinality(A) + Cardinality(B) - Cardinality(A \cap B)
  BY <1>1, FS_Union
<1>5. Cardinality({}) = 0 /\ Cardinality(A) \in Nat /\ Cardinality(B) \in Nat
  BY <1>1, FS_EmptySet, FS_CardinalityType
<1>6. Cardinality(A \cap B) = 0 /\ Cardinality(A \cup B) = Cardinality(In(W, place, s))
  BY <1>2, <1>5
<1>7. Cardinality(A \cup B) = Cardinality(A) + Cardinality(B)
  BY <1>4, <1>5, <1>6
<1> QED BY <1>3, <1>6, <1>7 DEF B

LEMMA SumOfZeros ==
  ASSUME NEW D, IsFiniteSet(D), NEW f, f = [x \in D |-> 0]
  PROVE  SumFunction(f) = 0
<1> DEFINE g == [s \in SUBSET D |-> 0]
<1>1. f \in [D -> Int] /\ \A x \in D : f[x] = 0
  OBVIOUS
<1>2. \A s \in SUBSET D : g[s] = 0
  OBVIOUS
<1> HIDE DEF g
<1>3. AddsAny(g, f, D)
  BY <1>1, <1>2 DEF AddsAny
<1>4. g[D] = 0
  BY <1>2
<1>5. SumFunction(f) = g[D]
  BY <1>1, <1>3, SumBy
<1> QED BY <1>4, <1>5

\* h is f but for one more at x.
OneMoreAt(h, f, D, x) ==
  h \in [D -> Int] /\ h[x] = f[x] + 1 /\ \A y \in D \ {x} : h[y] = f[y]

LEMMA SumOneMore ==
  ASSUME NEW D, IsFiniteSet(D), NEW f \in [D -> Int], NEW x \in D, NEW h, OneMoreAt(h, f, D, x)
  PROVE  SumFunction(h) = SumFunction(f) + 1
<1>1. h \in [D -> Int] /\ h[x] = f[x] + 1 /\ \A y \in D \ {x} : h[y] = f[y]
  BY DEF OneMoreAt
<1>2. PICK it : AddsAny(it, f, D) /\ SumFunction(f) = it[D]
  BY SumIs
<1> DEFINE g == [s \in SUBSET D |-> IF x \in s THEN it[s] + 1 ELSE it[s]]
<1>3. \A s \in SUBSET D : /\ x \in s => g[s] = it[s] + 1
                          /\ x \notin s => g[s] = it[s]
  OBVIOUS
<1> HIDE DEF g
<1>4. ASSUME NEW s \in SUBSET D
      PROVE  g[s] \in Int /\ \A y \in s : g[s] = h[y] + g[s \ {y}]
  <2>1. it[s] \in Int
    BY <1>2 DEF AddsAny
  <2>2. ASSUME NEW y \in s PROVE g[s] = h[y] + g[s \ {y}]
    <3>1. s \ {y} \in SUBSET D /\ f[y] \in Int /\ it[s] = f[y] + it[s \ {y}] /\ it[s \ {y}] \in Int
      BY <1>2 DEF AddsAny
    <3>2. CASE y = x
      <4>1. g[s] = it[s] + 1 /\ g[s \ {y}] = it[s \ {y}] /\ h[y] = f[y] + 1
        BY <1>1, <1>3, <3>1, <3>2
      <4> QED BY <3>1, <4>1
    <3>3. CASE y # x /\ x \in s
      <4>1. g[s] = it[s] + 1 /\ g[s \ {y}] = it[s \ {y}] + 1 /\ h[y] = f[y]
        BY <1>1, <1>3, <3>1, <3>3
      <4> QED BY <3>1, <4>1
    <3>4. CASE x \notin s
      <4>1. g[s] = it[s] /\ g[s \ {y}] = it[s \ {y}] /\ h[y] = f[y]
        BY <1>1, <1>3, <3>1, <3>4
      <4> QED BY <3>1, <4>1
    <3> QED BY <3>2, <3>3, <3>4
  <2>3. g[s] \in Int
    BY <1>3, <2>1
  <2> QED BY <2>2, <2>3
<1>5. g[{}] = 0
  BY <1>2, <1>3 DEF AddsAny
<1>6. AddsAny(g, h, D)
  BY <1>4, <1>5 DEF AddsAny
<1>7. SumFunction(h) = g[D] /\ g[D] = it[D] + 1
  BY <1>1, <1>3, <1>6, SumBy
<1> QED BY <1>1, <1>2, <1>7

-----------------------------------------------------------------------------
(* Loops: the library folds a sequence over the sets of its places, largest *)
(* place last.                                                              *)

LEMMA LargestIn ==
  ASSUME NEW n \in Nat, NEW T \in SUBSET (1 .. n), T # {}
  PROVE  Max(T) \in T /\ \A i \in T : i <= Max(T)
<1> DEFINE bounds == {b \in Nat : \A i \in T : i <= b}
<1>1. n \in bounds /\ bounds \subseteq Nat
  OBVIOUS
<1>2. PICK b \in bounds : \A m \in bounds : b <= m
  <2> HIDE DEF bounds
  <2> QED BY <1>1, LeastNumber
<1>3. b \in T
  <2> SUFFICES ASSUME b \notin T PROVE FALSE
    OBVIOUS
  <2>1. PICK i \in T : TRUE
    OBVIOUS
  <2>2. i \in Nat /\ 1 <= i /\ i <= b /\ b \in Nat
    OBVIOUS
  <2>3. \A j \in T : j <= b - 1
    OBVIOUS
  <2>4. b - 1 \in bounds
    BY <2>2, <2>3
  <2>5. b <= b - 1
    BY <1>2, <2>4
  <2> QED BY <2>2, <2>5
<1> QED BY <1>2, <1>3 DEF Max

LEMMA LargestOne ==
  ASSUME NEW n \in Nat, NEW T \in SUBSET (1 .. n), n \in T
  PROVE  Max(T) = n
<1>1. Max(T) \in T /\ n <= Max(T)
  BY LargestIn
<1>2. Max(T) \in 1 .. n
  BY <1>1
<1> QED BY <1>1, <1>2

\* g is the fold of F over every set of places of s.
FoldsAll(g, F, base, s, n) ==
  \A T \in SUBSET (1 .. n) :
    /\ T = {} => g[T] = base
    /\ T # {} => g[T] = F[<<g[T \ {Max(T)}], s[Max(T)]>>]

\* The first n elements of s are elements of S.
Holds(s, n, S) == \A i \in 1 .. n : s[i] \in S

LEMMA FoldExists ==
  ASSUME NEW Acc, NEW S, NEW F \in [Acc \X S -> Acc], NEW base \in Acc, NEW s, NEW n \in Nat,
         Holds(s, n, S)
  PROVE  \E g \in [SUBSET (1 .. n) -> Acc] : FoldsAll(g, F, base, s, n)
<1> DEFINE Has(m) == \E g \in [SUBSET (1 .. m) -> Acc] : FoldsAll(g, F, base, s, m)
           bad == {m \in 0 .. n : ~ Has(m)}
<1> SUFFICES ASSUME bad # {} PROVE FALSE
  <2>1. n \in 0 .. n
    OBVIOUS
  <2> QED BY <2>1
<1>1. PICK m \in bad : \A k \in bad : m <= k
  <2>1. bad \subseteq Nat
    OBVIOUS
  <2> HIDE DEF bad
  <2> QED BY <2>1, LeastNumber
<1>2. m \in 0 .. n /\ ~ Has(m)
  OBVIOUS
<1>3. CASE m = 0
  <2> DEFINE g == [T \in SUBSET (1 .. m) |-> base]
  <2>1. \A T \in SUBSET (1 .. m) : T = {}
    BY <1>3
  <2>2. g \in [SUBSET (1 .. m) -> Acc] /\ FoldsAll(g, F, base, s, m)
    BY <2>1 DEF FoldsAll
  <2> QED BY <1>2, <2>2
<1>4. CASE m # 0
  <2>1. m \in 1 .. n /\ m - 1 \in 0 .. n /\ ~ (m <= m - 1) /\ m - 1 \in Nat
    BY <1>2, <1>4
  <2>2. Has(m - 1)
    BY <1>1, <2>1
  <2>3. PICK g \in [SUBSET (1 .. m - 1) -> Acc] : FoldsAll(g, F, base, s, m - 1)
    BY <2>2
  <2> DEFINE h == [T \in SUBSET (1 .. m) |-> IF m \in T THEN F[<<g[T \ {m}], s[m]>>] ELSE g[T]]
  <2>4. \A T \in SUBSET (1 .. m) : T \ {m} \in SUBSET (1 .. m - 1) /\ (m \notin T => T \in SUBSET (1 .. m - 1))
    BY <2>1
  <2>5. s[m] \in S
    BY <2>1 DEF Holds
  <2>6. h \in [SUBSET (1 .. m) -> Acc]
    <3>1. \A T \in SUBSET (1 .. m) : <<g[T \ {m}], s[m]>> \in Acc \X S
      BY <2>4, <2>5
    <3>2. \A T \in SUBSET (1 .. m) : m \notin T => g[T] \in Acc
      BY <2>4
    <3> QED BY <3>1, <3>2
  <2>7. \A T \in SUBSET (1 .. m) : m \notin T => h[T] = g[T]
    OBVIOUS
  <2>8. \A T \in SUBSET (1 .. m) : m \in T => h[T] = F[<<g[T \ {m}], s[m]>>]
    OBVIOUS
  <2> HIDE DEF h
  <2>9. ASSUME NEW T \in SUBSET (1 .. m)
        PROVE  /\ T = {} => h[T] = base
               /\ T # {} => h[T] = F[<<h[T \ {Max(T)}], s[Max(T)]>>]
    <3>1. CASE m \in T
      <4>1. Max(T) = m
        BY <2>1, <3>1, LargestOne
      <4>2. T \ {m} \in SUBSET (1 .. m) /\ m \notin T \ {m}
        OBVIOUS
      <4>3. h[T \ {m}] = g[T \ {m}]
        BY <2>7, <4>2
      <4> QED BY <2>8, <3>1, <4>1, <4>3
    <3>2. CASE m \notin T
      <4>1. T \in SUBSET (1 .. m - 1)
        BY <2>4, <3>2
      <4>2. h[T] = g[T]
        BY <2>7, <3>2
      <4>3. T = {} => g[T] = base
        BY <2>3, <4>1 DEF FoldsAll
      <4>4. ASSUME T # {} PROVE h[T] = F[<<h[T \ {Max(T)}], s[Max(T)]>>]
        <5>1. g[T] = F[<<g[T \ {Max(T)}], s[Max(T)]>>]
          BY <2>3, <4>1, <4>4 DEF FoldsAll
        <5>2. T \ {Max(T)} \in SUBSET (1 .. m) /\ m \notin T \ {Max(T)}
          BY <3>2
        <5>3. h[T \ {Max(T)}] = g[T \ {Max(T)}]
          BY <2>7, <5>2
        <5> QED BY <4>2, <5>1, <5>3
      <4> QED BY <4>2, <4>3, <4>4
    <3> QED BY <3>1, <3>2
  <2>10. FoldsAll(h, F, base, s, m)
    BY <2>9 DEF FoldsAll
  <2> QED BY <1>2, <2>6, <2>10
<1> QED BY <1>3, <1>4

\* it does what F does wherever F says something.
Follows(it, Acc, F, base, s, n) ==
  \A T \in SUBSET (1 .. n) :
    /\ T = {} => it[T] = base
    /\ T # {} /\ it[T \ {Max(T)}] \in Acc => it[T] = F[<<it[T \ {Max(T)}], s[Max(T)]>>]

\* p is what a loop over s has come to after each turn.
Turns(p, Acc, F, base, s, n) ==
  /\ p \in [0 .. n -> Acc] /\ p[0] = base
  /\ \A k \in 1 .. n : p[k] = F[<<p[k - 1], s[k]>>]

ByTurns(it, n) == [k \in 0 .. n |-> it[1 .. k]]

LEMMA FollowedTurns ==
  ASSUME NEW Acc, NEW S, NEW F \in [Acc \X S -> Acc], NEW base \in Acc, NEW s, NEW n \in Nat,
         Holds(s, n, S), NEW it, Follows(it, Acc, F, base, s, n)
  PROVE  Turns(ByTurns(it, n), Acc, F, base, s, n)
<1> DEFINE p == [k \in 0 .. n |-> it[1 .. k]]
           bad == {k \in 0 .. n : p[k] \notin Acc}
<1>1. p[0] = base
  <2>1. 1 .. 0 = {} /\ {} \in SUBSET (1 .. n)
    OBVIOUS
  <2>2. p[0] = it[{}]
    BY <2>1
  <2> QED BY <2>1, <2>2 DEF Follows
<1>2. ASSUME NEW k \in 1 .. n, p[k - 1] \in Acc PROVE p[k] = F[<<p[k - 1], s[k]>>]
  <2>1. 1 .. k \in SUBSET (1 .. n) /\ 1 .. k # {} /\ k \in 1 .. k /\ 1 .. k \in SUBSET (1 .. k) /\ k \in Nat
    OBVIOUS
  <2>2. Max(1 .. k) = k
    BY <2>1, LargestOne
  <2>3. (1 .. k) \ {k} = 1 .. k - 1
    OBVIOUS
  <2>4. p[k] = it[1 .. k] /\ p[k - 1] = it[1 .. k - 1]
    OBVIOUS
  <2> HIDE DEF p
  <2>5. it[(1 .. k) \ {Max(1 .. k)}] \in Acc
    BY <1>2, <2>2, <2>3, <2>4
  <2>6. it[1 .. k] = F[<<it[(1 .. k) \ {Max(1 .. k)}], s[Max(1 .. k)]>>]
    BY <2>1, <2>5 DEF Follows
  <2> QED BY <2>2, <2>3, <2>4, <2>6
<1>3. bad = {}
  <2> SUFFICES ASSUME bad # {} PROVE FALSE
    OBVIOUS
  <2>1. PICK m \in bad : \A k \in bad : m <= k
    <3>1. bad \subseteq Nat
      OBVIOUS
    <3> HIDE DEF bad
    <3> QED BY <3>1, LeastNumber
  <2>2. m \in 0 .. n /\ p[m] \notin Acc
    OBVIOUS
  <2> HIDE DEF p
  <2>3. m # 0
    BY <1>1, <2>2
  <2>4. m \in 1 .. n /\ m - 1 \in 0 .. n /\ ~ (m <= m - 1)
    BY <2>2, <2>3
  <2>5. p[m - 1] \in Acc
    BY <2>1, <2>4
  <2>6. p[m] = F[<<p[m - 1], s[m]>>]
    BY <1>2, <2>4, <2>5
  <2>7. <<p[m - 1], s[m]>> \in Acc \X S
    BY <2>4, <2>5 DEF Holds
  <2> QED BY <2>2, <2>6, <2>7
<1>4. \A k \in 0 .. n : p[k] \in Acc
  BY <1>3
<1>5. \A k \in 1 .. n : k - 1 \in 0 .. n
  OBVIOUS
<1>6. p = [k \in 0 .. n |-> p[k]]
  OBVIOUS
<1> HIDE DEF p, bad
<1>7. p \in [0 .. n -> Acc]
  BY <1>4, <1>6
<1>8. Turns(p, Acc, F, base, s, n)
  BY <1>1, <1>2, <1>4, <1>5, <1>7 DEF Turns
<1> QED BY <1>8 DEF p, ByTurns

LEMMA LoopExists ==
  ASSUME NEW Acc, NEW S, NEW F \in [Acc \X S -> Acc], NEW base \in Acc, NEW s, NEW n \in Nat,
         Holds(s, n, S)
  PROVE  \E p : Turns(p, Acc, F, base, s, n)
<1>1. PICK g \in [SUBSET (1 .. n) -> Acc] : FoldsAll(g, F, base, s, n)
  BY FoldExists
<1>2. Follows(g, Acc, F, base, s, n)
  BY <1>1 DEF FoldsAll, Follows
<1> QED BY <1>2, FollowedTurns

\* An invariant of the turns, as the set of the pairs of a turn and what it leaves.
LEMMA LoopKeeps ==
  ASSUME NEW n \in Nat, NEW q, NEW J, <<0, q[0]>> \in J,
         \A k \in 1 .. n : <<k - 1, q[k - 1]>> \in J => <<k, q[k]>> \in J
  PROVE  \A k \in 0 .. n : <<k, q[k]>> \in J
<1> DEFINE bad == {k \in 0 .. n : <<k, q[k]>> \notin J}
<1> SUFFICES ASSUME bad # {} PROVE FALSE
  OBVIOUS
<1>1. PICK m \in bad : \A k \in bad : m <= k
  <2>1. bad \subseteq Nat
    OBVIOUS
  <2> HIDE DEF bad
  <2> QED BY <2>1, LeastNumber
<1>2. m \in 0 .. n /\ <<m, q[m]>> \notin J
  OBVIOUS
<1>3. m # 0
  BY <1>2
<1>4. m \in 1 .. n /\ m - 1 \in 0 .. n /\ ~ (m <= m - 1)
  BY <1>2, <1>3
<1>5. <<m - 1, q[m - 1]>> \in J
  BY <1>1, <1>4
<1> QED BY <1>2, <1>4, <1>5

\* Two loops leave the same as long as they read the same.
BothTurn(q, r, Acc, F, base, s, t, n, m, k) ==
  /\ Turns(q, Acc, F, base, s, n) /\ Turns(r, Acc, F, base, t, m)
  /\ n \in Nat /\ m \in Nat /\ k \in Nat /\ k <= n /\ k <= m
  /\ \A i \in 1 .. k : s[i] = t[i]

LEMMA TurnsAgree ==
  ASSUME NEW q, NEW r, NEW Acc, NEW F, NEW base, NEW s, NEW t, NEW n, NEW m, NEW k,
         BothTurn(q, r, Acc, F, base, s, t, n, m, k)
  PROVE  q[k] = r[k]
<1>0. /\ Turns(q, Acc, F, base, s, n) /\ Turns(r, Acc, F, base, t, m)
      /\ n \in Nat /\ m \in Nat /\ k \in Nat /\ k <= n /\ k <= m
      /\ \A i \in 1 .. k : s[i] = t[i]
  BY DEF BothTurn
<1> DEFINE bad == {i \in 0 .. k : q[i] # r[i]}
<1> SUFFICES ASSUME bad # {} PROVE FALSE
  <2>1. k \in 0 .. k
    BY <1>0
  <2> QED BY <2>1
<1>1. PICK i \in bad : \A j \in bad : i <= j
  <2>1. bad \subseteq Nat
    BY <1>0
  <2> HIDE DEF bad
  <2> QED BY <2>1, LeastNumber
<1>2. i \in 0 .. k /\ q[i] # r[i]
  OBVIOUS
<1>3. q[0] = base /\ r[0] = base
  BY <1>0 DEF Turns
<1>4. i \in 1 .. k /\ i \in 1 .. n /\ i \in 1 .. m /\ i - 1 \in 0 .. k /\ ~ (i <= i - 1)
  BY <1>0, <1>2, <1>3
<1>5. q[i - 1] = r[i - 1]
  BY <1>1, <1>4
<1>6. q[i] = F[<<q[i - 1], s[i]>>] /\ r[i] = F[<<r[i - 1], t[i]>>]
  BY <1>0, <1>4 DEF Turns
<1> QED BY <1>0, <1>2, <1>4, <1>5, <1>6

\* t is s with its elements i and i + 1 exchanged.
Exchanged(s, t, n, i) ==
  /\ t[i] = s[i + 1] /\ t[i + 1] = s[i]
  /\ \A k \in 1 .. n : k \notin {i, i + 1} => t[k] = s[k]

Commutes(F, Acc, S) ==
  \A a \in Acc, c, d \in S : F[<<F[<<a, c>>], d>>] = F[<<F[<<a, d>>], c>>]

LEMMA ExchangedTurns ==
  ASSUME NEW Acc, NEW S, NEW F, NEW base, Commutes(F, Acc, S),
         NEW n \in Nat, NEW i \in 1 .. n - 1, NEW s, NEW t, Holds(s, n, S), Exchanged(s, t, n, i),
         NEW q, NEW r, Turns(q, Acc, F, base, s, n), Turns(r, Acc, F, base, t, n)
  PROVE  q[n] = r[n]
<1> DEFINE bad == {k \in 0 .. n : k # i /\ q[k] # r[k]}
<1>1. n \in 0 .. n /\ n # i
  OBVIOUS
<1> SUFFICES ASSUME bad # {} PROVE FALSE
  BY <1>1
<1>2. PICK m \in bad : \A k \in bad : m <= k
  <2>1. bad \subseteq Nat
    OBVIOUS
  <2> HIDE DEF bad
  <2> QED BY <2>1, LeastNumber
<1>3. m \in 0 .. n /\ m # i /\ q[m] # r[m]
  OBVIOUS
<1>4. q[0] = base /\ r[0] = base
  BY DEF Turns
<1>5. /\ \A k \in 1 .. n : q[k] = F[<<q[k - 1], s[k]>>] /\ r[k] = F[<<r[k - 1], t[k]>>]
      /\ \A k \in 0 .. n : q[k] \in Acc
  BY DEF Turns
<1>6. m \in 1 .. n /\ m - 1 \in 0 .. n /\ ~ (m <= m - 1)
  BY <1>3, <1>4
<1>7. CASE m # i + 1
  <2>1. m - 1 # i /\ m \notin {i, i + 1}
    BY <1>3, <1>6, <1>7
  <2>2. q[m - 1] = r[m - 1]
    BY <1>2, <1>6, <2>1
  <2>3. t[m] = s[m]
    BY <1>6, <2>1 DEF Exchanged
  <2> QED BY <1>3, <1>5, <1>6, <2>2, <2>3
<1>8. CASE m = i + 1
  <2>1. i \in 1 .. n /\ i + 1 \in 1 .. n /\ i - 1 \in 0 .. n /\ i - 1 # i /\ ~ (i + 1 <= i - 1)
        /\ i + 1 - 1 = i
    OBVIOUS
  <2>2. q[i - 1] = r[i - 1]
    BY <1>2, <1>8, <2>1
  <2>3. q[i] = F[<<q[i - 1], s[i]>>] /\ r[i] = F[<<r[i - 1], t[i]>>]
    BY <1>5, <2>1
  <2>4. q[i + 1] = F[<<q[i + 1 - 1], s[i + 1]>>] /\ r[i + 1] = F[<<r[i + 1 - 1], t[i + 1]>>]
    BY <1>5, <2>1
  <2>5. t[i] = s[i + 1] /\ t[i + 1] = s[i] /\ s[i] \in S /\ s[i + 1] \in S /\ q[i - 1] \in Acc
    BY <1>5, <2>1 DEF Exchanged, Holds
  <2>6. q[i + 1] = r[i + 1]
    BY <2>1, <2>2, <2>3, <2>4, <2>5 DEF Commutes
  <2> QED BY <1>3, <1>8, <2>6
<1> QED BY <1>7, <1>8
=============================================================================
