----------------------------- MODULE IndexProofs -----------------------------
(***************************************************************************)
(* What decides which pages an index is made of and what a new one is said *)
(* to change: for every robots.txt pattern and path (Robots), every        *)
(* sequence of discovered URLs (Selection) and every two crawls of a site  *)
(* (IndexDiff).                                                            *)
(***************************************************************************)
EXTENDS Robots, Selection, IndexDiff, LoopTheorems

-----------------------------------------------------------------------------
(* robots.txt: the greedy match decides what a pattern means.               *)

Alphabet == Letters \cup {"*", "$"}

\* Character by character, segment stands at place i of text.
StandsAt(text, segment, i) ==
  i + Len(segment) <= Len(text) /\ \A k \in 1 .. Len(segment) : text[i + k] = segment[k]

LEMMA PieceEach ==
  ASSUME NEW C, NEW text \in Seq(C), NEW segment \in Seq(C), NEW i \in Nat
  PROVE  PieceAt(text, segment, i) <=> StandsAt(text, segment, i)
<1> DEFINE m == Len(segment)
           part == SubSeq(text, i + 1, i + m)
<1>1. m \in Nat /\ Len(text) \in Nat /\ DOMAIN segment = 1 .. m
  OBVIOUS
<1>2. CASE ~ (i + m <= Len(text))
  BY <1>2 DEF PieceAt, StandsAt
<1>3. CASE i + m <= Len(text)
  <2>1. \A j \in i + 1 .. i + m : text[j] \in C
    BY <1>1, <1>3
  <2>2. /\ part \in Seq(C) /\ Len(part) = m /\ DOMAIN part = 1 .. m
        /\ \A k \in 1 .. m : part[k] = text[i + k]
    <3>1. /\ part \in Seq(C)
          /\ Len(part) = IF i + 1 <= i + m THEN i + m - (i + 1) + 1 ELSE 0
          /\ \A k \in 1 .. i + m - (i + 1) + 1 : part[k] = text[i + 1 + k - 1]
      BY <2>1, <1>1, SubSeqProperties
    <3>2. Len(part) = m
      BY <3>1, <1>1
    <3>3. \A k \in 1 .. m : k \in 1 .. i + m - (i + 1) + 1 /\ i + 1 + k - 1 = i + k
      BY <1>1
    <3>4. DOMAIN part = 1 .. m
      BY <3>1, <3>2
    <3> QED BY <3>1, <3>2, <3>3, <3>4
  <2> HIDE DEF part
  <2>3. part = segment <=> \A k \in 1 .. m : part[k] = segment[k]
    <3>1. ASSUME \A k \in 1 .. m : part[k] = segment[k] PROVE part = segment
      <4>1. part \in Seq(C) /\ segment \in Seq(C) /\ Len(part) = Len(segment)
        BY <2>2
      <4>2. \A k \in 1 .. Len(part) : part[k] = segment[k]
        BY <2>2, <3>1
      <4> QED BY <4>1, <4>2, SeqEqual
    <3> QED BY <3>1
  <2> QED BY <1>3, <2>2, <2>3 DEF PieceAt, StandsAt, part
<1> QED BY <1>2, <1>3

\* A piece that is one character longer.
LEMMA PieceLonger ==
  ASSUME NEW C, NEW text \in Seq(C), NEW segment \in Seq(C), NEW c \in C, NEW i \in Nat
  PROVE  PieceAt(text, Append(segment, c), i) <=>
           /\ PieceAt(text, segment, i)
           /\ i + Len(segment) + 1 <= Len(text) /\ text[i + Len(segment) + 1] = c
<1> DEFINE m == Len(segment)
           longer == Append(segment, c)
<1>1. /\ m \in Nat /\ Len(text) \in Nat /\ longer \in Seq(C) /\ Len(longer) = m + 1
      /\ longer[m + 1] = c /\ \A k \in 1 .. m : longer[k] = segment[k]
  OBVIOUS
<1> HIDE DEF longer
<1>2. PieceAt(text, longer, i) <=>
        i + (m + 1) <= Len(text) /\ \A k \in 1 .. m + 1 : text[i + k] = longer[k]
  <2>1. longer \in Seq(C)
    BY <1>1
  <2>2. PieceAt(text, longer, i) <=> StandsAt(text, longer, i)
    BY <2>1, PieceEach
  <2> QED BY <1>1, <2>2 DEF StandsAt
<1>3. PieceAt(text, segment, i) <=>
        i + m <= Len(text) /\ \A k \in 1 .. m : text[i + k] = segment[k]
  BY PieceEach DEF StandsAt
<1>4. (\A k \in 1 .. m + 1 : text[i + k] = longer[k])
        <=> text[i + m + 1] = c /\ \A k \in 1 .. m : text[i + k] = segment[k]
  <2>1. i + (m + 1) = i + m + 1 /\ m + 1 \in 1 .. m + 1
    BY <1>1
  <2>2. \A k \in 1 .. m + 1 : k \in 1 .. m \/ k = m + 1
    BY <1>1
  <2>3. \A k \in 1 .. m : k \in 1 .. m + 1
    BY <1>1
  <2>4. text[i + (m + 1)] = text[i + m + 1]
    BY <2>1
  <2>5. ASSUME \A k \in 1 .. m + 1 : text[i + k] = longer[k]
        PROVE  text[i + m + 1] = c /\ \A k \in 1 .. m : text[i + k] = segment[k]
    <3>1. text[i + (m + 1)] = longer[m + 1]
      BY <2>1, <2>5
    <3>2. \A k \in 1 .. m : text[i + k] = longer[k]
      BY <2>3, <2>5
    <3> QED BY <1>1, <2>4, <3>1, <3>2
  <2>6. ASSUME text[i + m + 1] = c, \A k \in 1 .. m : text[i + k] = segment[k]
        PROVE  \A k \in 1 .. m + 1 : text[i + k] = longer[k]
    BY <1>1, <2>2, <2>4, <2>6
  <2> QED BY <2>5, <2>6
<1>5. i + (m + 1) <= Len(text) <=> i + m + 1 <= Len(text)
  BY <1>1
<1>6. i + m + 1 <= Len(text) => i + m <= Len(text)
  BY <1>1
<1> QED BY <1>2, <1>3, <1>4, <1>5, <1>6 DEF longer

LEMMA EmptyPiece ==
  ASSUME NEW C, NEW text \in Seq(C), NEW i \in 0 .. Len(text)
  PROVE  PieceAt(text, <<>>, i)
<1>1. <<>> \in Seq(C) /\ i \in Nat
  OBVIOUS
<1>2. StandsAt(text, <<>>, i)
  BY DEF StandsAt
<1> QED BY <1>1, <1>2, PieceEach

\* FindEnd finds the first place a piece is at.
LEMMA FirstEnd ==
  ASSUME NEW C, NEW text \in Seq(C), NEW segment \in Seq(C), NEW pos \in Nat
  PROVE  /\ FindEnd(text, segment, pos) \in 0 .. Len(text) \cup {-1}
         /\ FindEnd(text, segment, pos) = -1 =>
              \A i \in pos .. Len(text) : ~ PieceAt(text, segment, i)
         /\ FindEnd(text, segment, pos) # -1 =>
              \E i \in pos .. Len(text) :
                /\ PieceAt(text, segment, i) /\ FindEnd(text, segment, pos) = i + Len(segment)
                /\ \A j \in pos .. Len(text) : PieceAt(text, segment, j) => i <= j
<1> DEFINE found == {i \in pos .. Len(text) : PieceAt(text, segment, i)}
<1>1. Len(text) \in Nat /\ Len(segment) \in Nat
  OBVIOUS
<1>2. FindEnd(text, segment, pos) = IF found = {} THEN -1 ELSE Min(found) + Len(segment)
  BY DEF FindEnd
<1>3. CASE found = {}
  BY <1>2, <1>3
<1>4. CASE found # {}
  <2>1. found \subseteq Nat
    BY <1>1
  <2>2. PICK i \in found : \A j \in found : i <= j
    <3> HIDE DEF found
    <3> QED BY <1>4, <2>1, LeastNumber
  <2>3. Min(found) = i
    <3>1. Min(found) \in found /\ \A j \in found : Min(found) <= j
      <4> HIDE DEF found
      <4> QED BY <2>2 DEF Min
    <3>2. Min(found) \in Nat /\ i \in Nat /\ Min(found) <= i /\ i <= Min(found)
      BY <2>1, <2>2, <3>1
    <3> QED BY <3>2
  <2>4. PieceAt(text, segment, i) /\ i \in pos .. Len(text)
    BY <2>2
  <2>5. i + Len(segment) <= Len(text) /\ i + Len(segment) \in Nat
    BY <1>1, <2>4 DEF PieceAt
  <2>6. FindEnd(text, segment, pos) = i + Len(segment)
    BY <1>2, <1>4, <2>3
  <2>7. \A j \in pos .. Len(text) : PieceAt(text, segment, j) => i <= j
    BY <2>2
  <2>8. FindEnd(text, segment, pos) \in 0 .. Len(text)
    BY <1>1, <2>5, <2>6
  <2> QED BY <1>1, <2>4, <2>5, <2>6, <2>7, <2>8
<1> QED BY <1>3, <1>4

\* The pieces so far: _compile's loop, as a function.
Pieces == {a \in Seq(Seq(Alphabet)) : a # <<>>}
Cut == [x \in Pieces \X Alphabet |->
          IF x[2] = "*" THEN Append(x[1], <<>>)
          ELSE [x[1] EXCEPT ![Len(x[1])] = Append(@, x[2])]]

LEMMA CutOne ==
  ASSUME NEW a \in Pieces, NEW c \in Alphabet
  PROVE  LET b == Cut[<<a, c>>]
             n == Len(a) IN
         /\ b \in Pieces /\ n \in Nat \ {0} /\ Len(b) \in Nat
         /\ a[n] \in Seq(Alphabet)
         /\ c = "*" => b = Append(a, <<>>) /\ Len(b) = n + 1 /\ b[n + 1] = <<>>
                       /\ \A k \in 1 .. n : b[k] = a[k]
         /\ c # "*" => b = [a EXCEPT ![n] = Append(a[n], c)]
                       /\ Len(b) = n /\ b[n] = Append(a[n], c) /\ \A k \in 1 .. n - 1 : b[k] = a[k]
<1> DEFINE b == Cut[<<a, c>>]
           n == Len(a)
<1>1. /\ a \in Seq(Seq(Alphabet)) /\ n \in Nat \ {0} /\ DOMAIN a = 1 .. n /\ n \in 1 .. n
      /\ a[n] \in Seq(Alphabet)
  <2> DEFINE S == Seq(Alphabet)
  <2>1. a \in Seq(S) /\ a # <<>>
    BY DEF Pieces
  <2> HIDE DEF S
  <2>2. n \in Nat /\ DOMAIN a = 1 .. n /\ n # 0
    BY <2>1
  <2>3. n \in 1 .. n /\ a[n] \in S
    BY <2>1, <2>2
  <2> QED BY <2>1, <2>2, <2>3 DEF S
<1>2. b = IF c = "*" THEN Append(a, <<>>) ELSE [a EXCEPT ![n] = Append(@, c)]
  BY DEF Cut
<1> HIDE DEF b
<1>3. CASE c = "*"
  <2>1. b = Append(a, <<>>) /\ <<>> \in Seq(Alphabet)
    BY <1>2, <1>3
  <2>2. /\ b \in Seq(Seq(Alphabet)) /\ Len(b) = n + 1 /\ b[n + 1] = <<>>
        /\ \A k \in 1 .. n : b[k] = a[k]
    BY <1>1, <2>1
  <2>3. b # <<>>
    BY <1>1, <2>2
  <2>4. b \in Pieces
    BY <2>2, <2>3 DEF Pieces
  <2>5. Len(b) \in Nat
    BY <1>1, <2>2
  <2> QED BY <1>1, <1>3, <2>1, <2>2, <2>4, <2>5 DEF b
<1>4. CASE c # "*"
  <2> DEFINE piece == Append(a[n], c)
  <2>1. piece \in Seq(Alphabet)
    BY <1>1
  <2>2. b = [a EXCEPT ![n] = piece]
    BY <1>2, <1>4
  <2> HIDE DEF piece
  <2>3. /\ b \in Seq(Seq(Alphabet)) /\ Len(b) = n
    BY <1>1, <2>1, <2>2, ExceptSeq
  <2>4. b[n] = piece /\ \A k \in 1 .. n - 1 : b[k] = a[k]
    <3>1. \A j \in 1 .. n : b[j] = IF j = n THEN piece ELSE a[j]
      BY <1>1, <2>1, <2>2, ExceptSeq
    <3>2. \A k \in 1 .. n - 1 : k \in 1 .. n /\ k # n
      <4>1. n \in Nat
        BY <1>1
      <4> HIDE DEF n
      <4> QED BY <4>1
    <3> QED BY <1>1, <3>1, <3>2
  <2>5. b # <<>>
    BY <1>1, <2>3
  <2>6. b \in Pieces
    BY <2>3, <2>5 DEF Pieces
  <2> QED BY <1>1, <1>4, <2>2, <2>3, <2>4, <2>6 DEF piece, b
<1> QED BY <1>3, <1>4 DEF b

LEMMA CutType == Cut \in [Pieces \X Alphabet -> Pieces] /\ <<<<>>>> \in Pieces
<1> DEFINE cut(x) == IF x[2] = "*" THEN Append(x[1], <<>>)
                     ELSE [x[1] EXCEPT ![Len(x[1])] = Append(@, x[2])]
<1>1. Cut = [x \in Pieces \X Alphabet |-> cut(x)]
  BY DEF Cut
<1> HIDE DEF cut
<1>2. \A a \in Pieces, c \in Alphabet : Cut[<<a, c>>] \in Pieces
  BY CutOne
<1>3. \A x \in Pieces \X Alphabet : x = <<x[1], x[2]>> /\ x[1] \in Pieces /\ x[2] \in Alphabet
  OBVIOUS
<1>4. \A x \in Pieces \X Alphabet : Cut[x] \in Pieces
  BY <1>2, <1>3
<1>5. <<<<>>>> \in Pieces
  BY DEF Pieces
<1> QED BY <1>1, <1>4, <1>5

LEMMA BodyType ==
  ASSUME NEW p \in Seq(Alphabet)
  PROVE  Body(p) \in Seq(Alphabet)
<1>1. CASE Anchored(p)
  <2>1. p # <<>>
    BY <1>1 DEF Anchored
  <2>2. Front(p) = SubSeq(p, 1, Len(p) - 1)
    BY DEF Front
  <2>3. Front(p) \in Seq(Alphabet)
    <3>1. Len(p) \in Nat /\ \A i \in 1 .. Len(p) - 1 : p[i] \in Alphabet
      OBVIOUS
    <3> QED BY <2>2, <3>1, SubSeqProperties
  <2> QED BY <1>1, <2>3 DEF Body
<1>2. CASE ~ Anchored(p)
  BY <1>2 DEF Body
<1> QED BY <1>1, <1>2

LEMMA Compiled ==
  ASSUME NEW p \in Seq(Alphabet)
  PROVE  \E q : /\ Turns(q, Pieces, Cut, <<<<>>>>, Body(p), Len(Body(p)))
                /\ q[Len(Body(p))] = _compile(p)
<1> DEFINE body == Body(p)
           n == Len(body)
           op(a, c) == IF c = "*" THEN Append(a, <<>>)
                       ELSE [a EXCEPT ![Len(a)] = Append(@, c)]
           rhs(it) == [T \in SUBSET (1 .. n) |-> IF T = {} THEN <<<<>>>>
                                               ELSE op(it[T \ {Max(T)}], body[Max(T)])]
           it == CHOOSE it : it = rhs(it)
<1>1. body \in Seq(Alphabet) /\ n \in Nat /\ DOMAIN body = 1 .. n
  BY BodyType
<1>2. Holds(body, n, Alphabet)
  BY <1>1 DEF Holds
<1>3. _compile(p) = it[1 .. n]
  <2>1. _compile(p) = LET i == CHOOSE i : i = [T \in SUBSET (DOMAIN body) |-> IF T = {} THEN <<<<>>>>
                                               ELSE op(i[T \ {Max(T)}], body[Max(T)])] IN i[DOMAIN body]
    BY DEF _compile, FoldLeft, MapThenFoldSet
  <2> HIDE DEF body, n, op
  <2> QED BY <1>1, <2>1
<1>4. ASSUME NEW a \in Pieces, NEW c \in Alphabet PROVE op(a, c) = Cut[<<a, c>>]
  BY <1>4 DEF Cut
<1>5. PICK g \in [SUBSET (1 .. n) -> Pieces] : FoldsAll(g, Cut, <<<<>>>>, body, n)
  <2> HIDE DEF body, n
  <2> QED BY <1>1, <1>2, CutType, FoldExists
<1>6. \A T \in SUBSET (1 .. n) : T # {} => T \ {Max(T)} \in SUBSET (1 .. n) /\ Max(T) \in 1 .. n
  <2> HIDE DEF n
  <2> QED BY <1>1, LargestIn
<1>7. g = rhs(g)
  <2>1. ASSUME NEW T \in SUBSET (1 .. n)
        PROVE  g[T] = IF T = {} THEN <<<<>>>> ELSE op(g[T \ {Max(T)}], body[Max(T)])
    <3>1. T = {} => g[T] = <<<<>>>>
      BY <1>5 DEF FoldsAll
    <3>2. T # {} => g[T] = Cut[<<g[T \ {Max(T)}], body[Max(T)]>>]
      BY <1>5 DEF FoldsAll
    <3>3. T # {} => g[T \ {Max(T)}] \in Pieces /\ body[Max(T)] \in Alphabet
      BY <1>2, <1>6 DEF Holds
    <3>4. T # {} => op(g[T \ {Max(T)}], body[Max(T)]) = Cut[<<g[T \ {Max(T)}], body[Max(T)]>>]
      <4> HIDE DEF op, body, n
      <4> QED BY <1>4, <3>3
    <3> HIDE DEF op
    <3> QED BY <3>1, <3>2, <3>4
  <2>2. g = [T \in SUBSET (1 .. n) |-> g[T]]
    OBVIOUS
  <2> HIDE DEF op, body, n
  <2> QED BY <2>1, <2>2
<1>8. it = rhs(it)
  <2> HIDE DEF rhs
  <2> QED BY <1>7
<1> HIDE DEF it
<1>9. Follows(it, Pieces, Cut, <<<<>>>>, body, n)
  <2> SUFFICES ASSUME NEW T \in SUBSET (1 .. n)
               PROVE  /\ T = {} => it[T] = <<<<>>>>
                      /\ T # {} /\ it[T \ {Max(T)}] \in Pieces =>
                           it[T] = Cut[<<it[T \ {Max(T)}], body[Max(T)]>>]
    BY DEF Follows
  <2>1. it[T] = IF T = {} THEN <<<<>>>> ELSE op(it[T \ {Max(T)}], body[Max(T)])
    <3> HIDE DEF op, body, n
    <3> QED BY <1>8
  <2>2. T # {} => body[Max(T)] \in Alphabet
    BY <1>2, <1>6 DEF Holds
  <2> HIDE DEF op, body, n
  <2> QED BY <1>4, <2>1, <2>2
<1>10. Turns(ByTurns(it, n), Pieces, Cut, <<<<>>>>, body, n)
  <2> HIDE DEF body, n
  <2> QED BY <1>1, <1>2, <1>9, CutType, FollowedTurns
<1>11. ByTurns(it, n)[n] = it[1 .. n]
  BY <1>1 DEF ByTurns
<1> QED BY <1>3, <1>10, <1>11

\* fits[i][j]: the first i characters of body may stand for the first j of text.
Fits(fits, body, text) ==
  \A i \in 0 .. Len(body), j \in 0 .. Len(text) :
    /\ i = 0 => (fits[i][j] <=> j = 0)
    /\ i # 0 /\ body[i] = "*" => (fits[i][j] <=> \E k \in 0 .. j : fits[i - 1][k])
    /\ i # 0 /\ body[i] # "*" => (fits[i][j] <=> j > 0 /\ body[i] = text[j] /\ fits[i - 1][j - 1])

LEMMA Meant ==
  ASSUME NEW p \in Seq(Alphabet), NEW text \in Seq(Alphabet)
  PROVE  \E fits : /\ Fits(fits, Body(p), text)
                   /\ Anchored(p) => (Means(p, text) <=> fits[Len(Body(p))][Len(text)])
                   /\ ~ Anchored(p) =>
                        (Means(p, text) <=> \E j \in 0 .. Len(text) : fits[Len(Body(p))][j])
<1> DEFINE body == Body(p)
           L == Len(body)
           N == Len(text)
           Rows == [0 .. N -> BOOLEAN]
           F == [x \in Rows \X Alphabet |->
                   [j \in 0 .. N |-> IF x[2] = "*" THEN \E k \in 0 .. j : x[1][k]
                                     ELSE j > 0 /\ x[2] = text[j] /\ x[1][j - 1]]]
           first == [j \in 0 .. N |-> j = 0]
           row(f, i) == [j \in 0 .. N |->
                           IF i = 0 THEN j = 0
                           ELSE IF body[i] = "*" THEN \E k \in 0 .. j : f[i - 1][k]
                           ELSE j > 0 /\ body[i] = text[j] /\ f[i - 1][j - 1]]
           rhs(f) == [i \in 0 .. L |-> row(f, i)]
           fits == CHOOSE f : f = rhs(f)
<1>1. body \in Seq(Alphabet) /\ L \in Nat /\ N \in Nat /\ Holds(body, L, Alphabet)
  BY BodyType DEF Holds
<1>2. F \in [Rows \X Alphabet -> Rows] /\ first \in Rows
  OBVIOUS
<1>3. PICK r : Turns(r, Rows, F, first, body, L)
  <2> HIDE DEF F, first, body, L, Rows
  <2> QED BY <1>1, <1>2, LoopExists
<1>4. \A i \in 0 .. L : r[i] \in Rows
  BY <1>3 DEF Turns
<1>5. ASSUME NEW i \in 1 .. L, NEW j \in 0 .. N
      PROVE  r[i][j] = IF body[i] = "*" THEN \E k \in 0 .. j : r[i - 1][k]
                       ELSE j > 0 /\ body[i] = text[j] /\ r[i - 1][j - 1]
  <2>1. i - 1 \in 0 .. L
    BY <1>1
  <2>2. r[i - 1] \in Rows /\ body[i] \in Alphabet
    BY <1>1, <1>4, <2>1 DEF Holds
  <2>3. r[i] = F[<<r[i - 1], body[i]>>]
    BY <1>3 DEF Turns
  <2> HIDE DEF body, Rows, N
  <2>4. F[<<r[i - 1], body[i]>>] =
          [k \in 0 .. N |-> IF body[i] = "*" THEN \E l \in 0 .. k : r[i - 1][l]
                            ELSE k > 0 /\ body[i] = text[k] /\ r[i - 1][k - 1]]
    BY <2>2
  <2> QED BY <2>3, <2>4
<1>6. r[0] = first
  BY <1>3 DEF Turns
<1>7. r = rhs(r)
  <2>1. ASSUME NEW i \in 0 .. L PROVE r[i] = row(r, i)
    <3>1. CASE i = 0
      <4> HIDE DEF body, L
      <4> QED BY <1>6, <3>1
    <3>2. CASE i # 0
      <4>1. i \in 1 .. L
        BY <1>1, <3>2
      <4> DEFINE e(j) == IF body[i] = "*" THEN \E k \in 0 .. j : r[i - 1][k]
                         ELSE j > 0 /\ body[i] = text[j] /\ r[i - 1][j - 1]
      <4>2. \A j \in 0 .. N : r[i][j] = e(j)
        BY <1>5, <4>1
      <4>3. r[i] = [j \in 0 .. N |-> r[i][j]]
        BY <1>4
      <4>4. row(r, i) = [j \in 0 .. N |-> e(j)]
        <5> HIDE DEF body, L, N
        <5> QED BY <3>2
      <4> HIDE DEF e, row
      <4> QED BY <4>2, <4>3, <4>4
    <3> QED BY <3>1, <3>2
  <2>2. r = [i \in 0 .. L |-> r[i]]
    BY <1>3 DEF Turns
  <2> HIDE DEF row, L
  <2> QED BY <2>1, <2>2
<1>8. fits = rhs(fits)
  <2> HIDE DEF rhs
  <2> QED BY <1>7
<1> HIDE DEF fits
<1>9. Fits(fits, body, text)
  <2> SUFFICES ASSUME NEW i \in 0 .. L, NEW j \in 0 .. N
      PROVE  /\ i = 0 => (fits[i][j] <=> j = 0)
             /\ i # 0 /\ body[i] = "*" => (fits[i][j] <=> \E k \in 0 .. j : fits[i - 1][k])
             /\ i # 0 /\ body[i] # "*" => (fits[i][j] <=> j > 0 /\ body[i] = text[j] /\ fits[i - 1][j - 1])
    BY DEF Fits
  <2>0. fits[i] = row(fits, i)
    <3> HIDE DEF row, L
    <3> QED BY <1>8
  <2>1. fits[i][j] = IF i = 0 THEN j = 0
                     ELSE IF body[i] = "*" THEN \E k \in 0 .. j : fits[i - 1][k]
                     ELSE j > 0 /\ body[i] = text[j] /\ fits[i - 1][j - 1]
    <3> HIDE DEF body, L, N
    <3> QED BY <2>0
  <2> HIDE DEF body, L, N
  <2> QED BY <2>1
<1>10. Means(p, text) <=> IF Anchored(p) THEN fits[L][N] ELSE \E j \in 0 .. N : fits[L][j]
  BY DEF Means, fits
<1>11. /\ Anchored(p) => (Means(p, text) <=> fits[L][N])
       /\ ~ Anchored(p) => (Means(p, text) <=> \E j \in 0 .. N : fits[L][j])
  BY <1>10, Zenon
<1> QED BY <1>9, <1>11, Zenon

\* after[i]: where _matches stands after piece i.
Afters(after, segments, anchored, text) ==
  /\ \A i \in 1 .. Len(segments) : after[i] \in {-1} \cup 0 .. Len(text)
  /\ after[1] = IF PieceAt(text, segments[1], 0) THEN Len(segments[1]) ELSE -1
  /\ \A i \in 2 .. Len(segments) :
       /\ after[i - 1] = -1 => after[i] = -1
       /\ after[i - 1] # -1 => after[i] = step(segments, anchored, text, after[i - 1], i)

LEMMA StepType ==
  ASSUME NEW C, NEW text \in Seq(C), NEW segments \in Seq(Seq(C)), NEW anchored,
         NEW i \in 1 .. Len(segments), NEW pos \in Nat
  PROVE  step(segments, anchored, text, pos, i) \in {-1} \cup 0 .. Len(text)
<1>1. segments[i] \in Seq(C) /\ Len(text) \in Nat
  OBVIOUS
<1>2. FindEnd(text, segments[i], pos) \in {-1} \cup 0 .. Len(text)
  BY <1>1, FirstEnd
<1> QED BY <1>1, <1>2 DEF step

LEMMA Matched ==
  ASSUME NEW p \in Seq(Alphabet), NEW text \in Seq(Alphabet), _compile(p) \in Pieces
  PROVE  LET segments == _compile(p)
             n == Len(segments) IN
         \E after : /\ Afters(after, segments, Anchored(p), text)
                    /\ n = 1 => (_matches(p, text) <=>
                                   after[1] # -1 /\ (Anchored(p) => Len(text) = Len(segments[1])))
                    /\ n # 1 => (_matches(p, text) <=> after[n] # -1)
<1> DEFINE segments == _compile(p)
           n == Len(segments)
           anchored == Anchored(p)
           Acc == {-1} \cup 0 .. Len(text)
           next(pos, i) == IF pos = -1 THEN -1 ELSE step(segments, anchored, text, pos, i)
           F == [x \in Acc \X (2 .. n) |-> next(x[1], x[2])]
           first == IF PieceAt(text, segments[1], 0) THEN Len(segments[1]) ELSE -1
           s == [i \in 1 .. n - 1 |-> i + 1]
           rhs(f) == [i \in DOMAIN segments |-> IF i = 1 THEN first
                                                ELSE IF f[i - 1] = -1 THEN -1
                                                ELSE step(segments, anchored, text, f[i - 1], i)]
           after == CHOOSE f : f = rhs(f)
<1>1. segments \in Seq(Seq(Alphabet)) /\ n \in Nat \ {0} /\ DOMAIN segments = 1 .. n /\ Len(text) \in Nat
  BY DEF Pieces
<1>2. first \in Acc
  <2>1. segments[1] \in Seq(Alphabet) /\ Len(segments[1]) \in Nat
    BY <1>1
  <2>2. PieceAt(text, segments[1], 0) => Len(segments[1]) <= Len(text)
    BY <1>1, <2>1 DEF PieceAt
  <2> HIDE DEF segments
  <2> QED BY <1>1, <2>1, <2>2
<1>3. ASSUME NEW pos \in Acc, NEW i \in 1 .. n PROVE next(pos, i) \in Acc
  <2>1. pos # -1 => pos \in Nat
    BY <1>1
  <2>2. pos # -1 => step(segments, anchored, text, pos, i) \in Acc
    <3> HIDE DEF segments, anchored
    <3> QED BY <1>1, <2>1, StepType
  <2> HIDE DEF segments, anchored
  <2> QED BY <2>2
<1>4. F \in [Acc \X (2 .. n) -> Acc]
  <2>1. \A x \in Acc \X (2 .. n) : x[1] \in Acc /\ x[2] \in 1 .. n
    BY <1>1
  <2> HIDE DEF Acc, next
  <2> QED BY <1>3, <2>1
<1>5. Holds(s, n - 1, 2 .. n) /\ n - 1 \in Nat
  <2> HIDE DEF n
  <2> QED BY <1>1 DEF Holds
<1>6. PICK r : Turns(r, Acc, F, first, s, n - 1)
  <2> HIDE DEF Acc, F, first, s, n
  <2> QED BY <1>2, <1>4, <1>5, LoopExists
<1> DEFINE g == [i \in 1 .. n |-> r[i - 1]]
<1> HIDE DEF first, segments, anchored, n
<1>7. \A i \in 1 .. n : g[i] \in Acc
  BY <1>1, <1>6 DEF Turns
<1>8. g[1] = first
  BY <1>1, <1>6 DEF Turns
<1>9. ASSUME NEW i \in 2 .. n PROVE g[i] = next(g[i - 1], i)
  <2>1. i - 1 \in 1 .. n - 1 /\ i - 1 \in 1 .. n /\ i \in 1 .. n /\ i - 1 - 1 \in 0 .. n - 1
    BY <1>1
  <2>2. r[i - 1] = F[<<r[i - 1 - 1], s[i - 1]>>]
    BY <1>6, <2>1 DEF Turns
  <2>3. s[i - 1] = i
    BY <1>1, <2>1
  <2>4. g[i] = r[i - 1] /\ g[i - 1] = r[i - 1 - 1]
    BY <2>1
  <2>5. g[i - 1] \in Acc
    BY <1>7, <2>1
  <2> HIDE DEF Acc, next, g, s
  <2>6. F[<<g[i - 1], i>>] = next(g[i - 1], i)
    BY <2>5
  <2> QED BY <2>2, <2>3, <2>4, <2>6
<1>10. g = rhs(g)
  <2>1. ASSUME NEW i \in 1 .. n PROVE g[i] = IF i = 1 THEN first ELSE next(g[i - 1], i)
    <3>1. i # 1 => i \in 2 .. n
      BY <1>1
    <3> HIDE DEF next, g
    <3> QED BY <1>8, <1>9, <3>1
  <2>2. g = [i \in 1 .. n |-> g[i]]
    OBVIOUS
  <2> HIDE DEF g
  <2> QED BY <1>1, <2>1, <2>2
<1>11. after = rhs(after)
  <2> HIDE DEF rhs, g
  <2> QED BY <1>10
<1>12. _matches(p, text) <=>
         IF n = 1 THEN after[1] # -1 /\ (anchored => Len(text) = Len(segments[1])) ELSE after[n] # -1
  BY DEF _matches, after, first, segments, anchored, n
<1> HIDE DEF after
<1>13. after[1] = first /\ \A i \in 2 .. n : after[i] = next(after[i - 1], i)
  <2>1. \A i \in 2 .. n : i \in 1 .. n /\ i # 1
    BY <1>1
  <2>2. 1 \in 1 .. n
    BY <1>1
  <2> QED BY <1>1, <1>11, <2>1, <2>2
<1>14. \A i \in 1 .. n : after[i] \in Acc
  <2> DEFINE bad == {i \in 1 .. n : after[i] \notin Acc}
  <2> SUFFICES ASSUME bad # {} PROVE FALSE
    OBVIOUS
  <2>1. PICK i \in bad : \A k \in bad : i <= k
    <3>1. bad \subseteq Nat
      BY <1>1
    <3> HIDE DEF bad
    <3> QED BY <3>1, LeastNumber
  <2>2. i \in 1 .. n /\ after[i] \notin Acc
    OBVIOUS
  <2> HIDE DEF next, Acc
  <2>3. i # 1
    BY <1>2, <1>13, <2>2
  <2>4. i \in 2 .. n /\ i - 1 \in 1 .. n /\ ~ (i <= i - 1)
    BY <1>1, <2>2, <2>3
  <2>5. after[i - 1] \in Acc
    BY <2>1, <2>4
  <2>6. after[i] \in Acc
    BY <1>3, <1>13, <2>2, <2>4, <2>5
  <2> QED BY <2>2, <2>6
<1>15. Afters(after, segments, anchored, text)
  BY <1>13, <1>14 DEF Afters, first, n
<1>16. /\ n = 1 => (_matches(p, text) <=> after[1] # -1 /\ (anchored => Len(text) = Len(segments[1])))
       /\ n # 1 => (_matches(p, text) <=> after[n] # -1)
  BY <1>12, Zenon
<1> QED BY <1>15, <1>16, Zenon DEF n, segments, anchored

\* The loops of a match, each at its end: the pieces q, the positions after them, and
\* what the pattern means.
Matching3(p, text, q, after, fits) ==
  /\ p \in Seq(Alphabet) /\ text \in Seq(Alphabet)
  /\ Turns(q, Pieces, Cut, <<<<>>>>, Body(p), Len(Body(p)))
  /\ Afters(after, q[Len(Body(p))], Anchored(p), text)
  /\ Fits(fits, Body(p), text)

\* The pieces but the last one are final.
LEMMA PiecesStay ==
  ASSUME NEW p, NEW text, NEW q, NEW after, NEW fits, Matching3(p, text, q, after, fits),
         NEW i \in 0 .. Len(Body(p))
  PROVE  LET segments == q[Len(Body(p))] IN
         /\ Len(q[i]) <= Len(segments)
         /\ \A k \in 1 .. Len(q[i]) - 1 : segments[k] = q[i][k]
<1> DEFINE body == Body(p)
           L == Len(body)
           segments == q[L]
           Kept(d) == /\ Len(q[L - d]) <= Len(segments)
                      /\ \A k \in 1 .. Len(q[L - d]) - 1 : segments[k] = q[L - d][k]
           bad == {d \in 0 .. L : ~ Kept(d)}
<1>1. body \in Seq(Alphabet) /\ L \in Nat
  BY BodyType DEF Matching3
<1>2. \A k \in 0 .. L : q[k] \in Pieces
  BY DEF Matching3, Turns
<1> SUFFICES ASSUME bad # {} PROVE FALSE
  <2>1. L - i \in 0 .. L /\ L - (L - i) = i
    BY <1>1
  <2>2. Kept(L - i)
    BY <2>1
  <2> HIDE DEF L
  <2> QED BY <2>1, <2>2 DEF L
<1>3. PICK d \in bad : \A k \in bad : d <= k
  <2>1. bad \subseteq Nat
    BY <1>1
  <2> HIDE DEF bad
  <2> QED BY <2>1, LeastNumber
<1>4. d \in 0 .. L /\ ~ Kept(d)
  OBVIOUS
<1>5. d # 0
  <2>1. Kept(0)
    <3>1. q[L - 0] = segments /\ Len(segments) \in Nat
      BY <1>1, <1>2 DEF Pieces
    <3> QED BY <3>1
  <2> HIDE DEF Kept
  <2> QED BY <1>4, <2>1
<1>6. d - 1 \in 0 .. L /\ ~ (d <= d - 1) /\ L - d + 1 \in 1 .. L /\ L - d \in 0 .. L /\ L - (d - 1) = L - d + 1
  <2> HIDE DEF L
  <2> QED BY <1>1, <1>4, <1>5
<1>7. Kept(d - 1)
  BY <1>3, <1>6
<1> DEFINE a == q[L - d]
           b == q[L - d + 1]
<1>8. Len(b) <= Len(segments) /\ \A k \in 1 .. Len(b) - 1 : segments[k] = b[k]
  BY <1>6, <1>7
<1>9. a \in Pieces /\ body[L - d + 1] \in Alphabet /\ b = Cut[<<a, body[L - d + 1]>>]
  <2>1. L - d + 1 - 1 = L - d
    <3> HIDE DEF L
    <3> QED BY <1>1, <1>4
  <2>2. Turns(q, Pieces, Cut, <<<<>>>>, body, L)
    BY DEF Matching3
  <2>3. body[L - d + 1] \in Alphabet
    BY <1>1, <1>6
  <2>4. a \in Pieces
    BY <1>2, <1>6
  <2> HIDE DEF L, body
  <2>5. b = Cut[<<q[L - d + 1 - 1], body[L - d + 1]>>]
    BY <1>6, <2>2, SMTT(30) DEF Turns
  <2> QED BY <2>1, <2>3, <2>4, <2>5
<1>10. Len(segments) \in Nat
  BY <1>1, <1>2 DEF Pieces
<1> HIDE DEF a, b, body
<1>11. /\ Len(a) \in Nat \ {0} /\ Len(b) \in Nat
       /\ body[L - d + 1] = "*" => Len(b) = Len(a) + 1 /\ \A k \in 1 .. Len(a) : b[k] = a[k]
       /\ body[L - d + 1] # "*" => Len(b) = Len(a) /\ \A k \in 1 .. Len(a) - 1 : b[k] = a[k]
  BY <1>9, CutOne, ZenonT(30)
<1>12. Len(a) <= Len(segments) /\ \A k \in 1 .. Len(a) - 1 : segments[k] = a[k]
  <2> HIDE DEF segments, L
  <2>1. Len(a) <= Len(b) /\ Len(a) <= Len(segments)
    BY <1>8, <1>10, <1>11
  <2>2. \A k \in 1 .. Len(a) - 1 : k \in 1 .. Len(b) - 1 /\ k \in 1 .. Len(a)
    BY <1>11, <2>1
  <2>3. \A k \in 1 .. Len(a) - 1 : b[k] = a[k]
    BY <1>11, <2>2
  <2> QED BY <1>8, <2>1, <2>2, <2>3
<1> QED BY <1>4, <1>12 DEF a

\* What fits, said by the last piece so far and the position before it.
Stage(q, after, fits, text, i) ==
  LET n == Len(q[i])
      piece == q[i][n] IN
  /\ n = 1 => \A j \in 0 .. Len(text) :
       fits[i][j] <=> j = Len(piece) /\ PieceAt(text, piece, 0)
  /\ n # 1 => \A j \in 0 .. Len(text) :
       fits[i][j] <=> /\ after[n - 1] # -1 /\ after[n - 1] <= j - Len(piece)
                      /\ PieceAt(text, piece, j - Len(piece))

\* Where the match stands after a piece is the first place the pattern reaches.
LEMMA FirstReached ==
  ASSUME NEW p, NEW text, NEW q, NEW after, NEW fits, Matching3(p, text, q, after, fits),
         NEW i \in 0 .. Len(Body(p)), Stage(q, after, fits, text, i),
         LET n == Len(q[i]) IN
           n < Len(q[Len(Body(p))]) /\ q[Len(Body(p))][n] = q[i][n]
  PROVE  LET n == Len(q[i]) IN
         /\ after[n] \in {-1} \cup 0 .. Len(text)
         /\ after[n] # -1 => fits[i][after[n]]
         /\ \A k \in 0 .. Len(text) : fits[i][k] => after[n] # -1 /\ after[n] <= k
<1> DEFINE L == Len(Body(p))
           segments == q[L]
           n == Len(q[i])
           piece == q[i][n]
           m == Len(piece)
           N == Len(text)
<1>1. q[i] \in Pieces /\ segments \in Pieces /\ L \in Nat
  <2>1. L \in Nat
    BY BodyType DEF Matching3
  <2>2. \A k \in 0 .. L : q[k] \in Pieces
    BY DEF Matching3, Turns
  <2>3. L \in 0 .. L
    <3> HIDE DEF L
    <3> QED BY <2>1
  <2> QED BY <2>1, <2>2, <2>3
<1>2. /\ n \in Nat \ {0} /\ Len(segments) \in Nat /\ n \in 1 .. Len(segments) /\ n # Len(segments)
      /\ piece \in Seq(Alphabet) /\ m \in Nat /\ N \in Nat /\ segments[n] = piece
      /\ text \in Seq(Alphabet)
  <2>1. n \in Nat \ {0} /\ Len(segments) \in Nat /\ n < Len(segments)
    BY <1>1 DEF Pieces
  <2>2. n \in 1 .. Len(segments) /\ n # Len(segments)
    <3> HIDE DEF n, segments
    <3> QED BY <2>1
  <2>3. piece \in Seq(Alphabet)
    BY <1>1 DEF Pieces
  <2>4. text \in Seq(Alphabet)
    BY DEF Matching3
  <2> QED BY <2>1, <2>2, <2>3, <2>4
<1>3. Afters(after, segments, Anchored(p), text)
  BY DEF Matching3
<1>4. after[n] \in {-1} \cup 0 .. N
  <2> HIDE DEF n, segments
  <2> QED BY <1>2, <1>3 DEF Afters
<1>5. CASE n = 1
  <2>1. after[1] = IF PieceAt(text, piece, 0) THEN m ELSE -1
    BY <1>2, <1>3, <1>5 DEF Afters
  <2>2. \A j \in 0 .. N : fits[i][j] <=> j = m /\ PieceAt(text, piece, 0)
    BY <1>5 DEF Stage
  <2>3. /\ after[n] # -1 => fits[i][after[n]]
        /\ \A k \in 0 .. N : fits[i][k] => after[n] # -1 /\ after[n] <= k
    <3> HIDE DEF n, piece, m, N, segments
    <3>1. after[n] = IF PieceAt(text, piece, 0) THEN m ELSE -1
      BY <1>5, <2>1
    <3> QED BY <1>2, <1>4, <2>2, <3>1
  <2> QED BY <1>4, <2>3
<1>6. CASE n # 1
  <2> DEFINE A == after[n - 1]
  <2>1. /\ A \in {-1} \cup 0 .. N
        /\ A = -1 => after[n] = -1
        /\ A # -1 => after[n] = step(segments, Anchored(p), text, A, n)
    <3>1. n \in 2 .. Len(segments) /\ n - 1 \in 1 .. Len(segments)
      <4> HIDE DEF n, segments
      <4> QED BY <1>2, <1>6
    <3> HIDE DEF n, segments
    <3> QED BY <1>3, <3>1 DEF Afters
  <2>2. \A j \in 0 .. N : fits[i][j] <=> A # -1 /\ A <= j - m /\ PieceAt(text, piece, j - m)
    BY <1>6 DEF Stage
  <2> SUFFICES /\ after[n] # -1 => fits[i][after[n]]
               /\ \A k \in 0 .. N : fits[i][k] => after[n] # -1 /\ after[n] <= k
    BY <1>4
  <2> HIDE DEF n, piece, m, N, segments, A
  <2>3. CASE A = -1
    BY <1>4, <2>1, <2>2, <2>3
  <2>4. CASE A # -1
    <3>1. A \in Nat
      BY <1>2, <2>1, <2>4
    <3>2. after[n] = FindEnd(text, piece, A)
      BY <1>2, <2>1, <2>4 DEF step
    <3>3. /\ after[n] = -1 => \A k \in A .. N : ~ PieceAt(text, piece, k)
          /\ after[n] # -1 => \E k \in A .. N :
               /\ PieceAt(text, piece, k) /\ after[n] = k + m
               /\ \A j \in A .. N : PieceAt(text, piece, j) => k <= j
      BY <1>2, <3>1, <3>2, FirstEnd DEF m, N
    <3>4. ASSUME NEW k \in 0 .. N, fits[i][k] PROVE after[n] # -1 /\ after[n] <= k
      <4>1. A <= k - m /\ PieceAt(text, piece, k - m) /\ k - m \in A .. N
        BY <1>2, <2>2, <3>1, <3>4, SMTT(30)
      <4> QED BY <1>2, <3>1, <3>3, <4>1
    <3>5. ASSUME after[n] # -1 PROVE fits[i][after[n]]
      <4>1. PICK k \in A .. N : PieceAt(text, piece, k) /\ after[n] = k + m
        BY <3>3, <3>5
      <4>2. after[n] \in 0 .. N /\ after[n] - m = k /\ A <= after[n] - m
        BY <1>2, <1>4, <3>1, <3>5, <4>1
      <4> QED BY <2>2, <2>4, <4>1, <4>2
    <3> QED BY <3>4, <3>5
  <2> QED BY <2>3, <2>4
<1> QED BY <1>5, <1>6

LEMMA StageStep ==
  ASSUME NEW p, NEW text, NEW q, NEW after, NEW fits, Matching3(p, text, q, after, fits),
         NEW i \in 1 .. Len(Body(p)), Stage(q, after, fits, text, i - 1)
  PROVE  Stage(q, after, fits, text, i)
<1> DEFINE body == Body(p)
           L == Len(body)
           segments == q[L]
           a == q[i - 1]
           b == q[i]
           c == body[i]
           n == Len(a)
           piece == a[n]
           m == Len(piece)
           N == Len(text)
<1>1. /\ body \in Seq(Alphabet) /\ L \in Nat /\ text \in Seq(Alphabet) /\ N \in Nat
      /\ \A k \in 0 .. L : q[k] \in Pieces
      /\ \A k \in 1 .. L : q[k] = Cut[<<q[k - 1], body[k]>>]
      /\ Fits(fits, body, text)
  <2>1. /\ body \in Seq(Alphabet) /\ text \in Seq(Alphabet) /\ Fits(fits, body, text)
        /\ Turns(q, Pieces, Cut, <<<<>>>>, body, L)
    BY BodyType DEF Matching3
  <2>2. L \in Nat /\ N \in Nat
    BY <2>1
  <2> HIDE DEF body, L, N
  <2>3. /\ \A k \in 0 .. L : q[k] \in Pieces
        /\ \A k \in 1 .. L : q[k] = Cut[<<q[k - 1], body[k]>>]
    BY <2>1 DEF Turns
  <2> QED BY <2>1, <2>2, <2>3
<1>2. /\ i - 1 \in 0 .. L /\ i \in 0 .. L /\ i # 0 /\ c \in Alphabet
      /\ a \in Pieces /\ b \in Pieces /\ b = Cut[<<a, c>>]
  <2>1. i - 1 \in 0 .. L /\ i \in 0 .. L /\ i # 0 /\ c \in Alphabet
    BY <1>1
  <2> QED BY <1>1, <2>1
<1>3. n \in Nat \ {0} /\ piece \in Seq(Alphabet) /\ m \in Nat
  <2>1. a \in Seq(Seq(Alphabet)) /\ a # <<>>
    BY <1>2 DEF Pieces
  <2> HIDE DEF a
  <2>2. n \in Nat \ {0} /\ n \in 1 .. Len(a)
    BY <2>1
  <2>3. a[n] \in Seq(Alphabet)
    BY <2>1, <2>2
  <2> QED BY <2>2, <2>3
<1>4. CASE c = "*"
  <2>1. Len(b) = n + 1 /\ b[n + 1] = <<>> /\ b[n] = piece
    <3>1. Len(b) = n + 1 /\ b[n + 1] = <<>> /\ \A k \in 1 .. n : b[k] = a[k]
      <4> HIDE DEF a, c
      <4>1. LET d == Cut[<<a, c>>] IN
            Len(d) = Len(a) + 1 /\ d[Len(a) + 1] = <<>> /\ \A k \in 1 .. Len(a) : d[k] = a[k]
        BY <1>2, <1>4, CutOne
      <4> HIDE DEF b
      <4> QED BY <1>2, <4>1
    <3>2. n \in 1 .. n
      <4> HIDE DEF n
      <4> QED BY <1>3
    <3> QED BY <3>1, <3>2
  <2>2. n < Len(segments) /\ segments[n] = piece
    <3>1. Len(b) <= Len(segments) /\ \A k \in 1 .. Len(b) - 1 : segments[k] = b[k]
      <4>1. Matching3(p, text, q, after, fits) /\ i \in 0 .. Len(Body(p))
        BY <1>2
      <4>2. /\ Len(q[i]) <= Len(q[Len(Body(p))])
            /\ \A k \in 1 .. Len(q[i]) - 1 : q[Len(Body(p))][k] = q[i][k]
        BY ONLY <4>1, PiecesStay
      <4> QED BY <4>2
    <3>2. Len(segments) \in Nat
      BY <1>1 DEF Pieces
    <3> HIDE DEF b, segments, n, piece
    <3> QED BY <1>3, <2>1, <3>1, <3>2
  <2>3. /\ after[n] \in {-1} \cup 0 .. N
        /\ after[n] # -1 => fits[i - 1][after[n]]
        /\ \A k \in 0 .. N : fits[i - 1][k] => after[n] # -1 /\ after[n] <= k
    BY <1>2, <2>2, FirstReached
  <2>4. ASSUME NEW j \in 0 .. N
        PROVE  fits[i][j] <=> after[n] # -1 /\ after[n] <= j - 0 /\ PieceAt(text, <<>>, j - 0)
    <3>1. fits[i][j] <=> \E k \in 0 .. j : fits[i - 1][k]
      BY <1>1, <1>2, <1>4 DEF Fits
    <3>2. PieceAt(text, <<>>, j - 0)
      BY <1>1, EmptyPiece
    <3>3. \A k \in 0 .. j : k \in 0 .. N
      BY <1>1
    <3> HIDE DEF n, N
    <3> QED BY <1>1, <2>3, <3>1, <3>2, <3>3
  <2>5. Len(b) # 1 /\ Len(b) - 1 = n /\ Len(b[Len(b)]) = 0 /\ b[Len(b)] = <<>>
    <3> HIDE DEF n, b
    <3> QED BY <1>3, <2>1
  <2> QED BY <2>4, <2>5 DEF Stage
<1>5. CASE c # "*"
  <2> DEFINE longer == Append(piece, c)
  <2>1. Len(b) = n /\ b[n] = longer /\ longer \in Seq(Alphabet) /\ Len(longer) = m + 1
    <3>1. Len(b) = n /\ b[n] = Append(a[n], c)
      <4> HIDE DEF a, b, c
      <4> QED BY <1>2, <1>5, CutOne
    <3> QED BY <1>2, <1>3, <3>1
  <2>2. ASSUME NEW j \in 0 .. N
        PROVE  fits[i][j] <=> j > 0 /\ c = text[j] /\ fits[i - 1][j - 1]
    BY <1>1, <1>2, <1>5 DEF Fits
  <2>3. ASSUME NEW s \in Nat
        PROVE  PieceAt(text, longer, s) <=>
                 PieceAt(text, piece, s) /\ s + m + 1 <= N /\ text[s + m + 1] = c
    BY <1>1, <1>2, <1>3, PieceLonger, SMTT(30)
  <2>4. CASE n = 1
    <3>1. \A j \in 0 .. N : fits[i - 1][j] <=> j = m /\ PieceAt(text, piece, 0)
      BY <2>4 DEF Stage
    <3>2. PieceAt(text, longer, 0) <=> PieceAt(text, piece, 0) /\ 0 + m + 1 <= N /\ text[0 + m + 1] = c
      BY <2>3
    <3>3. ASSUME NEW j \in 0 .. N
          PROVE  fits[i][j] <=> j = m + 1 /\ PieceAt(text, longer, 0)
      <4>1. j > 0 => j - 1 \in 0 .. N
        BY <1>1
      <4>2. j = m + 1 <=> j > 0 /\ j - 1 = m
        <5> HIDE DEF m, N
        <5> QED BY <1>1, <1>3
      <4>3. j = m + 1 => 0 + m + 1 = j /\ 0 + m + 1 <= N
        <5> HIDE DEF m, N
        <5> QED BY <1>1, <1>3
      <4>4. fits[i][j] <=> j > 0 /\ c = text[j] /\ j - 1 = m /\ PieceAt(text, piece, 0)
        BY <2>2, <3>1, <4>1
      <4> HIDE DEF m, N, longer, piece, c
      <4> QED BY <3>2, <4>2, <4>3, <4>4
    <3>4. Len(b) = 1 /\ b[Len(b)] = longer /\ Len(longer) = m + 1
      BY <2>1, <2>4
    <3>5. \A j \in 0 .. N : fits[i][j] <=> j = Len(b[Len(b)]) /\ PieceAt(text, b[Len(b)], 0)
      <4> HIDE DEF m, N, longer, piece, c, b
      <4> QED BY <3>3, <3>4
    <3> QED BY <3>4, <3>5 DEF Stage
  <2>5. CASE n # 1
    <3> DEFINE A == after[n - 1]
    <3>1. \A j \in 0 .. N : fits[i - 1][j] <=> A # -1 /\ A <= j - m /\ PieceAt(text, piece, j - m)
      BY <2>5 DEF Stage
    <3>2. A \in {-1} \cup 0 .. N
      <4>1. n <= Len(segments) /\ Len(segments) \in Nat
        <5>1. Len(a) <= Len(segments)
          BY <1>2, PiecesStay
        <5> QED BY <1>1, <5>1 DEF Pieces
      <4>2. n - 1 \in 1 .. Len(segments)
        <5> HIDE DEF n, segments
        <5> QED BY <1>3, <2>5, <4>1
      <4>3. Afters(after, segments, Anchored(p), text)
        BY DEF Matching3
      <4> HIDE DEF n, segments
      <4> QED BY <4>2, <4>3 DEF Afters
    <3>3. ASSUME NEW j \in 0 .. N
          PROVE  fits[i][j] <=> A # -1 /\ A <= j - (m + 1) /\ PieceAt(text, longer, j - (m + 1))
      <4>1. j > 0 => j - 1 \in 0 .. N
        BY <1>1
      <4>2. fits[i][j] <=>
              j > 0 /\ c = text[j] /\ A # -1 /\ A <= j - 1 - m /\ PieceAt(text, piece, j - 1 - m)
        BY <2>2, <3>1, <4>1
      <4>3. j - 1 - m = j - (m + 1)
        <5> HIDE DEF m, N
        <5> QED BY <1>1, <1>3
      <4>4. A # -1 /\ A <= j - (m + 1) =>
              /\ j > 0 /\ j - (m + 1) \in Nat
              /\ j - (m + 1) + m + 1 = j /\ j - (m + 1) + m + 1 <= N
        <5> HIDE DEF m, N, A
        <5> QED BY <1>1, <1>3, <3>2
      <4>5. A # -1 /\ A <= j - (m + 1) =>
              (PieceAt(text, longer, j - (m + 1)) <=> PieceAt(text, piece, j - (m + 1)) /\ text[j] = c)
        <5> HIDE DEF m, N, A, longer, piece, c
        <5> QED BY <2>3, <4>4
      <4> HIDE DEF m, N, A, longer, piece, c
      <4> QED BY <4>2, <4>3, <4>4, <4>5
    <3>4. Len(b) = n /\ Len(b) # 1 /\ b[Len(b)] = longer /\ Len(longer) = m + 1
      BY <2>1, <2>5
    <3>5. \A j \in 0 .. N :
            fits[i][j] <=> /\ after[Len(b) - 1] # -1 /\ after[Len(b) - 1] <= j - Len(b[Len(b)])
                           /\ PieceAt(text, b[Len(b)], j - Len(b[Len(b)]))
      <4>1. A = after[Len(b) - 1]
        BY <3>4
      <4> HIDE DEF m, N, longer, piece, c, b, A
      <4> QED BY <3>3, <3>4, <4>1
    <3> QED BY <3>4, <3>5 DEF Stage
  <2> QED BY <2>4, <2>5
<1> QED BY <1>4, <1>5

LEMMA Stages ==
  ASSUME NEW p, NEW text, NEW q, NEW after, NEW fits, Matching3(p, text, q, after, fits)
  PROVE  Stage(q, after, fits, text, Len(Body(p)))
<1> DEFINE L == Len(Body(p))
           bad == {i \in 0 .. L : ~ Stage(q, after, fits, text, i)}
<1>1. L \in Nat /\ Len(text) \in Nat /\ text \in Seq(Alphabet)
  BY BodyType DEF Matching3
<1>2. Stage(q, after, fits, text, 0)
  <2>1. q[0] = <<<<>>>>
    BY DEF Matching3, Turns
  <2>2. Len(q[0]) = 1 /\ q[0][Len(q[0])] = <<>> /\ Len(<<>>) = 0
    BY <2>1
  <2>3. \A j \in 0 .. Len(text) : fits[0][j] <=> j = 0
    BY <1>1 DEF Matching3, Fits
  <2>4. PieceAt(text, <<>>, 0)
    BY <1>1, EmptyPiece
  <2> QED BY <2>2, <2>3, <2>4 DEF Stage
<1> SUFFICES ASSUME bad # {} PROVE FALSE
  <2>1. L \in 0 .. L
    <3> HIDE DEF L
    <3> QED BY <1>1
  <2> QED BY <2>1
<1>3. PICK i \in bad : \A k \in bad : i <= k
  <2>1. bad \subseteq Nat
    BY <1>1
  <2> HIDE DEF bad
  <2> QED BY <2>1, LeastNumber
<1>4. i \in 0 .. L /\ ~ Stage(q, after, fits, text, i)
  OBVIOUS
<1>5. i # 0
  BY <1>2, <1>4
<1>6. i \in 1 .. L /\ i - 1 \in 0 .. L /\ ~ (i <= i - 1)
  <2> HIDE DEF L
  <2> QED BY <1>1, <1>4, <1>5
<1>7. Stage(q, after, fits, text, i - 1)
  BY <1>3, <1>6
<1> QED BY <1>4, <1>6, <1>7, StageStep

LEMMA GreedyIsRight ==
  ASSUME NEW p \in Seq(Alphabet), NEW text \in Seq(Alphabet)
  PROVE  _matches(p, text) <=> Means(p, text)
<1> DEFINE L == Len(Body(p))
           segments == _compile(p)
           n == Len(segments)
           piece == segments[n]
           m == Len(piece)
           N == Len(text)
<1>1. PICK q : Turns(q, Pieces, Cut, <<<<>>>>, Body(p), L) /\ q[L] = segments
  BY Compiled
<1>2. L \in Nat /\ N \in Nat
  BY BodyType
<1>3. segments \in Pieces
  <2> HIDE DEF L, segments
  <2> QED BY <1>1, <1>2 DEF Turns
<1>4. PICK after : /\ Afters(after, segments, Anchored(p), text)
                   /\ n = 1 => (_matches(p, text) <=>
                                  after[1] # -1 /\ (Anchored(p) => N = Len(segments[1])))
                   /\ n # 1 => (_matches(p, text) <=> after[n] # -1)
  BY <1>3, Matched
<1>5. PICK fits : /\ Fits(fits, Body(p), text)
                  /\ Anchored(p) => (Means(p, text) <=> fits[L][N])
                  /\ ~ Anchored(p) => (Means(p, text) <=> \E j \in 0 .. N : fits[L][j])
  BY Meant
<1>6. Stage(q, after, fits, text, L)
  BY <1>1, <1>4, <1>5, Stages DEF Matching3
<1>7. n \in Nat \ {0} /\ piece \in Seq(Alphabet) /\ m \in Nat
  <2>1. n \in Nat \ {0} /\ \A k \in 1 .. n : segments[k] \in Seq(Alphabet)
    BY <1>3 DEF Pieces
  <2> HIDE DEF n, segments
  <2> QED BY <2>1
<1> HIDE DEF segments, L
<1>8. CASE n = 1
  <2>1. \A j \in 0 .. N : fits[L][j] <=> j = m /\ PieceAt(text, piece, 0)
    BY <1>1, <1>6, <1>8 DEF Stage
  <2>2. after[1] = IF PieceAt(text, piece, 0) THEN m ELSE -1
    BY <1>4, <1>8 DEF Afters
  <2>3. PieceAt(text, piece, 0) => m \in 0 .. N
    BY <1>2, <1>7 DEF PieceAt
  <2>4. _matches(p, text) <=> PieceAt(text, piece, 0) /\ (Anchored(p) => N = m)
    <3>1. _matches(p, text) <=> after[1] # -1 /\ (Anchored(p) => N = Len(segments[1]))
      BY <1>4, <1>8
    <3>2. after[1] # -1 <=> PieceAt(text, piece, 0)
      <4> HIDE DEF piece, m
      <4> QED BY <1>7, <2>2
    <3> QED BY <1>8, <3>1, <3>2
  <2>5. N \in 0 .. N
    BY <1>2
  <2> HIDE DEF n, piece, m, N
  <2>6. CASE Anchored(p)
    BY <1>5, <2>1, <2>4, <2>5, <2>6
  <2>7. CASE ~ Anchored(p)
    BY <1>5, <2>1, <2>3, <2>4, <2>7
  <2> QED BY <2>6, <2>7
<1>9. CASE n # 1
  <2> DEFINE A == after[n - 1]
  <2>1. \A j \in 0 .. N : fits[L][j] <=> A # -1 /\ A <= j - m /\ PieceAt(text, piece, j - m)
    BY <1>1, <1>6, <1>9 DEF Stage
  <2>2. n \in 2 .. n /\ n - 1 \in 1 .. n
    <3> HIDE DEF n
    <3> QED BY <1>7, <1>9
  <2>3. /\ A \in {-1} \cup 0 .. N
        /\ A = -1 => after[n] = -1
        /\ A # -1 => after[n] = step(segments, Anchored(p), text, A, n)
    BY <1>4, <2>2 DEF Afters
  <2>4. _matches(p, text) <=> after[n] # -1
    BY <1>4, <1>9
  <2>5. CASE A = -1
    <3> HIDE DEF n, piece, m, N, A
    <3>1. ~ _matches(p, text) /\ \A j \in 0 .. N : ~ fits[L][j]
      BY <2>1, <2>3, <2>4, <2>5
    <3>2. N \in 0 .. N
      BY <1>2
    <3> QED BY <1>5, <3>1, <3>2
  <2>6. CASE A # -1 /\ Anchored(p)
    <3>1. after[n] = IF N - m >= A /\ PieceAt(text, piece, N - m) THEN N ELSE -1
      BY <2>3, <2>6 DEF step
    <3> HIDE DEF n, piece, m, N, A
    <3>2. fits[L][N] <=> A <= N - m /\ PieceAt(text, piece, N - m)
      BY <1>2, <2>1, <2>6
    <3>3. A \in Int /\ N - m \in Int
      BY <1>2, <1>7, <2>3
    <3>4. after[n] # -1 <=> A <= N - m /\ PieceAt(text, piece, N - m)
      BY <1>2, <3>1, <3>3
    <3> QED BY <1>5, <2>4, <2>6, <3>2, <3>4
  <2>7. CASE A # -1 /\ ~ Anchored(p)
    <3>1. after[n] = FindEnd(text, piece, A)
      BY <2>3, <2>7 DEF step
    <3>2. A \in Nat
      BY <1>2, <2>3, <2>7
    <3>3. /\ after[n] = -1 => \A k \in A .. N : ~ PieceAt(text, piece, k)
          /\ after[n] # -1 => \E k \in A .. N : PieceAt(text, piece, k)
      BY <1>7, <3>1, <3>2, FirstEnd
    <3>4. ASSUME NEW k \in A .. N, PieceAt(text, piece, k)
          PROVE  k + m \in 0 .. N /\ fits[L][k + m]
      <4>1. k + m <= N
        BY <3>4 DEF PieceAt
      <4> HIDE DEF n, piece, m, N, A
      <4>2. k + m \in 0 .. N /\ k + m - m = k /\ A <= k + m - m
        BY <1>2, <1>7, <3>2, <4>1
      <4>3. PICK j \in 0 .. N : j = k + m
        BY <4>2
      <4>4. A <= j - m /\ PieceAt(text, piece, j - m)
        <5>1. j - m = k /\ A <= k
          BY <1>2, <1>7, <3>2, <4>3
        <5> QED BY <3>4, <5>1
      <4>5. fits[L][j]
        BY <2>1, <2>7, <4>4
      <4> QED BY <4>3, <4>5
    <3> HIDE DEF n, piece, m, N, A
    <3>5. ASSUME NEW j \in 0 .. N, fits[L][j]
          PROVE  j - m \in A .. N /\ PieceAt(text, piece, j - m)
      BY <1>2, <1>7, <2>1, <3>2, <3>5
    <3>6. after[n] # -1 <=> \E j \in 0 .. N : fits[L][j]
      <4>1. ASSUME after[n] # -1 PROVE \E j \in 0 .. N : fits[L][j]
        <5>1. PICK k \in A .. N : PieceAt(text, piece, k)
          BY <3>3, <4>1
        <5>2. k + m \in 0 .. N /\ fits[L][k + m]
          BY <3>4, <5>1
        <5> QED BY <5>2
      <4>2. ASSUME NEW j \in 0 .. N, fits[L][j] PROVE after[n] # -1
        BY <3>3, <3>5, <4>2
      <4> QED BY <4>1, <4>2
    <3> QED BY <1>5, <2>4, <2>7, <3>6
  <2> QED BY <2>5, <2>6, <2>7
<1> QED BY <1>8, <1>9

LEMMA TypedText == RobotsSpec => [](pattern \in Seq(Alphabet) /\ target \in Seq(Alphabet))
<1> DEFINE TypeOK == pattern \in Seq(Alphabet) /\ target \in Seq(Alphabet)
<1>1. RobotsInit => TypeOK
  BY DEF RobotsInit
<1>2. TypeOK /\ [RobotsNext]_robotsVars => TypeOK'
  <2> SUFFICES ASSUME TypeOK, [RobotsNext]_robotsVars PROVE TypeOK'
    OBVIOUS
  <2>1. ASSUME NEW line \in Lines, ReadLine(line) PROVE TypeOK'
    BY <2>1 DEF ReadLine
  <2>2. ASSUME NEW char \in Alphabet, Type(char) PROVE TypeOK'
    <3>1. \A s \in Seq(Alphabet) : Append(s, char) \in Seq(Alphabet)
      OBVIOUS
    <3> QED BY <2>2, <3>1 DEF Type
  <2>3. CASE UNCHANGED robotsVars
    BY <2>3 DEF robotsVars
  <2> QED BY <2>1, <2>2, <2>3 DEF RobotsNext, Alphabet
<1> QED BY <1>1, <1>2, PTL DEF RobotsSpec

\* Placing every piece at the first place it fits, without going back over a star,
\* decides what the pattern means.
THEOREM GreedyDecides == RobotsSpec => []GreedyMatch
<1>1. pattern \in Seq(Alphabet) /\ target \in Seq(Alphabet) => GreedyMatch
  BY GreedyIsRight DEF GreedyMatch
<1> QED BY <1>1, TypedText, PTL

-----------------------------------------------------------------------------
(* robots.txt: the scan.                                                    *)

RuleLines == {line \in Lines : line.field # "user-agent"}
Groups == [agents : Seq(Agents), rules : Seq(RuleLines)]

LEMMA LineForm ==
  ASSUME NEW line \in Lines
  PROVE  /\ line = [field |-> line.field, value |-> line.value]
         /\ line.field \in {"user-agent", "allow", "disallow", "crawl-delay"}
         /\ line.field = "user-agent" => line.value \in Agents
         /\ line.field \in {"allow", "disallow"} => line.value \in Paths
         /\ line.field = "crawl-delay" => line.value \in Delays
BY DEF Lines

Gathers(agent) ==
  [x \in Seq(RuleLines) \X Groups |->
     IF agent \in ToSet(x[2].agents) THEN x[1] \o x[2].rules ELSE x[1]]

LEMMA GathersType ==
  ASSUME NEW agent
  PROVE  Gathers(agent) \in [Seq(RuleLines) \X Groups -> Seq(RuleLines)]
<1>1. \A x \in Seq(RuleLines) \X Groups : x[1] \in Seq(RuleLines) /\ x[2].rules \in Seq(RuleLines)
  BY DEF Groups
<1>2. \A r, s \in Seq(RuleLines) : r \o s \in Seq(RuleLines)
  OBVIOUS
<1> QED BY <1>1, <1>2 DEF Gathers

LEMMA Gathered ==
  ASSUME NEW agent, NEW gs \in Seq(Groups)
  PROVE  \E q : /\ Turns(q, Seq(RuleLines), Gathers(agent), <<>>, gs, Len(gs))
                /\ q[Len(gs)] = rules_of(gs, agent)
<1> DEFINE n == Len(gs)
           AddGroup(acc, g) == IF agent \in ToSet(g.agents) THEN acc \o g.rules ELSE acc
           rhs(it) == [T \in SUBSET (1 .. n) |-> IF T = {} THEN <<>>
                                                 ELSE AddGroup(it[T \ {Max(T)}], gs[Max(T)])]
           it == CHOOSE it : it = rhs(it)
<1>1. n \in Nat /\ DOMAIN gs = 1 .. n
  OBVIOUS
<1>2. Holds(gs, n, Groups)
  BY <1>1 DEF Holds
<1>3. rules_of(gs, agent) = it[1 .. n]
  <2>1. rules_of(gs, agent) = FoldLeft(AddGroup, <<>>, gs)
    BY DEF rules_of
  <2>2. FoldLeft(AddGroup, <<>>, gs) =
          LET i == CHOOSE i : i = [T \in SUBSET (DOMAIN gs) |-> IF T = {} THEN <<>>
                                     ELSE AddGroup(i[T \ {Max(T)}], gs[Max(T)])] IN i[DOMAIN gs]
    BY DEF FoldLeft, MapThenFoldSet
  <2> HIDE DEF n
  <2> QED BY <1>1, <2>1, <2>2
<1> DEFINE F == Gathers(agent)
           Acc == Seq(RuleLines)
<1>0. <<>> \in Acc /\ F \in [Acc \X Groups -> Acc]
  <2>1. <<>> \in Acc
    OBVIOUS
  <2> QED BY <2>1, GathersType
<1>6. ASSUME NEW a \in Acc, NEW g \in Groups PROVE AddGroup(a, g) = F[<<a, g>>]
  BY <1>6 DEF Gathers
<1> HIDE DEF F, Acc, AddGroup
<1>4. PICK g \in [SUBSET (1 .. n) -> Acc] : FoldsAll(g, F, <<>>, gs, n)
  <2> HIDE DEF n
  <2> QED BY <1>0, <1>1, <1>2, FoldExists
<1>5. \A T \in SUBSET (1 .. n) : T # {} => T \ {Max(T)} \in SUBSET (1 .. n) /\ Max(T) \in 1 .. n
  <2> HIDE DEF n
  <2> QED BY <1>1, LargestIn
<1>7. g = rhs(g)
  <2>1. ASSUME NEW T \in SUBSET (1 .. n)
        PROVE  g[T] = IF T = {} THEN <<>> ELSE AddGroup(g[T \ {Max(T)}], gs[Max(T)])
    <3>1. T = {} => g[T] = <<>>
      BY <1>4 DEF FoldsAll
    <3>2. T # {} => g[T] = F[<<g[T \ {Max(T)}], gs[Max(T)]>>]
      BY <1>4 DEF FoldsAll
    <3>3. T # {} => g[T \ {Max(T)}] \in Acc /\ gs[Max(T)] \in Groups
      BY <1>2, <1>5 DEF Holds
    <3>4. T # {} => AddGroup(g[T \ {Max(T)}], gs[Max(T)]) = F[<<g[T \ {Max(T)}], gs[Max(T)]>>]
      <4> HIDE DEF n
      <4> QED BY <1>6, <3>3
    <3> QED BY <3>1, <3>2, <3>4
  <2>2. g = [T \in SUBSET (1 .. n) |-> g[T]]
    OBVIOUS
  <2> HIDE DEF n
  <2> QED BY <2>1, <2>2
<1>8. it = rhs(it)
  <2> HIDE DEF rhs
  <2> QED BY <1>7
<1> HIDE DEF it
<1>9. Follows(it, Acc, F, <<>>, gs, n)
  <2> SUFFICES ASSUME NEW T \in SUBSET (1 .. n)
               PROVE  /\ T = {} => it[T] = <<>>
                      /\ T # {} /\ it[T \ {Max(T)}] \in Acc =>
                           it[T] = F[<<it[T \ {Max(T)}], gs[Max(T)]>>]
    BY DEF Follows
  <2>1. it[T] = IF T = {} THEN <<>> ELSE AddGroup(it[T \ {Max(T)}], gs[Max(T)])
    <3> HIDE DEF n
    <3> QED BY <1>8
  <2>2. T # {} => gs[Max(T)] \in Groups
    BY <1>2, <1>5 DEF Holds
  <2> HIDE DEF n
  <2> QED BY <1>6, <2>1, <2>2
<1>10. Turns(ByTurns(it, n), Acc, F, <<>>, gs, n)
  <2> HIDE DEF n
  <2> QED BY <1>0, <1>1, <1>2, <1>9, FollowedTurns
<1>11. ByTurns(it, n)[n] = it[1 .. n]
  BY <1>1 DEF ByTurns
<1> QED BY <1>3, <1>10, <1>11 DEF F, Acc

Results == [allow : Seq(Paths), disallow : Seq(Paths), delay : Delays \cup {0}, kept : Nat]

LEMMA KeepForm ==
  ASSUME NEW acc \in Results, NEW line \in RuleLines
  PROVE  LET b == keep_rule(acc, line) IN
         /\ b \in Results
         /\ acc.kept >= MAX_RULES => b = acc
         /\ acc.kept < MAX_RULES /\ line.field = "crawl-delay" =>
              /\ b.allow = acc.allow /\ b.disallow = acc.disallow
              /\ b.delay = line.value /\ b.kept = acc.kept
         /\ acc.kept < MAX_RULES /\ line.field = "allow" =>
              /\ b.allow = Append(acc.allow, line.value) /\ b.disallow = acc.disallow
              /\ b.delay = acc.delay /\ b.kept = acc.kept + 1
         /\ acc.kept < MAX_RULES /\ line.field = "disallow" =>
              /\ b.allow = acc.allow /\ b.disallow = Append(acc.disallow, line.value)
              /\ b.delay = acc.delay /\ b.kept = acc.kept + 1
<1> DEFINE b == keep_rule(acc, line)
<1>1. /\ line \in Lines /\ line.field \in {"allow", "disallow", "crawl-delay"}
      /\ line.field \in {"allow", "disallow"} => line.value \in Paths
      /\ line.field = "crawl-delay" => line.value \in Delays
  BY LineForm DEF RuleLines
<1>2. acc.kept \in Nat /\ MAX_RULES \in Nat
  BY RobotsAssumption DEF Results
<1>3. CASE acc.kept >= MAX_RULES
  <2>1. b = acc
    BY <1>3 DEF keep_rule
  <2> QED BY <1>2, <1>3, <2>1
<1>4. CASE acc.kept < MAX_RULES /\ line.field = "crawl-delay"
  <2>1. b = [acc EXCEPT !.delay = line.value]
    BY <1>2, <1>4 DEF keep_rule
  <2> QED BY <1>1, <1>2, <1>4, <2>1 DEF Results
<1>5. CASE acc.kept < MAX_RULES /\ line.field = "allow"
  <2>1. ~ (acc.kept >= MAX_RULES) /\ line.field # "crawl-delay" /\ line.field = "allow"
    BY <1>2, <1>5
  <2>2. b = [acc EXCEPT ![line.field] = Append(@, line.value), !.kept = @ + 1]
    BY <2>1, Zenon DEF keep_rule
  <2>3. b = [acc EXCEPT !.allow = Append(@, line.value), !.kept = @ + 1]
    BY <2>1, <2>2, Zenon
  <2>4. b.allow = Append(acc.allow, line.value) /\ b.disallow = acc.disallow
        /\ b.delay = acc.delay /\ b.kept = acc.kept + 1 /\ b \in Results
    <3>1. line.value \in Paths
      BY <1>1, <1>5
    <3>2. acc \in Results
      OBVIOUS
    <3>3. Append(acc.allow, line.value) \in Seq(Paths) /\ acc.kept + 1 \in Nat
      BY <3>1, <1>2 DEF Results
    <3> HIDE DEF b
    <3> QED BY ONLY <2>3, <3>2, <3>3 DEF Results
  <2> QED BY <1>2, <1>5, <2>1, <2>4
<1>6. CASE acc.kept < MAX_RULES /\ line.field = "disallow"
  <2>1. ~ (acc.kept >= MAX_RULES) /\ line.field # "crawl-delay" /\ line.field = "disallow"
    BY <1>2, <1>6
  <2>2. b = [acc EXCEPT ![line.field] = Append(@, line.value), !.kept = @ + 1]
    BY <2>1, Zenon DEF keep_rule
  <2>3. b = [acc EXCEPT !.disallow = Append(@, line.value), !.kept = @ + 1]
    BY <2>1, <2>2, Zenon
  <2>4. b.disallow = Append(acc.disallow, line.value) /\ b.allow = acc.allow
        /\ b.delay = acc.delay /\ b.kept = acc.kept + 1 /\ b \in Results
    <3>1. line.value \in Paths
      BY <1>1, <1>6
    <3>2. acc \in Results
      OBVIOUS
    <3>3. Append(acc.disallow, line.value) \in Seq(Paths) /\ acc.kept + 1 \in Nat
      BY <3>1, <1>2 DEF Results
    <3> HIDE DEF b
    <3> QED BY ONLY <2>3, <3>2, <3>3 DEF Results
  <2> QED BY <1>2, <1>6, <2>1, <2>4
<1> QED BY <1>1, <1>2, <1>3, <1>4, <1>5, <1>6

Retain == [x \in Results \X RuleLines |-> keep_rule(x[1], x[2])]

LEMMA KeepType == Retain \in [Results \X RuleLines -> Results] /\ NoRules \in Results
<1>1. \A x \in Results \X RuleLines : x[1] \in Results /\ x[2] \in RuleLines
  OBVIOUS
<1>2. \A x \in Results \X RuleLines : keep_rule(x[1], x[2]) \in Results
  BY <1>1, KeepForm
<1>3. NoRules \in Results
  BY DEF NoRules, Results
<1> QED BY <1>2, <1>3 DEF Retain

Parsed(rules) == FoldLeft(keep_rule, NoRules, rules)

LEMMA RulesKept ==
  ASSUME NEW rules \in Seq(RuleLines)
  PROVE  \E q : /\ Turns(q, Results, Retain, NoRules, rules, Len(rules))
                /\ q[Len(rules)] = Parsed(rules)
<1> DEFINE n == Len(rules)
           rhs(it) == [T \in SUBSET (1 .. n) |-> IF T = {} THEN NoRules
                                                 ELSE keep_rule(it[T \ {Max(T)}], rules[Max(T)])]
           it == CHOOSE it : it = rhs(it)
<1>1. n \in Nat /\ DOMAIN rules = 1 .. n
  OBVIOUS
<1>2. Holds(rules, n, RuleLines)
  BY <1>1 DEF Holds
<1>3. Parsed(rules) = it[1 .. n]
  <2>1. FoldLeft(keep_rule, NoRules, rules) =
          LET i == CHOOSE i : i = [T \in SUBSET (DOMAIN rules) |-> IF T = {} THEN NoRules
                                     ELSE keep_rule(i[T \ {Max(T)}], rules[Max(T)])] IN i[DOMAIN rules]
    BY DEF FoldLeft, MapThenFoldSet
  <2> HIDE DEF n
  <2> QED BY <1>1, <2>1 DEF Parsed
<1>6. ASSUME NEW a \in Results, NEW line \in RuleLines PROVE keep_rule(a, line) = Retain[<<a, line>>]
  BY <1>6 DEF Retain
<1>4. PICK g \in [SUBSET (1 .. n) -> Results] : FoldsAll(g, Retain, NoRules, rules, n)
  <2> HIDE DEF n
  <2> QED BY KeepType, <1>1, <1>2, FoldExists
<1>5. \A T \in SUBSET (1 .. n) : T # {} => T \ {Max(T)} \in SUBSET (1 .. n) /\ Max(T) \in 1 .. n
  <2> HIDE DEF n
  <2> QED BY <1>1, LargestIn
<1>7. g = rhs(g)
  <2>1. ASSUME NEW T \in SUBSET (1 .. n)
        PROVE  g[T] = IF T = {} THEN NoRules ELSE keep_rule(g[T \ {Max(T)}], rules[Max(T)])
    <3>1. T = {} => g[T] = NoRules
      BY <1>4 DEF FoldsAll
    <3>2. T # {} => g[T] = Retain[<<g[T \ {Max(T)}], rules[Max(T)]>>]
      BY <1>4 DEF FoldsAll
    <3>3. T # {} => g[T \ {Max(T)}] \in Results /\ rules[Max(T)] \in RuleLines
      BY <1>2, <1>5 DEF Holds
    <3>4. T # {} => keep_rule(g[T \ {Max(T)}], rules[Max(T)]) = Retain[<<g[T \ {Max(T)}], rules[Max(T)]>>]
      <4> HIDE DEF n
      <4> QED BY <1>6, <3>3
    <3> QED BY <3>1, <3>2, <3>4
  <2>2. g = [T \in SUBSET (1 .. n) |-> g[T]]
    OBVIOUS
  <2> HIDE DEF n
  <2> QED BY <2>1, <2>2
<1>8. it = rhs(it)
  <2> HIDE DEF rhs
  <2> QED BY <1>7
<1> HIDE DEF it
<1>9. Follows(it, Results, Retain, NoRules, rules, n)
  <2> SUFFICES ASSUME NEW T \in SUBSET (1 .. n)
               PROVE  /\ T = {} => it[T] = NoRules
                      /\ T # {} /\ it[T \ {Max(T)}] \in Results =>
                           it[T] = Retain[<<it[T \ {Max(T)}], rules[Max(T)]>>]
    BY DEF Follows
  <2>1. it[T] = IF T = {} THEN NoRules ELSE keep_rule(it[T \ {Max(T)}], rules[Max(T)])
    <3> HIDE DEF n
    <3> QED BY <1>8
  <2>2. T # {} => rules[Max(T)] \in RuleLines
    BY <1>2, <1>5 DEF Holds
  <2> HIDE DEF n
  <2> QED BY <1>6, <2>1, <2>2
<1>10. Turns(ByTurns(it, n), Results, Retain, NoRules, rules, n)
  <2> HIDE DEF n
  <2> QED BY KeepType, <1>1, <1>2, <1>9, FollowedTurns
<1>11. ByTurns(it, n)[n] = it[1 .. n]
  BY <1>1 DEF ByTurns
<1> QED BY <1>3, <1>10, <1>11


LEMMA ParsedOneMore ==
  ASSUME NEW rules \in Seq(RuleLines), NEW line \in RuleLines
  PROVE  /\ Parsed(rules) \in Results
         /\ Parsed(Append(rules, line)) = keep_rule(Parsed(rules), line)
<1> DEFINE n == Len(rules)
           more == Append(rules, line)
<1>1. /\ n \in Nat /\ more \in Seq(RuleLines) /\ Len(more) = n + 1 /\ more[n + 1] = line
      /\ \A i \in 1 .. n : rules[i] = more[i]
  OBVIOUS
<1>2. PICK q : Turns(q, Results, Retain, NoRules, rules, n) /\ q[n] = Parsed(rules)
  BY RulesKept
<1>3. PICK r : Turns(r, Results, Retain, NoRules, more, n + 1) /\ r[n + 1] = Parsed(more)
  BY <1>1, RulesKept
<1> HIDE DEF n, more
<1>4. n + 1 \in Nat /\ n <= n + 1 /\ n <= n /\ n + 1 \in 1 .. n + 1 /\ n \in 0 .. n + 1 /\ n + 1 - 1 = n
  BY <1>1
<1>5. BothTurn(q, r, Results, Retain, NoRules, rules, more, n, n + 1, n)
  BY <1>1, <1>2, <1>3, <1>4 DEF BothTurn
<1>6. q[n] = r[n]
  BY <1>5, TurnsAgree
<1>7. r[n + 1] = Retain[<<r[n], line>>] /\ r[n] \in Results
  BY <1>1, <1>3, <1>4 DEF Turns
<1>8. Retain[<<r[n], line>>] = keep_rule(r[n], line)
  BY <1>7 DEF Retain
<1> QED BY <1>2, <1>3, <1>6, <1>7, <1>8 DEF more

\* What the last group adds.
LEMMA GatherLast ==
  ASSUME NEW agent, NEW gs \in Seq(Groups), NEW m \in Nat, Len(gs) = m + 1
  PROVE  LET upto == rules_of(SubSeq(gs, 1, m), agent) IN
         /\ upto \in Seq(RuleLines)
         /\ rules_of(gs, agent) \in Seq(RuleLines)
         /\ rules_of(gs, agent) = IF agent \in ToSet(gs[m + 1].agents)
                                  THEN upto \o gs[m + 1].rules ELSE upto
<1> DEFINE hs == SubSeq(gs, 1, m)
           Acc == Seq(RuleLines)
           F == Gathers(agent)
<1>1. hs \in Seq(Groups) /\ Len(hs) = m /\ \A i \in 1 .. m : hs[i] = gs[i]
  OBVIOUS
<1>2. gs[m + 1] \in Groups
  OBVIOUS
<1> HIDE DEF hs
<1>3. PICK q : Turns(q, Acc, F, <<>>, hs, m) /\ q[m] = rules_of(hs, agent)
  BY <1>1, Gathered
<1>4. PICK r : Turns(r, Acc, F, <<>>, gs, m + 1) /\ r[m + 1] = rules_of(gs, agent)
  BY Gathered
<1> HIDE DEF Acc, F
<1>5. m + 1 \in Nat /\ m <= m + 1 /\ m <= m /\ m + 1 \in 1 .. m + 1 /\ m \in 0 .. m + 1
      /\ m + 1 - 1 = m /\ m + 1 \in 0 .. m + 1
  OBVIOUS
<1>6. q[m] = r[m]
  <2>1. BothTurn(q, r, Acc, F, <<>>, hs, gs, m, m + 1, m)
    BY <1>1, <1>3, <1>4, <1>5 DEF BothTurn
  <2> QED BY <2>1, TurnsAgree
<1>7. r[m + 1] = F[<<r[m], gs[m + 1]>>] /\ r[m] \in Acc /\ r[m + 1] \in Acc
  BY <1>4, <1>5 DEF Turns
<1>8. F[<<r[m], gs[m + 1]>>] = IF agent \in ToSet(gs[m + 1].agents)
                               THEN r[m] \o gs[m + 1].rules ELSE r[m]
  BY <1>2, <1>7 DEF F, Gathers, Acc
<1> QED BY <1>3, <1>4, <1>6, <1>7, <1>8 DEF hs, Acc

LEMMA NoGroups ==
  ASSUME NEW agent PROVE rules_of(<<>>, agent) = <<>>
<1>1. <<>> \in Seq(Groups) /\ Len(<<>>) = 0
  OBVIOUS
<1>2. PICK q : /\ Turns(q, Seq(RuleLines), Gathers(agent), <<>>, <<>>, 0)
               /\ q[0] = rules_of(<<>>, agent)
  BY <1>1, Gathered
<1> QED BY <1>2 DEF Turns

\* hs is gs with one more in the field of its last group.
Grows(hs, gs, n) ==
  /\ hs \in Seq(Groups) /\ Len(hs) = n
  /\ \A i \in 1 .. n - 1 : hs[i] = gs[i]

LEMMA RuleAdded ==
  ASSUME NEW gs \in Seq(Groups), gs # <<>>, NEW line \in RuleLines
  PROVE  LET hs == AddTo(gs, "rules", line) IN
         /\ Grows(hs, gs, Len(gs))
         /\ hs[Len(gs)].agents = gs[Len(gs)].agents
         /\ hs[Len(gs)].rules = Append(gs[Len(gs)].rules, line)
<1> DEFINE n == Len(gs)
           hs == AddTo(gs, "rules", line)
<1>1. n \in Nat /\ n # 0 /\ n \in 1 .. n /\ gs[n] \in Groups /\ gs \in [1 .. n -> Groups]
  OBVIOUS
<1> DEFINE g == [gs[n] EXCEPT !.rules = Append(gs[n].rules, line)]
<1>2. hs = [gs EXCEPT ![n] = g]
  BY Zenon DEF AddTo
<1>3. g \in Groups /\ g.agents = gs[n].agents /\ g.rules = Append(gs[n].rules, line)
  <2>1. Append(gs[n].rules, line) \in Seq(RuleLines)
    BY <1>1 DEF Groups
  <2> HIDE DEF n
  <2> QED BY ONLY <1>1, <2>1 DEF Groups
<1> HIDE DEF g, hs, n
<1>4. hs \in [1 .. n -> Groups] /\ hs[n] = g /\ \A i \in 1 .. n - 1 : hs[i] = gs[i]
  BY <1>1, <1>2, <1>3
<1>5. hs \in Seq(Groups) /\ Len(hs) = n
  BY <1>1, <1>4, SeqOfFunction
<1> QED BY <1>3, <1>4, <1>5 DEF Grows, hs, n

LEMMA AgentAdded ==
  ASSUME NEW gs \in Seq(Groups), gs # <<>>, NEW agent \in Agents
  PROVE  LET hs == AddTo(gs, "agents", agent) IN
         /\ Grows(hs, gs, Len(gs))
         /\ hs[Len(gs)].agents = Append(gs[Len(gs)].agents, agent)
         /\ hs[Len(gs)].rules = gs[Len(gs)].rules
<1> DEFINE n == Len(gs)
           hs == AddTo(gs, "agents", agent)
<1>1. n \in Nat /\ n # 0 /\ n \in 1 .. n /\ gs[n] \in Groups /\ gs \in [1 .. n -> Groups]
  OBVIOUS
<1> DEFINE g == [gs[n] EXCEPT !.agents = Append(gs[n].agents, agent)]
<1>2. hs = [gs EXCEPT ![n] = g]
  BY Zenon DEF AddTo
<1>3. g \in Groups /\ g.agents = Append(gs[n].agents, agent) /\ g.rules = gs[n].rules
  <2>1. Append(gs[n].agents, agent) \in Seq(Agents)
    BY <1>1 DEF Groups
  <2> HIDE DEF n
  <2> QED BY ONLY <1>1, <2>1 DEF Groups
<1> HIDE DEF g, hs, n
<1>4. hs \in [1 .. n -> Groups] /\ hs[n] = g /\ \A i \in 1 .. n - 1 : hs[i] = gs[i]
  BY <1>1, <1>2, <1>3
<1>5. hs \in Seq(Groups) /\ Len(hs) = n
  BY <1>1, <1>4, SeqOfFunction
<1> QED BY <1>3, <1>4, <1>5 DEF Grows, hs, n

\* A rule goes to those the last group names.
LEMMA RuleGathered ==
  ASSUME NEW gs \in Seq(Groups), gs # <<>>, NEW line \in RuleLines, NEW agent
  PROVE  rules_of(AddTo(gs, "rules", line), agent) =
           IF agent \in ToSet(gs[Len(gs)].agents) THEN Append(rules_of(gs, agent), line)
           ELSE rules_of(gs, agent)
<1> DEFINE n == Len(gs)
           m == n - 1
           hs == AddTo(gs, "rules", line)
           upto == rules_of(SubSeq(gs, 1, m), agent)
<1>1. n \in Nat /\ m \in Nat /\ n = m + 1 /\ gs[n] \in Groups
  OBVIOUS
<1>2. /\ hs \in Seq(Groups) /\ Len(hs) = n /\ \A i \in 1 .. m : hs[i] = gs[i]
      /\ hs[n].agents = gs[n].agents /\ hs[n].rules = Append(gs[n].rules, line)
  BY RuleAdded DEF Grows
<1> HIDE DEF hs
<1>3. SubSeq(hs, 1, m) = SubSeq(gs, 1, m)
  <2> HIDE DEF m
  <2>1. Len(hs) = m + 1 /\ Len(gs) = m + 1
    BY <1>1, <1>2 DEF n
  <2> HIDE DEF n
  <2> QED BY <1>1, <1>2, <2>1
<1>4. /\ upto \in Seq(RuleLines)
      /\ rules_of(gs, agent) = IF agent \in ToSet(gs[n].agents) THEN upto \o gs[n].rules ELSE upto
  <2> HIDE DEF m
  <2> QED BY <1>1, GatherLast
<1>5. rules_of(hs, agent) = IF agent \in ToSet(hs[n].agents) THEN upto \o hs[n].rules ELSE upto
  <2> HIDE DEF m
  <2> QED BY <1>1, <1>2, <1>3, GatherLast, ZenonT(30)
<1>6. gs[n].rules \in Seq(RuleLines)
  BY <1>1 DEF Groups
<1> HIDE DEF upto, n
<1>7. upto \o Append(gs[n].rules, line) = Append(upto \o gs[n].rules, line)
  <2>1. upto \in Seq(RuleLines) /\ line \in RuleLines
    BY <1>4
  <2> QED BY ONLY <1>6, <2>1, SMTT(30)
<1> QED BY <1>2, <1>4, <1>5, <1>7 DEF hs, n

\* A User-agent line brings nobody a rule.
LEMMA AgentGathered ==
  ASSUME NEW gs \in Seq(Groups), NEW line \in Lines, line.field = "user-agent", NEW agent
  PROVE  LET hs == ScanAgent(gs, line) IN
         /\ hs \in Seq(Groups) /\ hs # <<>> /\ hs[Len(hs)].rules = <<>>
         /\ rules_of(hs, agent) = rules_of(gs, agent)
         /\ gs = <<>> \/ gs[Len(gs)].rules # <<>> =>
              /\ Len(hs) = Len(gs) + 1 /\ hs[Len(hs)].agents = <<line.value>>
              /\ \A i \in 1 .. Len(gs) : hs[i] = gs[i]
         /\ gs # <<>> /\ gs[Len(gs)].rules = <<>> =>
              /\ Len(hs) = Len(gs) /\ hs[Len(hs)].agents = Append(gs[Len(gs)].agents, line.value)
              /\ \A i \in 1 .. Len(gs) - 1 : hs[i] = gs[i]
<1> DEFINE n == Len(gs)
           hs == ScanAgent(gs, line)
<1>1. n \in Nat /\ line.value \in Agents
  BY LineForm
<1>2. CASE gs = <<>> \/ gs[n].rules # <<>>
  <2> DEFINE one == Append(gs, NewGroup)
  <2>1. NewGroup \in Groups /\ NewGroup.agents = <<>> /\ NewGroup.rules = <<>>
    BY DEF NewGroup, Groups
  <2>2. /\ one \in Seq(Groups) /\ Len(one) = n + 1 /\ one[n + 1] = NewGroup /\ one # <<>>
        /\ \A i \in 1 .. n : one[i] = gs[i]
    BY <2>1
  <2>3. hs = AddTo(one, "agents", line.value)
    BY <1>2 DEF ScanAgent, Last
  <2> HIDE DEF hs, one
  <2>4. /\ hs \in Seq(Groups) /\ Len(hs) = n + 1
        /\ \A i \in 1 .. n + 1 - 1 : hs[i] = one[i]
        /\ hs[n + 1].agents = Append(<<>>, line.value) /\ hs[n + 1].rules = <<>>
    <3>1. /\ Grows(hs, one, n + 1)
          /\ hs[n + 1].agents = Append(one[n + 1].agents, line.value)
          /\ hs[n + 1].rules = one[n + 1].rules
      BY <1>1, <2>2, <2>3, AgentAdded
    <3> QED BY <2>1, <2>2, <3>1 DEF Grows
  <2>5. n + 1 - 1 = n /\ Append(<<>>, line.value) = <<line.value>> /\ hs # <<>>
    BY <1>1, <2>4
  <2>6. SubSeq(hs, 1, n) = gs
    BY <1>1, <2>2, <2>4, <2>5
  <2>7. /\ gs # <<>> \/ rules_of(gs, agent) \in Seq(RuleLines)
        /\ rules_of(hs, agent) = IF agent \in ToSet(hs[n + 1].agents)
                                 THEN rules_of(gs, agent) \o <<>> ELSE rules_of(gs, agent)
        /\ rules_of(gs, agent) \in Seq(RuleLines)
    BY <1>1, <2>4, <2>6, GatherLast
  <2>8. rules_of(hs, agent) = rules_of(gs, agent)
    BY <2>7
  <2> QED BY <1>1, <1>2, <2>2, <2>4, <2>5, <2>8 DEF hs
<1>3. CASE gs # <<>> /\ gs[n].rules = <<>>
  <2> DEFINE m == n - 1
             upto == rules_of(SubSeq(gs, 1, m), agent)
  <2>1. n # 0 /\ m \in Nat /\ n = m + 1
    BY <1>1, <1>3
  <2>2. hs = AddTo(gs, "agents", line.value)
    BY <1>3 DEF ScanAgent, Last
  <2> HIDE DEF hs
  <2>3. /\ hs \in Seq(Groups) /\ Len(hs) = n
        /\ \A i \in 1 .. m : hs[i] = gs[i]
        /\ hs[n].agents = Append(gs[n].agents, line.value) /\ hs[n].rules = <<>>
    BY <1>1, <1>3, <2>2, AgentAdded DEF Grows
  <2>4. hs # <<>>
    BY <2>1, <2>3
  <2>5. SubSeq(hs, 1, m) = SubSeq(gs, 1, m)
    <3> HIDE DEF m
    <3>1. Len(hs) = m + 1 /\ Len(gs) = m + 1
      BY <2>1, <2>3 DEF n
    <3> HIDE DEF n
    <3> QED BY <2>1, <2>3, <3>1
  <2>6. /\ upto \in Seq(RuleLines)
        /\ rules_of(gs, agent) = IF agent \in ToSet(gs[n].agents) THEN upto \o gs[n].rules ELSE upto
    <3> HIDE DEF m
    <3> QED BY <2>1, GatherLast
  <2>7. rules_of(hs, agent) = IF agent \in ToSet(hs[n].agents) THEN upto \o hs[n].rules ELSE upto
    <3> HIDE DEF m
    <3> QED BY <2>1, <2>3, <2>5, GatherLast
  <2> HIDE DEF upto
  <2>8. upto \o <<>> = upto
    BY <2>6
  <2> QED BY <1>3, <2>3, <2>4, <2>6, <2>7, <2>8 DEF hs
<1> QED BY <1>2, <1>3

-----------------------------------------------------------------------------
(* robots.txt: the rules that count.                                        *)

\* What comes after the first i lines of f stands under line j, a User-agent line.
Under(f, i, j) ==
  /\ f[j].field = "user-agent"
  /\ \A k \in j + 1 .. i : f[k].field # "user-agent" =>
       \A l \in k + 1 .. i : f[l].field # "user-agent"
Speaks(f, i, agent) == \E j \in 1 .. i : Under(f, i, j) /\ f[j].value = agent

RulesFor(f, agent, fields) == {i \in 1 .. Len(f) : f[i].field \in fields /\ Speaks(f, i - 1, agent)}

ValuesOf(f, L) == [n \in 1 .. Cardinality(L) |-> f[CHOOSE i \in L : PlaceIn(L, i) = n].value]

CountedFor(f, agent) ==
  {i \in 1 .. Len(f) : Cardinality({k \in RulesFor(f, agent, {"allow", "disallow"}) : k < i}) < MAX_RULES}
KeptFor(f, agent, field) == RulesFor(f, agent, {field}) \cap CountedFor(f, agent)

\* result is what the lines of f that speak to the agent come to.
Outcome(f, agent, result) ==
  LET all == Cardinality(RulesFor(f, agent, {"allow", "disallow"}))
      delays == KeptFor(f, agent, "crawl-delay") IN
  /\ result.kept = (IF all <= MAX_RULES THEN all ELSE MAX_RULES)
  /\ result.allow = ValuesOf(f, KeptFor(f, agent, "allow"))
  /\ result.disallow = ValuesOf(f, KeptFor(f, agent, "disallow"))
  /\ result.delay = IF delays = {} THEN 0 ELSE f[Max(delays)].value

\* What the groups hold of the lines read.
ScanTyped(f, gs) == f \in Seq(Lines) /\ gs \in Seq(Groups)
ScanLast(f, gs) ==
  /\ gs = <<>> => \A j \in 1 .. Len(f) : f[j].field # "user-agent"
  /\ gs # <<>> =>
       /\ Len(f) # 0
       /\ gs[Len(gs)].rules = <<>> <=> f[Len(f)].field = "user-agent"
       /\ \A agent \in Agents : agent \in ToSet(gs[Len(gs)].agents) <=> Speaks(f, Len(f), agent)
Named(gs, agent) == \E i \in 1 .. Len(gs) : agent \in ToSet(gs[i].agents)
NamedBy(f, agent) == \E j \in 1 .. Len(f) : f[j].field = "user-agent" /\ f[j].value = agent
ScanNames(f, gs) == \A agent \in Agents : Named(gs, agent) <=> NamedBy(f, agent)
ScanOutcome(f, gs) == \A agent \in Agents : Outcome(f, agent, Parsed(rules_of(gs, agent)))
Scanned(f, gs) == ScanTyped(f, gs) /\ ScanLast(f, gs) /\ ScanNames(f, gs) /\ ScanOutcome(f, gs)

\* more is f and one more line.
Longer(f, more, line) ==
  /\ f \in Seq(Lines) /\ more \in Seq(Lines) /\ line \in Lines
  /\ Len(f) \in Nat /\ Len(more) = Len(f) + 1 /\ more[Len(f) + 1] = line
  /\ \A i \in 1 .. Len(f) : more[i] = f[i]

LEMMA SpeaksSame ==
  ASSUME NEW f, NEW more, NEW line, Longer(f, more, line), NEW agent, NEW i \in 0 .. Len(f)
  PROVE  Speaks(more, i, agent) <=> Speaks(f, i, agent)
<1>1. Len(f) \in Nat /\ \A k \in 1 .. Len(f) : more[k] = f[k]
  BY DEF Longer
<1>2. ASSUME NEW j \in 1 .. i
      PROVE  (Under(more, i, j) <=> Under(f, i, j)) /\ more[j] = f[j]
  <2>1. more[j] = f[j] /\ \A k \in j + 1 .. i : more[k] = f[k]
    BY <1>1
  <2>2. \A k \in j + 1 .. i : \A l \in k + 1 .. i : more[l] = f[l]
    BY <1>1
  <2> QED BY ONLY <2>1, <2>2 DEF Under
<1> QED BY <1>2 DEF Speaks

\* Under a rule line stands who stood there before it.
LEMMA SpeaksPastRule ==
  ASSUME NEW f, NEW more, NEW line, Longer(f, more, line), line.field # "user-agent", NEW agent
  PROVE  Speaks(more, Len(f) + 1, agent) <=> Speaks(f, Len(f), agent)
<1> DEFINE n == Len(f)
<1>1. n \in Nat /\ more[n + 1] = line /\ \A k \in 1 .. n : more[k] = f[k]
  BY DEF Longer
<1> HIDE DEF n
<1>3. ASSUME NEW j \in 1 .. n PROVE Under(more, n + 1, j) <=> Under(f, n, j)
  <2>1. more[j] = f[j] /\ \A k \in j + 1 .. n : more[k] = f[k]
    BY <1>1
  <2>2. ASSUME Under(more, n + 1, j) PROVE Under(f, n, j)
    <3>1. \A k \in j + 1 .. n : more[k].field # "user-agent" =>
            \A l \in k + 1 .. n : more[l].field # "user-agent"
      BY <1>1, <2>2 DEF Under
    <3>2. \A k \in j + 1 .. n : \A l \in k + 1 .. n : more[l] = f[l]
      BY <1>1
    <3> QED BY <2>1, <2>2, <3>1, <3>2 DEF Under
  <2>3. ASSUME Under(f, n, j) PROVE Under(more, n + 1, j)
    <3>1. \A k \in j + 1 .. n : more[k].field # "user-agent" =>
            \A l \in k + 1 .. n : more[l].field # "user-agent"
      <4>1. \A k \in j + 1 .. n : \A l \in k + 1 .. n : more[l] = f[l]
        BY <1>1
      <4> QED BY <2>1, <2>3, <4>1 DEF Under
    <3>2. SUFFICES ASSUME NEW k \in j + 1 .. n + 1, more[k].field # "user-agent",
                          NEW l \in k + 1 .. n + 1
                   PROVE  more[l].field # "user-agent"
      BY <2>1, <2>3 DEF Under
    <3>3. CASE l = n + 1
      BY <1>1, <3>3
    <3>4. CASE l # n + 1
      <4>1. k \in j + 1 .. n /\ l \in k + 1 .. n
        BY <1>1, <3>4
      <4> QED BY <3>1, <3>2, <4>1
    <3> QED BY <3>3, <3>4
  <2> QED BY <2>2, <2>3
<1>4. ~ Under(more, n + 1, n + 1)
  BY <1>1 DEF Under
<1>5. ASSUME Speaks(more, n + 1, agent) PROVE Speaks(f, n, agent)
  <2>1. PICK j \in 1 .. n + 1 : Under(more, n + 1, j) /\ more[j].value = agent
    BY <1>5 DEF Speaks
  <2>2. j \in 1 .. n
    BY <1>1, <1>4, <2>1
  <2> QED BY <1>1, <1>3, <2>1, <2>2 DEF Speaks
<1>6. ASSUME Speaks(f, n, agent) PROVE Speaks(more, n + 1, agent)
  <2>1. PICK j \in 1 .. n : Under(f, n, j) /\ f[j].value = agent
    BY <1>6 DEF Speaks
  <2>2. j \in 1 .. n + 1
    BY <1>1
  <2> QED BY <1>1, <1>3, <2>1, <2>2 DEF Speaks
<1> QED BY <1>5, <1>6 DEF n

\* A User-agent line stands with the one before it.
LEMMA SpeaksPastAgent ==
  ASSUME NEW f, NEW more, NEW line, Longer(f, more, line), line.field = "user-agent", NEW agent
  PROVE  Speaks(more, Len(f) + 1, agent) <=>
           \/ line.value = agent
           \/ Len(f) # 0 /\ f[Len(f)].field = "user-agent" /\ Speaks(f, Len(f), agent)
<1> DEFINE n == Len(f)
<1>1. n \in Nat /\ more[n + 1] = line /\ \A k \in 1 .. n : more[k] = f[k]
  BY DEF Longer
<1> HIDE DEF n
<1>3. Under(more, n + 1, n + 1)
  BY <1>1 DEF Under
<1>4. ASSUME NEW j \in 1 .. n
      PROVE  Under(more, n + 1, j) <=> f[n].field = "user-agent" /\ Under(f, n, j)
  <2>1. more[j] = f[j] /\ \A k \in j + 1 .. n : more[k] = f[k]
    BY <1>1
  <2>2. ASSUME Under(more, n + 1, j) PROVE \A k \in j + 1 .. n : f[k].field = "user-agent"
    <3> SUFFICES ASSUME NEW k \in j + 1 .. n, f[k].field # "user-agent" PROVE FALSE
      OBVIOUS
    <3>1. k \in j + 1 .. n + 1 /\ n + 1 \in k + 1 .. n + 1 /\ more[k].field # "user-agent"
      BY <1>1, <2>1
    <3>2. more[n + 1].field # "user-agent"
      BY <2>2, <3>1 DEF Under
    <3> QED BY <1>1, <3>2
  <2>3. ASSUME Under(more, n + 1, j) PROVE f[n].field = "user-agent" /\ Under(f, n, j)
    <3>1. f[j].field = "user-agent"
      BY <2>1, <2>3 DEF Under
    <3>2. j = n \/ n \in j + 1 .. n
      BY <1>1
    <3>3. \A k \in j + 1 .. n : f[k].field = "user-agent"
      BY <2>2, <2>3
    <3> QED BY <3>1, <3>2, <3>3 DEF Under
  <2>4. ASSUME f[n].field = "user-agent", Under(f, n, j) PROVE Under(more, n + 1, j)
    <3>1. ASSUME NEW k \in j + 1 .. n PROVE f[k].field = "user-agent"
      <4>1. CASE k = n
        BY <2>4, <4>1
      <4>2. CASE k # n
        <5>1. n \in k + 1 .. n
          BY <1>1, <4>2
        <5> QED BY <2>4, <5>1 DEF Under
      <4> QED BY <4>1, <4>2
    <3>2. ASSUME NEW k \in j + 1 .. n + 1 PROVE more[k].field = "user-agent"
      <4>1. CASE k = n + 1
        BY <1>1, <4>1
      <4>2. CASE k # n + 1
        <5>1. k \in j + 1 .. n
          BY <1>1, <4>2
        <5> QED BY <2>1, <3>1, <5>1
      <4> QED BY <4>1, <4>2
    <3> QED BY <2>1, <2>4, <3>2 DEF Under
  <2> QED BY <2>3, <2>4
<1>5. ASSUME Speaks(more, n + 1, agent), line.value # agent
      PROVE  n # 0 /\ f[n].field = "user-agent" /\ Speaks(f, n, agent)
  <2>1. PICK j \in 1 .. n + 1 : Under(more, n + 1, j) /\ more[j].value = agent
    BY <1>5 DEF Speaks
  <2>2. j \in 1 .. n /\ n # 0
    BY <1>1, <1>5, <2>1
  <2> QED BY <1>1, <1>4, <2>1, <2>2 DEF Speaks
<1>6. ASSUME line.value = agent PROVE Speaks(more, n + 1, agent)
  <2>1. n + 1 \in 1 .. n + 1
    BY <1>1
  <2> QED BY <1>1, <1>3, <1>6, <2>1 DEF Speaks
<1>7. ASSUME f[n].field = "user-agent", Speaks(f, n, agent) PROVE Speaks(more, n + 1, agent)
  <2>1. PICK j \in 1 .. n : Under(f, n, j) /\ f[j].value = agent
    BY <1>7 DEF Speaks
  <2>2. j \in 1 .. n + 1
    BY <1>1
  <2> QED BY <1>1, <1>4, <1>7, <2>1, <2>2 DEF Speaks
<1> QED BY <1>5, <1>6, <1>7 DEF n

LEMMA ValueAt ==
  ASSUME NEW f, NEW L, IsFiniteSet(L), L \subseteq Nat
  PROVE  /\ ValuesOf(f, L) = [n \in 1 .. Cardinality(L) |-> ValuesOf(f, L)[n]]
         /\ \A i \in L : ValuesOf(f, L)[PlaceIn(L, i)] = f[i].value
<1>1. ValuesOf(f, L) = [n \in 1 .. Cardinality(L) |-> ValuesOf(f, L)[n]]
  BY DEF ValuesOf
<1>2. ASSUME NEW i \in L PROVE ValuesOf(f, L)[PlaceIn(L, i)] = f[i].value
  <2> DEFINE j == CHOOSE j \in L : PlaceIn(L, j) = PlaceIn(L, i)
  <2>1. j \in L /\ PlaceIn(L, j) = PlaceIn(L, i)
    OBVIOUS
  <2>2. ValuesOf(f, L)[PlaceIn(L, i)] = f[j].value
    <3>1. PlaceIn(L, i) \in 1 .. Cardinality(L)
      BY Placed
    <3> QED BY <3>1 DEF ValuesOf
  <2> HIDE DEF j
  <2>3. j = i
    BY <2>1, Placed
  <2> QED BY <2>2, <2>3
<1> QED BY <1>1, <1>2

\* v has every value at its place.
Lists(v, f, L) ==
  /\ IsFiniteSet(L) /\ L \subseteq Nat
  /\ v = [n \in 1 .. Cardinality(L) |-> v[n]]
  /\ \A i \in L : v[PlaceIn(L, i)] = f[i].value

LEMMA ValuesAre ==
  ASSUME NEW v, NEW f, NEW L, Lists(v, f, L)
  PROVE  v = ValuesOf(f, L)
<1>0. /\ IsFiniteSet(L) /\ L \subseteq Nat
      /\ v = [n \in 1 .. Cardinality(L) |-> v[n]]
      /\ \A i \in L : v[PlaceIn(L, i)] = f[i].value
  BY DEF Lists
<1>1. ASSUME NEW n \in 1 .. Cardinality(L) PROVE v[n] = ValuesOf(f, L)[n]
  <2>1. PICK i \in L : PlaceIn(L, i) = n
    BY <1>0, Placed
  <2>2. ValuesOf(f, L)[PlaceIn(L, i)] = f[i].value
    BY <1>0, ValueAt
  <2> QED BY <1>0, <2>1, <2>2
<1>2. ValuesOf(f, L) = [n \in 1 .. Cardinality(L) |-> ValuesOf(f, L)[n]]
  BY DEF ValuesOf
<1>3. [n \in 1 .. Cardinality(L) |-> v[n]] = [n \in 1 .. Cardinality(L) |-> ValuesOf(f, L)[n]]
  BY <1>1
<1> QED BY <1>0, <1>2, <1>3

LEMMA ValuesSame ==
  ASSUME NEW f, NEW more, NEW line, Longer(f, more, line), NEW L \in SUBSET (1 .. Len(f))
  PROVE  ValuesOf(more, L) = ValuesOf(f, L)
<1>1. Len(f) \in Nat /\ L \subseteq Nat /\ \A i \in L : f[i] = more[i]
  BY DEF Longer
<1>2. IsFiniteSet(L)
  <2>1. IsFiniteSet(1 .. Len(f))
    BY <1>1, FS_Interval
  <2> QED BY <2>1, FS_Subset
<1>3. ValuesOf(f, L) = [n \in 1 .. Cardinality(L) |-> ValuesOf(f, L)[n]]
  BY DEF ValuesOf
<1>4. \A i \in L : ValuesOf(f, L)[PlaceIn(L, i)] = more[i].value
  BY <1>1, <1>2, ValueAt
<1>5. Lists(ValuesOf(f, L), more, L)
  BY <1>1, <1>2, <1>3, <1>4 DEF Lists
<1> QED BY <1>5, ValuesAre

LEMMA ValuesOneMore ==
  ASSUME NEW f, NEW more, NEW line, Longer(f, more, line), NEW L \in SUBSET (1 .. Len(f)),
         NEW V, ValuesOf(f, L) \in Seq(V), line.value \in V
  PROVE  ValuesOf(more, L \cup {Len(f) + 1}) = Append(ValuesOf(f, L), line.value)
<1> DEFINE n == Len(f)
           M == L \cup {n + 1}
           c == Cardinality(L)
           v == ValuesOf(f, L)
           w == Append(v, line.value)
<1>1. n \in Nat /\ L \subseteq Nat /\ M \subseteq Nat /\ more[n + 1] = line /\ \A i \in L : f[i] = more[i]
  <2>1. n \in Nat /\ more[n + 1] = line /\ \A i \in 1 .. n : more[i] = f[i]
    BY DEF Longer
  <2>2. \A i \in L : i \in 1 .. n /\ i \in Nat
    BY <2>1
  <2>3. n + 1 \in Nat
    BY <2>1
  <2> HIDE DEF n
  <2> QED BY <2>1, <2>2, <2>3
<1>2. IsFiniteSet(L)
  <2>1. IsFiniteSet(1 .. Len(f))
    BY <1>1, FS_Interval
  <2> QED BY <2>1, FS_Subset
<1>3. \A i \in L : i < n + 1 /\ ~ (n + 1 < i) /\ i # n + 1
  BY <1>1
<1>4. IsFiniteSet(M) /\ Cardinality(M) = c + 1 /\ c \in Nat
  BY <1>2, <1>3, FS_AddElement, FS_CardinalityType
<1>5. \A i \in L : PlaceIn(M, i) = PlaceIn(L, i)
  <2>1. \A i \in L : {k \in M : k < i} = {k \in L : k < i}
    BY <1>3
  <2> HIDE DEF M
  <2> QED BY <2>1 DEF PlaceIn
<1>6. PlaceIn(M, n + 1) = c + 1
  <2>1. {k \in M : k < n + 1} = L
    BY <1>1, <1>3
  <2> HIDE DEF M
  <2> QED BY <2>1 DEF PlaceIn
<1>7. v = [i \in 1 .. c |-> v[i]] /\ \A i \in L : v[PlaceIn(L, i)] = f[i].value
  <2> HIDE DEF n
  <2> QED BY <1>1, <1>2, ValueAt
<1>8. \A i \in L : PlaceIn(L, i) \in 1 .. c
  <2> HIDE DEF n
  <2> QED BY <1>1, <1>2, Placed
<1> HIDE DEF M, c, v, n
<1>9. Len(v) = c
  BY <1>4, <1>7 DEF v
<1>10. /\ w \in Seq(V) /\ Len(w) = c + 1 /\ w[c + 1] = line.value
       /\ \A i \in 1 .. c : w[i] = v[i]
  BY <1>4, <1>9 DEF v
<1> HIDE DEF w
<1>11. w = [i \in 1 .. Cardinality(M) |-> w[i]]
  BY <1>4, <1>10
<1>12. ASSUME NEW i \in M PROVE w[PlaceIn(M, i)] = more[i].value
  <2>1. CASE i \in L
    BY <1>1, <1>5, <1>7, <1>8, <1>10, <2>1
  <2>2. CASE i = n + 1
    BY <1>1, <1>6, <1>10, <2>2
  <2> QED BY <2>1, <2>2 DEF M
<1>13. Lists(w, more, M)
  BY <1>1, <1>4, <1>11, <1>12 DEF Lists
<1>14. w = ValuesOf(more, M)
  BY <1>13, ValuesAre
<1> QED BY <1>14 DEF M, v, w, n

\* The rules that count for an agent, with one more line.
LEMMA RulesForMore ==
  ASSUME NEW f, NEW more, NEW line, Longer(f, more, line), NEW agent, NEW fields
  PROVE  /\ RulesFor(f, agent, fields) \in SUBSET (1 .. Len(f))
         /\ line.field \in fields /\ Speaks(f, Len(f), agent) =>
              RulesFor(more, agent, fields) = RulesFor(f, agent, fields) \cup {Len(f) + 1}
         /\ ~ (line.field \in fields /\ Speaks(f, Len(f), agent)) =>
              RulesFor(more, agent, fields) = RulesFor(f, agent, fields)
<1> DEFINE n == Len(f)
<1>1. n \in Nat /\ Len(more) = n + 1 /\ more[n + 1] = line /\ \A i \in 1 .. n : more[i] = f[i]
  BY DEF Longer
<1>2. \A i \in 0 .. n : Speaks(more, i, agent) <=> Speaks(f, i, agent)
  BY SpeaksSame
<1> HIDE DEF n
<1>3. \A i \in 1 .. n : i \in RulesFor(more, agent, fields) <=> i \in RulesFor(f, agent, fields)
  <2>1. \A i \in 1 .. n : i - 1 \in 0 .. n /\ i \in 1 .. n + 1
    BY <1>1
  <2> QED BY <1>1, <1>2, <2>1 DEF RulesFor, n
<1>4. n + 1 \in RulesFor(more, agent, fields) <=> line.field \in fields /\ Speaks(f, n, agent)
  <2>1. n + 1 \in 1 .. n + 1 /\ n + 1 - 1 = n /\ n \in 0 .. n
    BY <1>1
  <2> QED BY <1>1, <1>2, <2>1 DEF RulesFor
<1>5. RulesFor(f, agent, fields) \in SUBSET (1 .. n) /\ RulesFor(more, agent, fields) \in SUBSET (1 .. n + 1)
  BY <1>1 DEF RulesFor, n
<1>6. 1 .. n + 1 = (1 .. n) \cup {n + 1} /\ n + 1 \notin 1 .. n
  BY <1>1
<1> QED BY <1>3, <1>4, <1>5, <1>6 DEF n

Counting == {"allow", "disallow"}

LEMMA CountedMore ==
  ASSUME NEW f, NEW more, NEW line, Longer(f, more, line), NEW agent
  PROVE  /\ \A i \in 1 .. Len(f) : i \in CountedFor(more, agent) <=> i \in CountedFor(f, agent)
         /\ Len(f) + 1 \in CountedFor(more, agent) <=>
              Cardinality(RulesFor(f, agent, Counting)) < MAX_RULES
<1> DEFINE n == Len(f)
           C == RulesFor(f, agent, Counting)
           D == RulesFor(more, agent, Counting)
<1>1. n \in Nat /\ Len(more) = n + 1
  BY DEF Longer
<1>2. C \in SUBSET (1 .. n) /\ (D = C \cup {n + 1} \/ D = C)
  BY RulesForMore
<1> HIDE DEF C, D, n
<1>3. \A i \in C : i < n + 1
  BY <1>1, <1>2
<1>4. ASSUME NEW i \in 1 .. n + 1 PROVE {k \in D : k < i} = {k \in C : k < i}
  <2>1. ~ (n + 1 < i)
    BY <1>1
  <2> QED BY <1>2, <2>1
<1>5. {k \in D : k < n + 1} = C
  <2>1. n + 1 \in 1 .. n + 1
    BY <1>1
  <2>2. {k \in C : k < n + 1} = C
    BY <1>3
  <2> QED BY <1>4, <2>1, <2>2
<1>6. /\ CountedFor(f, agent) = {i \in 1 .. n : Cardinality({k \in C : k < i}) < MAX_RULES}
      /\ CountedFor(more, agent) = {i \in 1 .. n + 1 : Cardinality({k \in D : k < i}) < MAX_RULES}
  BY <1>1 DEF CountedFor, C, D, n, Counting
<1>7. ASSUME NEW i \in 1 .. n PROVE i \in CountedFor(more, agent) <=> i \in CountedFor(f, agent)
  <2>1. i \in 1 .. n + 1
    BY <1>1
  <2>2. {k \in D : k < i} = {k \in C : k < i}
    BY <1>4, <2>1
  <2> QED BY <1>6, <2>1, <2>2
<1>8. n + 1 \in CountedFor(more, agent) <=> Cardinality(C) < MAX_RULES
  <2>1. n + 1 \in 1 .. n + 1
    BY <1>1
  <2> QED BY <1>5, <1>6, <2>1
<1> QED BY <1>7, <1>8 DEF C, n

\* The next rule counts for the agent.
RuleCounts(f, agent) ==
  Speaks(f, Len(f), agent) /\ Cardinality(RulesFor(f, agent, Counting)) < MAX_RULES

LEMMA KeptMore ==
  ASSUME NEW f, NEW more, NEW line, Longer(f, more, line), NEW agent, NEW field
  PROVE  /\ KeptFor(f, agent, field) \in SUBSET (1 .. Len(f))
         /\ line.field = field /\ RuleCounts(f, agent) =>
              KeptFor(more, agent, field) = KeptFor(f, agent, field) \cup {Len(f) + 1}
         /\ ~ (line.field = field /\ RuleCounts(f, agent)) =>
              KeptFor(more, agent, field) = KeptFor(f, agent, field)
<1> DEFINE n == Len(f)
           A == RulesFor(f, agent, {field})
           B == RulesFor(more, agent, {field})
<1>1. n \in Nat /\ n + 1 \notin 1 .. n
  BY DEF Longer
<1>2. /\ A \in SUBSET (1 .. n)
      /\ line.field = field /\ Speaks(f, n, agent) => B = A \cup {n + 1}
      /\ ~ (line.field = field /\ Speaks(f, n, agent)) => B = A
  <2>1. line.field \in {field} <=> line.field = field
    OBVIOUS
  <2> QED BY <2>1, RulesForMore
<1>3. /\ \A i \in 1 .. n : i \in CountedFor(more, agent) <=> i \in CountedFor(f, agent)
      /\ n + 1 \in CountedFor(more, agent) <=> Cardinality(RulesFor(f, agent, Counting)) < MAX_RULES
  BY CountedMore
<1> HIDE DEF n, A, B
<1>4. KeptFor(f, agent, field) = A \cap CountedFor(f, agent)
      /\ KeptFor(more, agent, field) = B \cap CountedFor(more, agent)
  BY DEF KeptFor, A, B
<1>5. RuleCounts(f, agent) <=> Speaks(f, n, agent) /\ n + 1 \in CountedFor(more, agent)
  BY <1>3 DEF RuleCounts, n
<1> QED BY <1>1, <1>2, <1>3, <1>4, <1>5 DEF n

LEMMA RulesFinite ==
  ASSUME NEW f, NEW agent, NEW fields, Len(f) \in Nat
  PROVE  IsFiniteSet(RulesFor(f, agent, fields)) /\ Cardinality(RulesFor(f, agent, fields)) \in Nat
<1>1. IsFiniteSet(1 .. Len(f)) /\ RulesFor(f, agent, fields) \subseteq 1 .. Len(f)
  BY FS_Interval DEF RulesFor
<1> QED BY <1>1, FS_Subset, FS_CardinalityType

\* A line that is no rule of the agent's changes nothing for it.
LEMMA OutcomeOther ==
  ASSUME NEW f, NEW more, NEW line, Longer(f, more, line), NEW agent, NEW r,
         line.field = "user-agent" \/ ~ Speaks(f, Len(f), agent),
         Outcome(f, agent, r)
  PROVE  Outcome(more, agent, r)
<1>1. RulesFor(more, agent, Counting) = RulesFor(f, agent, Counting)
  BY RulesForMore DEF Counting
<1>2. ASSUME NEW field \in {"allow", "disallow", "crawl-delay"}
      PROVE  /\ KeptFor(more, agent, field) = KeptFor(f, agent, field)
             /\ KeptFor(f, agent, field) \in SUBSET (1 .. Len(f))
  <2>1. ~ (line.field = field /\ RuleCounts(f, agent))
    BY DEF RuleCounts
  <2> QED BY <2>1, KeptMore
<1>3. /\ ValuesOf(more, KeptFor(f, agent, "allow")) = ValuesOf(f, KeptFor(f, agent, "allow"))
      /\ ValuesOf(more, KeptFor(f, agent, "disallow")) = ValuesOf(f, KeptFor(f, agent, "disallow"))
  BY <1>2, ValuesSame
<1>4. KeptFor(f, agent, "crawl-delay") # {} =>
        more[Max(KeptFor(f, agent, "crawl-delay"))] = f[Max(KeptFor(f, agent, "crawl-delay"))]
  <2>1. Len(f) \in Nat /\ \A i \in 1 .. Len(f) : more[i] = f[i]
    BY DEF Longer
  <2>2. KeptFor(f, agent, "crawl-delay") \in SUBSET (1 .. Len(f))
    BY <1>2
  <2> QED BY <2>1, <2>2, LargestIn
<1> QED BY <1>1, <1>2, <1>3, <1>4 DEF Outcome, Counting

LEMMA OutcomeOurs ==
  ASSUME NEW f, NEW more, NEW line \in RuleLines, Longer(f, more, line), NEW agent,
         Speaks(f, Len(f), agent), NEW r \in Results, Outcome(f, agent, r)
  PROVE  Outcome(more, agent, keep_rule(r, line))
<1> DEFINE n == Len(f)
           b == keep_rule(r, line)
           c == Cardinality(RulesFor(f, agent, Counting))
           d == Cardinality(RulesFor(more, agent, Counting))
           allow == KeptFor(f, agent, "allow")
           disallow == KeptFor(f, agent, "disallow")
           delays == KeptFor(f, agent, "crawl-delay")
           delays2 == KeptFor(more, agent, "crawl-delay")
<1>1. n \in Nat /\ Len(more) = n + 1 /\ more[n + 1] = line /\ \A i \in 1 .. n : more[i] = f[i]
  BY DEF Longer
<1>2. /\ line \in Lines /\ line.field \in {"allow", "disallow", "crawl-delay"}
      /\ line.field \in {"allow", "disallow"} => line.value \in Paths
  BY LineForm DEF RuleLines
<1>3. c \in Nat /\ MAX_RULES \in Nat /\ n + 1 \notin 1 .. n
  BY <1>1, RulesFinite, RobotsAssumption
<1>4. /\ allow \in SUBSET (1 .. n) /\ disallow \in SUBSET (1 .. n) /\ delays \in SUBSET (1 .. n)
  BY KeptMore
<1>5. /\ r.kept = (IF c <= MAX_RULES THEN c ELSE MAX_RULES)
      /\ r.allow = ValuesOf(f, allow) /\ r.disallow = ValuesOf(f, disallow)
      /\ r.delay = IF delays = {} THEN 0 ELSE f[Max(delays)].value
  BY DEF Outcome, Counting
<1>6. d = IF line.field \in Counting THEN c + 1 ELSE c
  <2>1. IsFiniteSet(RulesFor(f, agent, Counting)) /\ n + 1 \notin RulesFor(f, agent, Counting)
    BY <1>1, <1>3, RulesFinite, RulesForMore
  <2>2. Cardinality(RulesFor(f, agent, Counting) \cup {n + 1}) = c + 1
    BY <2>1, FS_AddElement
  <2>3. /\ line.field \in Counting => RulesFor(more, agent, Counting) = RulesFor(f, agent, Counting) \cup {n + 1}
        /\ line.field \notin Counting => RulesFor(more, agent, Counting) = RulesFor(f, agent, Counting)
    BY RulesForMore
  <2> QED BY <2>2, <2>3
<1>7. RuleCounts(f, agent) <=> c < MAX_RULES
  BY DEF RuleCounts
<1>8. /\ ValuesOf(more, allow) = ValuesOf(f, allow) /\ ValuesOf(more, disallow) = ValuesOf(f, disallow)
      /\ r.allow \in Seq(Paths) /\ r.disallow \in Seq(Paths)
  BY <1>4, ValuesSame DEF Results
<1>9. delays # {} => more[Max(delays)] = f[Max(delays)]
  BY <1>1, <1>4, LargestIn
<1>10. r.kept < MAX_RULES <=> c < MAX_RULES
  BY <1>3, <1>5
<1>11. SUFFICES /\ b.kept = (IF d <= MAX_RULES THEN d ELSE MAX_RULES)
                /\ b.allow = ValuesOf(more, KeptFor(more, agent, "allow"))
                /\ b.disallow = ValuesOf(more, KeptFor(more, agent, "disallow"))
                /\ b.delay = IF delays2 = {} THEN 0 ELSE more[Max(delays2)].value
  BY DEF Outcome, Counting
<1>12. CASE ~ (c < MAX_RULES)
  <2>1. b = r
    BY <1>3, <1>10, <1>12, KeepForm DEF Results
  <2>2. /\ KeptFor(more, agent, "allow") = allow /\ KeptFor(more, agent, "disallow") = disallow
        /\ delays2 = delays
    BY <1>7, <1>12, KeptMore
  <2> HIDE DEF b, c, d, delays, delays2, allow, disallow
  <2>3. b.kept = (IF d <= MAX_RULES THEN d ELSE MAX_RULES)
    BY <1>3, <1>5, <1>6, <1>12, <2>1
  <2> QED BY <1>5, <1>8, <1>9, <2>1, <2>2, <2>3
<1>13. CASE c < MAX_RULES /\ line.field = "allow"
  <2>1. /\ b.allow = Append(r.allow, line.value) /\ b.disallow = r.disallow
        /\ b.delay = r.delay /\ b.kept = r.kept + 1
    BY <1>10, <1>13, KeepForm
  <2>2. /\ KeptFor(more, agent, "allow") = allow \cup {n + 1} /\ KeptFor(more, agent, "disallow") = disallow
        /\ delays2 = delays
    BY <1>7, <1>13, KeptMore
  <2>3. ValuesOf(more, allow \cup {n + 1}) = Append(ValuesOf(f, allow), line.value)
    <3>1. ValuesOf(f, allow) \in Seq(Paths) /\ line.value \in Paths
      BY <1>2, <1>5, <1>8, <1>13
    <3>2. allow \in SUBSET (1 .. Len(f))
      BY <1>4
    <3> HIDE DEF allow
    <3> QED BY <3>1, <3>2, ValuesOneMore
  <2> HIDE DEF b, c, d, delays, delays2, allow, disallow
  <2>4. b.kept = (IF d <= MAX_RULES THEN d ELSE MAX_RULES)
    BY <1>3, <1>5, <1>6, <1>13, <2>1 DEF Counting
  <2> QED BY <1>5, <1>8, <1>9, <2>1, <2>2, <2>3, <2>4
<1>14. CASE c < MAX_RULES /\ line.field = "disallow"
  <2>1. /\ b.disallow = Append(r.disallow, line.value) /\ b.allow = r.allow
        /\ b.delay = r.delay /\ b.kept = r.kept + 1
    BY <1>10, <1>14, KeepForm
  <2>2. /\ KeptFor(more, agent, "disallow") = disallow \cup {n + 1} /\ KeptFor(more, agent, "allow") = allow
        /\ delays2 = delays
    BY <1>7, <1>14, KeptMore
  <2>3. ValuesOf(more, disallow \cup {n + 1}) = Append(ValuesOf(f, disallow), line.value)
    <3>1. ValuesOf(f, disallow) \in Seq(Paths) /\ line.value \in Paths
      BY <1>2, <1>5, <1>8, <1>14
    <3>2. disallow \in SUBSET (1 .. Len(f))
      BY <1>4
    <3> HIDE DEF disallow
    <3> QED BY <3>1, <3>2, ValuesOneMore
  <2> HIDE DEF b, c, d, delays, delays2, allow, disallow
  <2>4. b.kept = (IF d <= MAX_RULES THEN d ELSE MAX_RULES)
    BY <1>3, <1>5, <1>6, <1>14, <2>1 DEF Counting
  <2> QED BY <1>5, <1>8, <1>9, <2>1, <2>2, <2>3, <2>4
<1>15. CASE c < MAX_RULES /\ line.field = "crawl-delay"
  <2>1. /\ b.allow = r.allow /\ b.disallow = r.disallow
        /\ b.delay = line.value /\ b.kept = r.kept
    BY <1>10, <1>15, KeepForm
  <2>2. /\ KeptFor(more, agent, "disallow") = disallow /\ KeptFor(more, agent, "allow") = allow
        /\ delays2 = delays \cup {n + 1}
    BY <1>7, <1>15, KeptMore
  <2>3. Max(delays2) = n + 1
    <3>1. delays2 \in SUBSET (1 .. n + 1) /\ n + 1 \in delays2 /\ n + 1 \in Nat
      BY <1>1, <1>4, <2>2
    <3> HIDE DEF delays2
    <3> QED BY <3>1, LargestOne
  <2> HIDE DEF b, c, d, delays, delays2, allow, disallow
  <2>4. b.kept = (IF d <= MAX_RULES THEN d ELSE MAX_RULES)
    BY <1>3, <1>5, <1>6, <1>15, <2>1 DEF Counting
  <2>5. b.delay = IF delays2 = {} THEN 0 ELSE more[Max(delays2)].value
    BY <1>1, <2>1, <2>2, <2>3
  <2> QED BY <1>5, <1>8, <2>1, <2>2, <2>4, <2>5
<1> QED BY <1>2, <1>12, <1>13, <1>14, <1>15

\* A line read: what the groups hold of the lines stays what it is.
LEMMA ScanAgentKeeps ==
  ASSUME NEW f, NEW more, NEW line, Longer(f, more, line), line.field = "user-agent",
         NEW gs, Scanned(f, gs)
  PROVE  Scanned(more, ScanAgent(gs, line))
<1> DEFINE n == Len(f)
           m == Len(gs)
           hs == ScanAgent(gs, line)
<1>1. /\ n \in Nat /\ Len(more) = n + 1 /\ more[n + 1] = line /\ \A i \in 1 .. n : more[i] = f[i]
      /\ line \in Lines /\ more \in Seq(Lines)
  BY DEF Longer
<1>2. ScanTyped(f, gs) /\ ScanLast(f, gs) /\ ScanNames(f, gs) /\ ScanOutcome(f, gs)
  BY DEF Scanned
<1>3. gs \in Seq(Groups) /\ m \in Nat /\ line.value \in Agents
      /\ (gs # <<>> => m # 0 /\ gs[m] \in Groups)
  BY <1>1, <1>2, LineForm DEF ScanTyped
<1>4. /\ hs \in Seq(Groups) /\ hs # <<>> /\ hs[Len(hs)].rules = <<>>
      /\ gs = <<>> \/ gs[m].rules # <<>> =>
           /\ Len(hs) = m + 1 /\ hs[Len(hs)].agents = <<line.value>>
           /\ \A i \in 1 .. m : hs[i] = gs[i]
      /\ gs # <<>> /\ gs[m].rules = <<>> =>
           /\ Len(hs) = m /\ hs[Len(hs)].agents = Append(gs[m].agents, line.value)
           /\ \A i \in 1 .. m - 1 : hs[i] = gs[i]
  BY <1>1, <1>3, AgentGathered
<1>5. \A agent : rules_of(hs, agent) = rules_of(gs, agent)
  BY <1>1, <1>3, AgentGathered
<1> HIDE DEF hs, n, m
<1>6. ScanTyped(more, hs)
  BY <1>1, <1>4 DEF ScanTyped
<1>7. \A agent : agent \in ToSet(hs[Len(hs)].agents) <=>
        \/ agent = line.value
        \/ gs # <<>> /\ gs[m].rules = <<>> /\ agent \in ToSet(gs[m].agents)
  <2>1. CASE gs = <<>> \/ gs[m].rules # <<>>
    BY <1>4, <2>1 DEF ToSet
  <2>2. CASE gs # <<>> /\ gs[m].rules = <<>>
    <3> DEFINE old == gs[m].agents
    <3>1. old \in Seq(Agents)
      BY <1>3, <2>2 DEF Groups
    <3> HIDE DEF old
    <3>2. \A agent : agent \in ToSet(Append(old, line.value)) <=> agent = line.value \/ agent \in ToSet(old)
      <4>1. /\ DOMAIN old = 1 .. Len(old) /\ Len(old) \in Nat
            /\ DOMAIN Append(old, line.value) = 1 .. Len(old) + 1
            /\ \A i \in 1 .. Len(old) : Append(old, line.value)[i] = old[i]
            /\ Append(old, line.value)[Len(old) + 1] = line.value
        BY <3>1
      <4>2. 1 .. Len(old) + 1 = (1 .. Len(old)) \cup {Len(old) + 1}
        BY <4>1
      <4> QED BY <4>1, <4>2 DEF ToSet
    <3>3. hs[Len(hs)].agents = Append(old, line.value)
      BY <1>4, <2>2 DEF old
    <3> QED BY <2>2, <3>2, <3>3 DEF old
  <2> QED BY <2>1, <2>2
<1>8. \A agent : Speaks(more, n + 1, agent) <=>
        \/ line.value = agent
        \/ n # 0 /\ f[n].field = "user-agent" /\ Speaks(f, n, agent)
  BY SpeaksPastAgent DEF n
<1>9. ScanLast(more, hs)
  <2>1. ASSUME NEW agent \in Agents
        PROVE  agent \in ToSet(hs[Len(hs)].agents) <=> Speaks(more, n + 1, agent)
    <3>1. CASE gs = <<>>
      <4>1. n = 0 \/ f[n].field # "user-agent"
        BY <1>1, <1>2, <3>1 DEF ScanLast, n
      <4> QED BY <1>7, <1>8, <3>1, <4>1
    <3>2. CASE gs # <<>>
      <4>1. /\ n # 0 /\ (gs[m].rules = <<>> <=> f[n].field = "user-agent")
            /\ agent \in ToSet(gs[m].agents) <=> Speaks(f, n, agent)
        BY <1>2, <3>2 DEF ScanLast, n, m
      <4> QED BY <1>7, <1>8, <3>2, <4>1
    <3> QED BY <3>1, <3>2
  <2>2. Len(more) # 0 /\ more[Len(more)].field = "user-agent"
    BY <1>1
  <2> QED BY <1>1, <1>4, <2>1, <2>2 DEF ScanLast
<1>10. ScanNames(more, hs)
  <2> SUFFICES ASSUME NEW agent \in Agents PROVE Named(hs, agent) <=> NamedBy(more, agent)
    BY DEF ScanNames
  <2>1. Named(gs, agent) <=> NamedBy(f, agent)
    BY <1>2 DEF ScanNames
  <2>2. NamedBy(more, agent) <=> NamedBy(f, agent) \/ agent = line.value
    <3>1. 1 .. n + 1 = (1 .. n) \cup {n + 1}
      BY <1>1
    <3> QED BY <1>1, <3>1 DEF NamedBy, n
  <2>3. Named(hs, agent) <=> Named(gs, agent) \/ agent = line.value
    <3>1. CASE gs = <<>> \/ gs[m].rules # <<>>
      <4>1. 1 .. m + 1 = (1 .. m) \cup {m + 1}
        BY <1>3
      <4>2. agent \in ToSet(hs[m + 1].agents) <=> agent = line.value
        BY <1>4, <1>7, <3>1
      <4> QED BY <1>4, <3>1, <4>1, <4>2 DEF Named, m
    <3>2. CASE gs # <<>> /\ gs[m].rules = <<>>
      <4>1. 1 .. m = (1 .. m - 1) \cup {m}
        BY <1>3, <3>2
      <4>2. agent \in ToSet(hs[m].agents) <=> agent = line.value \/ agent \in ToSet(gs[m].agents)
        BY <1>4, <1>7, <3>2
      <4> QED BY <1>4, <3>2, <4>1, <4>2 DEF Named, m
    <3> QED BY <3>1, <3>2
  <2> QED BY <2>1, <2>2, <2>3
<1>11. ScanOutcome(more, hs)
  <2> SUFFICES ASSUME NEW agent \in Agents PROVE Outcome(more, agent, Parsed(rules_of(hs, agent)))
    BY DEF ScanOutcome
  <2>1. Outcome(f, agent, Parsed(rules_of(gs, agent)))
    BY <1>2 DEF ScanOutcome
  <2>2. Outcome(more, agent, Parsed(rules_of(gs, agent)))
    BY <2>1, OutcomeOther
  <2> QED BY <1>5, <2>2
<1> QED BY <1>6, <1>9, <1>10, <1>11 DEF Scanned, hs

LEMMA ScanRuleKeeps ==
  ASSUME NEW f, NEW more, NEW line, Longer(f, more, line), line.field # "user-agent",
         NEW gs, Scanned(f, gs)
  PROVE  Scanned(more, ScanRule(gs, line))
<1> DEFINE n == Len(f)
           m == Len(gs)
           hs == ScanRule(gs, line)
<1>1. /\ n \in Nat /\ Len(more) = n + 1 /\ more[n + 1] = line /\ \A i \in 1 .. n : more[i] = f[i]
      /\ line \in RuleLines /\ more \in Seq(Lines)
  BY DEF Longer, RuleLines
<1>2. ScanTyped(f, gs) /\ ScanLast(f, gs) /\ ScanNames(f, gs) /\ ScanOutcome(f, gs)
  BY DEF Scanned
<1>3. gs \in Seq(Groups) /\ m \in Nat /\ (gs # <<>> => m # 0 /\ gs[m] \in Groups)
  BY <1>2 DEF ScanTyped
<1>4. 1 .. n + 1 = (1 .. n) \cup {n + 1}
  BY <1>1
<1>5. \A agent : NamedBy(more, agent) <=> NamedBy(f, agent)
  BY <1>1, <1>4 DEF NamedBy
<1>6. CASE gs = <<>>
  <2>1. hs = gs
    BY <1>6 DEF ScanRule
  <2>2. \A j \in 1 .. n : f[j].field # "user-agent"
    BY <1>2, <1>6 DEF ScanLast
  <2>3. \A agent : ~ Speaks(f, n, agent)
    BY <2>2 DEF Speaks, Under
  <2>4. ScanTyped(more, gs) /\ ScanLast(more, gs)
    BY <1>1, <1>2, <1>4, <1>6, <2>2 DEF ScanTyped, ScanLast
  <2>5. ScanNames(more, gs)
    BY <1>2, <1>5 DEF ScanNames
  <2>6. ScanOutcome(more, gs)
    BY <1>2, <2>3, OutcomeOther DEF ScanOutcome
  <2> QED BY <2>1, <2>4, <2>5, <2>6 DEF Scanned
<1>7. CASE gs # <<>>
  <2>1. hs = AddTo(gs, "rules", line)
    BY <1>7 DEF ScanRule
  <2>2. /\ hs \in Seq(Groups) /\ Len(hs) = m /\ \A i \in 1 .. m - 1 : hs[i] = gs[i]
        /\ hs[m].agents = gs[m].agents /\ hs[m].rules = Append(gs[m].rules, line)
    BY <1>1, <1>3, <1>7, <2>1, RuleAdded DEF Grows
  <2>3. \A agent : rules_of(hs, agent) = IF agent \in ToSet(gs[m].agents) THEN Append(rules_of(gs, agent), line)
                                         ELSE rules_of(gs, agent)
    BY <1>1, <1>3, <1>7, <2>1, RuleGathered
  <2>4. \A agent : rules_of(gs, agent) \in Seq(RuleLines)
    <3>1. m - 1 \in Nat /\ m = m - 1 + 1
      BY <1>3, <1>7
    <3> QED BY <1>3, <3>1, GatherLast
  <2> HIDE DEF hs, n, m
  <2>5. hs[m].rules # <<>> /\ hs # <<>>
    <3>1. gs[m].rules \in Seq(RuleLines)
      BY <1>3, <1>7 DEF Groups
    <3>2. Append(gs[m].rules, line) # <<>>
      BY <1>1, <3>1
    <3> QED BY <1>3, <1>7, <2>2, <3>2
  <2>6. /\ n # 0
        /\ \A agent \in Agents : agent \in ToSet(gs[m].agents) <=> Speaks(f, n, agent)
    BY <1>2, <1>7 DEF ScanLast, n, m
  <2>7. \A agent : Speaks(more, n + 1, agent) <=> Speaks(f, n, agent)
    BY SpeaksPastRule DEF n
  <2>8. ScanTyped(more, hs)
    BY <1>1, <2>2 DEF ScanTyped
  <2>9. ScanLast(more, hs)
    <3>1. more[Len(more)].field # "user-agent" /\ Len(more) # 0
      BY <1>1
    <3> QED BY <1>1, <2>2, <2>5, <2>6, <2>7, <3>1 DEF ScanLast
  <2>10. ScanNames(more, hs)
    <3>1. \A agent : Named(hs, agent) <=> Named(gs, agent)
      <4>1. 1 .. m = (1 .. m - 1) \cup {m}
        BY <1>3, <1>7
      <4> QED BY <2>2, <4>1 DEF Named, m
    <3> QED BY <1>2, <1>5, <3>1 DEF ScanNames
  <2>11. ScanOutcome(more, hs)
    <3> SUFFICES ASSUME NEW agent \in Agents PROVE Outcome(more, agent, Parsed(rules_of(hs, agent)))
      BY DEF ScanOutcome
    <3>1. Outcome(f, agent, Parsed(rules_of(gs, agent)))
      BY <1>2 DEF ScanOutcome
    <3>2. CASE Speaks(f, n, agent)
      <4>1. rules_of(hs, agent) = Append(rules_of(gs, agent), line)
        BY <2>3, <2>6, <3>2
      <4>2. /\ Parsed(rules_of(gs, agent)) \in Results
            /\ Parsed(rules_of(hs, agent)) = keep_rule(Parsed(rules_of(gs, agent)), line)
        BY <1>1, <2>4, <4>1, ParsedOneMore
      <4> QED BY <1>1, <3>1, <3>2, <4>2, OutcomeOurs DEF n
    <3>3. CASE ~ Speaks(f, n, agent)
      <4>1. rules_of(hs, agent) = rules_of(gs, agent)
        BY <2>3, <2>6, <3>3
      <4> QED BY <3>1, <3>3, <4>1, OutcomeOther DEF n
    <3> QED BY <3>2, <3>3
  <2> QED BY <2>8, <2>9, <2>10, <2>11 DEF Scanned, hs
<1> QED BY <1>6, <1>7

LEMMA NothingScanned == Scanned(<<>>, <<>>)
<1>1. ScanTyped(<<>>, <<>>)
  BY DEF ScanTyped
<1>2. ScanLast(<<>>, <<>>)
  BY DEF ScanLast
<1>3. ScanNames(<<>>, <<>>)
  BY DEF ScanNames, Named, NamedBy
<1>4. ASSUME NEW agent PROVE Outcome(<<>>, agent, Parsed(rules_of(<<>>, agent)))
  <2>1. Parsed(<<>>) = NoRules
    <3>1. <<>> \in Seq(RuleLines) /\ Len(<<>>) = 0
      OBVIOUS
    <3>2. PICK q : Turns(q, Results, Retain, NoRules, <<>>, 0) /\ q[0] = Parsed(<<>>)
      BY <3>1, RulesKept
    <3> QED BY <3>2 DEF Turns
  <2>2. rules_of(<<>>, agent) = <<>>
    BY NoGroups
  <2>3. \A fields : RulesFor(<<>>, agent, fields) = {}
    BY DEF RulesFor
  <2>4. \A field : KeptFor(<<>>, agent, field) = {}
    BY <2>3 DEF KeptFor
  <2>5. Cardinality({}) = 0 /\ MAX_RULES \in Nat
    BY FS_EmptySet, RobotsAssumption
  <2>6. ValuesOf(<<>>, {}) = <<>>
    BY <2>5 DEF ValuesOf
  <2>7. NoRules.allow = <<>> /\ NoRules.disallow = <<>> /\ NoRules.delay = 0 /\ NoRules.kept = 0
    BY DEF NoRules
  <2>8. RulesFor(<<>>, agent, {"allow", "disallow"}) = {} /\ KeptFor(<<>>, agent, "crawl-delay") = {}
        /\ KeptFor(<<>>, agent, "allow") = {} /\ KeptFor(<<>>, agent, "disallow") = {}
    BY <2>3, <2>4
  <2>9. Parsed(rules_of(<<>>, agent)) = NoRules
    BY <2>1, <2>2
  <2>10. NoRules.kept = IF Cardinality(RulesFor(<<>>, agent, {"allow", "disallow"})) <= MAX_RULES
                          THEN Cardinality(RulesFor(<<>>, agent, {"allow", "disallow"})) ELSE MAX_RULES
    <3>1. Cardinality(RulesFor(<<>>, agent, {"allow", "disallow"})) = 0
      BY <2>5, <2>8, Zenon
    <3>2. 0 <= MAX_RULES
      BY <2>5
    <3> QED BY <2>7, <3>1, <3>2, Zenon
  <2>11. Outcome(<<>>, agent, NoRules)
    BY <2>6, <2>7, <2>8, <2>10, Zenon DEF Outcome
  <2> QED BY <2>9, <2>11
<1>5. ScanOutcome(<<>>, <<>>)
  BY <1>4 DEF ScanOutcome
<1> QED BY <1>1, <1>2, <1>3, <1>5 DEF Scanned

LEMMA ScanHolds == RobotsSpec => []Scanned(file, groups)
<1>1. RobotsInit => Scanned(file, groups)
  BY NothingScanned DEF RobotsInit
<1>2. Scanned(file, groups) /\ [RobotsNext]_robotsVars => Scanned(file, groups)'
  <2> SUFFICES ASSUME Scanned(file, groups), [RobotsNext]_robotsVars
               PROVE  Scanned(file', groups')
    OBVIOUS
  <2>1. ASSUME NEW line \in Lines, ReadLine(line) PROVE Scanned(file', groups')
    <3>1. /\ file' = Append(file, line)
          /\ groups' = IF line.field = "user-agent" THEN ScanAgent(groups, line) ELSE ScanRule(groups, line)
      BY <2>1 DEF ReadLine
    <3>2. Longer(file, Append(file, line), line)
      <4>1. file \in Seq(Lines)
        BY DEF Scanned, ScanTyped
      <4> HIDE DEF Lines
      <4> QED BY <4>1 DEF Longer
    <3> QED BY <3>1, <3>2, ScanAgentKeeps, ScanRuleKeeps
  <2>2. ASSUME NEW char \in Letters \cup {"*", "$"}, Type(char) PROVE Scanned(file', groups')
    BY <2>2 DEF Type
  <2>3. CASE UNCHANGED robotsVars
    BY <2>3 DEF robotsVars
  <2> QED BY <2>1, <2>2, <2>3 DEF RobotsNext
<1> QED BY <1>1, <1>2, PTL DEF RobotsSpec

\* What counts for this crawler is exactly what the file's groups under its own
\* token say, or those under "*" if none has it.
LEMMA ScannedRight == Scanned(file, groups) => RulesOfOurGroups
<1> SUFFICES ASSUME Scanned(file, groups) PROVE RulesOfOurGroups
  OBVIOUS
<1>1. file \in Seq(Lines) /\ groups \in Seq(Groups) /\ ScanNames(file, groups) /\ ScanOutcome(file, groups)
  BY DEF Scanned, ScanTyped
<1>2. Token \in Agents /\ "*" \in Agents
  BY RobotsAssumption
<1>3. Len(file) \in Nat /\ DOMAIN file = 1 .. Len(file) /\ Len(groups) \in Nat /\ DOMAIN groups = 1 .. Len(groups)
  BY <1>1
<1> DEFINE ours == IF \E j \in DOMAIN file : file[j] = [field |-> "user-agent", value |-> Token]
                   THEN Token ELSE "*"
           Ours(fields) == {i \in DOMAIN file : file[i].field \in fields
                              /\ \E j \in DOMAIN file : Governs(j, i) /\ file[j].value = ours}
           counted == {i \in DOMAIN file :
             Cardinality({k \in Ours({"allow", "disallow"}) : k < i}) < MAX_RULES}
           delays == Ours({"crawl-delay"}) \cap counted
           Kept(field) ==
             LET lines == Ours({field}) \cap counted
                 Place(i) == Cardinality({k \in lines : k < i}) + 1 IN
             [n \in 1 .. Cardinality(lines) |-> file[CHOOSE i \in lines : Place(i) = n].value]
<1>4. winning = ours /\ ours \in Agents
  <2>1. (\E g \in ToSet(groups) : Token \in ToSet(g.agents)) <=> Named(groups, Token)
    BY <1>3 DEF Named, ToSet
  <2>2. Named(groups, Token) <=> NamedBy(file, Token)
    BY <1>1, <1>2 DEF ScanNames
  <2>3. \A j \in 1 .. Len(file) : file[j] = [field |-> "user-agent", value |-> Token] <=>
          file[j].field = "user-agent" /\ file[j].value = Token
    <3>1. \A j \in 1 .. Len(file) : file[j] \in Lines
      BY <1>1
    <3> QED BY <3>1 DEF Lines
  <2>4. NamedBy(file, Token) <=> \E j \in DOMAIN file : file[j] = [field |-> "user-agent", value |-> Token]
    BY <1>3, <2>3 DEF NamedBy
  <2> QED BY <1>2, <2>1, <2>2, <2>4 DEF winning
<1>5. Outcome(file, ours, parse_robots)
  BY <1>1, <1>4 DEF ScanOutcome, Parsed, parse_robots
<1> HIDE DEF ours
<1>6. \A fields : Ours(fields) = RulesFor(file, ours, fields)
  <2>1. ASSUME NEW i \in 1 .. Len(file)
        PROVE  (\E j \in DOMAIN file : Governs(j, i) /\ file[j].value = ours) <=> Speaks(file, i - 1, ours)
    <3>1. \A j \in DOMAIN file : j < i <=> j \in 1 .. i - 1
      BY <1>3
    <3>2. 1 .. i - 1 \subseteq DOMAIN file
      BY <1>3
    <3>3. \A j \in 1 .. i - 1 : Governs(j, i) <=> j < i /\ Under(file, i - 1, j)
      BY DEF Governs, Under
    <3>4. \A j \in DOMAIN file : Governs(j, i) => j < i
      BY DEF Governs
    <3> QED BY <3>1, <3>2, <3>3, <3>4 DEF Speaks
  <2> QED BY <1>3, <2>1 DEF RulesFor
<1> HIDE DEF Ours
<1>7. counted = CountedFor(file, ours)
  BY <1>3, <1>6 DEF CountedFor
<1> HIDE DEF counted
<1>8. \A field : Ours({field}) \cap counted = KeptFor(file, ours, field)
  BY <1>6, <1>7 DEF KeptFor
<1>9. \A field : Kept(field) = ValuesOf(file, KeptFor(file, ours, field))
  <2> SUFFICES ASSUME NEW field PROVE Kept(field) = ValuesOf(file, KeptFor(file, ours, field))
    OBVIOUS
  <2>1. Kept(field) = ValuesOf(file, Ours({field}) \cap counted)
    BY DEF ValuesOf, PlaceIn
  <2> HIDE DEF Kept
  <2> QED BY <1>8, <2>1
<1>10. delays = KeptFor(file, ours, "crawl-delay")
  BY <1>8
<1> HIDE DEF Kept, delays
<1>11. /\ parse_robots.allow = Kept("allow") /\ parse_robots.disallow = Kept("disallow")
       /\ parse_robots.delay = IF delays = {} THEN 0 ELSE file[Max(delays)].value
  BY <1>5, <1>9, <1>10 DEF Outcome
<1> QED BY <1>11 DEF RulesOfOurGroups, Kept, delays, counted, Ours, ours

THEOREM OurRulesCount == RobotsSpec => []RulesOfOurGroups
BY ScanHolds, ScannedRight, PTL

-----------------------------------------------------------------------------
(* The rules a candidate may be dropped under.                              *)

Rules == ToSet(RULE_ORDER)
Early == ToSet(Prefilters)

LEMMA RuleNames ==
  /\ IsFiniteSet(Rules) /\ Early \subseteq Rules /\ {"localized_duplicate", "over_limit"} \subseteq Rules
  /\ {"unparseable", "duplicate"} \subseteq Early /\ "over_limit" \notin Early
<1> DEFINE a == Prefilters
           b == <<"localized_duplicate", "over_limit">>
           S == {a[i] : i \in 1 .. 10} \cup {b[1], b[2]}
<1>1. Len(a) = 10 /\ DOMAIN a = 1 .. 10 /\ Len(b) = 2
  BY DEF Prefilters
<1>2. /\ a[1] = "unparseable" /\ a[2] = "duplicate" /\ \A i \in 1 .. 10 : a[i] # "over_limit"
      /\ b[1] = "localized_duplicate" /\ b[2] = "over_limit"
  BY DEF Prefilters
<1>3. a \in Seq(S) /\ b \in Seq(S)
  <2>1. a \in Seq(S)
    <3>1. \A i \in 1 .. 10 : a[i] \in S
      OBVIOUS
    <3>2. a = [i \in 1 .. 10 |-> a[i]]
      BY DEF Prefilters
    <3> DEFINE n == 10
    <3>3. a \in [1 .. n -> S] /\ n \in Nat
      BY <3>1, <3>2
    <3> HIDE DEF a, S, n
    <3> QED BY <3>3, SeqOfFunction
  <2>2. b[1] \in S /\ b[2] \in S
    OBVIOUS
  <2>3. <<b[1], b[2]>> \in Seq(S)
    <3> HIDE DEF b, S
    <3> QED BY <2>2
  <2> QED BY <2>1, <2>3
<1>4. RULE_ORDER = a \o b
  BY DEF RULE_ORDER
<1> HIDE DEF a, b, S
<1>5. /\ RULE_ORDER \in Seq(S) /\ Len(RULE_ORDER) = 12
      /\ \A i \in 1 .. 12 : RULE_ORDER[i] = IF i <= 10 THEN a[i] ELSE b[i - 10]
  <2>1. /\ a \o b \in Seq(S) /\ Len(a \o b) = Len(a) + Len(b)
        /\ \A i \in 1 .. Len(a) + Len(b) : (a \o b)[i] = IF i <= Len(a) THEN a[i] ELSE b[i - Len(a)]
    BY <1>3, ConcatProperties
  <2>2. Len(a) + Len(b) = 12
    BY <1>1
  <2> QED BY <1>1, <1>4, <2>1, <2>2
<1>6. DOMAIN RULE_ORDER = 1 .. 12 /\ RULE_ORDER[11] = b[1] /\ RULE_ORDER[12] = b[2]
      /\ \A i \in 1 .. 10 : RULE_ORDER[i] = a[i]
  BY <1>5
<1>7. Early = {a[i] : i \in 1 .. 10}
  BY <1>1 DEF Early, ToSet, a
<1>8. Rules = {RULE_ORDER[i] : i \in 1 .. 12}
  BY <1>6 DEF Rules, ToSet
<1>9. IsFiniteSet(Rules)
  <2>1. IsFiniteSet(DOMAIN RULE_ORDER)
    <3> DEFINE n == Len(RULE_ORDER)
    <3>1. n \in Nat /\ DOMAIN RULE_ORDER = 1 .. n
      BY <1>5
    <3> HIDE DEF n
    <3> QED BY <3>1, FS_Interval
  <2>2. IsFiniteSet({RULE_ORDER[i] : i \in DOMAIN RULE_ORDER})
    BY <2>1, FiniteRange
  <2> QED BY <1>6, <1>8, <2>2
<1>10. Early \subseteq Rules
  BY <1>6, <1>7, <1>8
<1>11. {"localized_duplicate", "over_limit"} \subseteq Rules
  <2>1. RULE_ORDER[11] \in Rules /\ RULE_ORDER[12] \in Rules
    BY <1>8
  <2> QED BY <1>2, <1>6, <2>1
<1>12. {"unparseable", "duplicate"} \subseteq Early /\ "over_limit" \notin Early
  <2>1. a[1] \in Early /\ a[2] \in Early
    BY <1>7
  <2> QED BY <1>2, <1>7, <2>1
<1> QED BY <1>9, <1>10, <1>11, <1>12

LEMMA FirstRuleType ==
  ASSUME NEW rules, rules \subseteq Early, rules # {}
  PROVE  FirstRule(rules) \in Early
<1> DEFINE found == {i \in 1 .. Len(Prefilters) : Prefilters[i] \in rules}
<1>1. Len(Prefilters) = 10 /\ DOMAIN Prefilters = 1 .. 10
  BY DEF Prefilters
<1>2. found # {} /\ found \subseteq Nat
  BY <1>1 DEF Early, ToSet
<1>3. Min(found) \in found
  <2>1. PICK i \in found : \A j \in found : i <= j
    <3> HIDE DEF found
    <3> QED BY <1>2, LeastNumber
  <2> HIDE DEF found
  <2> QED BY <2>1 DEF Min
<1>4. FirstRule(rules) = Prefilters[Min(found)]
  BY <1>2 DEF FirstRule, SelectInSeq
<1> HIDE DEF found
<1>5. FirstRule(rules) \in ToSet(Prefilters)
  <2>1. Min(found) \in 1 .. Len(Prefilters)
    BY <1>3 DEF found
  <2>2. Min(found) \in DOMAIN Prefilters
    BY <1>1, <2>1
  <2> QED BY <1>4, <2>2 DEF ToSet
<1> QED BY <1>5 DEF Early

Drops == [Rules -> Nat]

LEMMA CountOne ==
  ASSUME NEW dropped \in Drops, NEW rule \in Rules
  PROVE  /\ Count(dropped, rule) \in Drops
         /\ SumFunction(Count(dropped, rule)) = SumFunction(dropped) + 1
         /\ SumFunction(dropped) \in Int
         /\ \A r \in Rules \ {rule} : Count(dropped, rule)[r] = dropped[r]
         /\ Count(dropped, rule)[rule] = dropped[rule] + 1
<1>1. dropped \in [Rules -> Int] /\ IsFiniteSet(Rules)
  BY RuleNames DEF Drops
<1>2. SumFunction(Count(dropped, rule)) = SumFunction(dropped) + 1
  <2> DEFINE h == Count(dropped, rule)
  <2>1. OneMoreAt(h, dropped, Rules, rule)
    BY <1>1 DEF Count, OneMoreAt
  <2> HIDE DEF h
  <2>2. SumFunction(h) = SumFunction(dropped) + 1
    BY <1>1, <2>1, SumOneMore
  <2> QED BY <2>2 DEF h
<1>3. SumFunction(dropped) \in Int
  <2>1. PICK g : AddsAny(g, dropped, Rules)
    BY <1>1, SumIs
  <2> QED BY <1>1, <2>1, SumBy
<1>4. Count(dropped, rule) \in Drops
  BY DEF Drops, Count
<1> QED BY <1>2, <1>3, <1>4 DEF Drops, Count

-----------------------------------------------------------------------------
(* The loop over the candidates.                                            *)

Declared(values) == values \cup {Undefined}
Values == [priority : Declared(Priorities), lastmod : Declared(Lastmods)]
Said(c) == [priority |-> c.priority, lastmod |-> c.lastmod]
Merged(old, c) == [priority |-> merge(old.priority, c.priority), lastmod |-> merge(old.lastmod, c.lastmod)]

\* What stands after some candidates: the survivors are the URLs seen that no rule
\* drops.
Sieved ==
  {a \in [seen : SUBSET Urls, survivors : UNION {[D -> Values] : D \in SUBSET Urls}, dropped : Drops] :
     /\ IsFiniteSet(a.seen) /\ a.dropped["over_limit"] = 0
     /\ DOMAIN a.survivors = {u \in a.seen : Traits[u].rules = {}}}

Start == [seen |-> {}, survivors |-> <<>>, dropped |-> [rule \in Rules |-> 0]]

\* c joins the survivors, or what it declares joins what they have of its URL.
Join(survivors, c) ==
  [u \in DOMAIN survivors \cup {c.url} |->
     IF u # c.url THEN survivors[u]
     ELSE IF u \in DOMAIN survivors THEN Merged(survivors[u], c) ELSE Said(c)]

Unparseable(c) == "unparseable" \in Traits[c.url].rules
Plain(c) == Traits[c.url].rules = {}

\* The rule that drops c, or "none".
Verdict(seen, c) ==
  IF Unparseable(c) THEN "unparseable"
  ELSE IF c.url \in seen THEN "duplicate"
  ELSE IF Plain(c) THEN "none" ELSE FirstRule(Traits[c.url].rules)

After(a, c) ==
  [seen |-> IF Unparseable(c) THEN a.seen ELSE a.seen \cup {c.url},
   survivors |-> IF Plain(c) THEN Join(a.survivors, c) ELSE a.survivors,
   dropped |-> IF Verdict(a.seen, c) = "none" THEN a.dropped
               ELSE Count(a.dropped, Verdict(a.seen, c))]

LEMMA MergeType ==
  ASSUME NEW S, S \subseteq Nat, NEW a \in Declared(S), NEW b \in Declared(S)
  PROVE  merge(a, b) \in Declared(S) /\ merge(a, b) = merge(b, a)
BY SelectionAssumption DEF merge, Declared

LEMMA MergeOrder ==
  \A a, b, c \in Declared(Nat) : merge(merge(a, b), c) = merge(merge(a, c), b)
BY SelectionAssumption DEF merge, Declared

LEMMA MergedType ==
  ASSUME NEW old \in Values, NEW c \in Candidates, NEW d \in Candidates
  PROVE  /\ Merged(old, c) \in Values /\ Said(c) \in Values
         /\ Merged(Merged(old, c), d) = Merged(Merged(old, d), c)
         /\ Merged(Said(c), d) = Merged(Said(d), c)
<1>1. Priorities \subseteq Nat /\ Lastmods \subseteq Nat
  BY SelectionAssumption
<1>2. /\ old.priority \in Declared(Priorities) /\ old.lastmod \in Declared(Lastmods)
      /\ c.priority \in Declared(Priorities) /\ c.lastmod \in Declared(Lastmods)
      /\ d.priority \in Declared(Priorities) /\ d.lastmod \in Declared(Lastmods)
  BY DEF Values, Candidates, Declared
<1>3. /\ merge(old.priority, c.priority) \in Declared(Priorities)
      /\ merge(merge(old.priority, c.priority), d.priority) = merge(merge(old.priority, d.priority), c.priority)
      /\ merge(c.priority, d.priority) = merge(d.priority, c.priority)
  <2>1. /\ merge(old.priority, c.priority) \in Declared(Priorities)
        /\ merge(merge(old.priority, c.priority), d.priority) = merge(merge(old.priority, d.priority), c.priority)
    <3>1. merge(old.priority, c.priority) \in Declared(Priorities)
      BY <1>1, <1>2, MergeType
    <3>2. merge(merge(old.priority, c.priority), d.priority) = merge(merge(old.priority, d.priority), c.priority)
      <4>1. old.priority \in Declared(Nat) /\ c.priority \in Declared(Nat) /\ d.priority \in Declared(Nat)
        BY <1>1, <1>2 DEF Declared
      <4> QED BY ONLY <4>1, MergeOrder, Zenon
    <3> QED BY <3>1, <3>2
  <2>2. merge(c.priority, d.priority) = merge(d.priority, c.priority)
    BY <1>1, <1>2, MergeType
  <2> QED BY <2>1, <2>2
<1>4. /\ merge(old.lastmod, c.lastmod) \in Declared(Lastmods)
      /\ merge(merge(old.lastmod, c.lastmod), d.lastmod) = merge(merge(old.lastmod, d.lastmod), c.lastmod)
      /\ merge(c.lastmod, d.lastmod) = merge(d.lastmod, c.lastmod)
  <2>1. /\ merge(old.lastmod, c.lastmod) \in Declared(Lastmods)
        /\ merge(merge(old.lastmod, c.lastmod), d.lastmod) = merge(merge(old.lastmod, d.lastmod), c.lastmod)
    <3>1. merge(old.lastmod, c.lastmod) \in Declared(Lastmods)
      BY <1>1, <1>2, MergeType
    <3>2. merge(merge(old.lastmod, c.lastmod), d.lastmod) = merge(merge(old.lastmod, d.lastmod), c.lastmod)
      <4>1. old.lastmod \in Declared(Nat) /\ c.lastmod \in Declared(Nat) /\ d.lastmod \in Declared(Nat)
        BY <1>1, <1>2 DEF Declared
      <4> QED BY ONLY <4>1, MergeOrder, Zenon
    <3> QED BY <3>1, <3>2
  <2>2. merge(c.lastmod, d.lastmod) = merge(d.lastmod, c.lastmod)
    BY <1>1, <1>2, MergeType
  <2> QED BY <2>1, <2>2
<1> QED BY <1>2, <1>3, <1>4 DEF Merged, Said, Values

LEMMA CandidateRules ==
  ASSUME NEW c \in Candidates
  PROVE  /\ c.url \in Urls /\ Traits[c.url].rules \subseteq Early
         /\ Unparseable(c) => ~ Plain(c)
BY SelectionAssumption DEF Candidates, Urls, Early, Unparseable, Plain

LEMMA VerdictType ==
  ASSUME NEW c \in Candidates, NEW seen
  PROVE  Verdict(seen, c) \in Early \cup {"none"}
BY CandidateRules, FirstRuleType, RuleNames DEF Verdict, Plain

\* One turn of the loop, said field by field.
LEMMA PrefilterForm ==
  ASSUME NEW a \in Sieved, NEW c \in Candidates
  PROVE  Prefilter(a, c) = After(a, c)
<1> DEFINE s == a.survivors
           rules == Traits[c.url].rules
<1>1. a = [seen |-> a.seen, survivors |-> s, dropped |-> a.dropped]
  BY DEF Sieved
<1>2. DOMAIN s = {u \in a.seen : Traits[u].rules = {}} /\ s = [u \in DOMAIN s |-> s[u]]
  BY DEF Sieved
<1>3. CASE Unparseable(c)
  <2>1. ~ Plain(c)
    BY <1>3, CandidateRules
  <2>2. Prefilter(a, c) = [a EXCEPT !.dropped = Count(a.dropped, "unparseable")]
    BY <1>3 DEF Prefilter, Unparseable
  <2>3. Prefilter(a, c) = [seen |-> a.seen, survivors |-> s, dropped |-> Count(a.dropped, "unparseable")]
    BY <1>1, <2>2
  <2> QED BY <1>3, <2>1, <2>3 DEF After, Verdict
<1>4. CASE ~ Unparseable(c) /\ c.url \in a.seen
  <2> DEFINE t == [u \in DOMAIN s |-> IF u = c.url THEN Merged(s[u], c) ELSE s[u]]
  <2>1. Prefilter(a, c) = [a EXCEPT !.dropped = Count(a.dropped, "duplicate"), !.survivors = t]
    BY <1>4 DEF Prefilter, Unparseable, Merged
  <2>2. Prefilter(a, c) = [seen |-> a.seen, survivors |-> t, dropped |-> Count(a.dropped, "duplicate")]
    <3> HIDE DEF t
    <3> QED BY <1>1, <2>1
  <2>3. Plain(c) => t = Join(s, c)
    <3> SUFFICES ASSUME Plain(c) PROVE t = Join(s, c)
      OBVIOUS
    <3>1. c.url \in DOMAIN s
      BY <1>2, <1>4 DEF Plain
    <3>2. DOMAIN s = DOMAIN s \cup {c.url}
      BY <3>1
    <3> QED BY <3>1, <3>2 DEF Join
  <2>4. ~ Plain(c) => t = s
    <3> SUFFICES ASSUME ~ Plain(c) PROVE t = s
      OBVIOUS
    <3>1. c.url \notin DOMAIN s
      BY <1>2 DEF Plain
    <3>2. \A u \in DOMAIN s : u # c.url
      BY <3>1
    <3>3. t = [u \in DOMAIN s |-> s[u]]
      BY <3>2
    <3> QED BY <1>2, <3>3
  <2>5. a.seen = a.seen \cup {c.url}
    BY <1>4
  <2> HIDE DEF t
  <2> QED BY <1>4, <2>2, <2>3, <2>4, <2>5 DEF After, Verdict
<1>5. CASE ~ Unparseable(c) /\ c.url \notin a.seen /\ ~ Plain(c)
  <2>1. Prefilter(a, c) = [a EXCEPT !.seen = a.seen \cup {c.url}, !.dropped = Count(a.dropped, FirstRule(rules))]
    BY <1>5 DEF Prefilter, Unparseable, Plain
  <2>2. Prefilter(a, c) = [seen |-> a.seen \cup {c.url}, survivors |-> s,
                           dropped |-> Count(a.dropped, FirstRule(rules))]
    BY <1>1, <2>1
  <2>3. FirstRule(rules) # "none"
    <3>1. FirstRule(rules) \in Early /\ "none" \notin Early
      BY <1>5, CandidateRules, FirstRuleType DEF Plain, Early, Prefilters, ToSet
    <3> QED BY <3>1
  <2> QED BY <1>5, <2>2, <2>3 DEF After, Verdict
<1>6. CASE ~ Unparseable(c) /\ c.url \notin a.seen /\ Plain(c)
  <2>1. Prefilter(a, c) = [a EXCEPT !.seen = a.seen \cup {c.url}, !.survivors = Keep(s, c.url, Said(c))]
    BY <1>6 DEF Prefilter, Unparseable, Plain, Said
  <2>2. Prefilter(a, c) = [seen |-> a.seen \cup {c.url}, survivors |-> Keep(s, c.url, Said(c)),
                           dropped |-> a.dropped]
    BY <1>1, <2>1
  <2>3. Keep(s, c.url, Said(c)) = Join(s, c)
    <3>1. c.url \notin DOMAIN s
      BY <1>2, <1>6
    <3>2. \A u \in DOMAIN s \cup {c.url} :
            (IF u = c.url THEN Said(c) ELSE s[u])
              = IF u # c.url THEN s[u] ELSE IF u \in DOMAIN s THEN Merged(s[u], c) ELSE Said(c)
      BY <3>1
    <3> QED BY <3>2, Zenon DEF Keep, Join
  <2> QED BY <1>6, <2>2, <2>3 DEF After, Verdict
<1> QED BY <1>3, <1>4, <1>5, <1>6

LEMMA JoinForm ==
  ASSUME NEW s, NEW c
  PROVE  LET t == Join(s, c) IN
         /\ DOMAIN t = DOMAIN s \cup {c.url} /\ t = [u \in DOMAIN t |-> t[u]]
         /\ \A u \in DOMAIN s \ {c.url} : t[u] = s[u]
         /\ c.url \in DOMAIN s => t[c.url] = Merged(s[c.url], c)
         /\ c.url \notin DOMAIN s => t[c.url] = Said(c)
<1> DEFINE t == Join(s, c)
<1>1. DOMAIN t = DOMAIN s \cup {c.url} /\ t = [u \in DOMAIN t |-> t[u]]
  BY DEF Join
<1>2. \A u \in DOMAIN s \cup {c.url} :
        t[u] = IF u # c.url THEN s[u] ELSE IF u \in DOMAIN s THEN Merged(s[u], c) ELSE Said(c)
  BY DEF Join
<1> HIDE DEF t
<1> QED BY <1>1, <1>2 DEF t

LEMMA JoinType ==
  ASSUME NEW D, NEW s \in [D -> Values], NEW c \in Candidates
  PROVE  Join(s, c) \in [D \cup {c.url} -> Values]
<1> DEFINE t == Join(s, c)
<1>0. DOMAIN s = D
  OBVIOUS
<1>1. /\ DOMAIN t = DOMAIN s \cup {c.url} /\ t = [u \in DOMAIN t |-> t[u]]
      /\ \A u \in DOMAIN s \ {c.url} : t[u] = s[u]
      /\ c.url \in DOMAIN s => t[c.url] = Merged(s[c.url], c)
      /\ c.url \notin DOMAIN s => t[c.url] = Said(c)
  BY JoinForm
<1>2. \A u \in D : s[u] \in Values
  OBVIOUS
<1>3. Said(c) \in Values /\ \A old \in Values : Merged(old, c) \in Values
  BY MergedType DEF Values, Candidates, Said, Declared
<1> HIDE DEF t
<1>4. \A u \in D \cup {c.url} : t[u] \in Values
  BY <1>0, <1>1, <1>2, <1>3
<1>5. t \in [D \cup {c.url} -> Values]
  BY <1>0, <1>1, <1>4
<1> QED BY <1>5 DEF t

LEMMA JoinsCommute ==
  ASSUME NEW D, NEW s \in [D -> Values], NEW c \in Candidates, NEW d \in Candidates
  PROVE  Join(Join(s, c), d) = Join(Join(s, d), c)
<1> DEFINE sc == Join(s, c)
           sd == Join(s, d)
           l == Join(sc, d)
           r == Join(sd, c)
<1>1. /\ DOMAIN sc = D \cup {c.url}
      /\ \A u \in D \ {c.url} : sc[u] = s[u]
      /\ c.url \in D => sc[c.url] = Merged(s[c.url], c)
      /\ c.url \notin D => sc[c.url] = Said(c)
  <2>1. DOMAIN s = D
    OBVIOUS
  <2>2. /\ DOMAIN sc = DOMAIN s \cup {c.url}
        /\ \A u \in DOMAIN s \ {c.url} : sc[u] = s[u]
        /\ c.url \in DOMAIN s => sc[c.url] = Merged(s[c.url], c)
        /\ c.url \notin DOMAIN s => sc[c.url] = Said(c)
    BY JoinForm
  <2> HIDE DEF sc
  <2> QED BY <2>1, <2>2
<1>2. /\ DOMAIN sd = D \cup {d.url}
      /\ \A u \in D \ {d.url} : sd[u] = s[u]
      /\ d.url \in D => sd[d.url] = Merged(s[d.url], d)
      /\ d.url \notin D => sd[d.url] = Said(d)
  <2>1. DOMAIN s = D
    OBVIOUS
  <2>2. /\ DOMAIN sd = DOMAIN s \cup {d.url}
        /\ \A u \in DOMAIN s \ {d.url} : sd[u] = s[u]
        /\ d.url \in DOMAIN s => sd[d.url] = Merged(s[d.url], d)
        /\ d.url \notin DOMAIN s => sd[d.url] = Said(d)
    BY JoinForm
  <2> HIDE DEF sd
  <2> QED BY <2>1, <2>2
<1> HIDE DEF sc, sd
<1>3. /\ DOMAIN l = DOMAIN sc \cup {d.url} /\ l = [u \in DOMAIN l |-> l[u]]
      /\ \A u \in DOMAIN sc \ {d.url} : l[u] = sc[u]
      /\ d.url \in DOMAIN sc => l[d.url] = Merged(sc[d.url], d)
      /\ d.url \notin DOMAIN sc => l[d.url] = Said(d)
  BY JoinForm
<1>4. /\ DOMAIN r = DOMAIN sd \cup {c.url} /\ r = [u \in DOMAIN r |-> r[u]]
      /\ \A u \in DOMAIN sd \ {c.url} : r[u] = sd[u]
      /\ c.url \in DOMAIN sd => r[c.url] = Merged(sd[c.url], c)
      /\ c.url \notin DOMAIN sd => r[c.url] = Said(c)
  BY JoinForm
<1> HIDE DEF l, r
<1>5. DOMAIN l = DOMAIN r
  BY <1>1, <1>2, <1>3, <1>4
<1>6. ASSUME NEW u \in DOMAIN l PROVE l[u] = r[u]
  <2>1. CASE u # c.url /\ u # d.url
    <3>1. u \in D
      BY <1>1, <1>3, <2>1
    <3> QED BY <1>1, <1>2, <1>3, <1>4, <2>1, <3>1
  <2>2. CASE u = c.url /\ c.url # d.url
    <3>1. l[u] = sc[u]
      BY <1>1, <1>3, <2>2
    <3>2. CASE u \in D
      BY <1>1, <1>2, <1>4, <2>2, <3>1, <3>2
    <3>3. CASE u \notin D
      BY <1>1, <1>2, <1>4, <2>2, <3>1, <3>3
    <3> QED BY <3>2, <3>3
  <2>3. CASE u = d.url /\ c.url # d.url
    <3>1. r[u] = sd[u]
      BY <1>2, <1>4, <2>3
    <3>2. CASE u \in D
      BY <1>1, <1>2, <1>3, <2>3, <3>1, <3>2
    <3>3. CASE u \notin D
      BY <1>1, <1>2, <1>3, <2>3, <3>1, <3>3
    <3> QED BY <3>2, <3>3
  <2>4. CASE u = d.url /\ c.url = d.url
    <3>1. l[u] = Merged(sc[u], d) /\ r[u] = Merged(sd[u], c)
      BY <1>1, <1>2, <1>3, <1>4, <2>4
    <3>2. CASE u \in D
      <4>1. sc[u] = Merged(s[u], c) /\ sd[u] = Merged(s[u], d) /\ s[u] \in Values
        BY <1>1, <1>2, <2>4, <3>2
      <4>2. Merged(Merged(s[u], c), d) = Merged(Merged(s[u], d), c)
        BY <4>1, MergedType
      <4> QED BY <3>1, <4>1, <4>2
    <3>3. CASE u \notin D
      <4>1. sc[u] = Said(c) /\ sd[u] = Said(d)
        BY <1>1, <1>2, <2>4, <3>3
      <4>2. Merged(Said(c), d) = Merged(Said(d), c)
        <5>1. Said(c) \in Values
          BY DEF Said, Values, Candidates, Declared
        <5> QED BY <5>1, MergedType
      <4> QED BY <3>1, <4>1, <4>2
    <3> QED BY <3>2, <3>3
  <2> QED BY <2>1, <2>2, <2>3, <2>4
<1>7. l = r
  BY <1>3, <1>4, <1>5, <1>6
<1> QED BY <1>7 DEF l, r, sc, sd

LEMMA SievedParts ==
  ASSUME NEW a \in Sieved
  PROVE  /\ a.seen \in SUBSET Urls /\ IsFiniteSet(a.seen)
         /\ a.survivors \in [DOMAIN a.survivors -> Values]
         /\ DOMAIN a.survivors = {u \in a.seen : Traits[u].rules = {}}
         /\ a.dropped \in Drops /\ a.dropped["over_limit"] = 0
BY DEF Sieved

LEMMA SievedMade ==
  ASSUME NEW seen \in SUBSET Urls, IsFiniteSet(seen), NEW survivors,
         NEW D, D = {u \in seen : Traits[u].rules = {}}, survivors \in [D -> Values],
         NEW dropped \in Drops, dropped["over_limit"] = 0, NEW a,
         a = [seen |-> seen, survivors |-> survivors, dropped |-> dropped]
  PROVE  a \in Sieved
<1>1. D \in SUBSET Urls /\ DOMAIN survivors = D
  OBVIOUS
<1>2. survivors \in UNION {[E -> Values] : E \in SUBSET Urls}
  BY <1>1
<1>3. a \in [seen : SUBSET Urls, survivors : UNION {[E -> Values] : E \in SUBSET Urls}, dropped : Drops]
  BY <1>2
<1>4. a.seen = seen /\ a.survivors = survivors /\ a.dropped = dropped
  OBVIOUS
<1> QED BY <1>1, <1>3, <1>4 DEF Sieved

Tally(a) == SumFunction(a.dropped) + Cardinality(DOMAIN a.survivors)

LEMMA VerdictNone ==
  ASSUME NEW a \in Sieved, NEW c \in Candidates
  PROVE  LET v == Verdict(a.seen, c) IN
         /\ v = "none" => Plain(c) /\ ~ Unparseable(c) /\ c.url \notin a.seen
         /\ v # "none" => v \in Rules /\ v # "over_limit" /\ (Plain(c) => c.url \in DOMAIN a.survivors)
<1>1. Verdict(a.seen, c) \in Early \cup {"none"}
  BY VerdictType
<1>2. "none" \notin Early
  BY DEF Early, Prefilters, ToSet
<1>3. ~ Plain(c) => FirstRule(Traits[c.url].rules) \in Early
  BY CandidateRules, FirstRuleType DEF Plain
<1>4. /\ Verdict(a.seen, c) = "none" => Plain(c) /\ ~ Unparseable(c) /\ c.url \notin a.seen
      /\ Verdict(a.seen, c) # "none" => (Plain(c) => c.url \in a.seen)
  BY <1>2, <1>3, CandidateRules DEF Verdict
<1> QED BY <1>1, <1>4, RuleNames, SievedParts DEF Plain

LEMMA AfterSieved ==
  ASSUME NEW a \in Sieved, NEW c \in Candidates
  PROVE  After(a, c) \in Sieved /\ Tally(a) \in Int /\ Tally(After(a, c)) = Tally(a) + 1
<1> DEFINE s == a.survivors
           seen == IF Unparseable(c) THEN a.seen ELSE a.seen \cup {c.url}
           t == IF Plain(c) THEN Join(s, c) ELSE s
           v == Verdict(a.seen, c)
           dropped == IF v = "none" THEN a.dropped ELSE Count(a.dropped, v)
           D == {u \in seen : Traits[u].rules = {}}
           b == After(a, c)
<1>1. /\ a.seen \in SUBSET Urls /\ IsFiniteSet(a.seen) /\ s \in [DOMAIN s -> Values]
      /\ DOMAIN s = {u \in a.seen : Traits[u].rules = {}}
      /\ a.dropped \in Drops /\ a.dropped["over_limit"] = 0
  BY SievedParts
<1>2. b = [seen |-> seen, survivors |-> t, dropped |-> dropped]
  BY DEF After
<1>3. seen \in SUBSET Urls /\ IsFiniteSet(seen)
  BY <1>1, CandidateRules, FS_AddElement
<1>4. t \in [D -> Values] /\ D = IF Plain(c) THEN DOMAIN s \cup {c.url} ELSE DOMAIN s
  <2>1. CASE Plain(c)
    <3>1. D = DOMAIN s \cup {c.url}
      BY <1>1, <2>1, CandidateRules DEF Plain
    <3>2. Join(s, c) \in [DOMAIN s \cup {c.url} -> Values]
      BY <1>1, JoinType
    <3> QED BY <2>1, <3>1, <3>2
  <2>2. CASE ~ Plain(c)
    <3>1. D = DOMAIN s
      BY <1>1, <2>2 DEF Plain
    <3> QED BY <1>1, <2>2, <3>1
  <2> QED BY <2>1, <2>2
<1>5. /\ v = "none" => Plain(c) /\ ~ Unparseable(c) /\ c.url \notin a.seen
      /\ v # "none" => v \in Rules /\ v # "over_limit" /\ (Plain(c) => c.url \in DOMAIN s)
  BY VerdictNone
<1> HIDE DEF v, D, t, seen, s
<1>6. dropped \in Drops /\ dropped["over_limit"] = 0
  <2>1. CASE v = "none"
    BY <1>1, <2>1
  <2>2. CASE v # "none"
    <3>1. Count(a.dropped, v) \in Drops /\ \A r \in Rules \ {v} : Count(a.dropped, v)[r] = a.dropped[r]
      BY <1>1, <1>5, <2>2, CountOne
    <3> QED BY <1>1, <1>5, <2>2, <3>1, RuleNames
  <2> QED BY <2>1, <2>2
<1> HIDE DEF b, dropped
<1>7. b \in Sieved
  BY <1>2, <1>3, <1>4, <1>6, SievedMade DEF D
<1>8. IsFiniteSet(DOMAIN s)
  BY <1>1, FS_Subset
<1>9. Tally(a) = SumFunction(a.dropped) + Cardinality(DOMAIN s) /\ Tally(b) = SumFunction(dropped) + Cardinality(D)
  BY <1>2, <1>4 DEF Tally, s
<1>10. SumFunction(a.dropped) \in Int /\ Cardinality(DOMAIN s) \in Nat
  BY <1>1, <1>8, CountOne, RuleNames, FS_CardinalityType
<1>11. SumFunction(dropped) + Cardinality(D) = SumFunction(a.dropped) + Cardinality(DOMAIN s) + 1
  <2>1. CASE v = "none"
    <3>1. c.url \notin DOMAIN s /\ D = DOMAIN s \cup {c.url} /\ dropped = a.dropped
      BY <1>1, <1>4, <1>5, <2>1 DEF dropped
    <3>2. Cardinality(D) = Cardinality(DOMAIN s) + 1
      BY <1>8, <3>1, FS_AddElement
    <3> QED BY <1>10, <3>1, <3>2
  <2>2. CASE v # "none"
    <3>1. SumFunction(Count(a.dropped, v)) = SumFunction(a.dropped) + 1
      BY <1>1, <1>5, <2>2, CountOne
    <3>2. D = DOMAIN s /\ dropped = Count(a.dropped, v)
      BY <1>4, <1>5, <2>2 DEF dropped
    <3> QED BY <1>10, <3>1, <3>2
  <2> QED BY <2>1, <2>2
<1> QED BY <1>7, <1>9, <1>10, <1>11 DEF b

\* Two candidates may take their turns either way round.
LEMMA TurnsCommute ==
  ASSUME NEW a \in Sieved, NEW c \in Candidates, NEW d \in Candidates
  PROVE  After(After(a, c), d) = After(After(a, d), c)
<1> DEFINE ac == After(a, c)
           ad == After(a, d)
           v == Verdict(a.seen, c)
           w == Verdict(a.seen, d)
           wc == Verdict(ac.seen, d)
           vd == Verdict(ad.seen, c)
<1>1. /\ ac = [seen |-> ac.seen, survivors |-> ac.survivors, dropped |-> ac.dropped]
      /\ ac.seen = IF Unparseable(c) THEN a.seen ELSE a.seen \cup {c.url}
      /\ ac.survivors = IF Plain(c) THEN Join(a.survivors, c) ELSE a.survivors
      /\ ac.dropped = IF v = "none" THEN a.dropped ELSE Count(a.dropped, v)
  BY DEF After
<1>2. /\ ad = [seen |-> ad.seen, survivors |-> ad.survivors, dropped |-> ad.dropped]
      /\ ad.seen = IF Unparseable(d) THEN a.seen ELSE a.seen \cup {d.url}
      /\ ad.survivors = IF Plain(d) THEN Join(a.survivors, d) ELSE a.survivors
      /\ ad.dropped = IF w = "none" THEN a.dropped ELSE Count(a.dropped, w)
  BY DEF After
<1>3. /\ v \in Rules \cup {"none"} /\ w \in Rules \cup {"none"}
      /\ wc \in Rules \cup {"none"} /\ vd \in Rules \cup {"none"}
  BY VerdictType, RuleNames
<1>4. \/ v = vd /\ w = wc
      \/ v = w /\ vd = wc
  <2>1. CASE c.url # d.url
    BY <1>1, <1>2, <2>1 DEF Verdict
  <2>2. CASE c.url = d.url
    BY <1>1, <1>2, <2>2 DEF Verdict, Unparseable, Plain
  <2> QED BY <2>1, <2>2
<1>5. a.dropped \in Drops
  BY SievedParts
<1> DEFINE one(dropped, rule) == IF rule = "none" THEN dropped ELSE Count(dropped, rule)
<1> HIDE DEF v, w, vd, wc
<1>6. \A r, q \in Rules \cup {"none"} : one(one(a.dropped, r), q) = one(one(a.dropped, q), r)
  BY <1>5 DEF Count, Drops
<1>7. one(ac.dropped, wc) = one(ad.dropped, vd)
  <2>1. ac.dropped = one(a.dropped, v) /\ ad.dropped = one(a.dropped, w)
    BY <1>1, <1>2
  <2> HIDE DEF one, ac, ad
  <2> QED BY <1>3, <1>4, <1>6, <2>1
<1>8. (IF Plain(d) THEN Join(ac.survivors, d) ELSE ac.survivors)
        = IF Plain(c) THEN Join(ad.survivors, c) ELSE ad.survivors
  <2>1. a.survivors \in [DOMAIN a.survivors -> Values]
    BY SievedParts
  <2>2. Join(Join(a.survivors, c), d) = Join(Join(a.survivors, d), c)
    BY <2>1, JoinsCommute
  <2> HIDE DEF ac, ad
  <2> QED BY <1>1, <1>2, <2>2
<1>9. (IF Unparseable(d) THEN ac.seen ELSE ac.seen \cup {d.url})
        = IF Unparseable(c) THEN ad.seen ELSE ad.seen \cup {c.url}
  <2> HIDE DEF ac, ad
  <2> QED BY <1>1, <1>2
<1> HIDE DEF ac, ad
<1>10. After(ac, d) = After(ad, c)
  BY <1>7, <1>8, <1>9 DEF After, vd, wc
<1> QED BY <1>10 DEF ac, ad

Sieve == [x \in Sieved \X Candidates |-> Prefilter(x[1], x[2])]

LEMMA SieveType ==
  /\ Sieve \in [Sieved \X Candidates -> Sieved] /\ Start \in Sieved
  /\ \A a \in Sieved, c \in Candidates : Sieve[<<a, c>>] = After(a, c)
<1>1. \A x \in Sieved \X Candidates : x[1] \in Sieved /\ x[2] \in Candidates
  OBVIOUS
<1>2. \A x \in Sieved \X Candidates : Prefilter(x[1], x[2]) \in Sieved
  BY <1>1, PrefilterForm, AfterSieved
<1>3. Sieve \in [Sieved \X Candidates -> Sieved]
  BY <1>2 DEF Sieve
<1>4. \A a \in Sieved, c \in Candidates : Sieve[<<a, c>>] = After(a, c)
  BY PrefilterForm DEF Sieve
<1>5. Start \in Sieved
  <2> DEFINE none == [rule \in Rules |-> 0]
  <2>1. none \in Drops /\ none["over_limit"] = 0
    BY RuleNames DEF Drops
  <2>2. <<>> \in [{} -> Values] /\ IsFiniteSet({}) /\ {} \in SUBSET Urls
    BY FS_EmptySet
  <2>3. {} = {u \in {} : Traits[u].rules = {}}
    OBVIOUS
  <2>4. Start = [seen |-> {}, survivors |-> <<>>, dropped |-> none]
    BY DEF Start
  <2> HIDE DEF none
  <2> QED BY <2>1, <2>2, <2>3, <2>4, SievedMade
<1> QED BY <1>3, <1>4, <1>5

LEMMA Sifted ==
  ASSUME NEW found \in Seq(Candidates)
  PROVE  \E q : /\ Turns(q, Sieved, Sieve, Start, found, Len(found))
                /\ q[Len(found)] = Prefiltered(found)
<1> DEFINE n == Len(found)
           rhs(it) == [T \in SUBSET (1 .. n) |-> IF T = {} THEN Start
                                               ELSE Prefilter(it[T \ {Max(T)}], found[Max(T)])]
           it == CHOOSE it : it = rhs(it)
<1>1. n \in Nat /\ DOMAIN found = 1 .. n
  OBVIOUS
<1>2. Holds(found, n, Candidates)
  BY <1>1 DEF Holds
<1>3. Prefiltered(found) = it[1 .. n]
  <2>1. Prefiltered(found) =
          LET i == CHOOSE i : i = [T \in SUBSET (DOMAIN found) |-> IF T = {} THEN Start
                                     ELSE Prefilter(i[T \ {Max(T)}], found[Max(T)])] IN i[DOMAIN found]
    BY DEF Prefiltered, FoldLeft, MapThenFoldSet, Start, Rules
  <2> HIDE DEF n
  <2> QED BY <1>1, <2>1
<1>4. PICK g \in [SUBSET (1 .. n) -> Sieved] : FoldsAll(g, Sieve, Start, found, n)
  <2> HIDE DEF n
  <2> QED BY <1>1, <1>2, SieveType, FoldExists
<1>5. \A T \in SUBSET (1 .. n) : T # {} => T \ {Max(T)} \in SUBSET (1 .. n) /\ Max(T) \in 1 .. n
  <2> HIDE DEF n
  <2> QED BY <1>1, LargestIn
<1>6. ASSUME NEW a \in Sieved, NEW c \in Candidates PROVE Prefilter(a, c) = Sieve[<<a, c>>]
  BY <1>6 DEF Sieve
<1>7. g = rhs(g)
  <2>1. ASSUME NEW T \in SUBSET (1 .. n)
        PROVE  g[T] = IF T = {} THEN Start ELSE Prefilter(g[T \ {Max(T)}], found[Max(T)])
    <3>1. T = {} => g[T] = Start
      BY <1>4 DEF FoldsAll
    <3>2. T # {} => g[T] = Sieve[<<g[T \ {Max(T)}], found[Max(T)]>>]
      BY <1>4 DEF FoldsAll
    <3>3. T # {} => g[T \ {Max(T)}] \in Sieved /\ found[Max(T)] \in Candidates
      BY <1>2, <1>5 DEF Holds
    <3>4. T # {} => Prefilter(g[T \ {Max(T)}], found[Max(T)]) = Sieve[<<g[T \ {Max(T)}], found[Max(T)]>>]
      <4> HIDE DEF n
      <4> QED BY <1>6, <3>3
    <3> QED BY <3>1, <3>2, <3>4
  <2>2. g = [T \in SUBSET (1 .. n) |-> g[T]]
    OBVIOUS
  <2> HIDE DEF n
  <2> QED BY <2>1, <2>2
<1>8. it = rhs(it)
  <2> HIDE DEF rhs
  <2> QED BY <1>7
<1> HIDE DEF it
<1>9. Follows(it, Sieved, Sieve, Start, found, n)
  <2> SUFFICES ASSUME NEW T \in SUBSET (1 .. n)
               PROVE  /\ T = {} => it[T] = Start
                      /\ T # {} /\ it[T \ {Max(T)}] \in Sieved =>
                           it[T] = Sieve[<<it[T \ {Max(T)}], found[Max(T)]>>]
    BY DEF Follows
  <2>1. it[T] = IF T = {} THEN Start ELSE Prefilter(it[T \ {Max(T)}], found[Max(T)])
    <3> HIDE DEF n
    <3> QED BY <1>8
  <2>2. T # {} => found[Max(T)] \in Candidates
    BY <1>2, <1>5 DEF Holds
  <2> HIDE DEF n
  <2> QED BY <1>6, <2>1, <2>2
<1>10. Turns(ByTurns(it, n), Sieved, Sieve, Start, found, n)
  <2> HIDE DEF n
  <2> QED BY <1>1, <1>2, <1>9, SieveType, FollowedTurns
<1>11. ByTurns(it, n)[n] = it[1 .. n]
  BY <1>1 DEF ByTurns
<1> QED BY <1>3, <1>10, <1>11

\* After k candidates, as many are dropped or among the survivors.
LEMMA SiftedTally ==
  ASSUME NEW found \in Seq(Candidates)
  PROVE  /\ Prefiltered(found) \in Sieved
         /\ Tally(Prefiltered(found)) = Len(found)
<1> DEFINE n == Len(found)
           J == {x \in Nat \X Sieved : Tally(x[2]) = x[1]}
<1>1. PICK q : Turns(q, Sieved, Sieve, Start, found, n) /\ q[n] = Prefiltered(found)
  BY Sifted
<1>2. n \in Nat /\ \A k \in 1 .. n : found[k] \in Candidates
  OBVIOUS
<1>3. /\ q[0] = Start /\ \A k \in 0 .. n : q[k] \in Sieved
      /\ \A k \in 1 .. n : q[k] = Sieve[<<q[k - 1], found[k]>>]
  BY <1>1 DEF Turns
<1> HIDE DEF n
<1>4. Tally(Start) = 0
  <2>1. SumFunction([rule \in Rules |-> 0]) = 0
    BY RuleNames, SumOfZeros
  <2>2. DOMAIN <<>> = {} /\ Cardinality({}) = 0
    BY FS_EmptySet
  <2>3. Start.dropped = [rule \in Rules |-> 0] /\ Start.survivors = <<>>
    BY DEF Start
  <2> QED BY <2>1, <2>2, <2>3 DEF Tally
<1>5. \A k \in Nat, a \in Sieved : <<k, a>> \in J <=> Tally(a) = k
  OBVIOUS
<1> HIDE DEF J
<1>6. <<0, q[0]>> \in J
  BY <1>3, <1>4, <1>5, SieveType
<1>7. ASSUME NEW k \in 1 .. n, <<k - 1, q[k - 1]>> \in J PROVE <<k, q[k]>> \in J
  <2>1. k - 1 \in 0 .. n /\ k \in 0 .. n /\ k - 1 \in Nat /\ k \in Nat
    BY <1>2
  <2>2. q[k - 1] \in Sieved /\ q[k] \in Sieved /\ found[k] \in Candidates
    BY <1>2, <1>3, <2>1
  <2>3. Tally(q[k - 1]) = k - 1
    BY <1>5, <1>7, <2>1, <2>2
  <2>4. q[k] = After(q[k - 1], found[k])
    BY <1>3, <2>2, SieveType
  <2>5. Tally(q[k]) = k - 1 + 1
    BY <2>2, <2>3, <2>4, AfterSieved
  <2> QED BY <1>5, <2>1, <2>2, <2>5
<1>8. <<n, q[n]>> \in J /\ n \in 0 .. n
  <2>1. n \in 0 .. n
    BY <1>2
  <2>2. \A k \in 0 .. n : <<k, q[k]>> \in J
    BY <1>2, <1>6, <1>7, LoopKeeps
  <2> QED BY <2>1, <2>2
<1>9. q[n] \in Sieved /\ Tally(q[n]) = n
  BY <1>2, <1>3, <1>5, <1>8
<1> QED BY <1>1, <1>9 DEF n

-----------------------------------------------------------------------------
(* The ranking.                                                             *)

\* The lastmods that the survivors declare.
Dates(s) == {s[v].lastmod : v \in DOMAIN s} \ {Undefined}

LEMMA LeastAndLatest ==
  ASSUME NEW S, IsFiniteSet(S), S \subseteq Nat, S # {}
  PROVE  /\ Min(S) \in S /\ Max(S) \in S
         /\ \A x \in S : Min(S) <= x /\ x <= Max(S)
<1>1. PICK i \in S : \A j \in S : i <= j
  BY LeastNumber
<1>2. Min(S) \in S /\ \A x \in S : Min(S) <= x
  BY <1>1 DEF Min
<1>3. PICK m \in S : \A x \in S : x <= m
  BY GreatestNumber
<1>4. Max(S) \in S /\ \A x \in S : x <= Max(S)
  BY <1>3 DEF Max
<1> QED BY <1>2, <1>4

\* How fresh a page is moves it by at most half of LASTMOD_WEIGHT.
LEMMA RecencyBound ==
  ASSUME NEW all, IsFiniteSet(all), all \subseteq Nat, NEW lastmod \in all \cup {Undefined}
  PROVE  recency_term(lastmod, all) \in -2 .. 2
<1> DEFINE low == Min(all)
           high == Max(all)
<1>1. CASE lastmod = Undefined \/ low = high
  BY <1>1 DEF recency_term
<1>2. CASE lastmod # Undefined /\ low # high
  <2>1. lastmod \in all /\ all # {}
    BY <1>2
  <2>2. low \in Nat /\ high \in Nat /\ low <= lastmod /\ lastmod <= high /\ lastmod \in Nat
    BY <2>1, LeastAndLatest
  <2> DEFINE d == high - low
             x == 4 * (lastmod - low)
             k == x \div d
  <2>3. recency_term(lastmod, all) = k - 2
    <3>1. 4 \div 2 = 2
      OBVIOUS
    <3> HIDE DEF low, high
    <3>2. recency_term(lastmod, all) = k - (4 \div 2)
      BY <1>2 DEF recency_term, LASTMOD_WEIGHT, low, high
    <3> HIDE DEF k
    <3> QED BY <3>1, <3>2
  <2> HIDE DEF low, high
  <2>4. d \in Nat \ {0} /\ x \in Nat /\ x <= 4 * d
    BY <1>2, <2>2
  <2> HIDE DEF d, x
  <2>5. k \in Int /\ k * d <= x /\ x < (k + 1) * d
    BY <2>4
  <2> HIDE DEF k
  <2>6. k \in 0 .. 4
    <3>1. k >= 0
      <4> SUFFICES ASSUME k <= -1 PROVE FALSE
        BY <2>5
      <4>1. (k + 1) * d <= 0
        BY <2>4, <2>5
      <4> QED BY <2>4, <2>5, <4>1
    <3>2. k <= 4
      <4> SUFFICES ASSUME k >= 5 PROVE FALSE
        BY <2>5
      <4>1. k * d >= 5 * d
        BY <2>4, <2>5
      <4> QED BY <2>4, <2>5, <4>1
    <3> QED BY <2>5, <3>1, <3>2
  <2> QED BY <2>3, <2>6
<1> QED BY <1>1, <1>2

\* What a page is, before how fresh it is.
Standing(u, s) ==
  Traits[u].shape + (IF s[u].priority = Undefined THEN 0 ELSE 2 * (s[u].priority - 5))

LEMMA ScoreForm ==
  ASSUME NEW a \in Sieved, NEW u \in DOMAIN a.survivors
  PROVE  LET s == a.survivors IN
         /\ Standing(u, s) \in Int /\ score(u, s) \in Int
         /\ score(u, s) <= Standing(u, s) + 2 /\ Standing(u, s) <= score(u, s) + 2
<1> DEFINE s == a.survivors
           all == Dates(s)
           fresh == recency_term(s[u].lastmod, all)
<1>1. s \in [DOMAIN s -> Values] /\ DOMAIN s \subseteq a.seen /\ IsFiniteSet(a.seen) /\ a.seen \subseteq Urls
  BY SievedParts
<1>2. u \in Urls /\ \A v \in DOMAIN s : s[v] \in Values
  BY <1>1
<1>3. all \subseteq Nat
  BY <1>2, SelectionAssumption DEF Dates, Values, Declared
<1>4. IsFiniteSet(all)
  <2>1. IsFiniteSet(DOMAIN s)
    BY <1>1, FS_Subset
  <2> DEFINE f == [v \in DOMAIN s |-> s[v].lastmod]
  <2>2. IsFiniteSet({f[v] : v \in DOMAIN s})
    <3> HIDE DEF f, s
    <3> QED BY <2>1, FiniteRange
  <2>3. all \subseteq {f[v] : v \in DOMAIN s}
    BY DEF Dates
  <2> HIDE DEF f, all
  <2> QED BY <2>2, <2>3, FS_Subset
<1>5. fresh \in -2 .. 2
  <2>1. s[u].lastmod \in all \cup {Undefined}
    BY DEF Dates
  <2> HIDE DEF all, s
  <2> QED BY <1>3, <1>4, <2>1, RecencyBound
<1>6. Traits[u].shape \in Int
  BY <1>2, SelectionAssumption
<1>7. s[u].priority \in Declared(Priorities)
  BY <1>2 DEF Values
<1>8. Standing(u, s) \in Int
  <2>0. Priorities \subseteq Int
    BY SelectionAssumption
  <2>1. s[u].priority # Undefined => s[u].priority \in Int
    BY <1>7, <2>0 DEF Declared
  <2> QED BY <1>6, <2>1 DEF Standing
<1>9. score(u, s) = Standing(u, s) + fresh
  BY Zenon DEF score, Standing, Dates
<1> HIDE DEF s, fresh
<1> QED BY <1>5, <1>8, <1>9 DEF s

\* The one that comes first when s is ranked.
Better(s) ==
  {p \in (DOMAIN s) \X (DOMAIN s) :
     score(p[1], s) > score(p[2], s) \/ (score(p[1], s) = score(p[2], s) /\ p[1] < p[2])}

LEMMA RankedSorts ==
  ASSUME NEW a \in Sieved
  PROVE  Sorts(Ranked(a.survivors), Better(a.survivors), DOMAIN a.survivors)
<1> DEFINE s == a.survivors
           D == DOMAIN s
           R == Better(s)
           ranked == Ranked(s)
           points == [u \in D |-> score(u, s)]
           Place(u) == Cardinality({v \in D : points[v] > points[u] \/ (points[v] = points[u] /\ v < u)}) + 1
<1>1. D \subseteq Urls /\ IsFiniteSet(D) /\ D \subseteq Nat
  <2>1. D \subseteq a.seen /\ a.seen \subseteq Urls /\ IsFiniteSet(a.seen)
    BY SievedParts
  <2> HIDE DEF D
  <2> QED BY <2>1, FS_Subset, SelectionAssumption
<1>2. \A u \in D : score(u, s) \in Int
  BY ScoreForm
<1>3. StrictOrder(R, D)
  <2>1. \A x, y \in D : <<x, y>> \in R <=>
          score(x, s) > score(y, s) \/ (score(x, s) = score(y, s) /\ x < y)
    BY DEF Better
  <2>2. \A u \in D : u \in Int
    BY <1>1
  <2> HIDE DEF D, R, s
  <2> QED BY <1>2, <2>1, <2>2 DEF StrictOrder
<1>4. ranked = [i \in 1 .. Cardinality(D) |-> CHOOSE u \in D : Place(u) = i]
  BY DEF Ranked
<1>5. ASSUME NEW u \in D PROVE Place(u) = Places(R, D)[u]
  <2>1. {v \in D : points[v] > points[u] \/ (points[v] = points[u] /\ v < u)} = {v \in D : <<v, u>> \in R}
    BY DEF Better
  <2> HIDE DEF D, R, s, points
  <2>2. Places(R, D)[u] = Cardinality({v \in D : <<v, u>> \in R}) + 1
    BY DEF Places
  <2> QED BY <2>1, <2>2
<1> HIDE DEF Place, R, D, ranked, points
<1>6. ASSUME NEW i \in 1 .. Cardinality(D)
      PROVE  ranked[i] \in D /\ Places(R, D)[ranked[i]] = i
  <2>1. \E u \in D : Place(u) = i
    <3>1. \E u \in D : Places(R, D)[u] = i
      BY <1>1, <1>3, PlacesAll
    <3> QED BY <1>5, <3>1
  <2>2. ranked[i] = CHOOSE u \in D : Place(u) = i
    BY <1>4
  <2>3. ranked[i] \in D /\ Place(ranked[i]) = i
    BY <2>1, <2>2
  <2> QED BY <1>5, <2>3
<1>7. ranked \in [1 .. Cardinality(D) -> D]
  BY <1>4, <1>6
<1>8. Sorts(ranked, R, D)
  BY <1>1, <1>3, <1>6, <1>7, SortedBySlot
<1> QED BY <1>8 DEF ranked, R, D

-----------------------------------------------------------------------------
(* The walk over the ranked URLs.                                           *)

OneCopyIn(selected) ==
  \A i \in DOMAIN selected : \A j \in 1 .. i - 1 : Traits[selected[i]].original # selected[j]

\* What stands after some of the ranked URLs.
Picked ==
  {a \in [selected : Seq(Urls), dropped : Drops] :
     /\ Len(a.selected) <= Limit /\ OneCopyIn(a.selected)
     /\ a.dropped["over_limit"] > 0 => Len(a.selected) = Limit}

Pick == [x \in Picked \X Urls |-> Choose(x[1], x[2])]

LEMMA ChooseType ==
  ASSUME NEW a \in Picked, NEW u \in Urls
  PROVE  /\ Choose(a, u) \in Picked
         /\ Len(a.selected) \in Nat /\ SumFunction(a.dropped) \in Int
         /\ Len(Choose(a, u).selected) + SumFunction(Choose(a, u).dropped)
              = Len(a.selected) + SumFunction(a.dropped) + 1
<1> DEFINE s == a.selected
           b == Choose(a, u)
           copy == Count(a.dropped, "localized_duplicate")
           full == Count(a.dropped, "over_limit")
           longer == Append(s, u)
<1>1. /\ a = [selected |-> s, dropped |-> a.dropped] /\ s \in Seq(Urls) /\ a.dropped \in Drops
      /\ Len(s) <= Limit /\ OneCopyIn(s) /\ (a.dropped["over_limit"] > 0 => Len(s) = Limit)
  BY DEF Picked
<1>2. Len(s) \in Nat /\ Limit \in Nat /\ a.dropped["over_limit"] \in Nat /\ DOMAIN s = 1 .. Len(s)
  BY <1>1, SelectionAssumption, RuleNames DEF Drops
<1>3. SumFunction(a.dropped) \in Int
  BY <1>1, RuleNames, CountOne
<1>4. CASE Traits[u].original \in ToSet(s)
  <2>1. b = [selected |-> s, dropped |-> copy]
    <3>1. b = [a EXCEPT !.dropped = copy]
      BY <1>4 DEF Choose
    <3> HIDE DEF b, copy, s
    <3> QED BY <1>1, <3>1
  <2>2. copy \in Drops /\ SumFunction(copy) = SumFunction(a.dropped) + 1
        /\ copy["over_limit"] = a.dropped["over_limit"]
    BY <1>1, RuleNames, CountOne
  <2> HIDE DEF copy, s, b
  <2>3. b \in Picked
    BY <1>1, <2>1, <2>2 DEF Picked
  <2> QED BY <1>2, <1>3, <2>1, <2>2, <2>3 DEF b, s
<1>5. CASE Traits[u].original \notin ToSet(s) /\ Len(s) >= Limit
  <2>1. b = [selected |-> s, dropped |-> full]
    <3>1. b = [a EXCEPT !.dropped = full]
      BY <1>5 DEF Choose
    <3> HIDE DEF b, full, s
    <3> QED BY <1>1, <3>1
  <2>2. full \in Drops /\ SumFunction(full) = SumFunction(a.dropped) + 1
    BY <1>1, RuleNames, CountOne
  <2>3. Len(s) = Limit
    BY <1>1, <1>2, <1>5
  <2> HIDE DEF full, s, b
  <2>4. b \in Picked
    BY <1>1, <2>1, <2>2, <2>3 DEF Picked
  <2> QED BY <1>2, <1>3, <2>1, <2>2, <2>4 DEF b, s
<1>6. CASE Traits[u].original \notin ToSet(s) /\ ~ (Len(s) >= Limit)
  <2>1. b = [selected |-> longer, dropped |-> a.dropped]
    <3>1. b = [a EXCEPT !.selected = longer]
      BY <1>6 DEF Choose
    <3> HIDE DEF b, longer, s
    <3> QED BY <1>1, <3>1
  <2>2. /\ longer \in Seq(Urls) /\ Len(longer) = Len(s) + 1 /\ DOMAIN longer = 1 .. Len(s) + 1
        /\ longer[Len(s) + 1] = u /\ \A i \in 1 .. Len(s) : longer[i] = s[i]
    BY <1>1, AppendProperties
  <2>3. \A j \in 1 .. Len(s) : Traits[u].original # s[j]
    BY <1>2, <1>6 DEF ToSet
  <2> HIDE DEF longer, s, b
  <2>4. OneCopyIn(longer)
    <3> SUFFICES ASSUME NEW i \in 1 .. Len(s) + 1, NEW j \in 1 .. i - 1
                 PROVE  Traits[longer[i]].original # longer[j]
      BY <2>2 DEF OneCopyIn
    <3>1. j \in 1 .. Len(s) /\ longer[j] = s[j]
      BY <1>2, <2>2
    <3>2. CASE i = Len(s) + 1
      BY <2>2, <2>3, <3>1, <3>2
    <3>3. CASE i # Len(s) + 1
      <4>1. i \in 1 .. Len(s) /\ longer[i] = s[i]
        BY <1>2, <2>2, <3>3
      <4> QED BY <1>1, <1>2, <3>1, <4>1 DEF OneCopyIn
    <3> QED BY <3>2, <3>3
  <2>5. Len(longer) <= Limit /\ ~ (a.dropped["over_limit"] > 0)
    BY <1>1, <1>2, <1>6, <2>2
  <2>6. b \in Picked
    BY <1>1, <2>1, <2>2, <2>4, <2>5 DEF Picked
  <2> QED BY <1>2, <1>3, <2>1, <2>2, <2>6, SMTT(30) DEF b, s
<1> QED BY <1>4, <1>5, <1>6

LEMMA PickType == Pick \in [Picked \X Urls -> Picked]
<1>1. \A x \in Picked \X Urls : x[1] \in Picked /\ x[2] \in Urls
  OBVIOUS
<1>2. \A x \in Picked \X Urls : Choose(x[1], x[2]) \in Picked
  BY <1>1, ChooseType
<1> QED BY <1>2 DEF Pick

LEMMA Walked ==
  ASSUME NEW ranked \in Seq(Urls), NEW base \in Picked
  PROVE  \E q : /\ Turns(q, Picked, Pick, base, ranked, Len(ranked))
                /\ q[Len(ranked)] = FoldLeft(Choose, base, ranked)
<1> DEFINE n == Len(ranked)
           rhs(it) == [T \in SUBSET (1 .. n) |-> IF T = {} THEN base
                                               ELSE Choose(it[T \ {Max(T)}], ranked[Max(T)])]
           it == CHOOSE it : it = rhs(it)
<1>1. n \in Nat /\ DOMAIN ranked = 1 .. n
  OBVIOUS
<1>2. Holds(ranked, n, Urls)
  BY <1>1 DEF Holds
<1>3. FoldLeft(Choose, base, ranked) = it[1 .. n]
  <2>1. FoldLeft(Choose, base, ranked) =
          LET i == CHOOSE i : i = [T \in SUBSET (DOMAIN ranked) |-> IF T = {} THEN base
                                     ELSE Choose(i[T \ {Max(T)}], ranked[Max(T)])] IN i[DOMAIN ranked]
    BY DEF FoldLeft, MapThenFoldSet
  <2> HIDE DEF n
  <2> QED BY <1>1, <2>1
<1>4. PICK g \in [SUBSET (1 .. n) -> Picked] : FoldsAll(g, Pick, base, ranked, n)
  <2> HIDE DEF n
  <2> QED BY <1>1, <1>2, PickType, FoldExists
<1>5. \A T \in SUBSET (1 .. n) : T # {} => T \ {Max(T)} \in SUBSET (1 .. n) /\ Max(T) \in 1 .. n
  <2> HIDE DEF n
  <2> QED BY <1>1, LargestIn
<1>6. ASSUME NEW a \in Picked, NEW u \in Urls PROVE Choose(a, u) = Pick[<<a, u>>]
  BY <1>6 DEF Pick
<1>7. g = rhs(g)
  <2>1. ASSUME NEW T \in SUBSET (1 .. n)
        PROVE  g[T] = IF T = {} THEN base ELSE Choose(g[T \ {Max(T)}], ranked[Max(T)])
    <3>1. T = {} => g[T] = base
      BY <1>4 DEF FoldsAll
    <3>2. T # {} => g[T] = Pick[<<g[T \ {Max(T)}], ranked[Max(T)]>>]
      BY <1>4 DEF FoldsAll
    <3>3. T # {} => g[T \ {Max(T)}] \in Picked /\ ranked[Max(T)] \in Urls
      BY <1>2, <1>5 DEF Holds
    <3>4. T # {} => Choose(g[T \ {Max(T)}], ranked[Max(T)]) = Pick[<<g[T \ {Max(T)}], ranked[Max(T)]>>]
      <4> HIDE DEF n
      <4> QED BY <1>6, <3>3
    <3> QED BY <3>1, <3>2, <3>4
  <2>2. g = [T \in SUBSET (1 .. n) |-> g[T]]
    OBVIOUS
  <2> HIDE DEF n
  <2> QED BY <2>1, <2>2
<1>8. it = rhs(it)
  <2> HIDE DEF rhs
  <2> QED BY <1>7
<1> HIDE DEF it
<1>9. Follows(it, Picked, Pick, base, ranked, n)
  <2> SUFFICES ASSUME NEW T \in SUBSET (1 .. n)
               PROVE  /\ T = {} => it[T] = base
                      /\ T # {} /\ it[T \ {Max(T)}] \in Picked =>
                           it[T] = Pick[<<it[T \ {Max(T)}], ranked[Max(T)]>>]
    BY DEF Follows
  <2>1. it[T] = IF T = {} THEN base ELSE Choose(it[T \ {Max(T)}], ranked[Max(T)])
    <3> HIDE DEF n
    <3> QED BY <1>8
  <2>2. T # {} => ranked[Max(T)] \in Urls
    BY <1>2, <1>5 DEF Holds
  <2> HIDE DEF n
  <2> QED BY <1>6, <2>1, <2>2
<1>10. Turns(ByTurns(it, n), Picked, Pick, base, ranked, n)
  <2> HIDE DEF n
  <2> QED BY <1>1, <1>2, <1>9, PickType, FollowedTurns
<1>11. ByTurns(it, n)[n] = it[1 .. n]
  BY <1>1 DEF ByTurns
<1> QED BY <1>3, <1>10, <1>11

Spent(a) == Len(a.selected) + SumFunction(a.dropped)

\* Every ranked URL is selected or dropped.
LEMMA WalkedTally ==
  ASSUME NEW ranked \in Seq(Urls), NEW base \in Picked
  PROVE  /\ FoldLeft(Choose, base, ranked) \in Picked
         /\ Spent(FoldLeft(Choose, base, ranked)) = Spent(base) + Len(ranked)
<1> DEFINE n == Len(ranked)
           J == {x \in Nat \X Picked : Spent(x[2]) = Spent(base) + x[1]}
<1>1. PICK q : Turns(q, Picked, Pick, base, ranked, n) /\ q[n] = FoldLeft(Choose, base, ranked)
  BY Walked
<1>2. n \in Nat /\ \A k \in 1 .. n : ranked[k] \in Urls
  OBVIOUS
<1>3. /\ q[0] = base /\ \A k \in 0 .. n : q[k] \in Picked
      /\ \A k \in 1 .. n : q[k] = Pick[<<q[k - 1], ranked[k]>>]
  BY <1>1 DEF Turns
<1> HIDE DEF n
<1>4. Spent(base) \in Int
  <2>1. /\ base.selected \in Seq(Urls) /\ base.dropped \in Drops
    BY DEF Picked
  <2>2. Len(base.selected) \in Nat
    BY <2>1
  <2>3. SumFunction(base.dropped) \in Int
    BY <2>1, RuleNames, CountOne
  <2> QED BY <2>2, <2>3 DEF Spent
<1>5. \A k \in Nat, a \in Picked : <<k, a>> \in J <=> Spent(a) = Spent(base) + k
  OBVIOUS
<1> HIDE DEF J
<1>6. <<0, q[0]>> \in J
  BY <1>3, <1>4, <1>5
<1>7. ASSUME NEW k \in 1 .. n, <<k - 1, q[k - 1]>> \in J PROVE <<k, q[k]>> \in J
  <2>1. k - 1 \in 0 .. n /\ k \in 0 .. n /\ k - 1 \in Nat /\ k \in Nat
    BY <1>2
  <2>2. q[k - 1] \in Picked /\ q[k] \in Picked /\ ranked[k] \in Urls
    BY <1>2, <1>3, <2>1
  <2>3. Spent(q[k - 1]) = Spent(base) + (k - 1)
    BY <1>5, <1>7, <2>1, <2>2
  <2>4. q[k] = Choose(q[k - 1], ranked[k])
    BY <1>3, <2>2 DEF Pick
  <2>5. Spent(Choose(q[k - 1], ranked[k])) = Spent(q[k - 1]) + 1
    BY <2>2, ChooseType DEF Spent
  <2>6. Spent(q[k]) = Spent(base) + k
    <3> DEFINE x == Spent(base)
               y == Spent(q[k])
    <3>1. y = x + (k - 1) + 1 /\ x \in Int /\ k \in Int
      BY <1>4, <2>1, <2>3, <2>4, <2>5
    <3> HIDE DEF x, y
    <3>2. y = x + k
      BY <3>1
    <3> QED BY <3>2 DEF x, y
  <2> QED BY <1>5, <2>1, <2>2, <2>6
<1>8. <<n, q[n]>> \in J /\ n \in 0 .. n
  <2>1. n \in 0 .. n
    BY <1>2
  <2>2. \A k \in 0 .. n : <<k, q[k]>> \in J
    BY <1>2, <1>6, <1>7, LoopKeeps
  <2> QED BY <2>1, <2>2
<1>9. q[n] \in Picked /\ Spent(q[n]) = Spent(base) + n
  BY <1>2, <1>3, <1>5, <1>8
<1> QED BY <1>1, <1>9 DEF n

-----------------------------------------------------------------------------
(* What holds of every sequence of candidates.                              *)

LEMMA CandidatesTyped == SelectionSpec => [](candidates \in Seq(Candidates))
<1> DEFINE Inv == candidates \in Seq(Candidates)
<1>1. SelectionInit => Inv
  BY DEF SelectionInit
<1>2. Inv /\ [SelectionNext]_selectionVars => Inv'
  <2> SUFFICES ASSUME Inv, [SelectionNext]_selectionVars PROVE Inv'
    OBVIOUS
  <2>1. CASE SelectionNext
    <3>1. PICK c \in Candidates : candidates' = Append(candidates, c)
      BY <2>1 DEF SelectionNext, Discover
    <3> HIDE DEF Candidates
    <3> QED BY <3>1
  <2>2. CASE UNCHANGED selectionVars
    BY <2>2 DEF selectionVars
  <2> QED BY <2>1, <2>2
<1> QED BY <1>1, <1>2, PTL DEF SelectionSpec

LEMMA RankedUrls ==
  ASSUME NEW a \in Sieved
  PROVE  /\ Ranked(a.survivors) \in Seq(Urls)
         /\ Len(Ranked(a.survivors)) = Cardinality(DOMAIN a.survivors)
<1> DEFINE r == Ranked(a.survivors)
<1>1. Sorts(r, Better(a.survivors), DOMAIN a.survivors)
  BY RankedSorts
<1>2. DOMAIN a.survivors \subseteq Urls
  BY SievedParts
<1> HIDE DEF r
<1>3. /\ r \in Seq(DOMAIN a.survivors) /\ Len(r) = Cardinality(DOMAIN a.survivors)
      /\ Len(r) \in Nat /\ DOMAIN r = 1 .. Len(r) /\ \A i \in 1 .. Len(r) : r[i] \in DOMAIN a.survivors
  BY <1>1 DEF Sorts
<1>4. r \in [1 .. Len(r) -> Urls]
  <2>1. r = [i \in 1 .. Len(r) |-> r[i]]
    BY <1>3
  <2> QED BY <1>2, <1>3, <2>1
<1>5. r \in Seq(Urls)
  BY <1>3, <1>4, SeqOfFunction
<1> QED BY <1>3, <1>5 DEF r

LEMMA NothingPicked ==
  ASSUME NEW dropped \in Drops, dropped["over_limit"] = 0
  PROVE  /\ [selected |-> <<>>, dropped |-> dropped] \in Picked
         /\ Spent([selected |-> <<>>, dropped |-> dropped]) = SumFunction(dropped)
<1> DEFINE a == [selected |-> <<>>, dropped |-> dropped]
<1>1. a.selected = <<>> /\ a.dropped = dropped /\ Len(<<>>) = 0 /\ DOMAIN <<>> = {}
  OBVIOUS
<1>2. Limit \in Nat /\ <<>> \in Seq(Urls)
  BY SelectionAssumption
<1>3. OneCopyIn(<<>>)
  BY DEF OneCopyIn
<1>4. SumFunction(dropped) \in Int
  BY RuleNames, CountOne
<1>5. a \in [selected : Seq(Urls), dropped : Drops]
  BY <1>2
<1> HIDE DEF a
<1>6. a \in Picked
  BY <1>1, <1>2, <1>3, <1>5 DEF Picked
<1>7. Spent(a) = SumFunction(dropped)
  BY <1>1, <1>4 DEF Spent
<1> QED BY <1>6, <1>7 DEF a

LEMMA Reconciled ==
  ASSUME NEW found \in Seq(Candidates)
  PROVE  /\ select_urls(found) \in Picked
         /\ Spent(select_urls(found)) = Len(found)
<1> DEFINE kept == Prefiltered(found)
           base == [selected |-> <<>>, dropped |-> kept.dropped]
           ranked == Ranked(kept.survivors)
<1>1. kept \in Sieved /\ Tally(kept) = Len(found)
  BY SiftedTally
<1>2. select_urls(found) = FoldLeft(Choose, base, ranked)
  BY DEF select_urls
<1>3. kept.dropped \in Drops /\ kept.dropped["over_limit"] = 0
  <2> HIDE DEF kept
  <2> QED BY <1>1, SievedParts
<1>4. ranked \in Seq(Urls) /\ Len(ranked) = Cardinality(DOMAIN kept.survivors)
  <2> HIDE DEF kept
  <2> QED BY <1>1, RankedUrls
<1>5. base \in Picked /\ Spent(base) = SumFunction(kept.dropped)
  <2> HIDE DEF kept
  <2> QED BY <1>3, NothingPicked
<1>6. /\ FoldLeft(Choose, base, ranked) \in Picked
      /\ Spent(FoldLeft(Choose, base, ranked)) = Spent(base) + Len(ranked)
  <2> HIDE DEF base, ranked
  <2> QED BY <1>4, <1>5, WalkedTally
<1>7. Spent(base) + Len(ranked) = Len(found)
  <2> HIDE DEF base, ranked, kept
  <2> QED BY <1>1, <1>4, <1>5 DEF Tally
<1> HIDE DEF base, ranked, kept
<1> QED BY <1>2, <1>6, <1>7

LEMMA Ties ==
  ASSUME candidates \in Seq(Candidates)
  PROVE  RecencyOnlyBreaksTies
<1> DEFINE a == Prefiltered(candidates)
           s == a.survivors
           r == Ranked(s)
           Said_(u) == IF s[u].priority = Undefined THEN 5 ELSE s[u].priority
<1>1. a \in Sieved
  BY SiftedTally
<1>2. Sorts(r, Better(s), DOMAIN s)
  <2> HIDE DEF a
  <2> QED BY <1>1, RankedSorts
<1>3. SUFFICES ASSUME NEW i \in DOMAIN r, NEW j \in 1 .. i - 1,
                      Traits[r[i]].shape >= Traits[r[j]].shape + 10,
                      Said_(r[i]) >= Said_(r[j])
               PROVE  FALSE
  BY Zenon DEF RecencyOnlyBreaksTies
<1> HIDE DEF a, r, s
<1>4. DOMAIN r = 1 .. Len(r) /\ Len(r) \in Nat /\ <<r[j], r[i]>> \in Better(s)
  BY <1>2 DEF Sorts, InOrder
<1>5. r[i] \in DOMAIN s /\ r[j] \in DOMAIN s
  BY <1>4 DEF Better
<1>6. score(r[j], s) >= score(r[i], s)
  <2>1. score(r[j], s) > score(r[i], s) \/ (score(r[j], s) = score(r[i], s) /\ r[j] < r[i])
    BY <1>4 DEF Better
  <2>2. score(r[j], s) \in Int /\ score(r[i], s) \in Int
    BY <1>1, <1>5, ScoreForm DEF s
  <2> QED BY <2>1, <2>2
<1>7. ASSUME NEW u \in DOMAIN s
      PROVE  /\ Traits[u].shape \in Int /\ Said_(u) \in Int
             /\ Standing(u, s) = Traits[u].shape + 2 * (Said_(u) - 5)
  <2>1. u \in Urls /\ s[u] \in Values
    BY <1>1, SievedParts DEF s
  <2>2. Traits[u].shape \in Int
    BY <2>1, SelectionAssumption
  <2>3. s[u].priority \in Declared(Priorities) /\ Priorities \subseteq Int
    BY <2>1, SelectionAssumption DEF Values
  <2>4. s[u].priority # Undefined => s[u].priority \in Int
    BY <2>3 DEF Declared
  <2> QED BY <2>2, <2>4 DEF Standing
<1>8. /\ \A u \in DOMAIN s : score(u, s) \in Int /\ Standing(u, s) \in Int
      /\ \A u \in DOMAIN s : score(u, s) <= Standing(u, s) + 2 /\ Standing(u, s) <= score(u, s) + 2
  BY <1>1, ScoreForm DEF s
<1>9. Standing(r[i], s) >= Standing(r[j], s) + 10
  <2> DEFINE x == Said_(r[i])
             y == Said_(r[j])
             p == Traits[r[i]].shape
             t == Traits[r[j]].shape
  <2>1. /\ p \in Int /\ t \in Int /\ x \in Int /\ y \in Int /\ x >= y /\ p >= t + 10
        /\ Standing(r[i], s) = p + 2 * (x - 5) /\ Standing(r[j], s) = t + 2 * (y - 5)
    BY <1>3, <1>5, <1>7
  <2> HIDE DEF x, y, p, t
  <2>2. p + 2 * (x - 5) >= t + 2 * (y - 5) + 10
    BY <2>1
  <2> QED BY <2>1, <2>2
<1>10. /\ score(r[i], s) \in Int /\ score(r[j], s) \in Int /\ Standing(r[i], s) \in Int /\ Standing(r[j], s) \in Int
       /\ Standing(r[i], s) <= score(r[i], s) + 2 /\ score(r[j], s) <= Standing(r[j], s) + 2
  BY <1>5, <1>8
<1> QED BY <1>6, <1>9, <1>10

LEMMA SwapHarmless ==
  ASSUME NEW found \in Seq(Candidates), NEW i \in 1 .. Len(found) - 1, NEW swapped,
         swapped = [found EXCEPT ![i] = found[i + 1], ![i + 1] = found[i]]
  PROVE  select_urls(swapped) = select_urls(found)
<1> DEFINE n == Len(found)
<1>1. /\ n \in Nat /\ DOMAIN found = 1 .. n /\ i \in 1 .. n /\ i + 1 \in 1 .. n /\ i \in 1 .. n - 1
      /\ found \in [1 .. n -> Candidates] /\ \A k \in 1 .. n : found[k] \in Candidates
  OBVIOUS
<1> HIDE DEF n
<1>2. /\ DOMAIN swapped = 1 .. n /\ swapped[i] = found[i + 1] /\ swapped[i + 1] = found[i]
      /\ \A k \in 1 .. n : k \notin {i, i + 1} => swapped[k] = found[k]
      /\ swapped \in [1 .. n -> Candidates]
  <2> HIDE DEF Candidates
  <2> QED BY <1>1
<1>3. swapped \in Seq(Candidates) /\ Len(swapped) = n
  BY <1>1, <1>2, SeqOfFunction
<1>4. Holds(found, n, Candidates)
  BY <1>1 DEF Holds
<1>5. Exchanged(found, swapped, n, i)
  BY <1>2 DEF Exchanged
<1>6. Commutes(Sieve, Sieved, Candidates)
  <2> SUFFICES ASSUME NEW a \in Sieved, NEW c \in Candidates, NEW d \in Candidates
               PROVE  Sieve[<<Sieve[<<a, c>>], d>>] = Sieve[<<Sieve[<<a, d>>], c>>]
    BY DEF Commutes
  <2>1. After(a, c) \in Sieved /\ After(a, d) \in Sieved
    BY AfterSieved
  <2>2. /\ Sieve[<<a, c>>] = After(a, c) /\ Sieve[<<a, d>>] = After(a, d)
        /\ Sieve[<<After(a, c), d>>] = After(After(a, c), d)
        /\ Sieve[<<After(a, d), c>>] = After(After(a, d), c)
    BY <2>1, SieveType
  <2>3. After(After(a, c), d) = After(After(a, d), c)
    BY TurnsCommute
  <2> QED BY <2>2, <2>3
<1>7. PICK q : Turns(q, Sieved, Sieve, Start, found, n) /\ q[n] = Prefiltered(found)
  BY Sifted DEF n
<1>8. PICK r : Turns(r, Sieved, Sieve, Start, swapped, n) /\ r[n] = Prefiltered(swapped)
  BY <1>3, Sifted
<1>9. q[n] = r[n]
  <2> HIDE DEF Candidates
  <2> QED BY <1>1, <1>4, <1>5, <1>6, <1>7, <1>8, ExchangedTurns
<1> QED BY <1>7, <1>8, <1>9, Zenon DEF select_urls

\* The reconciliation invariant of select_urls, whatever is discovered.
THEOREM SelectionAddsUp == SelectionSpec => []SelectionReconciles
<1>1. ASSUME candidates \in Seq(Candidates) PROVE SelectionReconciles
  <2> DEFINE result == select_urls(candidates)
  <2>1. result \in Picked /\ Spent(result) = Len(candidates)
    BY <1>1, Reconciled
  <2> HIDE DEF result
  <2>2. OneCopyIn(result.selected) /\ (result.dropped["over_limit"] > 0 => Len(result.selected) = Limit)
        /\ Len(candidates) = Len(result.selected) + SumFunction(result.dropped)
    BY <2>1 DEF Picked, Spent
  <2> QED BY <2>2, Zenon DEF SelectionReconciles, OneCopySelected, OneCopyIn, result
<1>2. (candidates \in Seq(Candidates)) => SelectionReconciles
  BY <1>1
<1> QED BY <1>2, CandidatesTyped, PTL

\* The order of discovery makes no difference, and recency only breaks ties.
THEOREM OrderNeverMatters == SelectionSpec => []OrderIndependent
<1>1. ASSUME candidates \in Seq(Candidates) PROVE OrderIndependent
  <2>1. RecencyOnlyBreaksTies
    BY <1>1, Ties
  <2>2. ASSUME NEW i \in 1 .. Len(candidates) - 1, NEW swapped,
               swapped = [candidates EXCEPT ![i] = candidates[i + 1], ![i + 1] = candidates[i]]
        PROVE  select_urls(swapped) = select_urls(candidates)
    BY <1>1, <2>2, SwapHarmless
  <2> QED BY <2>1, <2>2, Zenon DEF OrderIndependent
<1>2. (candidates \in Seq(Candidates)) => OrderIndependent
  BY <1>1
<1> QED BY <1>2, CandidatesTyped, PTL

-----------------------------------------------------------------------------
(* URLs in and out of the text.                                             *)

Chars == STRING \cup {"/"} \cup DOMAIN Escapes \cup Range(Escapes)

\* What a character of a target is read as.
ReadAs(c) == IF c \in Range(Escapes) THEN AntiFunction(Escapes)[c] ELSE c

LEMMA ReadingChars ==
  /\ "/" \in Chars /\ ReadAs("/") = "/"
  /\ \A c \in Chars : /\ ReadAs(c) \in Chars /\ ReadAs(ReadAs(c)) = ReadAs(c)
                      /\ ReadAs(c) = "/" => c = "/"
                      /\ c \notin Range(Escapes) => ReadAs(c) = c
  /\ \A c \in DOMAIN Escapes : Escapes[c] \in Chars /\ ReadAs(Escapes[c]) = ReadAs(c)
<1>1. \A c \in Range(Escapes) : /\ AntiFunction(Escapes)[c] \in DOMAIN Escapes
                                /\ Escapes[AntiFunction(Escapes)[c]] = c
  BY DEF AntiFunction, Inverse, Range
<1>2. \A c \in DOMAIN Escapes : Escapes[c] \in Range(Escapes) /\ c \notin Range(Escapes)
  BY IndexDiffAssumption DEF Range
<1>3. \A c \in DOMAIN Escapes : AntiFunction(Escapes)[Escapes[c]] = c
  BY <1>1, <1>2, IndexDiffAssumption DEF IsInjective
<1>4. "/" \notin DOMAIN Escapes /\ "/" \notin Range(Escapes)
  BY IndexDiffAssumption
<1> QED BY <1>1, <1>2, <1>3, <1>4 DEF ReadAs, Chars

\* The URLs that have something in them.
NonemptyUrls == Seq(Chars) \ {<<>>}

LEMMA Reading ==
  ASSUME NEW u \in NonemptyUrls
  PROVE  /\ _unescape_target(u) \in NonemptyUrls /\ Len(_unescape_target(u)) = Len(u)
         /\ \A i \in 1 .. Len(u) : _unescape_target(u)[i] = ReadAs(u[i])
<1>1. /\ Len(u) \in Nat /\ DOMAIN u = 1 .. Len(u) /\ Len(u) # 0 /\ \A i \in 1 .. Len(u) : u[i] \in Chars
  BY EmptySeq DEF NonemptyUrls
<1>2. DOMAIN AntiFunction(Escapes) = Range(Escapes)
  BY DEF AntiFunction, Inverse
<1>3. _unescape_target(u) = [i \in 1 .. Len(u) |-> ReadAs(u[i])]
  BY <1>1, <1>2 DEF _unescape_target, ReadAs
<1>4. _unescape_target(u) \in [1 .. Len(u) -> Chars]
  BY <1>1, <1>3, ReadingChars
<1>5. _unescape_target(u) \in Seq(Chars) /\ Len(_unescape_target(u)) = Len(u)
  BY <1>1, <1>4, SeqOfFunction
<1> QED BY <1>1, <1>3, <1>5, EmptySeq DEF NonemptyUrls

LEMMA SameUrl ==
  ASSUME NEW u \in NonemptyUrls, NEW v \in NonemptyUrls, Len(u) = Len(v), \A i \in 1 .. Len(u) : u[i] = v[i]
  PROVE  u = v
BY SeqEqual DEF NonemptyUrls

LEMMA Normalizing ==
  ASSUME NEW u \in NonemptyUrls
  PROVE  /\ normalize_url(u) \in NonemptyUrls
         /\ Len(normalize_url(u)) = IF Len(u) > 1 /\ u[Len(u)] = "/" THEN Len(u) - 1 ELSE Len(u)
         /\ \A i \in 1 .. Len(normalize_url(u)) : normalize_url(u)[i] = u[i]
<1>1. /\ Len(u) \in Nat /\ Len(u) # 0 /\ \A i \in 1 .. Len(u) : u[i] \in Chars /\ u \in Seq(Chars)
  BY EmptySeq DEF NonemptyUrls
<1>2. CASE Len(u) > 1 /\ u[Len(u)] = "/"
  <2>1. normalize_url(u) = SubSeq(u, 1, Len(u) - 1)
    BY <1>2 DEF normalize_url, Last, Front
  <2>2. /\ SubSeq(u, 1, Len(u) - 1) \in Seq(Chars) /\ Len(SubSeq(u, 1, Len(u) - 1)) = Len(u) - 1
        /\ \A i \in 1 .. Len(u) - 1 : SubSeq(u, 1, Len(u) - 1)[i] = u[i]
    BY <1>1, <1>2, SubSeqProperties
  <2>3. Len(u) - 1 # 0 /\ Len(u) - 1 >= 1
    BY <1>1, <1>2
  <2>4. normalize_url(u) # <<>> /\ Len(normalize_url(u)) = Len(u) - 1
    BY <2>1, <2>2, <2>3, EmptySeq
  <2>5. \A i \in 1 .. Len(u) - 1 : normalize_url(u)[i] = u[i]
    BY <2>1, <2>2
  <2> QED BY ONLY <1>2, <2>1, <2>2, <2>4, <2>5 DEF NonemptyUrls
<1>3. CASE ~ (Len(u) > 1 /\ u[Len(u)] = "/")
  BY <1>1, <1>3 DEF normalize_url, Last
<1> QED BY <1>2, <1>3

\* A URL may be shortened before or after it is read.
LEMMA ReadingNormalized ==
  ASSUME NEW u \in NonemptyUrls
  PROVE  normalize_url(_unescape_target(u)) = _unescape_target(normalize_url(u))
<1> DEFINE r == _unescape_target(u)
           m == normalize_url(u)
<1>1. r \in NonemptyUrls /\ Len(r) = Len(u) /\ \A i \in 1 .. Len(u) : r[i] = ReadAs(u[i])
  BY Reading
<1>2. /\ m \in NonemptyUrls /\ Len(m) = IF Len(u) > 1 /\ u[Len(u)] = "/" THEN Len(u) - 1 ELSE Len(u)
      /\ \A i \in 1 .. Len(m) : m[i] = u[i]
  BY Normalizing
<1> HIDE DEF r, m
<1>3. /\ normalize_url(r) \in NonemptyUrls
      /\ Len(normalize_url(r)) = IF Len(r) > 1 /\ r[Len(r)] = "/" THEN Len(r) - 1 ELSE Len(r)
      /\ \A i \in 1 .. Len(normalize_url(r)) : normalize_url(r)[i] = r[i]
  BY <1>1, Normalizing
<1>4. /\ _unescape_target(m) \in NonemptyUrls /\ Len(_unescape_target(m)) = Len(m)
      /\ \A i \in 1 .. Len(m) : _unescape_target(m)[i] = ReadAs(m[i])
  BY <1>2, Reading
<1>5. Len(u) \in Nat /\ Len(u) # 0 /\ \A i \in 1 .. Len(u) : u[i] \in Chars
  BY EmptySeq DEF NonemptyUrls
<1>6. r[Len(u)] = "/" <=> u[Len(u)] = "/"
  <2>1. Len(u) \in 1 .. Len(u)
    BY <1>5
  <2> QED BY <1>1, <1>5, <2>1, ReadingChars
<1>7. Len(normalize_url(r)) = Len(m) /\ Len(m) <= Len(u) /\ Len(m) \in Nat
  BY <1>1, <1>2, <1>3, <1>5, <1>6
<1>8. \A i \in 1 .. Len(m) : i \in 1 .. Len(u)
  BY <1>5, <1>7
<1>9. \A i \in 1 .. Len(m) : normalize_url(r)[i] = _unescape_target(m)[i]
  BY <1>1, <1>2, <1>3, <1>4, <1>7, <1>8
<1> QED BY <1>3, <1>4, <1>7, <1>9, SameUrl DEF r, m

\* Reading what is read already changes nothing.
LEMMA ReadTwice ==
  ASSUME NEW u \in NonemptyUrls
  PROVE  _unescape_target(_unescape_target(u)) = _unescape_target(u)
<1> DEFINE r == _unescape_target(u)
<1>1. r \in NonemptyUrls /\ Len(r) = Len(u) /\ \A i \in 1 .. Len(u) : r[i] = ReadAs(u[i])
  BY Reading
<1> HIDE DEF r
<1>2. /\ _unescape_target(r) \in NonemptyUrls /\ Len(_unescape_target(r)) = Len(r)
      /\ \A i \in 1 .. Len(r) : _unescape_target(r)[i] = ReadAs(r[i])
  BY <1>1, Reading
<1>3. \A i \in 1 .. Len(u) : u[i] \in Chars
  BY DEF NonemptyUrls
<1>4. \A i \in 1 .. Len(r) : _unescape_target(r)[i] = r[i]
  BY <1>1, <1>2, <1>3, ReadingChars
<1> QED BY <1>1, <1>2, <1>4, SameUrl DEF r

\* What a listed URL comes back as.
LEMMA EntryKey ==
  ASSUME NEW u \in NonemptyUrls
  PROVE  entry_key(_escape_target(u)) = normalize_url(_unescape_target(u))
<1> DEFINE w == _escape_target(u)
<1>1. /\ u \in Seq(Chars) /\ Len(u) \in Nat /\ DOMAIN u = 1 .. Len(u) /\ Len(u) # 0
      /\ \A i \in 1 .. Len(u) : u[i] \in Chars
  BY EmptySeq DEF NonemptyUrls
<1>2. w = [i \in 1 .. Len(u) |-> IF u[i] \in DOMAIN Escapes THEN Escapes[u[i]] ELSE u[i]]
  BY <1>1 DEF _escape_target
<1>3. w \in [1 .. Len(u) -> Chars]
  BY <1>1, <1>2, ReadingChars
<1>4. \A i \in 1 .. Len(u) : ReadAs(w[i]) = ReadAs(u[i])
  BY <1>1, <1>2, ReadingChars
<1> HIDE DEF w
<1>5. w \in NonemptyUrls /\ Len(w) = Len(u)
  BY <1>1, <1>3, SeqOfFunction, EmptySeq DEF NonemptyUrls
<1>6. /\ _unescape_target(w) \in NonemptyUrls /\ Len(_unescape_target(w)) = Len(u)
      /\ \A i \in 1 .. Len(u) : _unescape_target(w)[i] = ReadAs(u[i])
  BY <1>4, <1>5, Reading
<1>7. _unescape_target(w) = _unescape_target(u)
  BY <1>6, Reading, SameUrl
<1> QED BY <1>7 DEF entry_key, w

-----------------------------------------------------------------------------
(* The index and the hashes of a crawl.                                     *)

LEMMA PageUrls ==
  ASSUME NEW p \in DiffPages
  PROVE  /\ p.url \in NonemptyUrls /\ p.words \in Nat /\ p.body \in Nat /\ p.section \in Nat
         /\ p.url \in Seq(STRING)
<1>1. p.url \in Seq(STRING) /\ p.url # <<>> /\ p.words \in Nat /\ p.body \in Nat /\ p.section \in Nat
  BY IndexDiffAssumption
<1>2. p.url \in Seq(Chars)
  BY <1>1 DEF Chars
<1> QED BY <1>1, <1>2 DEF NonemptyUrls

\* The key of a hash, read, is the key of its page.
LEMMA HashKeyRead ==
  ASSUME NEW p \in DiffPages
  PROVE  PageKey(p) = _unescape_target(normalize_url(p.url))
BY PageUrls, ReadingNormalized DEF PageKey

LEMMA HashKeys ==
  ASSUME NEW p \in DiffPages, NEW q \in DiffPages, normalize_url(p.url) = PageKey(q)
  PROVE  PageKey(p) = PageKey(q)
<1>1. PageKey(p) = _unescape_target(PageKey(q))
  BY HashKeyRead
<1>2. PageKey(q) = _unescape_target(normalize_url(q.url))
  BY HashKeyRead
<1>3. normalize_url(q.url) \in NonemptyUrls
  BY PageUrls, Normalizing
<1> DEFINE m == normalize_url(q.url)
<1> HIDE DEF m
<1>4. _unescape_target(_unescape_target(m)) = _unescape_target(m)
  BY <1>3, ReadTwice DEF m
<1> QED BY ONLY <1>1, <1>2, <1>4 DEF m

LEMMA PlainKeys ==
  ASSUME NEW p \in DiffPages, NoEscape(p.url)
  PROVE  normalize_url(p.url) = PageKey(p)
<1> DEFINE u == p.url
<1>1. u \in NonemptyUrls /\ DOMAIN u = 1 .. Len(u) /\ \A i \in 1 .. Len(u) : u[i] \in Chars
  BY PageUrls DEF NonemptyUrls
<1>2. \A i \in DOMAIN u : u[i] \notin Range(Escapes)
  BY DEF NoEscape, ToSet
<1> HIDE DEF u
<1>3. \A i \in 1 .. Len(u) : ReadAs(u[i]) = u[i]
  BY <1>1, <1>2, ReadingChars
<1>4. _unescape_target(u) = u
  BY <1>1, <1>3, Reading, SameUrl
<1> QED BY <1>4 DEF PageKey, u

Found(found) ==
  /\ found \in Seq(DiffPages) /\ DOMAIN found = 1 .. Len(found) /\ Len(found) \in Nat
  /\ \A i \in DOMAIN found : found[i] \in DiffPages /\ i \in Nat
  /\ IsFiniteSet(Listed(found)) /\ Listed(found) \subseteq DOMAIN found
  /\ IsFiniteSet(Keys(found))

LEMMA FoundPages ==
  ASSUME NEW found \in Seq(DiffPages)
  PROVE  Found(found)
<1>1. /\ DOMAIN found = 1 .. Len(found) /\ Len(found) \in Nat
      /\ \A i \in DOMAIN found : found[i] \in DiffPages /\ i \in Nat
  OBVIOUS
<1>2. Listed(found) \subseteq DOMAIN found
  BY DEF Listed
<1>3. IsFiniteSet(Listed(found))
  <2>1. IsFiniteSet(1 .. Len(found))
    BY <1>1, FS_Interval
  <2> QED BY <1>1, <1>2, <2>1, FS_Subset
<1>4. IsFiniteSet({PageKey(found[i]) : i \in Listed(found)})
  <2> DEFINE f == [i \in Listed(found) |-> PageKey(found[i])]
  <2>1. {PageKey(found[i]) : i \in Listed(found)} = {f[i] : i \in Listed(found)}
    OBVIOUS
  <2> HIDE DEF f
  <2> QED BY <1>3, <2>1, FiniteRange
<1> QED BY <1>1, <1>2, <1>3, <1>4 DEF Found, Keys

\* The entries of the index of a crawl.
EntriesOf(found) == parse_index(generate_index(found))

LEMMA Entries ==
  ASSUME NEW found \in Seq(DiffPages)
  PROVE  /\ DOMAIN EntriesOf(found) = Listed(found)
         /\ \A i \in Listed(found) : /\ EntriesOf(found)[i].key = PageKey(found[i])
                                     /\ EntriesOf(found)[i].section = found[i].section
                                     /\ EntriesOf(found)[i].words = found[i].words
<1>1. Found(found)
  BY FoundPages
<1>2. \A i \in Listed(found) : entry_key(_escape_target(found[i].url)) = PageKey(found[i])
  BY <1>1, PageUrls, EntryKey DEF Found, PageKey
<1>3. EntriesOf(found) = [i \in Listed(found) |->
         [key |-> entry_key(_escape_target(found[i].url)), section |-> found[i].section,
          words |-> found[i].words]]
  BY DEF EntriesOf, parse_index, generate_index, _bullet
<1> QED BY <1>2, <1>3

OnePage(found) ==
  \A i, j \in DOMAIN found : PageKey(found[i]) = PageKey(found[j]) => i = j

LEMMA MaxOfOne == \A i \in Nat : Max({i}) = i
BY DEF Max

LEMMA ByKeys ==
  ASSUME NEW found \in Seq(DiffPages)
  PROVE  /\ DOMAIN ByKey(EntriesOf(found)) = Keys(found)
         /\ OnePage(found) =>
              \A i \in Listed(found) : ByKey(EntriesOf(found))[PageKey(found[i])].words = found[i].words
<1> DEFINE E == EntriesOf(found)
<1>1. /\ DOMAIN E = Listed(found)
      /\ \A i \in Listed(found) : E[i].key = PageKey(found[i]) /\ E[i].words = found[i].words
  BY Entries
<1>2. Found(found)
  BY FoundPages
<1> HIDE DEF E
<1>3. {E[i].key : i \in DOMAIN E} = Keys(found)
  BY <1>1 DEF Keys
<1>4. DOMAIN ByKey(E) = Keys(found) /\ \A k \in Keys(found) : ByKey(E)[k] = E[Max({i \in DOMAIN E : E[i].key = k})]
  BY <1>3 DEF ByKey
<1>5. ASSUME OnePage(found), NEW i \in Listed(found)
      PROVE  ByKey(E)[PageKey(found[i])].words = found[i].words
  <2>1. {j \in DOMAIN E : E[j].key = PageKey(found[i])} = {i}
    BY <1>1, <1>2, <1>5 DEF OnePage, Found
  <2>2. Max({i}) = i
    BY <1>2, MaxOfOne DEF Found
  <2>3. PageKey(found[i]) \in Keys(found)
    BY DEF Keys
  <2> QED BY <1>1, <1>4, <2>1, <2>2, <2>3
<1> QED BY <1>4, <1>5 DEF E

LEMMA Hashes ==
  ASSUME NEW found \in Seq(DiffPages)
  PROVE  /\ OnePage(found) =>
              \A i \in Listed(found) :
                PageKey(found[i]) \in DOMAIN build_content_hashes(found) =>
                  build_content_hashes(found)[PageKey(found[i])] = found[i].body
         /\ \A i \in Listed(found) :
              NoEscape(found[i].url) => PageKey(found[i]) \in DOMAIN build_content_hashes(found)
<1> DEFINE H == build_content_hashes(found)
<1>1. Found(found)
  BY FoundPages
<1>2. H = [k \in {normalize_url(found[i].url) : i \in Hashed(found)} |->
             found[Max({i \in Hashed(found) : normalize_url(found[i].url) = k})].body]
  BY DEF build_content_hashes
<1>3. Hashed(found) \subseteq DOMAIN found /\ Listed(found) \subseteq Hashed(found)
  BY DEF Hashed, Listed
<1>4. ASSUME OnePage(found), NEW i \in Listed(found), PageKey(found[i]) \in DOMAIN H
      PROVE  H[PageKey(found[i])] = found[i].body
  <2>1. PICK j \in Hashed(found) : normalize_url(found[j].url) = PageKey(found[i])
    BY <1>2, <1>4
  <2>2. ASSUME NEW l \in Hashed(found), normalize_url(found[l].url) = PageKey(found[i])
        PROVE  l = i
    <3>1. found[l] \in DiffPages /\ found[i] \in DiffPages /\ l \in DOMAIN found /\ i \in DOMAIN found
      BY <1>1, <1>3 DEF Found
    <3>2. PageKey(found[l]) = PageKey(found[i])
      BY <2>2, <3>1, HashKeys
    <3> QED BY <1>4, <3>1, <3>2 DEF OnePage
  <2>3. {l \in Hashed(found) : normalize_url(found[l].url) = PageKey(found[i])} = {i}
    BY <2>1, <2>2
  <2>4. Max({i}) = i
    BY <1>1, MaxOfOne DEF Found
  <2> QED BY <1>2, <1>4, <2>3, <2>4
<1>5. ASSUME NEW i \in Listed(found), NoEscape(found[i].url)
      PROVE  PageKey(found[i]) \in DOMAIN H
  <2>1. normalize_url(found[i].url) = PageKey(found[i])
    BY <1>1, <1>5, PlainKeys DEF Found
  <2> QED BY <1>2, <1>3, <2>1
<1> QED BY <1>4, <1>5

LEMMA KeysCounted ==
  ASSUME NEW found \in Seq(DiffPages), OnePage(found)
  PROVE  Cardinality(Keys(found)) = Cardinality(Listed(found))
<1> DEFINE f == [i \in Listed(found) |-> PageKey(found[i])]
<1>1. Found(found)
  BY FoundPages
<1>2. f \in Surjection(Listed(found), Keys(found)) /\ IsInjective(f)
  BY <1>1 DEF Surjection, IsInjective, Keys, OnePage, Found
<1>3. f \in Injection(Listed(found), Keys(found))
  BY <1>2 DEF Surjection, Injection
<1> QED BY <1>1, <1>2, <1>3, FS_Surjection DEF Found

-----------------------------------------------------------------------------
(* The two crawls, and what differs.                                        *)

DiffTypeOK ==
  /\ before \in [pages : Seq(DiffPages), enriched : BOOLEAN \cup {Unknown}]
  /\ now \in [pages : Seq(DiffPages), enriched : BOOLEAN]

LEMMA DiffTyped == IndexDiffSpec => []DiffTypeOK
<1>1. IndexDiffInit => DiffTypeOK
  <2>1. <<>> \in Seq(DiffPages)
    OBVIOUS
  <2> QED BY <2>1 DEF IndexDiffInit, DiffTypeOK
<1>2. DiffTypeOK /\ [IndexDiffNext]_diffVars => DiffTypeOK'
  <2> SUFFICES ASSUME DiffTypeOK, [IndexDiffNext]_diffVars PROVE DiffTypeOK'
    OBVIOUS
  <2>1. ASSUME NEW p \in DiffPages, CollectBefore(p)
        PROVE  DiffTypeOK'
    <3>1. Append(before.pages, p) \in Seq(DiffPages)
      BY AppendProperties DEF DiffTypeOK
    <3> QED BY <2>1, <3>1 DEF CollectBefore, DiffTypeOK
  <2>2. ASSUME NEW p \in DiffPages, CollectNow(p)
        PROVE  DiffTypeOK'
    <3>1. Append(now.pages, p) \in Seq(DiffPages)
      BY AppendProperties DEF DiffTypeOK
    <3> QED BY <2>2, <3>1 DEF CollectNow, DiffTypeOK
  <2>3. CASE UNCHANGED diffVars
    BY <2>3 DEF DiffTypeOK, diffVars
  <2> QED BY <2>1, <2>2, <2>3 DEF IndexDiffNext
<1> QED BY <1>1, <1>2, PTL DEF IndexDiffSpec

\* The keys both crawls have whose words, or bodies, differ.
Reworded(cur, past) ==
  {k \in Keys(now.pages) \cap Keys(before.pages) : cur[k].words # past[k].words}
Rewritten(hashes, past_hashes) ==
  {k \in (Keys(now.pages) \cap Keys(before.pages)) \cap DOMAIN hashes \cap DOMAIN past_hashes :
     hashes[k] # past_hashes[k]}

\* What each part of a diff counts.
LEMMA DiffParts ==
  ASSUME DiffTypeOK
  PROVE  /\ diff.pages_added = Cardinality(Keys(now.pages) \ Keys(before.pages))
         /\ diff.pages_removed = Cardinality(Keys(before.pages) \ Keys(now.pages))
         /\ diff.metadata_changed =
              IF mode_changed(now, before) THEN Unknown
              ELSE Cardinality(Reworded(ByKey(EntriesOf(now.pages)), ByKey(EntriesOf(before.pages))))
         /\ diff.content_changed =
              IF before.enriched = Unknown THEN Unknown
              ELSE Cardinality(Rewritten(build_content_hashes(now.pages),
                                         build_content_hashes(before.pages)))
         /\ diff.sections_delta = _sections_delta(EntriesOf(now.pages), EntriesOf(before.pages))
<1>1. /\ DOMAIN ByKey(EntriesOf(now.pages)) = Keys(now.pages)
      /\ DOMAIN ByKey(EntriesOf(before.pages)) = Keys(before.pages)
  BY ByKeys DEF DiffTypeOK
<1> QED BY <1>1 DEF diff, build_index_diff, EntriesOf, Reworded, Rewritten

\* Nothing is counted in an empty set, something in any other.
LEMMA Counted ==
  ASSUME NEW S, IsFiniteSet(S)
  PROVE  Cardinality(S) \in Nat /\ (Cardinality(S) = 0 <=> S = {}) /\ (Cardinality(S) > 0 <=> S # {})
<1>1. Cardinality(S) \in Nat
  BY FS_CardinalityType
<1>2. Cardinality(S) = 0 <=> S = {}
  BY FS_EmptySet
<1> QED BY <1>1, <1>2

\* What the hint says, from what differs.
LEMMA HintOf ==
  ASSUME DiffTypeOK
  PROVE  index_changed(diff) <=>
           \/ Keys(now.pages) # Keys(before.pages)
           \/ /\ ~ mode_changed(now, before)
              /\ Reworded(ByKey(EntriesOf(now.pages)), ByKey(EntriesOf(before.pages))) # {}
           \/ /\ before.enriched # Unknown
              /\ Rewritten(build_content_hashes(now.pages), build_content_hashes(before.pages)) # {}
<1> DEFINE words == Reworded(ByKey(EntriesOf(now.pages)), ByKey(EntriesOf(before.pages)))
           bodies == Rewritten(build_content_hashes(now.pages), build_content_hashes(before.pages))
<1>1. /\ diff.pages_added = Cardinality(Keys(now.pages) \ Keys(before.pages))
      /\ diff.pages_removed = Cardinality(Keys(before.pages) \ Keys(now.pages))
      /\ diff.metadata_changed = IF mode_changed(now, before) THEN Unknown ELSE Cardinality(words)
      /\ diff.content_changed = IF before.enriched = Unknown THEN Unknown ELSE Cardinality(bodies)
  BY DiffParts
<1>2. IsFiniteSet(Keys(now.pages)) /\ IsFiniteSet(Keys(before.pages))
  BY FoundPages DEF DiffTypeOK, Found
<1>3. words \subseteq Keys(now.pages) /\ bodies \subseteq Keys(now.pages)
  BY DEF Reworded, Rewritten
<1> HIDE DEF words, bodies
<1>4. /\ IsFiniteSet(words) /\ IsFiniteSet(bodies)
      /\ IsFiniteSet(Keys(now.pages) \ Keys(before.pages))
      /\ IsFiniteSet(Keys(before.pages) \ Keys(now.pages))
  BY <1>2, <1>3, FS_Subset
<1>5. /\ Cardinality(words) \in Nat /\ (Cardinality(words) = 0 <=> words = {})
      /\ Cardinality(bodies) \in Nat /\ (Cardinality(bodies) = 0 <=> bodies = {})
      /\ Cardinality(Keys(now.pages) \ Keys(before.pages)) > 0 <=> Keys(now.pages) \ Keys(before.pages) # {}
      /\ Cardinality(Keys(before.pages) \ Keys(now.pages)) > 0 <=> Keys(before.pages) \ Keys(now.pages) # {}
  BY <1>4, Counted
<1>6. Unknown \notin Nat
  BY IndexDiffAssumption
<1>7. diff.pages_added > 0 \/ diff.pages_removed > 0 <=> Keys(now.pages) # Keys(before.pages)
  BY <1>1, <1>5
<1>8. diff.metadata_changed \notin {0, Unknown} <=> ~ mode_changed(now, before) /\ words # {}
  BY <1>1, <1>5, <1>6
<1>9. diff.content_changed \notin {0, Unknown} <=> before.enriched # Unknown /\ bodies # {}
  BY <1>1, <1>5, <1>6
<1> QED BY ONLY <1>7, <1>8, <1>9 DEF index_changed, words, bodies

\* A page found by both crawls is reworded, or rewritten, as its two finds differ.
LEMMA KeysListed ==
  ASSUME NEW found
  PROVE  \A k \in Keys(found) : \E i \in Listed(found) : k = PageKey(found[i])
BY DEF Keys

LEMMA ModesFlipped ==
  ASSUME DiffTypeOK
  PROVE  before.enriched = ~ now.enriched => mode_changed(now, before)
<1> SUFFICES ASSUME before.enriched = ~ now.enriched PROVE mode_changed(now, before)
  OBVIOUS
<1>1. now.enriched \in BOOLEAN /\ Unknown \notin BOOLEAN
  BY IndexDiffAssumption DEF DiffTypeOK
<1>2. before.enriched \in BOOLEAN /\ before.enriched # now.enriched
  BY <1>1
<1> QED BY <1>1, <1>2 DEF mode_changed

\* Crawls that differ in words alone.
LEMMA SameButForWords ==
  ASSUME DiffTypeOK,
         [i \in DOMAIN now.pages |-> [now.pages[i] EXCEPT !.words = 0]]
           = [i \in DOMAIN before.pages |-> [before.pages[i] EXCEPT !.words = 0]]
  PROVE  /\ Keys(now.pages) = Keys(before.pages)
         /\ build_content_hashes(now.pages) = build_content_hashes(before.pages)
<1> DEFINE n == now.pages
           b == before.pages
<1>1. Found(n) /\ Found(b)
  BY FoundPages DEF DiffTypeOK
<1>2. DOMAIN n = DOMAIN b
  OBVIOUS
<1>3. \A i \in DOMAIN n : [n[i] EXCEPT !.words = 0] = [b[i] EXCEPT !.words = 0]
  BY <1>2
<1>4. \A i \in DOMAIN n : /\ n[i] \in [url : Seq(STRING), words : Nat, body : Nat, section : Nat]
                          /\ b[i] \in [url : Seq(STRING), words : Nat, body : Nat, section : Nat]
  <2>1. \A i \in DOMAIN n : n[i] \in DiffPages /\ b[i] \in DiffPages
    BY <1>1, <1>2 DEF Found
  <2>2. \A p \in DiffPages : p \in [url : Seq(STRING), words : Nat, body : Nat, section : Nat]
    BY IndexDiffAssumption
  <2> QED BY ONLY <2>1, <2>2
<1> HIDE DEF n, b
<1>5. \A i \in DOMAIN n : n[i].url = b[i].url /\ n[i].body = b[i].body
  BY <1>3, <1>4, ZenonT(30)
<1>6. Listed(n) = Listed(b) /\ Hashed(n) = Hashed(b) /\ Hashed(n) \subseteq DOMAIN n
  <2>1. \A i \in DOMAIN n : \A j \in 1 .. i - 1 : j \in DOMAIN n
    BY <1>1 DEF Found
  <2>2. \A i \in DOMAIN n : (\A j \in 1 .. i - 1 : n[j].body # n[i].body) <=> (\A j \in 1 .. i - 1 : b[j].body # b[i].body)
    BY <1>5, <2>1
  <2> QED BY <1>2, <1>5, <2>2 DEF Listed, Hashed
<1>7. \A i \in DOMAIN n : PageKey(n[i]) = PageKey(b[i])
  BY <1>5 DEF PageKey
<1>8. Keys(n) = Keys(b)
  BY <1>1, <1>6, <1>7 DEF Keys, Found
<1>9. build_content_hashes(n) = build_content_hashes(b)
  <2>1. {normalize_url(n[i].url) : i \in Hashed(n)} = {normalize_url(b[i].url) : i \in Hashed(b)}
    BY <1>5, <1>6
  <2>2. ASSUME NEW k \in {normalize_url(n[i].url) : i \in Hashed(n)}
        PROVE  /\ Max({i \in Hashed(n) : normalize_url(n[i].url) = k})
                    = Max({i \in Hashed(b) : normalize_url(b[i].url) = k})
               /\ Max({i \in Hashed(n) : normalize_url(n[i].url) = k}) \in DOMAIN n
    <3> DEFINE at == {i \in Hashed(n) : normalize_url(n[i].url) = k}
    <3>1. at = {i \in Hashed(b) : normalize_url(b[i].url) = k}
      BY <1>5, <1>6
    <3>2. at # {} /\ at \in SUBSET (1 .. Len(n)) /\ Len(n) \in Nat
      BY <1>1, <1>6 DEF Found
    <3> HIDE DEF at
    <3>3. Max(at) \in at
      BY <3>2, LargestIn
    <3> QED BY <1>1, <3>1, <3>2, <3>3 DEF at, Found
  <2>3. \A k \in {normalize_url(n[i].url) : i \in Hashed(n)} :
           n[Max({i \in Hashed(n) : normalize_url(n[i].url) = k})].body
             = b[Max({i \in Hashed(b) : normalize_url(b[i].url) = k})].body
    BY <1>5, <2>2
  <2> QED BY <2>1, <2>3 DEF build_content_hashes
<1> QED BY <1>8, <1>9 DEF n, b

\* f counts all of W.
CountsAll(f, W, place, D) == Counts(f, W, place, D) /\ W = In(W, place, D)

\* What a difference of two counts adds up to.
LEMMA DifferenceAdds ==
  ASSUME NEW D, NEW f1, NEW W1, NEW place1, CountsAll(f1, W1, place1, D),
         NEW f0, NEW W0, NEW place0, CountsAll(f0, W0, place0, D),
         NEW f \in [D -> Int], \A x \in D : f[x] = f1[x] - f0[x]
  PROVE  SumFunction(f) = Cardinality(W1) - Cardinality(W0)
<1> DEFINE g == [s \in SUBSET D |-> Cardinality(In(W1, place1, s)) - Cardinality(In(W0, place0, s))]
<1>1. /\ IsFiniteSet(D) /\ IsFiniteSet(W1) /\ IsFiniteSet(W0)
      /\ Counts(f1, W1, place1, D) /\ Counts(f0, W0, place0, D)
  BY DEF CountsAll, Counts
<1>2. \A s \in SUBSET D : Cardinality(In(W1, place1, s)) \in Nat /\ Cardinality(In(W0, place0, s)) \in Nat
  <2>1. \A s \in SUBSET D : In(W1, place1, s) \in SUBSET W1 /\ In(W0, place0, s) \in SUBSET W0
    BY DEF In
  <2> QED BY ONLY <1>1, <2>1, FS_Subset, FS_CardinalityType
<1>3. ASSUME NEW x \in D PROVE f1[x] \in Int /\ f0[x] \in Int
  <2> DEFINE A == {r \in W1 : place1[r] = x}
             B == {r \in W0 : place0[r] = x}
  <2>1. f1[x] = Cardinality(A) /\ f0[x] = Cardinality(B)
    BY <1>1 DEF Counts
  <2>2. A \in SUBSET W1 /\ B \in SUBSET W0
    OBVIOUS
  <2> HIDE DEF A, B
  <2>3. Cardinality(A) \in Nat /\ Cardinality(B) \in Nat
    BY ONLY <1>1, <2>2, FS_Subset, FS_CardinalityType
  <2> QED BY ONLY <2>1, <2>3
<1>4. g[{}] = 0
  <2>1. In(W1, place1, {}) = {} /\ In(W0, place0, {}) = {}
    BY DEF In
  <2>2. g[{}] = Cardinality({}) - Cardinality({})
    BY <2>1
  <2> HIDE DEF g
  <2> QED BY <2>2, FS_EmptySet
<1>5. ASSUME NEW s \in SUBSET D, NEW x \in s
      PROVE  g[s] = f[x] + g[s \ {x}]
  <2>1. Cardinality(In(W1, place1, s)) = f1[x] + Cardinality(In(W1, place1, s \ {x}))
    BY <1>1, InOneMore
  <2>2. Cardinality(In(W0, place0, s)) = f0[x] + Cardinality(In(W0, place0, s \ {x}))
    BY <1>1, InOneMore
  <2>3. s \ {x} \in SUBSET D /\ x \in D
    OBVIOUS
  <2>4. /\ g[s] = Cardinality(In(W1, place1, s)) - Cardinality(In(W0, place0, s))
        /\ g[s \ {x}] = Cardinality(In(W1, place1, s \ {x})) - Cardinality(In(W0, place0, s \ {x}))
    BY <2>3
  <2>5. f[x] = f1[x] - f0[x]
    BY <2>3
  <2> HIDE DEF g
  <2> QED BY ONLY <1>2, <1>3, <2>1, <2>2, <2>3, <2>4, <2>5
<1>6. \A s \in SUBSET D : g[s] \in Int
  BY <1>2
<1>7. AddsAny(g, f, D)
  <2> HIDE DEF g
  <2> QED BY <1>4, <1>5, <1>6 DEF AddsAny
<1>8. g[D] = Cardinality(W1) - Cardinality(W0)
  BY DEF CountsAll
<1> HIDE DEF g
<1> QED BY <1>1, <1>7, <1>8, SumBy

LEMMA SectionsAddUp ==
  ASSUME NEW n \in Seq(DiffPages), NEW b \in Seq(DiffPages)
  PROVE  SumFunction(_sections_delta(EntriesOf(n), EntriesOf(b)))
           = Cardinality(Listed(n)) - Cardinality(Listed(b))
<1> DEFINE N == EntriesOf(n)
           B == EntriesOf(b)
           D == {N[i].section : i \in DOMAIN N} \cup {B[i].section : i \in DOMAIN B}
           f1 == [s \in D |-> Cardinality({i \in DOMAIN N : N[i].section = s})]
           f0 == [s \in D |-> Cardinality({i \in DOMAIN B : B[i].section = s})]
           place1 == [i \in DOMAIN N |-> N[i].section]
           place0 == [i \in DOMAIN B |-> B[i].section]
           f == _sections_delta(N, B)
<1>1. IsFiniteSet(DOMAIN N) /\ IsFiniteSet(DOMAIN B)
  BY Entries, FoundPages DEF Found
<1>2. DOMAIN N = Listed(n) /\ DOMAIN B = Listed(b)
  BY Entries
<1>3. f = [s \in D |-> Cardinality({i \in DOMAIN N : N[i].section = s})
                         - Cardinality({i \in DOMAIN B : B[i].section = s})]
  BY DEF _sections_delta
<1> HIDE DEF N, B, f
<1>4. IsFiniteSet(D)
  <2>1. IsFiniteSet({N[i].section : i \in DOMAIN N}) /\ IsFiniteSet({B[i].section : i \in DOMAIN B})
    <3>1. {N[i].section : i \in DOMAIN N} = {place1[i] : i \in DOMAIN N}
      OBVIOUS
    <3>2. {B[i].section : i \in DOMAIN B} = {place0[i] : i \in DOMAIN B}
      OBVIOUS
    <3> HIDE DEF place1, place0
    <3>3. IsFiniteSet({place1[i] : i \in DOMAIN N})
      BY <1>1, FiniteRange
    <3>4. IsFiniteSet({place0[i] : i \in DOMAIN B})
      BY <1>1, FiniteRange
    <3> QED BY ONLY <3>1, <3>2, <3>3, <3>4
  <2> QED BY <2>1, FS_Union
<1>5. \A i \in DOMAIN N : place1[i] = N[i].section /\ place1[i] \in D
  OBVIOUS
<1>6. \A i \in DOMAIN B : place0[i] = B[i].section /\ place0[i] \in D
  OBVIOUS
<1>7. \A s \in D : /\ f1[s] = Cardinality({i \in DOMAIN N : N[i].section = s})
                   /\ f0[s] = Cardinality({i \in DOMAIN B : B[i].section = s})
                   /\ f[s] = f1[s] - f0[s]
  BY <1>3
<1>8. \A s \in D : f1[s] \in Nat /\ f0[s] \in Nat
  <2>1. \A s \in D : /\ {i \in DOMAIN N : N[i].section = s} \in SUBSET DOMAIN N
                     /\ {i \in DOMAIN B : B[i].section = s} \in SUBSET DOMAIN B
    OBVIOUS
  <2> QED BY ONLY <1>1, <1>7, <2>1, FS_Subset, FS_CardinalityType
<1>9. DOMAIN f = D /\ f = [s \in D |-> f[s]]
  BY <1>3
<1> HIDE DEF D, f1, f0, place1, place0
<1>10. f \in [D -> Int]
  <2>1. ASSUME NEW s \in D PROVE f[s] \in Int
    <3>1. f[s] = f1[s] - f0[s] /\ f1[s] \in Nat /\ f0[s] \in Nat
      BY <1>7, <1>8
    <3> QED BY ONLY <3>1
  <2> QED BY ONLY <1>9, <2>1
<1>11. CountsAll(f1, DOMAIN N, place1, D)
  <2>1. \A s \in D : {i \in DOMAIN N : N[i].section = s} = {i \in DOMAIN N : place1[i] = s}
    BY <1>5
  <2> QED BY <1>1, <1>4, <1>5, <1>7, <2>1 DEF CountsAll, Counts, In
<1>12. CountsAll(f0, DOMAIN B, place0, D)
  <2>1. \A s \in D : {i \in DOMAIN B : B[i].section = s} = {i \in DOMAIN B : place0[i] = s}
    BY <1>6
  <2> QED BY <1>1, <1>4, <1>6, <1>7, <2>1 DEF CountsAll, Counts, In
<1>13. SumFunction(f) = Cardinality(DOMAIN N) - Cardinality(DOMAIN B)
  <2>1. \A s \in D : f[s] = f1[s] - f0[s]
    BY <1>7
  <2> DEFINE W1 == DOMAIN N
             W0 == DOMAIN B
  <2>2. CountsAll(f1, W1, place1, D) /\ CountsAll(f0, W0, place0, D)
    BY <1>11, <1>12
  <2> HIDE DEF W1, W0
  <2>3. SumFunction(f) = Cardinality(W1) - Cardinality(W0)
    BY ONLY <1>10, <2>1, <2>2, DifferenceAdds
  <2> QED BY <2>3 DEF W1, W0
<1> QED BY <1>2, <1>13 DEF f, N, B

\* Where each page has a key of its own there are as many keys as entries.
LEMMA DeltasAddUp ==
  ASSUME DiffTypeOK, OnePage(now.pages), OnePage(before.pages)
  PROVE  SumFunction(diff.sections_delta) = diff.pages_added - diff.pages_removed
<1> DEFINE K == Keys(now.pages)
           L == Keys(before.pages)
<1>1. IsFiniteSet(K) /\ IsFiniteSet(L)
  BY FoundPages DEF DiffTypeOK, Found
<1>2. /\ Cardinality(K) = Cardinality(Listed(now.pages))
      /\ Cardinality(L) = Cardinality(Listed(before.pages))
  BY KeysCounted DEF DiffTypeOK
<1>3. SumFunction(diff.sections_delta)
        = Cardinality(Listed(now.pages)) - Cardinality(Listed(before.pages))
  BY DiffParts, SectionsAddUp DEF DiffTypeOK
<1>4. diff.pages_added = Cardinality(K \ L) /\ diff.pages_removed = Cardinality(L \ K)
  BY DiffParts
<1> HIDE DEF K, L
<1>5. /\ Cardinality(K \ L) = Cardinality(K) - Cardinality(K \cap L)
      /\ Cardinality(L \ K) = Cardinality(L) - Cardinality(L \cap K)
  BY <1>1, FS_Difference
<1>6. Cardinality(L \cap K) = Cardinality(K \cap L) /\ IsFiniteSet(K \cap L)
  <2>1. L \cap K = K \cap L
    OBVIOUS
  <2> QED BY <1>1, <2>1, FS_Intersection
<1>7. Cardinality(K) \in Nat /\ Cardinality(L) \in Nat /\ Cardinality(K \cap L) \in Nat
  BY <1>1, <1>6, FS_CardinalityType
<1> QED BY ONLY <1>2, <1>3, <1>4, <1>5, <1>6, <1>7

LEMMA PagesOfKeys ==
  ASSUME DiffTypeOK, OnePagePerKey
  PROVE  /\ OnePage(now.pages) /\ OnePage(before.pages)
         /\ Listed(now.pages) \subseteq DOMAIN now.pages
         /\ Listed(before.pages) \subseteq DOMAIN before.pages
BY DEF OnePagePerKey, OnePage, Listed

\* What a key both crawls have is reworded or rewritten by.
LEMMA Differing ==
  ASSUME DiffTypeOK, OnePagePerKey, NEW i \in Listed(now.pages), NEW j \in Listed(before.pages),
         PageKey(now.pages[i]) = PageKey(before.pages[j])
  PROVE  /\ PageKey(now.pages[i]) \in Reworded(ByKey(EntriesOf(now.pages)), ByKey(EntriesOf(before.pages)))
              <=> now.pages[i].words # before.pages[j].words
         /\ PageKey(now.pages[i]) \in Rewritten(build_content_hashes(now.pages),
                                                build_content_hashes(before.pages))
              => now.pages[i].body # before.pages[j].body
         /\ NoEscape(now.pages[i].url) /\ NoEscape(before.pages[j].url) =>
              (now.pages[i].body # before.pages[j].body =>
                 PageKey(now.pages[i]) \in Rewritten(build_content_hashes(now.pages),
                                                     build_content_hashes(before.pages)))
<1> DEFINE k == PageKey(now.pages[i])
           cur == ByKey(EntriesOf(now.pages))
           past == ByKey(EntriesOf(before.pages))
           hashes == build_content_hashes(now.pages)
           past_hashes == build_content_hashes(before.pages)
<1>1. now.pages \in Seq(DiffPages) /\ before.pages \in Seq(DiffPages)
  BY DEF DiffTypeOK
<1>2. OnePage(now.pages) /\ OnePage(before.pages)
  BY PagesOfKeys
<1>3. k \in Keys(now.pages) /\ k \in Keys(before.pages)
  BY DEF Keys
<1>4. cur[k].words = now.pages[i].words
  BY <1>1, <1>2, ByKeys
<1>5. past[k].words = before.pages[j].words
  BY <1>1, <1>2, ByKeys
<1>6. /\ k \in DOMAIN hashes => hashes[k] = now.pages[i].body
      /\ NoEscape(now.pages[i].url) => k \in DOMAIN hashes
  BY <1>1, <1>2, Hashes
<1>7. /\ k \in DOMAIN past_hashes => past_hashes[k] = before.pages[j].body
      /\ NoEscape(before.pages[j].url) => k \in DOMAIN past_hashes
  BY <1>1, <1>2, Hashes
<1>8. k \in Reworded(cur, past) <=> cur[k].words # past[k].words
  BY <1>3 DEF Reworded
<1>9. k \in Rewritten(hashes, past_hashes)
        <=> k \in DOMAIN hashes /\ k \in DOMAIN past_hashes /\ hashes[k] # past_hashes[k]
  BY <1>3 DEF Rewritten
<1> HIDE DEF k, cur, past, hashes, past_hashes
<1>10. k \in Reworded(cur, past) <=> now.pages[i].words # before.pages[j].words
  BY <1>4, <1>5, <1>8
<1>11. k \in Rewritten(hashes, past_hashes) => now.pages[i].body # before.pages[j].body
  BY <1>6, <1>7, <1>9
<1>12. NoEscape(now.pages[i].url) /\ NoEscape(before.pages[j].url) =>
         (now.pages[i].body # before.pages[j].body => k \in Rewritten(hashes, past_hashes))
  BY <1>6, <1>7, <1>9
<1> QED BY <1>10, <1>11, <1>12 DEF k, cur, past, hashes, past_hashes

\* Where keys, words and bodies are the same there is nothing of either.
LEMMA NothingDiffers ==
  ASSUME DiffTypeOK, OnePagePerKey, Contents(now.pages) = Contents(before.pages)
  PROVE  ~ index_changed(diff)
<1> DEFINE n == now.pages
           b == before.pages
           words == Reworded(ByKey(EntriesOf(n)), ByKey(EntriesOf(b)))
           bodies == Rewritten(build_content_hashes(n), build_content_hashes(b))
<1>1. \A i \in Listed(n) : \E j \in Listed(b) :
        PageKey(n[i]) = PageKey(b[j]) /\ n[i].words = b[j].words /\ n[i].body = b[j].body
  <2> SUFFICES ASSUME NEW i \in Listed(n)
               PROVE  \E j \in Listed(b) :
                        PageKey(n[i]) = PageKey(b[j]) /\ n[i].words = b[j].words /\ n[i].body = b[j].body
    OBVIOUS
  <2>1. [key |-> PageKey(n[i]), words |-> n[i].words, body |-> n[i].body] \in Contents(b)
    BY DEF Contents
  <2> QED BY <2>1 DEF Contents
<1>2. \A j \in Listed(b) : \E i \in Listed(n) : PageKey(b[j]) = PageKey(n[i])
  <2> SUFFICES ASSUME NEW j \in Listed(b)
               PROVE  \E i \in Listed(n) : PageKey(b[j]) = PageKey(n[i])
    OBVIOUS
  <2>1. [key |-> PageKey(b[j]), words |-> b[j].words, body |-> b[j].body] \in Contents(n)
    BY DEF Contents
  <2> QED BY <2>1 DEF Contents
<1>3. Keys(n) = Keys(b)
  BY <1>1, <1>2 DEF Keys
<1>4. ASSUME NEW k \in Keys(n)
      PROVE  k \notin words /\ k \notin bodies
  <2>1. PICK i \in Listed(n) : k = PageKey(n[i])
    BY KeysListed
  <2>2. PICK j \in Listed(b) :
          PageKey(n[i]) = PageKey(b[j]) /\ n[i].words = b[j].words /\ n[i].body = b[j].body
    BY <1>1
  <2>3. /\ PageKey(n[i]) \in words <=> n[i].words # b[j].words
        /\ PageKey(n[i]) \in bodies => n[i].body # b[j].body
    BY <2>2, Differing
  <2> QED BY <2>1, <2>2, <2>3
<1>5. words \subseteq Keys(n) /\ bodies \subseteq Keys(n)
  BY DEF Reworded, Rewritten
<1>6. words = {} /\ bodies = {}
  BY <1>4, <1>5
<1> QED BY <1>3, <1>6, HintOf

LEMMA FlipSaysNothing ==
  ASSUME DiffTypeOK
  PROVE  ModeFlipQuiet
<1> SUFFICES ASSUME OnePagePerKey, before.enriched = ~ now.enriched,
                    [i \in DOMAIN now.pages |-> [now.pages[i] EXCEPT !.words = 0]]
                      = [i \in DOMAIN before.pages |-> [before.pages[i] EXCEPT !.words = 0]]
             PROVE  diff.metadata_changed = Unknown /\ ~ index_changed(diff)
  BY DEF ModeFlipQuiet
<1>1. /\ Keys(now.pages) = Keys(before.pages)
      /\ build_content_hashes(now.pages) = build_content_hashes(before.pages)
  BY SameButForWords
<1>2. mode_changed(now, before)
  BY ModesFlipped
<1>3. diff.metadata_changed = Unknown
  BY <1>2, DiffParts
<1>4. Rewritten(build_content_hashes(now.pages), build_content_hashes(before.pages)) = {}
  BY <1>1 DEF Rewritten
<1> QED BY <1>1, <1>2, <1>3, <1>4, HintOf

LEMMA DifferenceSeen ==
  ASSUME DiffTypeOK, OnePagePerKey,
         NEW i \in Listed(before.pages), NEW j \in Listed(now.pages),
         PageKey(before.pages[i]) = PageKey(now.pages[j]),
         \/ before.pages[i].words # now.pages[j].words /\ ~ mode_changed(now, before)
         \/ /\ before.pages[i].body # now.pages[j].body /\ before.enriched # Unknown
            /\ NoEscape(before.pages[i].url) /\ NoEscape(now.pages[j].url)
  PROVE  index_changed(diff)
<1> DEFINE k == PageKey(now.pages[j])
           words == Reworded(ByKey(EntriesOf(now.pages)), ByKey(EntriesOf(before.pages)))
           bodies == Rewritten(build_content_hashes(now.pages), build_content_hashes(before.pages))
<1>1. /\ k \in words <=> now.pages[j].words # before.pages[i].words
      /\ NoEscape(now.pages[j].url) /\ NoEscape(before.pages[i].url) =>
           (now.pages[j].body # before.pages[i].body => k \in bodies)
  BY Differing
<1>2. CASE before.pages[i].words # now.pages[j].words /\ ~ mode_changed(now, before)
  <2>1. words # {}
    BY <1>1, <1>2
  <2> QED BY <1>2, <2>1, HintOf
<1>3. CASE /\ before.pages[i].body # now.pages[j].body /\ before.enriched # Unknown
           /\ NoEscape(before.pages[i].url) /\ NoEscape(now.pages[j].url)
  <2>1. bodies # {}
    BY <1>1, <1>3
  <2> QED BY <1>3, <2>1, HintOf
<1> QED BY <1>2, <1>3

\* Whatever two crawls come back with, in whatever order and with whatever sections:
\* where nothing a reader sees has changed, nothing is reported.
THEOREM UnchangedNeverReported == IndexDiffSpec => []UnchangedIsQuiet
<1>1. DiffTypeOK => UnchangedIsQuiet
  BY NothingDiffers, FlipSaysNothing DEF UnchangedIsQuiet
<1> QED BY <1>1, DiffTyped, PTL

\* And what has changed is, as far as the record of the run before can tell; and the
\* block adds up.
THEOREM ChangeAlwaysSeen == IndexDiffSpec => []ChangeIsSeen
<1>1. DiffTypeOK => DeltasAgree
  BY PagesOfKeys, DeltasAddUp DEF DeltasAgree
<1>2. DiffTypeOK => ChangeIsSeen
  <2> SUFFICES ASSUME DiffTypeOK, OnePagePerKey,
                      \/ Keys(before.pages) # Keys(now.pages)
                      \/ \E i \in Listed(before.pages), j \in Listed(now.pages) :
                           /\ PageKey(before.pages[i]) = PageKey(now.pages[j])
                           /\ \/ before.pages[i].words # now.pages[j].words /\ ~ mode_changed(now, before)
                              \/ /\ before.pages[i].body # now.pages[j].body /\ before.enriched # Unknown
                                 /\ NoEscape(before.pages[i].url) /\ NoEscape(now.pages[j].url)
               PROVE  index_changed(diff)
    BY <1>1 DEF ChangeIsSeen
  <2>1. CASE Keys(before.pages) # Keys(now.pages)
    BY <2>1, HintOf
  <2> QED BY <2>1, DifferenceSeen
<1> QED BY <1>2, DiffTyped, PTL
=============================================================================
