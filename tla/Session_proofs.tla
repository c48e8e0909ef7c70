--------------------------- MODULE Session_proofs ---------------------------
(***************************************************************************)
(* Proofs about Session, for every script, request and call of su.         *)
(***************************************************************************)
EXTENDS Session, TLAPS, FiniteSetTheorems, SequenceTheorems, WellFoundedInduction

---------------------------------------------------------------------------
(* Induction.                                                              *)

\* Every set of natural numbers that is not empty has a least member: what is true of all
\* numbers is proved by looking at the least one of which it is not.
LEMMA Least ==
  ASSUME NEW T, T \subseteq Nat, T # {}
  PROVE  \E x \in T : \A y \in T : x <= y
<1> DEFINE R == StrictSubsetOrdering(Nat)
           S == FiniteSubsetsOf(Nat)
           U == {0..x : x \in T}
<1>1. IsWellFoundedOn(R, S)
  BY FS_StrictSubsetOrderingWellFounded
<1>2. U \subseteq S
  <2>1. \A x \in Nat : IsFiniteSet(0..x)
    BY FS_Interval
  <2>2. QED
    BY <2>1 DEF FiniteSubsetsOf
<1>3. U # {}
  OBVIOUS
<1>4. \A x, y \in Nat : y < x => <<0..y, 0..x>> \in R
  <2> TAKE x, y \in Nat
  <2> HAVE y < x
  <2>1. 0..y \subseteq 0..x /\ x \in 0..x /\ x \notin 0..y
    OBVIOUS
  <2>2. 0..y \in SUBSET Nat /\ 0..x \in SUBSET Nat
    OBVIOUS
  <2>3. QED
    BY <2>1, <2>2 DEF StrictSubsetOrdering
<1> HIDE DEF R, S
<1>5. \E u \in U : \A v \in U : ~ (<<v, u>> \in R)
  <2> HIDE DEF U
  <2>1. QED
    BY <1>1, <1>2, <1>3, WFMin
<1>6. PICK x \in T : \A y \in T : ~ (<<0..y, 0..x>> \in R)
  BY <1>5
<1>7. \A y \in T : x <= y
  <2> TAKE y \in T
  <2>1. x \in Nat /\ y \in Nat
    OBVIOUS
  <2>2. ~ (y < x)
    BY <1>4, <1>6, <2>1
  <2>3. QED
    BY <2>1, <2>2
<1>8. QED
  BY <1>7

---------------------------------------------------------------------------
(* The C library.                                                          *)

\* The place that Find looks for exists: at the latest the end of the string.
LEMMA FindPlace ==
  ASSUME NEW S, NEW l \in Seq(S), NEW i \in 1..(Len(l) + 1), NEW cells
  PROVE  /\ Find(l, i, cells) \in i..(Len(l) + 1)
         /\ Cell(l, Find(l, i, cells)) \in cells \cup {NUL}
         /\ \A k \in i..(Find(l, i, cells) - 1) : Cell(l, k) \notin cells \cup {NUL}
<1> DEFINE T == {j \in i..(Len(l) + 1) : Cell(l, j) \in cells \cup {NUL}}
<1>1. Len(l) + 1 \in T
  BY DEF Cell
<1>2. T \subseteq Nat
  OBVIOUS
<1>3. PICK x \in T : \A y \in T : x <= y
  <2> HIDE DEF T
  <2>1. QED
    BY <1>1, <1>2, Least
<1>4. \A k \in i..(x - 1) : Cell(l, k) \notin cells \cup {NUL}
  <2> TAKE k \in i..(x - 1)
  <2>1. k \in i..(Len(l) + 1) /\ ~ (x <= k)
    OBVIOUS
  <2>2. k \notin T
    BY <1>3, <2>1
  <2>3. QED
    BY <2>1, <2>2
<1>5. /\ x \in i..(Len(l) + 1)
      /\ Cell(l, x) \in cells \cup {NUL} /\ \A k \in i..(x - 1) : Cell(l, k) \notin cells \cup {NUL}
  BY <1>4
<1>6. QED
  BY <1>5 DEF Find

\* So does the place that Skip looks for, as no zero is skipped.
LEMMA SkipPlace ==
  ASSUME NEW S, NEW l \in Seq(S), NEW i \in 1..(Len(l) + 1), NEW cells, NUL \notin cells
  PROVE  /\ Skip(l, i, cells) \in i..(Len(l) + 1)
         /\ Cell(l, Skip(l, i, cells)) \notin cells
         /\ \A k \in i..(Skip(l, i, cells) - 1) : Cell(l, k) \in cells
<1> DEFINE T == {j \in i..(Len(l) + 1) : Cell(l, j) \notin cells}
<1>1. Len(l) + 1 \in T
  BY DEF Cell
<1>2. T \subseteq Nat
  OBVIOUS
<1>3. PICK x \in T : \A y \in T : x <= y
  <2> HIDE DEF T
  <2>1. QED
    BY <1>1, <1>2, Least
<1>4. \A k \in i..(x - 1) : Cell(l, k) \in cells
  <2> TAKE k \in i..(x - 1)
  <2>1. k \in i..(Len(l) + 1) /\ ~ (x <= k)
    OBVIOUS
  <2>2. k \notin T
    BY <1>3, <2>1
  <2>3. QED
    BY <2>1, <2>2
<1>5. /\ x \in i..(Len(l) + 1)
      /\ Cell(l, x) \notin cells /\ \A k \in i..(x - 1) : Cell(l, k) \in cells
  BY <1>4
<1>6. QED
  BY <1>5 DEF Skip

\* A zero changes neither the length of a line nor what lies elsewhere.
LEMMA ZeroType ==
  ASSUME NEW S, NEW l \in Seq(S), NEW i \in Nat \ {0}, NUL \in S
  PROVE  /\ Zero(l, i) \in Seq(S) /\ Len(Zero(l, i)) = Len(l)
         /\ \A j \in 1..Len(l) : Zero(l, i)[j] = IF j = i THEN NUL ELSE l[j]
<1>1. CASE i <= Len(l)
  <2>1. Zero(l, i) = [j \in 1..Len(l) |-> IF j = i THEN NUL ELSE l[j]]
    BY <1>1 DEF Zero
  <2>2. \A j \in 1..Len(l) : (IF j = i THEN NUL ELSE l[j]) \in S
    OBVIOUS
  <2>3. QED
    BY <2>1, <2>2
<1>2. CASE ~ (i <= Len(l))
  BY <1>2 DEF Zero
<1>3. QED
  BY <1>1, <1>2

\* A sequence over any set is one.
LEMMA Sequences == ASSUME NEW S, NEW s \in Seq(S) PROVE IsSequence(s)
<1>1. \A i \in 1..Len(s) : s[i] \in Range(s)
  BY DEF Range
<1>2. QED
  BY <1>1 DEF IsSequence

\* strtok leaves a line of the same length and a place in it, which is behind the token if
\* one is found; up to that place it may have written a zero, and beyond it nothing.
LEMMA TokenPlace ==
  ASSUME NEW S, NEW l \in Seq(S), NUL \in S, NEW i \in 1..(Len(l) + 1), NEW d, NUL \notin d
  PROVE  LET t == strtok(l, i, d)
         IN  /\ t.line \in Seq(S) /\ Len(t.line) = Len(l)
             /\ t.at \in i..(Len(l) + 1) /\ t.save \in t.at..(Len(l) + 1)
             /\ t.found \in BOOLEAN /\ t.text \in Seq(S)
             /\ t.found => /\ t.at <= Len(l) /\ t.at < t.save
                          /\ Len(t.text) > 0 /\ t.text[1] = l[t.at]
                          /\ l[t.at] # NUL
             /\ \A j \in t.save..Len(l) : t.line[j] = l[j]
<1> DEFINE start == Skip(l, i, d)
           end   == Find(l, start, d)
<1>1. /\ start \in i..(Len(l) + 1) /\ Cell(l, start) \notin d
      /\ \A k \in i..(start - 1) : Cell(l, k) \in d
  BY SkipPlace
<1>2. start \in 1..(Len(l) + 1)
  BY <1>1
<1> HIDE DEF start
<1>3. /\ end \in start..(Len(l) + 1) /\ Cell(l, end) \in d \cup {NUL}
      /\ \A k \in start..(end - 1) : Cell(l, k) \notin d \cup {NUL}
  BY <1>2, FindPlace
<1> HIDE DEF end
<1> DEFINE t == strtok(l, i, d)
<1>4. /\ t.found = (Cell(l, start) # NUL) /\ t.at = start /\ t.text = SubSeq(l, start, end - 1)
      /\ t.line = Zero(l, end) /\ t.save = IF Cell(l, end) = NUL THEN end ELSE end + 1
  BY DEF strtok, start, end
<1> HIDE DEF t
<1>5. /\ Zero(l, end) \in Seq(S) /\ Len(Zero(l, end)) = Len(l)
      /\ \A j \in 1..Len(l) : Zero(l, end)[j] = IF j = end THEN NUL ELSE l[j]
  BY <1>2, <1>3, ZeroType, SMTT(30)
<1>6. end = Len(l) + 1 => Cell(l, end) = NUL
  BY DEF Cell
<1>7. t.save \in end..(Len(l) + 1) /\ (Cell(l, end) # NUL => t.save = end + 1)
  BY <1>2, <1>3, <1>4, <1>6
<1>8. ASSUME t.found
      PROVE  /\ start <= Len(l) /\ start < end
             /\ t.text \in Seq(S) /\ Len(t.text) > 0 /\ t.text[1] = l[start]
             /\ l[start] # NUL
  <2>1. Cell(l, start) # NUL
    BY <1>4, <1>8
  <2>2. start <= Len(l)
    BY <1>2, <2>1 DEF Cell
  <2>3. start # end
    BY <1>1, <1>3, <2>1
  <2>4. start < end
    BY <1>2, <1>3, <2>3
  <2>5. /\ SubSeq(l, start, end - 1) \in Seq(S) /\ Len(SubSeq(l, start, end - 1)) = end - start
        /\ SubSeq(l, start, end - 1)[1] = l[start]
    BY <1>2, <1>3, <2>2, <2>4
  <2>6. l[start] # NUL
    BY <2>1, <2>2 DEF Cell
  <2>7. QED
    BY <1>2, <1>3, <1>4, <2>2, <2>4, <2>5, <2>6
<1>11. t.text \in Seq(S)
  <2>1. \A k \in start..(end - 1) : k \in 1..Len(l)
    BY <1>2, <1>3
  <2>2. \A k \in start..(end - 1) : l[k] \in S
    BY <2>1
  <2>3. start \in Int /\ end - 1 \in Int
    BY <1>2, <1>3
  <2>4. SubSeq(l, start, end - 1) \in Seq(S)
    BY <2>2, <2>3, SubSeqProperties
  <2>5. QED
    BY <1>4, <2>4
<1>9. \A j \in t.save..Len(l) : t.line[j] = l[j]
  <2> TAKE j \in t.save..Len(l)
  <2>1. j \in 1..Len(l)
    BY <1>2, <1>3, <1>7
  <2>2. CASE j = end
    <3>1. Cell(l, end) = NUL
      BY <1>2, <1>3, <1>7, <2>2
    <3>2. l[j] = NUL
      BY <2>1, <2>2, <3>1 DEF Cell
    <3>3. QED
      BY <1>4, <1>5, <2>1, <2>2, <3>2
  <2>3. CASE j # end
    BY <1>4, <1>5, <2>1, <2>3
  <2>4. QED
    BY <2>2, <2>3
<1>10. QED
  <2>1. t.at \in i..(Len(l) + 1) /\ t.save \in t.at..(Len(l) + 1)
    BY <1>1, <1>2, <1>3, <1>4, <1>7
  <2>2. t.found => t.at <= Len(l) /\ t.at < t.save
    BY <1>2, <1>3, <1>4, <1>7, <1>8
  <2>3. t.found \in BOOLEAN
    BY <1>4
  <2>4. QED
    BY <1>4, <1>5, <1>8, <1>9, <1>11, <2>1, <2>2, <2>3 DEF t

---------------------------------------------------------------------------
(* Recursive functions.                                                    *)

\* A step from each place to the next determines a function.
LEMMA Recursion ==
  ASSUME NEW V
  PROVE  \A a \in V, N \in Nat : \A G \in [1..N -> [V -> V]] :
           \E f \in [0..N -> V] : f[0] = a /\ \A i \in 1..N : f[i] = G[i][f[i - 1]]
<1> TAKE a \in V, N \in Nat
<1> TAKE G \in [1..N -> [V -> V]]
<1> DEFINE P(n) == \E f \in [0..n -> V] : f[0] = a /\ \A i \in 1..n : f[i] = G[i][f[i - 1]]
           T    == {n \in 0..N : ~ P(n)}
<1>1. ASSUME T # {} PROVE FALSE
  <2>1. T \subseteq Nat
    OBVIOUS
  <2>2. PICK x \in T : \A y \in T : x <= y
    <3> HIDE DEF T
    <3>1. QED
      BY <1>1, <2>1, Least
  <2>3. x \in 0..N /\ ~ P(x)
    OBVIOUS
  <2>4. x # 0
    <3>1. LET f == [k \in 0..0 |-> a]
          IN  f \in [0..0 -> V] /\ f[0] = a /\ \A i \in 1..0 : f[i] = G[i][f[i - 1]]
      OBVIOUS
    <3>2. P(0)
      BY <3>1
    <3>3. QED
      BY <2>3, <3>2
  <2>5. P(x - 1)
    <3>1. x - 1 \in 0..N /\ ~ (x <= x - 1)
      BY <2>3, <2>4
    <3>2. x - 1 \notin T
      BY <2>2, <3>1
    <3>3. QED
      BY <3>1, <3>2
  <2>6. PICK f \in [0..(x - 1) -> V] : f[0] = a /\ \A i \in 1..(x - 1) : f[i] = G[i][f[i - 1]]
    BY <2>5
  <2> DEFINE g == [k \in 0..x |-> IF k = x THEN G[x][f[x - 1]] ELSE f[k]]
  <2>7. x \in 1..N /\ G[x] \in [V -> V] /\ f[x - 1] \in V
    BY <2>3, <2>4
  <2>8. g \in [0..x -> V]
    <3>1. \A k \in 0..x : k = x \/ k \in 0..(x - 1)
      BY <2>7
    <3>2. QED
      BY <2>7, <3>1
  <2>9. \A k \in 0..(x - 1) : g[k] = f[k]
    BY <2>7
  <2>10. g[0] = a
    BY <2>6, <2>7, <2>9
  <2>11. g[x] = G[x][g[x - 1]]
    BY <2>7, <2>9
  <2>12. \A i \in 1..x : g[i] = G[i][g[i - 1]]
    <3> HIDE DEF g
    <3> TAKE i \in 1..x
    <3>1. CASE i = x
      BY <2>11, <3>1
    <3>2. CASE i # x
      <4>1. i \in 1..(x - 1) /\ i \in 0..(x - 1) /\ i - 1 \in 0..(x - 1)
        BY <2>7, <3>2
      <4>2. QED
        BY <2>6, <2>9, <4>1
    <3>3. QED
      BY <3>1, <3>2
  <2>13. P(x)
    <3> HIDE DEF g
    <3>1. QED
      BY <2>8, <2>10, <2>12
  <2>14. QED
    BY <2>3, <2>13
<1>2. P(N)
  BY <1>1
<1>3. QED
  BY <1>2

\* FlattenSeq puts one sequence after the other.
LEMMA FlattenSteps ==
  ASSUME NEW S, NEW seqs \in Seq(Seq(S))
  PROVE  \E f \in [0..Len(seqs) -> Seq(S)] :
           /\ f[0] = << >> /\ f[Len(seqs)] = FlattenSeq(seqs)
           /\ \A i \in 1..Len(seqs) : f[i] = f[i - 1] \o seqs[i]
<1> DEFINE N == Len(seqs)
           V == Seq(S)
           G == [i \in 1..N |-> [v \in V |-> v \o seqs[i]]]
           none == << >>
<1>1. N \in Nat /\ none \in V
  OBVIOUS
<1>2. G \in [1..N -> [V -> V]]
  OBVIOUS
<1> HIDE DEF G, V, N, none
<1>3. \E f \in [0..N -> V] : f[0] = none /\ \A i \in 1..N : f[i] = G[i][f[i - 1]]
  <2>1. \A a \in V, n \in Nat : \A g \in [1..n -> [V -> V]] :
          \E f \in [0..n -> V] : f[0] = a /\ \A i \in 1..n : f[i] = g[i][f[i - 1]]
    BY Recursion
  <2>2. QED
    BY <1>1, <1>2, <2>1
<1> USE DEF G, V, N, none
<1>4. PICK f \in [0..N -> V] : f[0] = << >> /\ \A i \in 1..N : f[i] = G[i][f[i - 1]]
  BY <1>3
<1>5. \A i \in 1..N : f[i] = f[i - 1] \o seqs[i]
  <2> TAKE i \in 1..N
  <2>1. i - 1 \in 0..N /\ f[i - 1] \in V
    <3> HIDE DEF N, V, G
    <3>1. QED
      BY <1>1
  <2>2. G[i] = [v \in V |-> v \o seqs[i]]
    OBVIOUS
  <2>3. f[i] = G[i][f[i - 1]]
    <3> HIDE DEF N, V, G
    <3>1. QED
      BY <1>4
  <2>4. QED
    BY <2>1, <2>2, <2>3
<1>6. CASE N = 0
  <2>1. FlattenSeq(seqs) = << >>
    BY <1>6 DEF FlattenSeq
  <2>2. QED
    BY <1>1, <1>4, <1>5, <1>6, <2>1
<1>7. CASE N # 0
  <2> DEFINE flatten[i \in 1..N] == IF i = 1 THEN seqs[i] ELSE flatten[i - 1] \o seqs[i]
             h == [i \in 1..N |-> f[i]]
  <2>1. h = [i \in 1..N |-> IF i = 1 THEN seqs[i] ELSE h[i - 1] \o seqs[i]]
    <3> SUFFICES ASSUME NEW i \in 1..N
                 PROVE  f[i] = IF i = 1 THEN seqs[i] ELSE h[i - 1] \o seqs[i]
      OBVIOUS
    <3>1. CASE i = 1
      <4>1. f[i] = f[i - 1] \o seqs[i]
        BY <1>5
      <4>2. seqs[i] \in Seq(S)
        OBVIOUS
      <4>3. i - 1 = 0 /\ f[0] = << >>
        BY <1>4, <3>1
      <4>4. f[i] = << >> \o seqs[i]
        BY <4>1, <4>3
      <4>5. QED
        BY <3>1, <4>2, <4>4
    <3>2. CASE i # 1
      <4>1. i - 1 \in 1..N
        BY <1>1, <3>2
      <4>2. QED
        BY <1>5, <3>2, <4>1
    <3>3. QED
      BY <3>1, <3>2
  <2>2. flatten = [i \in 1..N |-> IF i = 1 THEN seqs[i] ELSE flatten[i - 1] \o seqs[i]]
    <3> HIDE DEF h
    <3>1. QED
      BY <2>1
  <2>3. FlattenSeq(seqs) = flatten[N]
    BY <1>7 DEF FlattenSeq
  <2>4. QED
    OBVIOUS
<1>8. QED
  BY <1>6, <1>7

\* The result is a sequence over the same set.
LEMMA FlattenType ==
  ASSUME NEW S, NEW seqs \in Seq(Seq(S)) PROVE FlattenSeq(seqs) \in Seq(S)
<1>1. PICK f \in [0..Len(seqs) -> Seq(S)] : f[Len(seqs)] = FlattenSeq(seqs)
  BY FlattenSteps
<1>2. Len(seqs) \in 0..Len(seqs)
  OBVIOUS
<1>3. QED
  BY <1>1, <1>2

\* What is put behind the last part is put behind the whole.
LEMMA FlattenAppend ==
  ASSUME NEW S, NEW seqs \in Seq(Seq(S)), NEW s \in Seq(S)
  PROVE  FlattenSeq(Append(seqs, s)) = FlattenSeq(seqs) \o s
<1> DEFINE N    == Len(seqs)
           longer == Append(seqs, s)
<1>1. /\ longer \in Seq(Seq(S)) /\ Len(longer) = N + 1 /\ N \in Nat
      /\ \A i \in 1..N : longer[i] = seqs[i]
      /\ longer[N + 1] = s
  OBVIOUS
<1>2. PICK f \in [0..N -> Seq(S)] :
           /\ f[0] = << >> /\ f[N] = FlattenSeq(seqs)
           /\ \A i \in 1..N : f[i] = f[i - 1] \o seqs[i]
  BY FlattenSteps
<1> HIDE DEF longer
<1>3. PICK g \in [0..(N + 1) -> Seq(S)] :
           /\ g[0] = << >> /\ g[N + 1] = FlattenSeq(longer)
           /\ \A i \in 1..(N + 1) : g[i] = g[i - 1] \o longer[i]
  <2>1. \E h \in [0..Len(longer) -> Seq(S)] :
           /\ h[0] = << >> /\ h[Len(longer)] = FlattenSeq(longer)
           /\ \A i \in 1..Len(longer) : h[i] = h[i - 1] \o longer[i]
    BY <1>1, FlattenSteps
  <2>2. QED
    BY <1>1, <2>1
<1> HIDE DEF N
<1> DEFINE T == {i \in 0..N : g[i] # f[i]}
<1>4. ASSUME T # {} PROVE FALSE
  <2>1. T \subseteq Nat
    OBVIOUS
  <2>2. PICK x \in T : \A y \in T : x <= y
    <3> HIDE DEF T
    <3>1. QED
      BY <1>4, <2>1, Least
  <2>3. x \in 0..N /\ g[x] # f[x] /\ x # 0
    BY <1>2, <1>3
  <2>4. x \in 1..N /\ x \in 1..(N + 1) /\ x - 1 \in 0..N /\ ~ (x <= x - 1)
    BY <1>1, <2>3
  <2>5. g[x - 1] = f[x - 1]
    BY <2>2, <2>4
  <2>6. QED
    BY <1>1, <1>2, <1>3, <2>3, <2>4, <2>5
<1>5. N \in 0..N /\ N + 1 \in 1..(N + 1) /\ (N + 1) - 1 = N
  BY <1>1
<1>6. g[N] = f[N]
  BY <1>4, <1>5
<1>7. g[N + 1] = g[N] \o s
  BY <1>1, <1>3, <1>5
<1>8. QED
  BY <1>2, <1>3, <1>6, <1>7 DEF longer

\* In which order sequences are put together does not matter.
LEMMA Associative ==
  ASSUME NEW S, NEW r \in Seq(S), NEW s \in Seq(S), NEW t \in Seq(S)
  PROVE  (r \o s) \o t = r \o (s \o t)
OBVIOUS

\* Each place of f adds a sequence to the one before.
Sums(f, e, n, S) ==
  /\ e \in [1..n -> Seq(S)] /\ f \in [0..n -> Seq(S)]
  /\ \A i \in 1..n : f[i] = f[i - 1] \o e[i]

\* What f adds to what it begins with is g.
Adds(f, g, n) == f[n] = f[0] \o g[n]

\* What is put together from the left may begin with anything.
LEMMA Shift ==
  ASSUME NEW S, NEW N \in Nat, NEW e, NEW f, NEW g,
         Sums(f, e, N, S), Sums(g, e, N, S), g[0] = << >>
  PROVE  Adds(f, g, N)
<1> DEFINE a == f[0]
           T == {i \in 0..N : f[i] # a \o g[i]}
<1>1. a \in Seq(S)
  BY DEF Sums
<1> HIDE DEF a
<1>2. ASSUME T # {} PROVE FALSE
  <2>1. T \subseteq Nat
    OBVIOUS
  <2>2. PICK x \in T : \A y \in T : x <= y
    <3> HIDE DEF T
    <3>1. QED
      BY <1>2, <2>1, Least
  <2>3. x \in 0..N /\ f[x] # a \o g[x]
    OBVIOUS
  <2>4. a \o << >> = a
    BY <1>1
  <2>5. x # 0
    BY <2>3, <2>4 DEF a
  <2>6. x \in 1..N /\ x - 1 \in 0..N /\ ~ (x <= x - 1)
    BY <2>3, <2>5
  <2>7. f[x - 1] = a \o g[x - 1]
    BY <2>2, <2>6
  <2> HIDE DEF T
  <2>8. f[x] = (a \o g[x - 1]) \o e[x]
    BY <2>6, <2>7 DEF Sums
  <2>9. g[x] = g[x - 1] \o e[x]
    BY <2>6 DEF Sums
  <2>10. g[x - 1] \in Seq(S) /\ e[x] \in Seq(S)
    BY <2>6 DEF Sums
  <2>11. (a \o g[x - 1]) \o e[x] = a \o (g[x - 1] \o e[x])
    <3> DEFINE u == g[x - 1]
               v == e[x]
    <3>1. u \in Seq(S) /\ v \in Seq(S)
      BY <2>10
    <3> HIDE DEF u, v
    <3>2. (a \o u) \o v = a \o (u \o v)
      BY <1>1, <3>1, Associative, SMTT(30)
    <3>3. QED
      BY <3>2 DEF u, v
  <2>12. QED
    BY <2>3, <2>8, <2>9, <2>11
<1>3. N \in 0..N
  OBVIOUS
<1>4. QED
  BY <1>2, <1>3 DEF Adds, a

\* FlattenSeq is such a sum.
LEMMA FlattenSums ==
  ASSUME NEW S, NEW seqs \in Seq(Seq(S))
  PROVE  \E f : f[0] = << >> /\ f[Len(seqs)] = FlattenSeq(seqs) /\ Sums(f, seqs, Len(seqs), S)
<1>1. seqs \in [1..Len(seqs) -> Seq(S)]
  <2> DEFINE V == Seq(S)
  <2>1. seqs \in Seq(V)
    OBVIOUS
  <2> HIDE DEF V
  <2>2. seqs \in [1..Len(seqs) -> V]
    BY <2>1
  <2>3. QED
    BY <2>2 DEF V
<1>2. PICK f \in [0..Len(seqs) -> Seq(S)] :
           /\ f[0] = << >> /\ f[Len(seqs)] = FlattenSeq(seqs)
           /\ \A i \in 1..Len(seqs) : f[i] = f[i - 1] \o seqs[i]
  BY FlattenSteps
<1>3. Sums(f, seqs, Len(seqs), S)
  BY <1>1, <1>2 DEF Sums
<1>4. QED
  BY <1>2, <1>3

\* The first part comes first.
LEMMA FlattenHead ==
  ASSUME NEW S, NEW seqs, seqs \in Seq(Seq(S)), Len(seqs) > 0
  PROVE  FlattenSeq(seqs) = seqs[1] \o FlattenSeq(Tail(seqs))
<1> DEFINE rest == Tail(seqs)
           N    == Len(rest)
<1>1. /\ rest \in Seq(Seq(S)) /\ Len(seqs) = N + 1 /\ N \in Nat
      /\ \A i \in 1..N : rest[i] = seqs[i + 1]
      /\ seqs[1] \in Seq(S)
  OBVIOUS
<1>2. PICK f : f[0] = << >> /\ f[Len(seqs)] = FlattenSeq(seqs) /\ Sums(f, seqs, Len(seqs), S)
  BY FlattenSums
<1> HIDE DEF rest
<1>3. PICK g : g[0] = << >> /\ g[N] = FlattenSeq(rest) /\ Sums(g, rest, N, S)
  BY <1>1, FlattenSums
<1> HIDE DEF N
<1> DEFINE h == [i \in 0..N |-> f[i + 1]]
           a == seqs[1]
<1>4. h[0] = a
  <2>1. 1 \in 1..Len(seqs) /\ 1 - 1 = 0 /\ 0 \in 0..N
    BY <1>1
  <2>2. f[1] = << >> \o seqs[1]
    BY <1>2, <2>1 DEF Sums
  <2>3. QED
    BY <1>1, <2>1, <2>2
<1>5. \A i \in 1..N : h[i] = h[i - 1] \o rest[i]
  <2> TAKE i \in 1..N
  <2>1. /\ i \in 0..N /\ i - 1 \in 0..N /\ i + 1 \in 1..Len(seqs)
        /\ (i - 1) + 1 = i /\ (i + 1) - 1 = i
    BY <1>1
  <2>2. f[i + 1] = f[i] \o seqs[i + 1]
    BY <1>2, <2>1 DEF Sums
  <2>3. h[i] = f[i + 1] /\ h[i - 1] = f[i]
    BY <2>1
  <2>4. QED
    BY <1>1, <2>2, <2>3
<1>6. h[N] = FlattenSeq(seqs)
  <2>1. N \in 0..N /\ N + 1 = Len(seqs)
    BY <1>1
  <2>2. QED
    BY <1>2, <2>1
<1>7. h \in [0..N -> Seq(S)]
  <2>1. f \in [0..(N + 1) -> Seq(S)]
    BY <1>1, <1>2 DEF Sums
  <2>2. QED
    BY <1>1, <2>1
<1> HIDE DEF h, a
<1>8. Sums(h, rest, N, S)
  BY <1>3, <1>5, <1>7 DEF Sums
<1>9. h[N] = a \o g[N]
  <2>1. N \in Nat /\ g[0] = << >> /\ h[0] = a /\ Sums(g, rest, N, S)
    BY <1>1, <1>3, <1>4
  <2>2. Adds(h, g, N)
    BY <1>8, <2>1, Shift
  <2>3. QED
    BY <2>1, <2>2 DEF Adds
<1>10. QED
  BY <1>3, <1>6, <1>9 DEF rest, a

---------------------------------------------------------------------------
(* Words within a text.                                                    *)

\* Each of the words stands at a place of its own among the first n cells, in their order.
Embeds(words, cells, n) ==
  \E p \in [1..Len(words) -> 1..n] :
    /\ \A k \in 1..Len(words) : Reads(cells[p[k]], words[k])
    /\ \A k \in 1..(Len(words) - 1) : p[k] < p[k + 1]

\* How many words the first so many cells hold: what Within counts.
Counts(h, words, cells) ==
  /\ h \in [0..Len(cells) -> 0..Len(words)]
  /\ h[0] = 0 /\ (Within(words, cells) <=> h[Len(cells)] = Len(words))
  /\ \A i \in 1..Len(cells) :
       h[i] = IF h[i - 1] < Len(words) /\ Reads(cells[i], words[h[i - 1] + 1])
              THEN h[i - 1] + 1 ELSE h[i - 1]

\* There is such a count.
LEMMA HeldSteps ==
  ASSUME NEW words, NEW cells, IsSequence(words), IsSequence(cells)
  PROVE  \E h : Counts(h, words, cells)
<1> DEFINE N == Len(cells)
           M == Len(words)
           V == 0..M
           Count(i, n) == IF n < M /\ Reads(cells[i], words[n + 1]) THEN n + 1 ELSE n
           G == [i \in 1..N |-> [n \in V |-> Count(i, n)]]
           zero == 0
<1>1. N \in Nat /\ M \in Nat /\ zero \in V
  BY DEF IsSequence
<1>2. \A i \in 1..N, n \in V : Count(i, n) \in V
  OBVIOUS
<1>3. G \in [1..N -> [V -> V]]
  <2> HIDE DEF Count, V, N
  <2>1. QED
    BY <1>2
<1> HIDE DEF G, V, N, zero
<1>4. \E h \in [0..N -> V] : h[0] = zero /\ \A i \in 1..N : h[i] = G[i][h[i - 1]]
  <2>1. \A a \in V, n \in Nat : \A g \in [1..n -> [V -> V]] :
          \E f \in [0..n -> V] : f[0] = a /\ \A i \in 1..n : f[i] = g[i][f[i - 1]]
    BY Recursion
  <2>2. QED
    BY <1>1, <1>3, <2>1, SMTT(30)
<1>5. PICK h \in [0..N -> V] : h[0] = zero /\ \A i \in 1..N : h[i] = G[i][h[i - 1]]
  BY <1>4
<1>6. \A i \in 1..N : h[i] = Count(i, h[i - 1])
  <2> HIDE DEF Count
  <2> TAKE i \in 1..N
  <2>1. i - 1 \in 0..N /\ h[i - 1] \in V
    BY <1>1
  <2>2. G[i] = [n \in V |-> Count(i, n)]
    BY DEF G
  <2>3. QED
    BY <1>5, <2>1, <2>2
<1> DEFINE held[i \in 0..N] == IF i = 0 THEN 0
                               ELSE LET n == held[i - 1]
                                    IN  IF n < M /\ Reads(cells[i], words[n + 1]) THEN n + 1 ELSE n
<1>7. h = [i \in 0..N |-> IF i = 0 THEN 0 ELSE Count(i, h[i - 1])]
  <2> HIDE DEF Count
  <2>1. \A i \in 0..N : i # 0 => i \in 1..N
    BY <1>1
  <2>2. \A i \in 0..N : h[i] = IF i = 0 THEN 0 ELSE Count(i, h[i - 1])
    BY <1>5, <1>6, <2>1 DEF zero
  <2>3. QED
    BY <2>2
<1> DEFINE HeldBy(f) == [i \in 0..N |-> IF i = 0 THEN 0
                               ELSE LET n == f[i - 1]
                                    IN  IF n < M /\ Reads(cells[i], words[n + 1]) THEN n + 1 ELSE n]
<1>8. h = HeldBy(h)
  BY <1>7
<1>9. held = HeldBy(held)
  <2>1. held = CHOOSE f : f = HeldBy(f)
    OBVIOUS
  <2> HIDE DEF HeldBy, held
  <2>2. QED
    BY <1>8, <2>1
<1>10. Within(words, cells) <=> held[N] = M
  BY DEF Within, N
<1>11. \A i \in 1..N : held[i] = Count(i, held[i - 1]) /\ i - 1 \in 0..N
  <2> HIDE DEF held, Count
  <2> TAKE i \in 1..N
  <2>1. i \in 0..N /\ i # 0 /\ i - 1 \in 0..N
    BY <1>1
  <2>2. QED
    BY <1>9, <2>1 DEF Count
<1>12. held[0] = 0
  <2> HIDE DEF held
  <2>1. QED
    BY <1>1, <1>9
<1> DEFINE T == {i \in 0..N : held[i] # h[i]}
<1>13. ASSUME T # {} PROVE FALSE
  <2> HIDE DEF held, Count
  <2>1. T \subseteq Nat
    OBVIOUS
  <2>2. PICK x \in T : \A y \in T : x <= y
    <3> HIDE DEF T
    <3>1. QED
      BY <1>13, <2>1, Least
  <2>3. x \in 0..N /\ held[x] # h[x] /\ x # 0
    BY <1>5, <1>12 DEF zero
  <2>4. x \in 1..N /\ x - 1 \in 0..N /\ ~ (x <= x - 1)
    BY <1>1, <2>3
  <2>5. held[x - 1] = h[x - 1]
    BY <2>2, <2>4
  <2>6. QED
    BY <1>6, <1>11, <2>3, <2>4, <2>5
<1>14. held[N] = h[N]
  <2> HIDE DEF held
  <2>1. QED
    BY <1>1, <1>13
<1>15. QED
  <2> HIDE DEF held
  <2>1. QED
    BY <1>5, <1>6, <1>10, <1>14 DEF N, V, zero, Counts

\* Where each word has a place of its own, Within finds the words: it takes the first place
\* it can, which is never too late.
LEMMA EmbeddedWithin ==
  ASSUME NEW words, NEW cells, IsSequence(words), IsSequence(cells),
         Embeds(words, cells, Len(cells))
  PROVE  Within(words, cells)
<1> DEFINE N == Len(cells)
           M == Len(words)
<1>1. N \in Nat /\ M \in Nat
  BY DEF IsSequence
<1>2. PICK p \in [1..M -> 1..N] :
           /\ \A k \in 1..M : Reads(cells[p[k]], words[k])
           /\ \A k \in 1..(M - 1) : p[k] < p[k + 1]
  BY DEF Embeds
<1>3. PICK h \in [0..N -> 0..M] :
           /\ h[0] = 0 /\ (Within(words, cells) <=> h[N] = M)
           /\ \A i \in 1..N :
                h[i] = IF h[i - 1] < M /\ Reads(cells[i], words[h[i - 1] + 1])
                       THEN h[i - 1] + 1 ELSE h[i - 1]
  <2>1. PICK h : Counts(h, words, cells)
    BY HeldSteps
  <2>2. QED
    BY <2>1 DEF Counts
<1> HIDE DEF N, M
<1> DEFINE T == {i \in 0..N : \E k \in 1..M : p[k] <= i /\ h[i] < k}
<1>4. ASSUME T # {} PROVE FALSE
  <2>1. T \subseteq Nat
    OBVIOUS
  <2>2. PICK x \in T : \A y \in T : x <= y
    <3> HIDE DEF T
    <3>1. QED
      BY <1>4, <2>1, Least
  <2>3. PICK k \in 1..M : p[k] <= x /\ h[x] < k
    OBVIOUS
  <2>4. x \in 1..N /\ x - 1 \in 0..N /\ ~ (x <= x - 1) /\ k \in Nat /\ k > 0 /\ p[k] \in 1..N
    BY <1>1, <2>3
  <2>5. \A j \in 1..M : p[j] <= x - 1 => ~ (h[x - 1] < j)
    BY <2>2, <2>4
  <2>6. h[x - 1] \in 0..M /\ h[x] \in 0..M
    BY <2>4
  <2>7. PICK now \in Nat : now = h[x]
    BY <1>1, <2>6
  <2>8. PICK then \in Nat : then = h[x - 1]
    BY <1>1, <2>6
  <2>9. now = then \/ now = then + 1
    BY <1>3, <2>4, <2>7, <2>8
  <2>10. p[k] = x
    <3>1. now < k
      BY <2>3, <2>7
    <3>2. p[k] <= x - 1 => ~ (then < k)
      BY <2>3, <2>5, <2>8
    <3>3. ~ (p[k] <= x - 1)
      BY <2>4, <2>9, <3>1, <3>2
    <3>4. QED
      BY <2>3, <2>4, <3>3
  <2>11. then >= k - 1
    <3>1. CASE k = 1
      BY <3>1
    <3>2. CASE k # 1
      <4>1. k - 1 \in 1..(M - 1) /\ k - 1 \in 1..M /\ (k - 1) + 1 = k
        BY <1>1, <2>4, <3>2
      <4>2. p[k - 1] < x /\ p[k - 1] \in 1..N
        BY <1>2, <2>10, <4>1
      <4>3. PICK before \in Nat : before = p[k - 1]
        BY <4>2
      <4>4. before <= x - 1
        BY <2>4, <4>2, <4>3
      <4>5. ~ (then < k - 1)
        BY <2>5, <2>8, <4>1, <4>3, <4>4
      <4>6. QED
        BY <2>4, <4>5
    <3>3. QED
      BY <3>1, <3>2
  <2>12. then = k - 1 /\ now < k
    BY <2>3, <2>4, <2>7, <2>9, <2>11
  <2>13. h[x - 1] < M /\ h[x - 1] + 1 = k
    BY <1>1, <2>3, <2>4, <2>8, <2>12
  <2>14. Reads(cells[x], words[k])
    BY <1>2, <2>3, <2>10
  <2>15. h[x] = h[x - 1] + 1
    BY <1>3, <2>4, <2>13, <2>14
  <2>16. QED
    BY <2>4, <2>7, <2>12, <2>13, <2>15
<1>5. h[N] = M
  <2>1. N \in 0..N /\ h[N] \in 0..M
    BY <1>1
  <2>2. CASE M = 0
    BY <2>1, <2>2
  <2>3. CASE M # 0
    <3>1. M \in 1..M /\ p[M] <= N
      BY <1>1, <2>3
    <3>2. ~ (h[N] < M)
      BY <1>4, <2>1, <3>1
    <3>3. QED
      BY <1>1, <2>1, <3>2
  <2>4. QED
    BY <2>2, <2>3
<1>6. QED
  BY <1>3, <1>5

\* Fewer words stand there as well, and they stand there as well if there are more cells.
LEMMA EmbedsLess ==
  ASSUME NEW S, NEW v \in Seq(S), NEW w \in Seq(S), NEW cells, NEW n \in Nat, NEW m \in Nat,
         n <= m, Embeds(v \o w, cells, n)
  PROVE  Embeds(v, cells, m)
<1>1. /\ Len(v \o w) = Len(v) + Len(w) /\ Len(v) \in Nat /\ Len(w) \in Nat
      /\ \A k \in 1..Len(v) : (v \o w)[k] = v[k]
  OBVIOUS
<1> DEFINE vw == v \o w
<1>2. PICK p \in [1..Len(vw) -> 1..n] :
           /\ \A k \in 1..Len(vw) : Reads(cells[p[k]], vw[k])
           /\ \A k \in 1..(Len(vw) - 1) : p[k] < p[k + 1]
  BY DEF Embeds
<1> HIDE DEF vw
<1> DEFINE q == [k \in 1..Len(v) |-> p[k]]
<1>3. Len(vw) = Len(v) + Len(w) /\ \A k \in 1..Len(v) : vw[k] = v[k]
  BY <1>1 DEF vw
<1>4. \A k \in 1..Len(v) : k \in 1..Len(vw) /\ q[k] = p[k] /\ q[k] \in 1..m
  BY <1>1, <1>3
<1>5. q \in [1..Len(v) -> 1..m]
  BY <1>4
<1> HIDE DEF q
<1>6. \A k \in 1..Len(v) : Reads(cells[q[k]], v[k])
  BY <1>2, <1>3, <1>4
<1>7. \A k \in 1..(Len(v) - 1) : q[k] < q[k + 1]
  <2> TAKE k \in 1..(Len(v) - 1)
  <2>1. k \in 1..Len(v) /\ k + 1 \in 1..Len(v) /\ k \in 1..(Len(vw) - 1)
    BY <1>1, <1>3
  <2>2. QED
    BY <1>2, <1>4, <2>1
<1>8. QED
  BY <1>5, <1>6, <1>7 DEF Embeds

\* One word more stands behind the others.
LEMMA EmbedsMore ==
  ASSUME NEW S, NEW v \in Seq(S), NEW w \in S, NEW cells, NEW n \in Nat, NEW i \in Nat,
         NEW m \in Nat, n < i, i <= m, Embeds(v, cells, n), Reads(cells[i], w)
  PROVE  Embeds(Append(v, w), cells, m)
<1> DEFINE vw == Append(v, w)
           N  == Len(v)
<1>1. /\ Len(vw) = N + 1 /\ N \in Nat /\ vw[N + 1] = w
      /\ \A k \in 1..N : vw[k] = v[k]
  OBVIOUS
<1>2. PICK p \in [1..N -> 1..n] :
           /\ \A k \in 1..N : Reads(cells[p[k]], v[k])
           /\ \A k \in 1..(N - 1) : p[k] < p[k + 1]
  BY DEF Embeds
<1> HIDE DEF vw, N
<1> DEFINE q == [k \in 1..(N + 1) |-> IF k = N + 1 THEN i ELSE p[k]]
<1>3. \A k \in 1..N : q[k] = p[k] /\ q[k] \in 1..n
  BY <1>1
<1>4. q[N + 1] = i
  BY <1>1
<1>5. q \in [1..(N + 1) -> 1..m]
  <2>1. \A k \in 1..(N + 1) : q[k] \in 1..m
    <3> HIDE DEF q
    <3> TAKE k \in 1..(N + 1)
    <3>1. k = N + 1 \/ k \in 1..N
      BY <1>1
    <3>2. QED
      BY <1>3, <1>4, <3>1
  <2>2. QED
    BY <2>1
<1> HIDE DEF q
<1>6. \A k \in 1..(N + 1) : Reads(cells[q[k]], vw[k])
  <2> TAKE k \in 1..(N + 1)
  <2>1. CASE k = N + 1
    BY <1>1, <1>4, <2>1
  <2>2. CASE k # N + 1
    <3>1. k \in 1..N
      BY <1>1, <2>2
    <3>2. QED
      BY <1>1, <1>2, <1>3, <3>1
  <2>3. QED
    BY <2>1, <2>2
<1>7. \A k \in 1..N : q[k] < q[k + 1]
  <2> TAKE k \in 1..N
  <2>1. CASE k = N
    BY <1>1, <1>3, <1>4, <2>1
  <2>2. CASE k # N
    <3>1. k \in 1..(N - 1) /\ k + 1 \in 1..N
      BY <1>1, <2>2
    <3>2. QED
      BY <1>2, <1>3, <3>1
  <2>3. QED
    BY <2>1, <2>2
<1>8. (N + 1) - 1 = N
  BY <1>1
<1>9. QED
  BY <1>1, <1>5, <1>6, <1>7, <1>8 DEF Embeds, vw

---------------------------------------------------------------------------
(* The lines of a controller.                                              *)

\* Cells that orng takes for words.
Word(c) == c \notin Blank \cup {NUL}

\* Words in a row that orng takes for a command with its arguments.
Command(words) == IsSequence(words) /\ Complete(words)

\* The same command any number of times.
LEMMA RepeatedCommand ==
  ASSUME NEW words, Command(words), NEW n \in Nat, NEW lines \in [1..n -> {words}]
  PROVE  Commands(lines)
<1> DEFINE S == UNION {Range(w) : w \in Range(lines)}
<1>1. \A i \in 1..n : lines[i] = words
  OBVIOUS
<1>2. \A i \in 1..n : words \in Seq(S)
  <2> TAKE i \in 1..n
  <2>1. Range(lines) = {words}
    BY DEF Range
  <2>2. S = Range(words)
    BY <2>1
  <2>3. QED
    BY <2>2 DEF Command, IsSequence
<1> DEFINE V == Seq(S)
<1>3. \A i \in 1..n : lines[i] \in V
  BY <1>1, <1>2
<1> HIDE DEF V
<1>4. lines \in Seq(V) /\ Len(lines) = n
  BY <1>3
<1>5. \A i \in 1..n : Complete(lines[i])
  BY <1>1 DEF Command
<1>6. QED
  BY <1>4, <1>5 DEF Commands, V

\* One command.
LEMMA OneCommand ==
  ASSUME NEW words, Command(words) PROVE Commands(<<words>>)
<1> DEFINE lines == <<words>>
<1>1. lines \in [1..1 -> {words}]
  OBVIOUS
<1> HIDE DEF lines
<1>2. Commands(lines)
  BY <1>1, RepeatedCommand
<1>3. QED
  BY <1>2 DEF lines

\* No command.
LEMMA NoCommand == Commands(<< >>)
BY DEF Commands

\* Enough words with the name of a command at their head are one.
Headed(words, name, n) == Len(words) = n + 1 /\ words[1] = name
Takes(name, n) == n \in Nat /\ name \in DOMAIN Arity /\ Arity[name] = n

\* A sequence of words with a name at its head and as many arguments as that takes is a command.
LEMMA CommandOf ==
  ASSUME NEW S, NEW words, words \in Seq(S), \A s \in S : Word(s),
         NEW name, NEW n, Headed(words, name, n), Takes(name, n)
  PROVE  Command(words)
<1>1. IsSequence(words)
  BY Sequences
<1>2. \A i \in 1..Len(words) : Word(words[i])
  OBVIOUS
<1>3. DOMAIN words = 1..Len(words)
  OBVIOUS
<1>4. Range(words) \cap (Blank \cup {NUL}) = {}
  BY <1>2, <1>3 DEF Range, Word
<1>5. Len(words) > 0 /\ words[1] \in DOMAIN Arity /\ Len(words) = Arity[words[1]] + 1
  BY DEF Headed, Takes
<1>6. QED
  BY <1>1, <1>4, <1>5 DEF Command, Complete

\* A drag, for whatever words it is given.
LEMMA DragCommand ==
  ASSUME NEW a, NEW b, NEW c, NEW d, NEW e, NEW f,
         Word(a), Word(b), Word(c), Word(d), Word(e), Word(f)
  PROVE  Command(get_drag_event(a, b, c, d, e, f))
<1> DEFINE words == <<"drag", a, b, c, d, f, e>>
           S == {"drag", a, b, c, d, e, f}
<1>1. words \in Seq(S) /\ Headed(words, "drag", 6)
  BY DEF Headed
<1>2. \A s \in S : Word(s)
  BY DEF Word, Blank, NUL
<1>3. Takes("drag", 6)
  BY DEF Arity, Takes
<1> HIDE DEF words, S
<1>4. Command(words)
  BY <1>1, <1>2, <1>3, CommandOf
<1>5. QED
  BY <1>4 DEF words, get_drag_event

\* A tap.
LEMMA TapCommand ==
  ASSUME NEW x, NEW y, NEW times, Word(x), Word(y), Word(times)
  PROVE  Command(get_tap_event(x, y, times))
<1> DEFINE words == <<"tap", x, y, times, "100">>
           S == {"tap", x, y, times, "100"}
<1>1. words \in Seq(S) /\ Headed(words, "tap", 4)
  BY DEF Headed
<1>2. \A s \in S : Word(s)
  BY DEF Word, Blank, NUL
<1>3. Takes("tap", 4)
  BY DEF Arity, Takes
<1> HIDE DEF words, S
<1>4. Command(words)
  BY <1>1, <1>2, <1>3, CommandOf
<1>5. QED
  BY <1>4 DEF words, get_tap_event

\* The commands of one argument.
LEMMA ShortCommand ==
  ASSUME NEW name \in {"sleep", "keyup", "keydown"}, NEW a, Word(a)
  PROVE  Command(<<name, a>>)
<1> DEFINE words == <<name, a>>
           S == {name, a}
<1>1. words \in Seq(S) /\ Headed(words, name, 1)
  BY DEF Headed
<1>2. \A s \in S : Word(s)
  BY DEF Word, Blank, NUL
<1>3. Takes(name, 1)
  BY DEF Arity, Takes
<1> HIDE DEF words, S
<1>4. Command(words)
  BY <1>1, <1>2, <1>3, CommandOf
<1>5. QED
  BY <1>4 DEF words

\* The last two of two, the last, or none.
LEMMA LastOfTwo ==
  ASSUME NEW S, NEW two \in Seq(S), Len(two) = 2, NEW m \in 1..3
  PROVE  SubSeq(two, m, 2) \in Seq(S) /\ Len(SubSeq(two, m, 2)) = 3 - m
<1>1. m \in Int /\ 2 \in Int /\ m > 0
  OBVIOUS
<1>2. \A i \in m..2 : two[i] \in S
  <2> TAKE i \in m..2
  <2>1. i \in 1..Len(two)
    BY <1>1
  <2>2. QED
    BY <2>1
<1>3. SubSeq(two, m, 2) \in Seq(S) /\ Len(SubSeq(two, m, 2)) = IF m <= 2 THEN 2 - m + 1 ELSE 0
  BY <1>1, <1>2, SubSeqProperties
<1>4. QED
  BY <1>3

\* Three sequences in a row.
LEMMA ThreeInARow ==
  ASSUME NEW S, NEW p \in Seq(S), NEW a \in Seq(S), NEW t \in Seq(S), Len(p) = 1
  PROVE  /\ p \o a \o t \in Seq(S)
         /\ Len(p \o a \o t) = 1 + Len(a) + Len(t)
         /\ (p \o a \o t)[1] = p[1]
<1>1. (p \o a) \in Seq(S) /\ Len(p \o a) = 1 + Len(a) /\ (p \o a)[1] = p[1]
  <2>1. (p \o a) \in Seq(S)
    BY ConcatProperties
  <2>2. Len(p \o a) = 1 + Len(a)
    BY ConcatProperties, ZenonT(30)
  <2>3. (p \o a)[1] = p[1]
    BY ConcatProperties
  <2>4. QED
    BY <2>1, <2>2, <2>3
<1> DEFINE b == p \o a
<1>2. b \in Seq(S) /\ Len(b) = 1 + Len(a) /\ b[1] = p[1]
  BY <1>1
<1> HIDE DEF b
<1>3. b \o t \in Seq(S) /\ Len(b \o t) = 1 + Len(a) + Len(t) /\ (b \o t)[1] = p[1]
  BY <1>2
<1>4. QED
  BY <1>3 DEF b

\* A pinch, with its optional arguments or without.
LEMMA PinchCommand ==
  ASSUME NEW W, NEW a, a \in Seq(W), \A w \in W : Word(w), Len(a) \in 8..10
  PROVE  Command(<<"pinch">> \o a \o SubSeq(<<"10", "1000">>, Len(a) - 7, 2))
<1> DEFINE S == W \cup {"pinch", "10", "1000"}
           p == <<"pinch">>
           t == SubSeq(<<"10", "1000">>, Len(a) - 7, 2)
           words == p \o a \o t
<1>1. p \in Seq(S) /\ Len(p) = 1 /\ p[1] = "pinch"
  OBVIOUS
<1>2. a \in Seq(S)
  OBVIOUS
<1>3. t \in Seq(S) /\ Len(t) = 10 - Len(a)
  <2> DEFINE two == <<"10", "1000">>
  <2>1. two \in Seq(S) /\ Len(two) = 2
    OBVIOUS
  <2> DEFINE m == Len(a) - 7
  <2>2. m \in 1..3
    OBVIOUS
  <2> HIDE DEF two, S, m
  <2>3. SubSeq(two, m, 2) \in Seq(S) /\ Len(SubSeq(two, m, 2)) = 3 - m
    BY <2>1, <2>2, LastOfTwo
  <2>4. 3 - m = 10 - Len(a)
    BY DEF m
  <2>5. t = SubSeq(two, m, 2)
    BY DEF two, m
  <2>6. QED
    BY <2>3, <2>4, <2>5
<1>4. \A s \in S : Word(s)
  BY DEF Word, Blank, NUL
<1>5. Takes("pinch", 10)
  BY DEF Arity, Takes
<1>6. Len(a) \in Nat
  OBVIOUS
<1> HIDE DEF S, t, p
<1>7. words \in Seq(S) /\ Len(words) = 1 + Len(a) + Len(t) /\ words[1] = "pinch"
  BY <1>1, <1>2, <1>3, ThreeInARow, SMTT(30)
<1> HIDE DEF words
<1>8. Headed(words, "pinch", 10)
  BY <1>3, <1>6, <1>7 DEF Headed
<1>9. Command(words)
  BY <1>4, <1>5, <1>7, <1>8, CommandOf
<1>10. QED
  BY <1>9 DEF words, t, p

\* An argument of a request, or its default, is a word.
LEMMA ArgumentWord ==
  ASSUME NEW a, IsSequence(a), \A i \in 1..Len(a) : Word(a[i]),
         NEW i \in Nat \ {0}, NEW default, i <= Len(a) \/ Word(default)
  PROVE  Word(Argument(a, i, default))
<1>1. Len(a) \in Nat
  BY DEF IsSequence
<1>2. CASE i <= Len(a)
  <2>1. i \in 1..Len(a)
    BY <1>1, <1>2
  <2>2. QED
    BY <1>2, <2>1 DEF Argument
<1>3. CASE ~ (i <= Len(a))
  BY <1>3 DEF Argument
<1>4. QED
  BY <1>2, <1>3

\* As many swipes as are asked for; a number below zero asks for none.
LEMMA SwipeCommands ==
  ASSUME NEW a, IsSequence(a), \A i \in 1..Len(a) : Word(a[i]),
         NEW from, NEW to, Word(from[1]), Word(from[2]), Word(to[1]), Word(to[2])
  PROVE  Commands(Swipes(from, to, a).lines)
<1> DEFINE times == Argument(a, 1, "1")
           steps == Argument(a, 2, "10")
           third == Argument(a, 3, "100")
           event == get_drag_event(from[1], from[2], to[1], to[2], third, steps)
           n == NumberOf(times)
           result == Swipes(from, to, a)
<1>1. Word("10") /\ Word("100")
  BY DEF Word, Blank, NUL
<1>2. Word(steps) /\ Word(third)
  BY <1>1, ArgumentWord
<1>3. Command(event)
  <2> HIDE DEF steps, third
  <2>1. QED
    BY <1>2, DragCommand
<1>4. CASE times \in Words
  <2>1. n \in Int
    <3>1. \E k \in Numerals : ToString(k) = times
      BY <1>4 DEF Words
    <3>2. n \in Numerals
      BY <3>1 DEF NumberOf
    <3>3. QED
      BY <3>2, SessionAssumption
  <2> DEFINE lines == [i \in 1..n |-> event]
  <2> HIDE DEF event, n
  <2>2. Commands(lines)
    <3>1. CASE n \in Nat
      <4>1. lines \in [1..n -> {event}]
        OBVIOUS
      <4> HIDE DEF lines
      <4>2. QED
        BY <1>3, <3>1, <4>1, RepeatedCommand
    <3>2. CASE n < 0
      <4>1. lines = << >>
        BY <2>1, <3>2
      <4>2. QED
        BY <4>1, NoCommand
    <3>3. QED
      BY <2>1, <3>1, <3>2
  <2>3. result.lines = lines \/ result.lines = << >>
    BY DEF Swipes, Lines, Raises, event, n
  <2>4. QED
    BY <2>2, <2>3, NoCommand
<1>5. CASE times \notin Words
  <2>1. result.lines = << >>
    BY <1>5 DEF Swipes, Raises
  <2>2. QED
    BY <2>1, NoCommand
<1>6. QED
  BY <1>4, <1>5

\* One line, where the arguments are as many as there may be.
LEMMA OneLineCommands ==
  ASSUME NEW a, NEW fewest, NEW most, NEW numbers, NEW words,
         Len(a) \in fewest..most /\ (\A i \in 1..numbers : a[i] \in Words) => Command(words)
  PROVE  Commands(OneLine(a, fewest, most, numbers, words).lines)
<1>1. CASE Len(a) \in fewest..most /\ \A i \in 1..numbers : a[i] \in Words
  BY <1>1, OneCommand DEF OneLine, Lines
<1>2. CASE ~ (Len(a) \in fewest..most /\ \A i \in 1..numbers : a[i] \in Words)
  BY <1>2, NoCommand DEF OneLine, Raises
<1>3. QED
  BY <1>1, <1>2

\* Every line of every request is a command that is complete.
LEMMA RequestCommands ==
  ASSUME NEW r, r \in Requests
  PROVE  Commands(get_cmd_events(r.cmd, r.args).lines)
<1> DEFINE a == r.args
           c == r.cmd
           result == get_cmd_events(c, a)
           none == ""
<1>1. IsSequence(a) /\ \A i \in 1..Len(a) : Word(a[i])
  <2>1. IsSequence(a) /\ Range(a) \cap (Blank \cup {NUL}) = {}
    BY SessionAssumption
  <2>2. \A i \in 1..Len(a) : a[i] \in Range(a)
    BY <2>1 DEF IsSequence, Range
  <2>3. QED
    BY <2>1, <2>2 DEF Word
<1>2. Len(a) \in Nat
  BY <1>1 DEF IsSequence
<1>15. \A i \in Nat \ {0} : \A default :
       i <= Len(a) \/ Word(default) => Word(Argument(a, i, default))
  <2> HIDE DEF a
  <2>1. QED
    BY <1>1, ArgumentWord
<1> HIDE DEF none
<1>3. \A n \in Measures : Word(ToString(n))
  BY SessionAssumption DEF Word
<1>4. /\ Word("1") /\ Word("2") /\ Word("5") /\ Word("10") /\ Word("100") /\ Word("1000")
  BY DEF Word, Blank, NUL
<1>5. CASE c \in {"scroll_down", "scroll_up"}
  <2> DEFINE x       == ToString(dimensions[1] \div 2)
             ybottom == ToString(dimensions[2] - swipe_padding[4])
             ytop    == ToString(swipe_padding[1])
             low     == <<x, ybottom>>
             high    == <<x, ytop>>
  <2>1. Word(x) /\ Word(ybottom) /\ Word(ytop)
    <3>1. Word(x)
      BY <1>3 DEF Measures
    <3>2. Word(ybottom)
      BY <1>3 DEF Measures
    <3>3. Word(ytop)
      BY <1>3 DEF Measures
    <3>4. QED
      BY <3>1, <3>2, <3>3
  <2>2. result = Swipes(high, low, a) \/ result = Swipes(low, high, a)
    BY <1>5 DEF get_cmd_events, get_scroll_events
  <2> HIDE DEF x, ybottom, ytop, a
  <2>3. Word(low[1]) /\ Word(low[2]) /\ Word(high[1]) /\ Word(high[2])
    BY <2>1
  <2> HIDE DEF low, high
  <2>4. Commands(Swipes(high, low, a).lines)
    BY <1>1, <2>3, SwipeCommands
  <2>5. Commands(Swipes(low, high, a).lines)
    BY <1>1, <2>3, SwipeCommands
  <2>6. QED
    BY <2>2, <2>4, <2>5 DEF a
<1>6. CASE c \in {"swipe_left", "swipe_right"}
  <2> DEFINE y     == ToString(dimensions[2] \div 2)
             x1    == ToString(swipe_padding[3])
             x2    == ToString(dimensions[1] - swipe_padding[1])
             left  == <<x1, y>>
             right == <<x2, y>>
  <2>1. Word(y) /\ Word(x1) /\ Word(x2)
    <3>1. Word(y)
      BY <1>3 DEF Measures
    <3>2. Word(x1)
      BY <1>3 DEF Measures
    <3>3. Word(x2)
      BY <1>3 DEF Measures
    <3>4. QED
      BY <3>1, <3>2, <3>3
  <2>2. result = Swipes(right, left, a) \/ result = Swipes(left, right, a)
    BY <1>6 DEF get_cmd_events, get_swipe_events
  <2> HIDE DEF y, x1, x2, a
  <2>3. Word(left[1]) /\ Word(left[2]) /\ Word(right[1]) /\ Word(right[2])
    BY <2>1
  <2> HIDE DEF left, right
  <2>4. Commands(Swipes(right, left, a).lines)
    BY <1>1, <2>3, SwipeCommands
  <2>5. Commands(Swipes(left, right, a).lines)
    BY <1>1, <2>3, SwipeCommands
  <2>6. QED
    BY <2>2, <2>4, <2>5 DEF a
<1>7. CASE c = "drag"
  <2> DEFINE words == get_drag_event(Argument(a, 1, none), Argument(a, 2, none), Argument(a, 3, none), Argument(a, 4, none), Argument(a, 5, "1000"), Argument(a, 6, "5"))
  <2>1. result = OneLine(a, 4, 6, 4, words)
    BY <1>7 DEF get_cmd_events, none
  <2>2. Len(a) \in 4..6 => Command(words)
    <3> HAVE Len(a) \in 4..6
    <3> HIDE DEF a
    <3>1. Word(Argument(a, 1, none)) /\ Word(Argument(a, 2, none)) /\ Word(Argument(a, 3, none)) /\ Word(Argument(a, 4, none))
      <4>1. \A i \in 1..4 : i \in Nat \ {0} /\ i <= Len(a)
        BY <1>2, SMTT(30)
      <4>2. QED
        BY <1>15, <4>1
    <3>2. Word(Argument(a, 5, "1000")) /\ Word(Argument(a, 6, "5"))
      BY <1>2, <1>15, <1>4
    <3> DEFINE w1 == Argument(a, 1, none)
               w2 == Argument(a, 2, none)
               w3 == Argument(a, 3, none)
               w4 == Argument(a, 4, none)
               w5 == Argument(a, 5, "1000")
               w6 == Argument(a, 6, "5")
    <3>3. Word(w1) /\ Word(w2) /\ Word(w3) /\ Word(w4) /\ Word(w5) /\ Word(w6)
      BY <3>1, <3>2
    <3> HIDE DEF w1, w2, w3, w4, w5, w6
    <3>4. Command(get_drag_event(w1, w2, w3, w4, w5, w6))
      BY <3>3, DragCommand
    <3>5. QED
      BY <3>4 DEF w1, w2, w3, w4, w5, w6
  <2> HIDE DEF words, a
  <2>3. Commands(OneLine(a, 4, 6, 4, words).lines)
    BY <2>2, OneLineCommands
  <2>4. QED
    BY <2>1, <2>3 DEF a
<1>8. CASE c = "tap"
  <2> DEFINE words == get_tap_event(Argument(a, 1, none), Argument(a, 2, none), Argument(a, 3, "1"))
  <2>1. result = OneLine(a, 2, 3, 2, words)
    BY <1>8 DEF get_cmd_events, none
  <2>2. Len(a) \in 2..3 => Command(words)
    <3> HAVE Len(a) \in 2..3
    <3> HIDE DEF a
    <3>1. Word(Argument(a, 1, none)) /\ Word(Argument(a, 2, none)) /\ Word(Argument(a, 3, "1"))
      BY <1>2, <1>15, <1>4
    <3> DEFINE w1 == Argument(a, 1, none)
               w2 == Argument(a, 2, none)
               w3 == Argument(a, 3, "1")
    <3>2. Word(w1) /\ Word(w2) /\ Word(w3)
      BY <3>1
    <3> HIDE DEF w1, w2, w3
    <3>3. Command(get_tap_event(w1, w2, w3))
      BY <3>2, TapCommand
    <3>4. QED
      BY <3>3 DEF w1, w2, w3
  <2> HIDE DEF words, a
  <2>3. Commands(OneLine(a, 2, 3, 2, words).lines)
    BY <2>2, OneLineCommands
  <2>4. QED
    BY <2>1, <2>3 DEF a
<1>9. CASE c = "double_tap"
  <2> DEFINE words == get_tap_event(Argument(a, 1, none), Argument(a, 2, none), "2")
  <2>1. result = OneLine(a, 2, 2, 2, words)
    BY <1>9 DEF get_cmd_events, none
  <2>2. Len(a) \in 2..2 => Command(words)
    <3> HAVE Len(a) \in 2..2
    <3> HIDE DEF a
    <3>1. Word(Argument(a, 1, none)) /\ Word(Argument(a, 2, none))
      BY <1>2, <1>15
    <3> DEFINE w1 == Argument(a, 1, none)
               w2 == Argument(a, 2, none)
    <3>2. Word(w1) /\ Word(w2)
      BY <3>1
    <3> HIDE DEF w1, w2
    <3>3. Command(get_tap_event(w1, w2, "2"))
      BY <1>4, <3>2, TapCommand
    <3>4. QED
      BY <3>3 DEF w1, w2
  <2> HIDE DEF words, a
  <2>3. Commands(OneLine(a, 2, 2, 2, words).lines)
    BY <2>2, OneLineCommands
  <2>4. QED
    BY <2>1, <2>3 DEF a
<1>10. CASE c = "pinch"
  <2> DEFINE words == <<"pinch">> \o a \o SubSeq(<<"10", "1000">>, Len(a) - 7, 2)
  <2>1. result = OneLine(a, 8, 10, 0, words)
    BY <1>10 DEF get_cmd_events
  <2>2. Len(a) \in 8..10 => Command(words)
    <3> HAVE Len(a) \in 8..10
    <3> DEFINE W == Range(a)
    <3>1. a \in Seq(W)
      BY <1>1 DEF IsSequence
    <3>2. \A w \in W : Word(w)
      BY <1>1 DEF IsSequence, Range
    <3> HIDE DEF a, W
    <3>3. QED
      BY <3>1, <3>2, PinchCommand
  <2> HIDE DEF words, a
  <2>3. Commands(OneLine(a, 8, 10, 0, words).lines)
    BY <2>2, OneLineCommands
  <2>4. QED
    BY <2>1, <2>3 DEF a
<1>11. CASE c \in {"keydown", "keyup"}
  <2> DEFINE words == <<c, Argument(a, 1, none)>>
  <2>1. result = OneLine(a, 1, AnyNumber, 0, words)
    BY <1>11 DEF get_cmd_events, none
  <2>2. Len(a) \in 1..AnyNumber => Command(words)
    <3> HIDE DEF a, c
    <3> HAVE Len(a) \in 1..AnyNumber
    <3>1. Word(Argument(a, 1, none))
      <4>1. 1 \in Nat \ {0} /\ 1 <= Len(a)
        <5>1. \A n \in 1..AnyNumber : 1 <= n
          BY DEF AnyNumber
        <5>2. QED
          BY <5>1
      <4>2. QED
        BY <1>15, <4>1
    <3> DEFINE w1 == Argument(a, 1, none)
    <3>2. Word(w1)
      BY <3>1
    <3>5. c \in {"sleep", "keyup", "keydown"}
      BY <1>11
    <3> HIDE DEF w1
    <3>3. Command(<<c, w1>>)
      BY <3>5, <3>2, ShortCommand
    <3>4. QED
      BY <3>3 DEF w1, c
  <2> HIDE DEF words, a
  <2>3. Commands(OneLine(a, 1, AnyNumber, 0, words).lines)
    BY <2>2, OneLineCommands
  <2>4. QED
    BY <2>1, <2>3 DEF a
<1>12. CASE c = "sleep"
  <2> DEFINE numbers == IF a = << >> THEN 0 ELSE 1
             w     == Argument(a, 1, "1")
             k     == NumberOf(w)
             words == get_sleep_event(w)
  <2>1. result = OneLine(a, 0, AnyNumber, numbers, words)
    BY <1>12 DEF get_cmd_events
  <2>2. (\A i \in 1..numbers : a[i] \in Words) => w \in Words
    <3> HAVE \A i \in 1..numbers : a[i] \in Words
    <3>1. CASE a = << >>
      BY <3>1, SessionAssumption DEF Argument
    <3>2. CASE a # << >>
      <4>1. a[1] \in Words
        BY <3>2
      <4>2. Len(a) >= 1
        BY <1>1, <1>2, <3>2 DEF IsSequence
      <4>3. QED
        BY <4>1, <4>2 DEF Argument
    <3>3. QED
      BY <3>1, <3>2
  <2>3. w \in Words => Command(words)
    <3> HAVE w \in Words
    <3>1. \E n \in Numerals : ToString(n) = w
      BY DEF Words
    <3>2. k \in Numerals
      BY <3>1 DEF NumberOf
    <3>3. k * Second \in Measures
      BY <3>2 DEF Measures
    <3>4. Word(ToString(k * Second))
      BY <1>3, <3>3
    <3>5. Command(<<"sleep", ToString(k * Second)>>)
      <4> DEFINE duration == ToString(k * Second)
      <4> HIDE DEF duration, k
      <4>1. Word(duration)
        BY <3>4 DEF duration
      <4>2. Command(<<"sleep", duration>>)
        BY <4>1, ShortCommand
      <4>3. QED
        BY <4>2 DEF duration
    <3>6. QED
      BY <3>5 DEF get_sleep_event
  <2> HIDE DEF words, a, numbers
  <2>4. Commands(OneLine(a, 0, AnyNumber, numbers, words).lines)
    BY <2>2, <2>3, OneLineCommands
  <2>5. QED
    BY <2>1, <2>4 DEF a
<1>13. CASE c \notin {"scroll_down", "scroll_up", "swipe_left", "swipe_right", "drag", "tap",
                      "double_tap", "pinch", "keydown", "keyup", "sleep"}
  <2>1. result = Raises
    BY <1>13 DEF get_cmd_events
  <2>2. QED
    BY <2>1, NoCommand DEF Raises
<1>14. QED
  BY <1>5, <1>6, <1>7, <1>8, <1>9, <1>10, <1>11, <1>12, <1>13

---------------------------------------------------------------------------
(* Steps of orng.                                                          *)

\* The least of three numbers is one of them.
LEMMA LeastOfThree ==
  ASSUME NEW a \in Int, NEW b \in Int, NEW c \in Int, NEW m, m = Min({a, b, c})
  PROVE  m \in {a, b, c} /\ m <= a /\ m <= b /\ m <= c
<1> DEFINE T == {a, b, c}
<1>1. \E x \in T : \A y \in T : x <= y
  <2>1. CASE a <= b /\ a <= c
    BY <2>1
  <2>2. CASE b <= a /\ b <= c
    BY <2>2
  <2>3. CASE c <= a /\ c <= b
    BY <2>3
  <2>4. QED
    BY <2>1, <2>2, <2>3
<1>2. m \in T /\ \A y \in T : m <= y
  BY <1>1 DEF Min
<1>3. QED
  BY <1>2

\* What fgets returns is the next part of the script, and not empty.
LEMMA FetchedPlace ==
  ASSUME NEW g, IsSequence(g), read \in Nat, read < Len(g), NEW f, f = Fetched(g)
  PROVE  /\ f \in Seq(Range(g)) /\ Len(f) \in 1..(Len(g) - read) /\ Len(f) <= MAX_COMMAND_LEN - 1
         /\ \A j \in 1..Len(f) : f[j] = g[read + j]
<1> DEFINE S    == Range(g)
           rest == SubSeq(g, read + 1, Len(g))
           N    == Len(g) - read
           end  == Find(rest, 1, {"\n"})
           m    == Min({end, Len(rest), MAX_COMMAND_LEN - 1})
<1>1. g \in Seq(S) /\ read \in 0..Len(g) /\ Len(g) \in Nat
  BY DEF IsSequence
<1> HIDE DEF S
<1>2. N \in Nat /\ N > 0
  BY <1>1
<1>3. rest \in Seq(S) /\ Len(rest) = N /\ \A j \in 1..N : rest[j] = g[read + j]
  BY <1>1
<1> HIDE DEF rest
<1>4. 1 \in 1..(Len(rest) + 1)
  BY <1>2, <1>3
<1>5. end \in 1..(Len(rest) + 1)
  BY <1>3, <1>4, FindPlace
<1> HIDE DEF end, N
<1>6. m \in 1..N /\ m <= MAX_COMMAND_LEN - 1
  <2>1. end \in Int /\ Len(rest) \in Int /\ MAX_COMMAND_LEN - 1 \in Int /\ MAX_COMMAND_LEN - 1 >= 1
    BY <1>2, <1>3, <1>5, ScriptAssumption
  <2> DEFINE a == end
             b == Len(rest)
             c == MAX_COMMAND_LEN - 1
  <2>4. a \in Int /\ b \in Int /\ c \in Int /\ m = Min({a, b, c})
    BY <2>1
  <2> HIDE DEF a, b, c, m
  <2>5. m \in {a, b, c} /\ m <= b /\ m <= c
    BY <2>4, LeastOfThree
  <2>2. /\ m \in {end, Len(rest), MAX_COMMAND_LEN - 1} /\ m <= Len(rest)
        /\ m <= MAX_COMMAND_LEN - 1
    BY <2>5 DEF a, b, c
  <2>3. QED
    BY <1>2, <1>3, <1>5, <2>1, <2>2
<1>7. f = SubSeq(rest, 1, m)
  BY DEF Fetched, rest, end
<1> HIDE DEF m
<1>8. f \in Seq(S) /\ Len(f) = m /\ \A j \in 1..m : f[j] = rest[j]
  BY <1>2, <1>3, <1>6, <1>7
<1>9. Len(f) \in 1..N /\ Len(f) <= MAX_COMMAND_LEN - 1 /\ \A j \in 1..Len(f) : f[j] = g[read + j]
  BY <1>2, <1>3, <1>6, <1>8
<1>10. QED
  BY <1>8, <1>9 DEF N, S

\* The end of a line.
Newline == "\n"

\* fgets does not read beyond the end of a line.
LEMMA FetchedEnds ==
  ASSUME NEW g, IsSequence(g), read \in Nat, read < Len(g), NEW f, f = Fetched(g),
         NEW e \in 1..(Len(g) - read), g[read + e] \in {Newline, NUL}
  PROVE  Len(f) <= e
<1> DEFINE S    == Range(g)
           rest == SubSeq(g, read + 1, Len(g))
           N    == Len(g) - read
           ends == {Newline}
           end  == Find(rest, 1, ends)
           m    == Min({end, Len(rest), MAX_COMMAND_LEN - 1})
<1>1. g \in Seq(S) /\ read \in 0..Len(g) /\ Len(g) \in Nat
  BY DEF IsSequence
<1> HIDE DEF S
<1>2. N \in Nat /\ N > 0
  BY <1>1
<1>3. rest \in Seq(S) /\ Len(rest) = N /\ \A j \in 1..N : rest[j] = g[read + j]
  BY <1>1
<1>4. f = SubSeq(rest, 1, m)
  BY Zenon DEF Fetched, Newline
<1> HIDE DEF rest
<1>5. 1 \in 1..(Len(rest) + 1)
  BY <1>2, <1>3
<1>6. end \in 1..(Len(rest) + 1) /\ \A k \in 1..(end - 1) : Cell(rest, k) \notin ends \cup {NUL}
  BY <1>3, <1>5, FindPlace
<1> HIDE DEF end
<1>7. end <= e
  <2>1. e \in 1..N
    OBVIOUS
  <2> HIDE DEF N
  <2>2. Cell(rest, e) \in {Newline, NUL}
    BY <1>3, <2>1 DEF Cell
  <2>3. e \notin 1..(end - 1)
    BY <1>6, <2>2
  <2>4. QED
    BY <1>2, <1>3, <1>6, <2>1, <2>3
<1> HIDE DEF ends, N
<1>8. m \in 1..N /\ m <= end
  <2>1. end \in Int /\ Len(rest) \in Int /\ MAX_COMMAND_LEN - 1 \in Int /\ MAX_COMMAND_LEN - 1 >= 1
    BY <1>2, <1>3, <1>6, ScriptAssumption
  <2> DEFINE a == end
             b == Len(rest)
             c == MAX_COMMAND_LEN - 1
  <2>2. a \in Int /\ b \in Int /\ c \in Int /\ m = Min({a, b, c})
    BY <2>1
  <2> HIDE DEF a, b, c, m
  <2>3. m \in {a, b, c} /\ m <= b /\ m <= a
    BY <2>2, LeastOfThree
  <2>4. m \in {end, Len(rest), MAX_COMMAND_LEN - 1} /\ m <= Len(rest) /\ m <= end
    BY <2>3 DEF a, b, c
  <2>5. QED
    BY <1>2, <1>3, <1>6, <2>1, <2>4
<1> HIDE DEF m
<1>9. Len(f) = m
  BY <1>2, <1>3, <1>4, <1>8
<1>10. QED
  BY <1>6, <1>7, <1>8, <1>9

\* fgets reads up to the end of a line that fits the buffer.
LEMMA FetchedFar ==
  ASSUME NEW g, IsSequence(g), read \in Nat, read < Len(g), NEW f, f = Fetched(g),
         NEW e \in 1..(Len(g) - read), e < MAX_COMMAND_LEN,
         \A x \in 1..(e - 1) : g[read + x] \notin {Newline, NUL}
  PROVE  Len(f) >= e
<1> DEFINE S    == Range(g)
           rest == SubSeq(g, read + 1, Len(g))
           N    == Len(g) - read
           ends == {Newline}
           end  == Find(rest, 1, ends)
           m    == Min({end, Len(rest), MAX_COMMAND_LEN - 1})
<1>1. g \in Seq(S) /\ read \in 0..Len(g) /\ Len(g) \in Nat
  BY DEF IsSequence
<1> HIDE DEF S
<1>2. N \in Nat /\ N > 0
  BY <1>1
<1>3. rest \in Seq(S) /\ Len(rest) = N /\ \A j \in 1..N : rest[j] = g[read + j]
  BY <1>1
<1>4. f = SubSeq(rest, 1, m)
  BY Zenon DEF Fetched, Newline
<1> HIDE DEF rest
<1>5. 1 \in 1..(Len(rest) + 1)
  BY <1>2, <1>3
<1>6. end \in 1..(Len(rest) + 1) /\ Cell(rest, end) \in ends \cup {NUL}
  BY <1>3, <1>5, FindPlace
<1> HIDE DEF end
<1>7. end >= e
  <2>1. e \in 1..N
    OBVIOUS
  <2> HIDE DEF N
  <2>2. ASSUME end < e PROVE FALSE
    <3>1. end \in 1..(e - 1) /\ end \in 1..N /\ end <= Len(rest)
      BY <1>2, <1>3, <1>6, <2>1, <2>2
    <3>2. Cell(rest, end) = g[read + end]
      BY <1>3, <3>1 DEF Cell
    <3>3. QED
      BY <1>6, <3>1, <3>2
  <2>3. QED
    BY <1>6, <2>1, <2>2
<1> HIDE DEF ends, N
<1>8. m \in 1..N /\ m >= e
  <2>1. end \in Int /\ Len(rest) \in Int /\ MAX_COMMAND_LEN - 1 \in Int /\ MAX_COMMAND_LEN - 1 >= e
    BY <1>2, <1>3, <1>6, ScriptAssumption
  <2> DEFINE a == end
             b == Len(rest)
             c == MAX_COMMAND_LEN - 1
  <2>2. a \in Int /\ b \in Int /\ c \in Int /\ m = Min({a, b, c})
    BY <2>1
  <2>3. e <= N
    BY DEF N
  <2> HIDE DEF a, b, c, m
  <2>4. m \in {a, b, c} /\ m <= b
    BY <2>2, LeastOfThree
  <2>5. m \in {end, Len(rest), MAX_COMMAND_LEN - 1} /\ m <= Len(rest)
    BY <2>4 DEF a, b, c
  <2>6. QED
    BY <1>2, <1>3, <1>6, <1>7, <2>1, <2>3, <2>5
<1> HIDE DEF m
<1>9. Len(f) = m
  BY <1>2, <1>3, <1>4, <1>8
<1>10. QED
  BY <1>8, <1>9

\* One sequence behind the other.
LEMMA TwoParts ==
  ASSUME NEW V, NEW a \in Seq(V), NEW b \in Seq(V)
  PROVE  /\ a \o b \in Seq(V) /\ Len(a \o b) = Len(a) + Len(b)
         /\ \A j \in 1..Len(b) : (a \o b)[Len(a) + j] = b[j]
OBVIOUS

LEMMA FirstPart ==
  ASSUME NEW V, NEW a \in Seq(V), NEW b \in Seq(V)
  PROVE  \A j \in 1..Len(a) : (a \o b)[j] = a[j]
OBVIOUS

\* What a word that is cut in two leaves of the script: what was read of it, and every other
\* word.  A line that fits the buffer is not cut.
LEMMA CutFile ==
  ASSUME ReaderInv, read < Len(file), NEW g, g \in AsCut
  PROVE  /\ IsSequence(g) /\ read \in Nat /\ Len(file) \in Nat /\ Len(g) \in Nat /\ read < Len(g)
         /\ \A j \in 1..read : g[j] = file[j]
         /\ Range(file) \subseteq Range(g) \cup {c[1] : c \in Cuts}
         /\ g = file \/ (Len(g) = Len(file) + 1 /\ Len(Fetched(g)) = MAX_COMMAND_LEN - 1)
         /\ \A e \in 1..(Len(file) - read) :
              file[read + e] = Newline /\ e < MAX_COMMAND_LEN => g = file
<1> DEFINE S    == Range(file)
           last == read + MAX_COMMAND_LEN - 1
<1>1. /\ IsSequence(file) /\ file \in Seq(S) /\ read \in Nat /\ Len(file) \in Nat
      /\ MAX_COMMAND_LEN \in Nat /\ MAX_COMMAND_LEN > 3
  BY ScriptAssumption DEF ReaderInv, ReaderTypes, IsSequence
<1>2. CASE g = file
  <2>1. \A j \in 1..read : g[j] = file[j]
    BY <1>2
  <2>2. Range(file) \subseteq Range(g) \cup {c[1] : c \in Cuts}
    BY <1>2
  <2>3. QED
    BY <1>1, <1>2, <2>1, <2>2
<1>3. CASE g # file
  <2>1. PICK c \in Cuts :
          /\ Len(Fetched(file)) = MAX_COMMAND_LEN - 1 /\ file[last] = c[1]
          /\ g = SubSeq(file, 1, last - 1) \o <<c[2], c[3]>> \o SubSeq(file, last + 1, Len(file))
    BY <1>3 DEF AsCut
  <2>2. PICK f : f = Fetched(file)
    OBVIOUS
  <2>3. Len(f) \in 1..(Len(file) - read)
    BY <1>1, <2>2, FetchedPlace
  <2>4. last \in 1..Len(file) /\ last > read
    <3>1. Len(f) = MAX_COMMAND_LEN - 1
      BY <2>1, <2>2
    <3>2. MAX_COMMAND_LEN - 1 <= Len(file) - read
      BY <2>3, <3>1
    <3>3. QED
      BY <1>1, <3>2
  <2>5. c[1] \notin {Newline, NUL} /\ c[2] \notin {Newline, NUL}
    <3>1. Newline \in Blank
      BY Zenon DEF Newline, Blank
    <3>2. QED
      BY <3>1, ScriptAssumption
  <2> DEFINE V == S \cup {c[2], c[3]}
             a == SubSeq(file, 1, last - 1)
             b == <<c[2], c[3]>>
             d == SubSeq(file, last + 1, Len(file))
  <2>6. a \in Seq(V) /\ Len(a) = last - 1 /\ \A j \in 1..(last - 1) : a[j] = file[j]
    <3>1. a \in Seq(S) /\ Len(a) = last - 1 /\ \A j \in 1..(last - 1) : a[j] = file[j]
      <4> HIDE DEF S, last
      <4>1. QED
        BY <1>1, <2>4
    <3> HIDE DEF a, S
    <3>2. QED
      BY <3>1
  <2>7. d \in Seq(V) /\ Len(d) = Len(file) - last /\ \A j \in 1..(Len(file) - last) : d[j] = file[last + j]
    <3>1. d \in Seq(S) /\ Len(d) = Len(file) - last /\ \A j \in 1..(Len(file) - last) : d[j] = file[last + j]
      <4> HIDE DEF S, last
      <4>1. QED
        BY <1>1, <2>4
    <3> HIDE DEF d, S
    <3>2. QED
      BY <3>1
  <2>8. b \in Seq(V) /\ Len(b) = 2 /\ b[1] = c[2] /\ b[2] = c[3]
    <3> HIDE DEF S
    <3>1. QED
      OBVIOUS
  <2>9. g = a \o b \o d
    BY <2>1
  <2> HIDE DEF V, S, a, b, d, last
  <2>10. /\ g \in Seq(V) /\ Len(g) = Len(file) + 1
         /\ \A j \in 1..(last - 1) : g[j] = file[j]
         /\ g[last] = c[2]
         /\ \A j \in (last + 1)..Len(file) : g[j + 1] = file[j]
    <3>1. /\ a \o b \in Seq(V) /\ Len(a \o b) = last + 1
          /\ \A j \in 1..(last - 1) : (a \o b)[j] = file[j]
          /\ (a \o b)[last] = c[2]
      <4>1. a \o b \in Seq(V) /\ Len(a \o b) = Len(a) + 2 /\ (a \o b)[Len(a) + 1] = b[1]
        <5>1. /\ a \o b \in Seq(V) /\ Len(a \o b) = Len(a) + Len(b)
              /\ \A j \in 1..Len(b) : (a \o b)[Len(a) + j] = b[j]
          <6>1. a \in Seq(V) /\ b \in Seq(V)
            BY <2>6, <2>8
          <6>2. QED
            BY ONLY <6>1, TwoParts
        <5>2. 1 \in 1..Len(b)
          BY <2>8
        <5>3. QED
          BY <2>8, <5>1, <5>2
      <4>2. \A j \in 1..(last - 1) : (a \o b)[j] = file[j]
        BY <2>4, <2>6, <2>8
      <4>3. last \in Nat /\ last >= 1
        BY <2>4
      <4>4. Len(a) + 1 = last /\ Len(a) + 2 = last + 1
        BY <2>6, <4>3
      <4>5. QED
        BY <2>8, <4>1, <4>2, <4>3, <4>4
    <3> DEFINE ab == a \o b
    <3> HIDE DEF ab
    <3>2. /\ ab \in Seq(V) /\ Len(ab) = last + 1
          /\ \A j \in 1..(last - 1) : ab[j] = file[j]
          /\ ab[last] = c[2]
      BY <3>1 DEF ab
    <3>3. g = ab \o d
      BY <2>9 DEF ab
    <3>8. ab \in Seq(V) /\ d \in Seq(V)
      BY ONLY <2>7, <3>2
    <3>9. /\ g \in Seq(V) /\ Len(g) = Len(ab) + Len(d)
          /\ \A j \in 1..Len(ab) : g[j] = ab[j]
          /\ \A j \in 1..Len(d) : g[Len(ab) + j] = d[j]
      BY ONLY <3>3, <3>8, TwoParts, FirstPart
    <3>10. Len(file) \in Nat /\ last \in 1..Len(file)
      BY <1>1, <2>4
    <3>4. g \in Seq(V) /\ Len(g) = Len(file) + 1
      BY ONLY <2>7, <3>2, <3>9, <3>10
    <3>5. \A j \in 1..(last + 1) : g[j] = ab[j]
      BY ONLY <3>2, <3>9
    <3>6. ASSUME NEW j \in (last + 1)..Len(file) PROVE g[j + 1] = file[j]
      <4>1. j - last \in 1..(Len(file) - last) /\ last + (j - last) = j
        BY <1>1, <2>4
      <4>2. g[j + 1] = d[j - last]
        <5>1. last + 1 + (j - last) = j + 1
          BY ONLY <3>10
        <5>2. QED
          BY ONLY <2>7, <3>2, <3>9, <4>1, <5>1
      <4>3. QED
        BY <2>7, <4>1, <4>2
    <3>7. QED
      BY <2>4, <3>2, <3>4, <3>5, <3>6
  <2>11. IsSequence(g) /\ Len(g) \in Nat /\ read < Len(g)
    BY <1>1, <2>10, Sequences
  <2>12. \A j \in 1..read : g[j] = file[j]
    BY <1>1, <2>4, <2>10
  <2>13. S \subseteq Range(g) \cup {h[1] : h \in Cuts}
    <3>1. DOMAIN g = 1..Len(g) /\ DOMAIN file = 1..Len(file)
      BY <1>1, <2>10
    <3> SUFFICES ASSUME NEW j \in 1..Len(file)
                 PROVE  file[j] \in Range(g) \cup {h[1] : h \in Cuts}
      BY <3>1 DEF S, Range
    <3>2. CASE j < last
      <4>1. g[j] = file[j] /\ j \in 1..Len(g)
        BY <1>1, <2>4, <2>10, <3>2
      <4>2. QED
        BY <3>1, <4>1 DEF Range
    <3>3. CASE j = last
      BY <2>1, <3>3
    <3>4. CASE j > last
      <4>1. g[j + 1] = file[j] /\ j + 1 \in 1..Len(g)
        BY <1>1, <2>4, <2>10, <3>4
      <4>2. QED
        BY <3>1, <4>1 DEF Range
    <3>5. QED
      BY <1>1, <2>4, <3>2, <3>3, <3>4
  <2>14. ASSUME NEW e \in 1..(Len(file) - read), e < MAX_COMMAND_LEN
         PROVE  file[read + e] \notin {Newline, NUL}
    <3> SUFFICES ASSUME file[read + e] \in {Newline, NUL} PROVE FALSE
      OBVIOUS
    <3>1. MAX_COMMAND_LEN - 1 <= e
      BY <1>1, <2>1, <2>2, <2>3, FetchedEnds
    <3>2. CASE e = MAX_COMMAND_LEN - 1
      <4>1. read + e = last
        BY <1>1, <3>2 DEF last
      <4>2. QED
        BY <2>1, <2>5, <4>1 DEF last
    <3>3. QED
      BY <1>1, <2>14, <3>1, <3>2
  <2>15. Len(Fetched(g)) = MAX_COMMAND_LEN - 1
    <3>1. PICK h : h = Fetched(g)
      OBVIOUS
    <3>2. Len(h) \in 1..(Len(g) - read) /\ Len(h) <= MAX_COMMAND_LEN - 1
      BY <1>1, <2>11, <3>1, FetchedPlace
    <3>3. PICK e \in 1..(Len(g) - read) : e = MAX_COMMAND_LEN - 1
      <4>1. MAX_COMMAND_LEN - 1 \in 1..(Len(g) - read)
        BY <1>1, <2>4, <2>10 DEF last
      <4>2. QED
        BY <4>1
    <3>4. ASSUME NEW x \in 1..(e - 1) PROVE g[read + x] \notin {Newline, NUL}
      <4>1. read + x \in 1..(last - 1) /\ x \in 1..(Len(file) - read) /\ x < MAX_COMMAND_LEN
        BY <1>1, <2>4, <3>3 DEF last
      <4>2. g[read + x] = file[read + x]
        BY <2>10, <4>1
      <4>3. QED
        BY <2>14, <4>1, <4>2
    <3>5. Len(h) >= e
      <4>1. e < MAX_COMMAND_LEN /\ \A x \in 1..(e - 1) : g[read + x] \notin {Newline, NUL}
        BY <1>1, <3>3, <3>4
      <4>2. QED
        BY <1>1, <2>11, <3>1, <4>1, FetchedFar
    <3>6. QED
      BY <1>1, <3>1, <3>2, <3>3, <3>5
  <2>16. \A e \in 1..(Len(file) - read) : ~(file[read + e] = Newline /\ e < MAX_COMMAND_LEN)
    BY <1>1, <2>14
  <2>17. QED
    BY <1>1, <2>10, <2>11, <2>12, <2>13, <2>15, <2>16 DEF S
<1>4. QED
  BY <1>2, <1>3

\* The next token: it begins with a cell of the script, at the place where orng goes on or
\* behind it, and orng goes on behind the token.
LEMMA TokenHere ==
  ASSUME ReaderInv, stage \in {"command", "argument"}, NEW t, t = Token
  PROVE  /\ t.line \in Seq(Cells) /\ Len(t.line) = Len(line) /\ Len(line) \in Nat
         /\ Place \in 1..(Len(line) + 1) /\ t.at \in Place..(Len(line) + 1)
         /\ t.save \in t.at..(Len(line) + 1)
         /\ t.found \in BOOLEAN /\ t.text \in Seq(Cells)
         /\ t.found => /\ t.at <= Len(line) /\ t.at < t.save /\ Len(t.text) > 0
                       /\ t.text[1] = line[t.at] /\ line[t.at] # NUL
                       /\ t.text[1] = file[read - Len(line) + t.at]
         /\ \A j \in t.save..Len(line) : t.line[j] = line[j]
<1>1. /\ line \in Seq(Cells) /\ Place \in 1..(Len(line) + 1)
      /\ \A j \in Place..Len(line) : line[j] \in {file[read - Len(line) + j], NUL}
  BY DEF ReaderInv, ReaderTypes, LineInv, InLine
<1>2. NUL \in Cells /\ NUL \notin Blank
  BY DEF Cells, Blank, NUL
<1>3. t = strtok(line, Place, Blank)
  BY DEF Token, Place
<1> HIDE DEF Cells, Place, Blank
<1>4. /\ t.line \in Seq(Cells) /\ Len(t.line) = Len(line)
      /\ t.at \in Place..(Len(line) + 1) /\ t.save \in t.at..(Len(line) + 1)
      /\ t.found \in BOOLEAN /\ t.text \in Seq(Cells)
      /\ t.found => /\ t.at <= Len(line) /\ t.at < t.save
                    /\ Len(t.text) > 0 /\ t.text[1] = line[t.at]
                    /\ line[t.at] # NUL
      /\ \A j \in t.save..Len(line) : t.line[j] = line[j]
  BY <1>1, <1>2, <1>3, TokenPlace
<1>5. Len(line) \in Nat
  BY <1>1
<1>6. t.found => t.text[1] = file[read - Len(line) + t.at]
  BY <1>1, <1>4, <1>5
<1>7. QED
  BY <1>1, <1>4, <1>5, <1>6

\* Further down the line, of which no more than zeros have been written since.
Further(l, s) ==
  /\ l \in Seq(Cells) /\ Len(l) = Len(line)
  /\ s \in Place..(Len(line) + 1)
  /\ \A j \in s..Len(line) : l[j] \in {line[j], NUL}

\* What is true of the rest of the line is true of less of it.
LEMMA FurtherOn ==
  ASSUME ReaderInv, InLine, NEW l, NEW s, Further(l, s)
  PROVE  /\ s \in 1..(Len(l) + 1) /\ Len(l) <= read
         /\ \A j \in s..Len(l) : l[j] \in {file[read - Len(l) + j], NUL}
<1>1. /\ line \in Seq(Cells) /\ Place \in 1..(Len(line) + 1) /\ Len(line) <= read
      /\ \A j \in Place..Len(line) : line[j] \in {file[read - Len(line) + j], NUL}
  BY DEF ReaderInv, ReaderTypes, LineInv
<1>2. Len(line) \in Nat
  BY <1>1
<1>3. \A j \in s..Len(line) : j \in Place..Len(line)
  BY <1>1, <1>2 DEF Further
<1>4. QED
  BY <1>1, <1>2, <1>3 DEF Further

\* What a step of orng leaves as it is.
LEMMA OnTheLine ==
  ReaderInv /\ InLine /\ Further(line', save') /\ fresh' = FALSE /\ UNCHANGED <<file, read>>
    => /\ Cells' = Cells /\ Place' = save' /\ line' \in Seq(Cells')
       /\ Place' \in 1..(Len(line') + 1) /\ Len(line') <= read'
       /\ \A j \in Place'..Len(line') : line'[j] \in {file'[read' - Len(line') + j], NUL}
<1> SUFFICES ASSUME ReaderInv, InLine, Further(line', save'), fresh' = FALSE, UNCHANGED <<file, read>>
             PROVE  /\ Cells' = Cells /\ Place' = save' /\ line' \in Seq(Cells')
                    /\ Place' \in 1..(Len(line') + 1) /\ Len(line') <= read'
                    /\ \A j \in Place'..Len(line') : line'[j] \in {file'[read' - Len(line') + j], NUL}
  OBVIOUS
<1>1. Cells' = Cells
  BY DEF Cells
<1>2. Place' = save'
  BY DEF Place
<1>3. /\ save' \in 1..(Len(line') + 1) /\ Len(line') <= read
      /\ \A j \in save'..Len(line') : line'[j] \in {file[read - Len(line') + j], NUL}
  BY FurtherOn
<1>4. line' \in Seq(Cells)
  BY DEF Further
<1>5. QED
  BY <1>1, <1>2, <1>3, <1>4

\* A token taken from the line, and one more where a comment is closed further on.
LEMMA TokenFurther ==
  ASSUME ReaderInv, stage \in {"command", "argument"}, NEW t, t = Token
  PROVE  Further(t.line, t.save)
<1>1. /\ t.line \in Seq(Cells) /\ Len(t.line) = Len(line) /\ Len(line) \in Nat
      /\ Place \in 1..(Len(line) + 1) /\ t.at \in Place..(Len(line) + 1)
      /\ t.save \in t.at..(Len(line) + 1)
      /\ \A j \in t.save..Len(line) : t.line[j] = line[j]
  BY TokenHere
<1> HIDE DEF Cells, Place
<1>2. QED
  BY <1>1 DEF Further

\* The end of a comment within its token.
LEMMA CommentWithin ==
  ASSUME ReaderInv, stage \in {"command", "argument"}, NEW t, t = Token,
         NEW cells, NEW w, w = Find(t.line, t.at, cells)
  PROVE  Further(Zero(t.line, w), t.save)
<1>1. /\ t.line \in Seq(Cells) /\ Len(t.line) = Len(line) /\ Len(line) \in Nat
      /\ Place \in 1..(Len(line) + 1) /\ t.at \in Place..(Len(line) + 1)
      /\ t.save \in t.at..(Len(line) + 1)
      /\ \A j \in t.save..Len(line) : t.line[j] = line[j]
  BY TokenHere
<1>2. NUL \in Cells
  BY DEF Cells
<1> HIDE DEF Cells, Place
<1> DEFINE l == t.line
           i == t.at
           z == Zero(l, w)
<1>3. l \in Seq(Cells) /\ i \in 1..(Len(l) + 1) /\ w = Find(l, i, cells)
  BY <1>1
<1> HIDE DEF l, i
<1>4. w \in i..(Len(l) + 1)
  BY <1>3, FindPlace
<1>5. w \in Nat \ {0}
  BY <1>3, <1>4
<1>6. z \in Seq(Cells) /\ Len(z) = Len(l) /\ \A j \in 1..Len(l) : z[j] = IF j = w THEN NUL ELSE l[j]
  BY <1>2, <1>3, <1>5, ZeroType
<1> HIDE DEF z
<1>7. \A j \in t.save..Len(line) : z[j] \in {line[j], NUL}
  <2> TAKE j \in t.save..Len(line)
  <2>1. j \in 1..Len(l) /\ l[j] = line[j]
    BY <1>1 DEF l
  <2>2. QED
    BY <1>6, <2>1
<1>8. Len(z) = Len(line)
  BY <1>1, <1>6 DEF l
<1>9. t.save \in Place..(Len(line) + 1)
  BY <1>1
<1>10. Further(z, t.save)
  BY <1>6, <1>7, <1>8, <1>9 DEF Further
<1>11. QED
  BY <1>10 DEF z, l

\* The end of a comment in a later token.
LEMMA CommentBehind ==
  ASSUME ReaderInv, stage \in {"command", "argument"}, NEW t, t = Token,
         NEW d, NUL \notin d, NEW u, u = strtok(t.line, t.save, d)
  PROVE  Further(u.line, u.save) /\ u.save >= t.save /\ u.found \in BOOLEAN
<1>1. /\ t.line \in Seq(Cells) /\ Len(t.line) = Len(line) /\ Len(line) \in Nat
      /\ Place \in 1..(Len(line) + 1) /\ t.at \in Place..(Len(line) + 1)
      /\ t.save \in t.at..(Len(line) + 1)
      /\ \A j \in t.save..Len(line) : t.line[j] = line[j]
  BY TokenHere
<1>2. NUL \in Cells
  BY DEF Cells
<1> HIDE DEF Cells, Place
<1> DEFINE l == t.line
           i == t.save
<1>3. l \in Seq(Cells) /\ i \in 1..(Len(l) + 1) /\ u = strtok(l, i, d)
  BY <1>1, <1>2
<1> HIDE DEF l, i
<1>4. /\ u.line \in Seq(Cells) /\ Len(u.line) = Len(l)
      /\ u.at \in i..(Len(l) + 1) /\ u.save \in u.at..(Len(l) + 1)
      /\ u.found \in BOOLEAN
      /\ \A j \in u.save..Len(l) : u.line[j] = l[j]
  BY <1>2, <1>3, TokenPlace
<1>5. /\ Len(l) = Len(line) /\ i = t.save
      /\ \A j \in i..Len(line) : l[j] = line[j]
  BY <1>1 DEF l, i
<1>6. i \in Int /\ u.at \in Int /\ u.save \in Int /\ u.save >= i /\ u.save \in Place..(Len(line) + 1)
  BY <1>1, <1>3, <1>4, <1>5
<1>7. \A j \in u.save..Len(line) : u.line[j] = line[j]
  BY <1>1, <1>4, <1>5, <1>6
<1>8. QED
  BY <1>4, <1>5, <1>6, <1>7 DEF Further

\* A token with another line.
LEMMA OtherLine ==
  ASSUME NEW l, NEW i, NEW d, NEW x, NEW t, t = strtok(l, i, d)
  PROVE  [t EXCEPT !.line = x].line = x /\ [t EXCEPT !.line = x].save = t.save
BY DEF strtok

\* A comment leads further down the line, at least behind its first token.
LEMMA CommentStep ==
  ASSUME ReaderInv, parseComment
  PROVE  /\ stage \in {"command", "argument"} /\ stage' \in {stage, "failed"}
         /\ Further(line', save') /\ fresh' = FALSE /\ save' > Place
         /\ UNCHANGED <<file, read, cmd, args, more, executed>>
<1> DEFINE closing == {"}"}
<1>1. /\ stage \in {"command", "argument"}
      /\ UNCHANGED <<file, read, cmd, args, more, executed>>
  BY DEF parseComment
<1>2. PICK t : /\ t = Token /\ t.found
               /\ \/ Take([t EXCEPT !.line = Zero(t.line, Find(t.line, t.at, closing))]) /\ stage' = stage
                  \/ /\ Take(strtok(t.line, t.save, closing))
                     /\ stage' = IF strtok(t.line, t.save, closing).found THEN stage ELSE "failed"
  BY Zenon DEF parseComment
<1>3. NUL \notin closing
  BY Zenon DEF NUL
<1> HIDE DEF closing
<1>4. /\ t.save \in t.at..(Len(line) + 1) /\ t.at \in Place..(Len(line) + 1)
      /\ Place \in 1..(Len(line) + 1) /\ Len(line) \in Nat /\ t.at < t.save
  BY <1>1, <1>2, TokenHere
<1> HIDE DEF Place
<1>5. CASE Take([t EXCEPT !.line = Zero(t.line, Find(t.line, t.at, closing))]) /\ stage' = stage
  <2> DEFINE w == Find(t.line, t.at, closing)
             z == Zero(t.line, w)
  <2>1. Further(z, t.save)
    BY <1>1, <1>2, CommentWithin
  <2> HIDE DEF w, z
  <2>2. [t EXCEPT !.line = z].line = z /\ [t EXCEPT !.line = z].save = t.save
    BY <1>2, OtherLine DEF Token
  <2>3. line' = z /\ save' = t.save /\ fresh' = FALSE
    BY <1>5, <2>2 DEF Take, w, z
  <2>4. QED
    BY <1>1, <1>4, <1>5, <2>1, <2>3
<1>6. CASE /\ Take(strtok(t.line, t.save, closing))
           /\ stage' = IF strtok(t.line, t.save, closing).found THEN stage ELSE "failed"
  <2> DEFINE u == strtok(t.line, t.save, closing)
  <2>1. Further(u.line, u.save) /\ u.save >= t.save
    BY <1>1, <1>2, <1>3, CommentBehind
  <2>2. line' = u.line /\ save' = u.save /\ fresh' = FALSE
    BY <1>6 DEF Take
  <2>3. stage' \in {stage, "failed"}
    BY <1>6
  <2> HIDE DEF u
  <2>4. save' > Place
    <3>1. u.save \in Int
      <4>1. u.save \in Place..(Len(line) + 1)
        BY <2>1 DEF Further
      <4>2. QED
        BY <1>4, <4>1
    <3>2. QED
      BY <1>4, <2>1, <2>2, <3>1
  <2>5. QED
    BY <1>1, <2>1, <2>2, <2>3, <2>4
<1>7. QED
  BY <1>2, <1>5, <1>6

\* So does a token that is taken for a command, and the lack of one.
LEMMA CommandStep ==
  ASSUME ReaderInv, ParseCommand, NEW t, t = Token
  PROVE  /\ stage = "command" /\ cmd' = t.text /\ cmd' \in Seq(Cells) /\ args' = << >>
         /\ more' = FALSE /\ Further(line', save') /\ fresh' = FALSE
         /\ t.found => stage' = "argument" /\ Len(cmd') > 0 /\ save' > Place
         /\ ~t.found => stage' = "line" /\ save' >= Place
         /\ t.found \in BOOLEAN
         /\ line' = t.line /\ save' = t.save
         /\ UNCHANGED <<file, read, executed>>
<1>1. /\ stage = "command" /\ line' = t.line /\ save' = t.save /\ fresh' = FALSE
      /\ cmd' = t.text /\ args' = << >> /\ more' = FALSE
      /\ stage' = IF t.found THEN "argument" ELSE "line"
      /\ UNCHANGED <<file, read, executed>>
  BY Zenon DEF ParseCommand, Take
<1>2. stage \in {"command", "argument"}
  BY <1>1
<1>3. /\ t.save \in t.at..(Len(line) + 1) /\ t.at \in Place..(Len(line) + 1)
      /\ Place \in 1..(Len(line) + 1) /\ Len(line) \in Nat /\ t.text \in Seq(Cells)
      /\ t.found => t.at < t.save /\ Len(t.text) > 0
      /\ t.found \in BOOLEAN
  BY <1>2, TokenHere
<1>4. Further(t.line, t.save)
  BY <1>2, TokenFurther
<1> HIDE DEF Place, Cells
<1>5. t.save >= Place /\ (t.found => t.save > Place)
  BY <1>3
<1>6. QED
  BY <1>1, <1>3, <1>4, <1>5

\* So does an argument, or what ends the arguments.
LEMMA ArgumentStep ==
  ASSUME ReaderInv, ParseArgument, NEW t, t = Token
  PROVE  /\ stage = "argument" /\ more' \in BOOLEAN /\ Further(line', save') /\ fresh' = FALSE
         /\ t.found => save' > Place /\ Len(t.text) > 0 /\ t.text \in Seq(Cells)
         /\ ~t.found => stage' = "execute" /\ ~more' /\ save' >= Place
         /\ t.found \in BOOLEAN
         /\ stage' \in {"argument", "execute", "aborted"}
         /\ \/ args' = args
            \/ /\ args' = Append(args, atoi(t.text)) /\ t.found /\ stage' = "argument"
               /\ Len(args) < MAX_COMMAND_ARGS
         /\ stage' = "argument" => args' = Append(args, atoi(t.text))
         /\ line' = t.line /\ save' = t.save
         /\ UNCHANGED <<file, read, cmd, executed>>
<1>1. /\ stage = "argument" /\ line' = t.line /\ save' = t.save /\ fresh' = FALSE
      /\ UNCHANGED <<file, read, cmd, executed>>
  BY Zenon DEF ParseArgument, Take
<1>2. more' \in BOOLEAN /\ (~t.found => ~more')
  BY Zenon DEF ParseArgument
<1>3. /\ stage' = IF ~t.found \/ more' THEN "execute"
                  ELSE IF Len(args) < MAX_COMMAND_ARGS THEN "argument" ELSE "aborted"
      /\ args' = IF t.found /\ ~more' /\ Len(args) < MAX_COMMAND_ARGS
                 THEN Append(args, atoi(t.text)) ELSE args
  BY Zenon DEF ParseArgument
<1>4. stage \in {"command", "argument"}
  BY <1>1
<1>5. /\ t.save \in t.at..(Len(line) + 1) /\ t.at \in Place..(Len(line) + 1)
      /\ Place \in 1..(Len(line) + 1) /\ Len(line) \in Nat /\ t.text \in Seq(Cells)
      /\ t.found => t.at < t.save /\ Len(t.text) > 0
      /\ t.found \in BOOLEAN
  BY <1>4, TokenHere
<1>6. Further(t.line, t.save)
  BY <1>4, TokenFurther
<1> HIDE DEF Place, Cells
<1>7. t.save >= Place /\ (t.found => t.save > Place)
  BY <1>5
<1>8. /\ ~t.found => stage' = "execute"
      /\ stage' \in {"argument", "execute", "aborted"}
      /\ \/ args' = args
         \/ /\ args' = Append(args, atoi(t.text)) /\ t.found /\ stage' = "argument"
            /\ Len(args) < MAX_COMMAND_ARGS
  BY <1>3, Zenon
<1>9. stage' = "argument" => args' = Append(args, atoi(t.text))
  BY <1>3, Zenon
<1>10. QED
  BY <1>1, <1>2, <1>5, <1>6, <1>7, <1>8, <1>9

\* A number or the zero that stands for what is none.
LEMMA NumberType ==
  ASSUME NEW t \in Seq(Cells), Len(t) > 0
  PROVE  atoi(t) \in Cells
<1>1. t[1] \in Cells /\ "0" \in Cells
  BY DEF Cells
<1>2. QED
  BY <1>1, Zenon DEF atoi

\* A step further down the line keeps the invariant of the reader.
LEMMA OnTheLineInv ==
  /\ ReaderInv /\ InLine /\ Further(line', save') /\ fresh' = FALSE /\ UNCHANGED <<file, read>>
  /\ stage' \in {"line", "command", "argument", "execute", "failed", "aborted"}
  /\ cmd' \in Seq(Cells) /\ args' \in Seq(Cells) /\ more' \in BOOLEAN
  /\ Len(args') <= MAX_COMMAND_ARGS
  /\ stage' \in {"argument", "execute"} => Len(cmd') > 0
  /\ ExecutedType'
  => ReaderInv'
<1> SUFFICES ASSUME ReaderInv, InLine, Further(line', save'), fresh' = FALSE, UNCHANGED <<file, read>>,
                    stage' \in {"line", "command", "argument", "execute", "failed", "aborted"},
                    cmd' \in Seq(Cells), args' \in Seq(Cells), more' \in BOOLEAN,
                    Len(args') <= MAX_COMMAND_ARGS,
                    stage' \in {"argument", "execute"} => Len(cmd') > 0,
                    ExecutedType'
             PROVE  ReaderInv'
  OBVIOUS
<1>1. /\ Cells' = Cells /\ Place' = save' /\ line' \in Seq(Cells')
      /\ Place' \in 1..(Len(line') + 1) /\ Len(line') <= read'
      /\ \A j \in Place'..Len(line') : line'[j] \in {file'[read' - Len(line') + j], NUL}
  BY OnTheLine
<1>2. IsSequence(file) /\ read \in 0..Len(file)
  BY DEF ReaderInv, ReaderTypes
<1>3. IsSequence(file') /\ read' \in 0..Len(file')
  BY <1>2
<1>4. ReaderTypes'
  <2> HIDE DEF Cells
  <2>1. cmd' \in Seq(Cells') /\ args' \in Seq(Cells') /\ line' \in Seq(Cells')
    BY <1>1
  <2>2. QED
    BY <1>3, <2>1 DEF ReaderTypes, Ended
<1>5. LineInv'
  <2> HIDE DEF Place, Cells
  <2>1. QED
    BY <1>1 DEF LineInv
<1>6. QED
  BY <1>4, <1>5 DEF ReaderInv

\* What was executed stays what it is.
LEMMA ExecutedKept ==
  ReaderInv /\ stage # "off" /\ UNCHANGED <<file, executed>> => ExecutedType'
<1> SUFFICES ASSUME ReaderInv, stage # "off", UNCHANGED <<file, executed>>
             PROVE  ExecutedType'
  OBVIOUS
<1>1. Cells' = Cells
  BY DEF Cells
<1>2. executed \in Seq(Seq(Cells))
  BY DEF ReaderInv, ExecutedType
<1> HIDE DEF Cells
<1>3. executed' \in Seq(Seq(Cells'))
  BY <1>1, <1>2
<1>4. QED
  BY <1>3 DEF ExecutedType

\* Comments, commands and arguments.
LEMMA CommentInv == ReaderInv /\ parseComment => ReaderInv'
<1> SUFFICES ASSUME ReaderInv, parseComment PROVE ReaderInv'
  OBVIOUS
<1>1. /\ stage \in {"command", "argument"} /\ stage' \in {stage, "failed"}
      /\ Further(line', save') /\ fresh' = FALSE
      /\ UNCHANGED <<file, read, cmd, args, more, executed>>
  BY CommentStep
<1>2. InLine /\ stage # "off"
  BY <1>1 DEF InLine
<1>3. ExecutedType'
  BY <1>1, <1>2, ExecutedKept
<1>4. /\ cmd \in Seq(Cells) /\ args \in Seq(Cells) /\ more \in BOOLEAN
      /\ stage \in {"argument", "execute"} => Len(cmd) > 0
      /\ Len(args) <= MAX_COMMAND_ARGS
  BY DEF ReaderInv, ReaderTypes, LineInv
<1> HIDE DEF Cells
<1>5. /\ cmd' \in Seq(Cells) /\ args' \in Seq(Cells) /\ more' \in BOOLEAN
      /\ Len(args') <= MAX_COMMAND_ARGS
      /\ stage' \in {"argument", "execute"} => Len(cmd') > 0
      /\ stage' \in {"line", "command", "argument", "execute", "failed", "aborted"}
  BY <1>1, <1>4
<1>6. QED
  BY <1>1, <1>2, <1>3, <1>5, OnTheLineInv

\* The name of a command, or the end of its line.
LEMMA CommandInv == ReaderInv /\ ParseCommand => ReaderInv'
<1> SUFFICES ASSUME ReaderInv, ParseCommand PROVE ReaderInv'
  OBVIOUS
<1>6. PICK t : t = Token
  OBVIOUS
<1>1. /\ stage = "command" /\ cmd' = t.text /\ cmd' \in Seq(Cells) /\ args' = << >>
      /\ more' = FALSE /\ Further(line', save') /\ fresh' = FALSE
      /\ t.found => stage' = "argument" /\ Len(cmd') > 0
      /\ ~t.found => stage' = "line"
      /\ t.found \in BOOLEAN
      /\ UNCHANGED <<file, read, executed>>
  <2>1. stage = "command" /\ cmd' = t.text /\ cmd' \in Seq(Cells) /\ args' = << >>
    BY <1>6, CommandStep
  <2>2. more' = FALSE /\ Further(line', save') /\ fresh' = FALSE /\ UNCHANGED <<file, read, executed>>
    BY <1>6, CommandStep
  <2>3. t.found => stage' = "argument" /\ Len(cmd') > 0
    BY <1>6, CommandStep
  <2>4. ~t.found => stage' = "line"
    BY <1>6, CommandStep
  <2>5. t.found \in BOOLEAN
    BY <1>6, CommandStep
  <2>6. QED
    BY <2>1, <2>2, <2>3, <2>4, <2>5
<1>2. InLine /\ stage # "off"
  BY <1>1 DEF InLine
<1>3. ExecutedType'
  BY <1>1, <1>2, ExecutedKept
<1> HIDE DEF Cells
<1>4. /\ args' \in Seq(Cells) /\ more' \in BOOLEAN /\ Len(args') <= MAX_COMMAND_ARGS
      /\ stage' \in {"argument", "execute"} => Len(cmd') > 0
      /\ stage' \in {"line", "command", "argument", "execute", "failed", "aborted"}
  <2>1. << >> \in Seq(Cells) /\ Len(<< >>) = 0
    OBVIOUS
  <2>6. MAX_COMMAND_ARGS \in Nat
    BY ScriptAssumption
  <2>2. args' \in Seq(Cells) /\ more' \in BOOLEAN /\ Len(args') <= MAX_COMMAND_ARGS
    <3>1. Len(args') = 0
      BY <1>1, <2>1
    <3>2. Len(args') <= MAX_COMMAND_ARGS
      BY <2>6, <3>1
    <3>3. QED
      BY <1>1, <2>1, <3>2
  <2>3. CASE t.found
    BY <1>1, <2>2, <2>3
  <2>4. CASE ~t.found
    BY <1>1, <2>2, <2>4
  <2>5. QED
    BY <1>1, <2>3, <2>4
<1>5. QED
  BY <1>1, <1>2, <1>3, <1>4, OnTheLineInv

\* An argument, a ';' or the end of the line.
LEMMA ArgumentInv == ReaderInv /\ ParseArgument => ReaderInv'
<1> SUFFICES ASSUME ReaderInv, ParseArgument PROVE ReaderInv'
  OBVIOUS
<1> DEFINE t == Token
<1>1. /\ stage = "argument" /\ more' \in BOOLEAN /\ Further(line', save') /\ fresh' = FALSE
      /\ t.found => Len(t.text) > 0 /\ t.text \in Seq(Cells)
      /\ stage' \in {"argument", "execute", "aborted"}
      /\ \/ args' = args
         \/ args' = Append(args, atoi(t.text)) /\ t.found /\ Len(args) < MAX_COMMAND_ARGS
      /\ UNCHANGED <<file, read, cmd, executed>>
  BY ArgumentStep
<1> HIDE DEF t
<1>2. InLine /\ stage # "off"
  BY <1>1 DEF InLine
<1>3. ExecutedType'
  BY <1>1, <1>2, ExecutedKept
<1>4. /\ cmd \in Seq(Cells) /\ args \in Seq(Cells) /\ Len(cmd) > 0
      /\ Len(args) <= MAX_COMMAND_ARGS
  BY <1>1 DEF ReaderInv, ReaderTypes, LineInv
<1> HIDE DEF Cells
<1>5. args' \in Seq(Cells) /\ Len(args') <= MAX_COMMAND_ARGS
  <2>1. CASE args' = args
    BY <1>4, <2>1
  <2>2. CASE args' = Append(args, atoi(t.text)) /\ t.found /\ Len(args) < MAX_COMMAND_ARGS
    <3>1. atoi(t.text) \in Cells
      BY <1>1, <2>2, NumberType
    <3>2. QED
      BY <1>4, <2>2, <3>1, ScriptAssumption
  <2>3. QED
    BY <1>1, <2>1, <2>2
<1>6. /\ cmd' \in Seq(Cells) /\ Len(cmd') > 0
      /\ stage' \in {"line", "command", "argument", "execute", "failed", "aborted"}
  BY <1>1, <1>4
<1>7. QED
  BY <1>1, <1>2, <1>3, <1>5, <1>6, OnTheLineInv

\* A command is executed or not; the line stays as it is.
LEMMA ExecuteStep ==
  ASSUME ReaderInv, Execute
  PROVE  /\ stage = "execute" /\ stage' \in {"line", "command", "failed", "aborted"}
         /\ \/ executed' = executed
            \/ /\ executed' = Append(executed, cmd \o args)
               /\ \E name \in DOMAIN Arity : cmd = <<name>> /\ Len(args) = Arity[name]
               /\ stage' = IF more THEN "command" ELSE "line"
         /\ stage' \in {"line", "command"} => executed' = Append(executed, cmd \o args)
         /\ UNCHANGED <<file, read, line, save, fresh, cmd, args, more>>
<1> DEFINE known == cmd \in {<<name>> : name \in DOMAIN Arity}
           fits  == known /\ Len(args) = Arity[cmd[1]]
<1>1. /\ stage = "execute"
      /\ executed' = IF fits THEN Append(executed, cmd \o args) ELSE executed
      /\ stage' = IF ~known THEN "failed" ELSE IF ~fits THEN "aborted"
                  ELSE IF more THEN "command" ELSE "line"
      /\ UNCHANGED <<file, read, line, save, fresh, cmd, args, more>>
  BY Zenon DEF Execute
<1>2. fits => \E name \in DOMAIN Arity : cmd = <<name>> /\ Len(args) = Arity[name]
  <2> HAVE fits
  <2>1. PICK name \in DOMAIN Arity : cmd = <<name>>
    OBVIOUS
  <2>2. cmd[1] = name
    BY <2>1
  <2>3. QED
    BY <2>1, <2>2
<1>3. fits => known
  OBVIOUS
<1> HIDE DEF known, fits
<1>4. CASE fits
  BY <1>1, <1>2, <1>3, <1>4
<1>5. CASE ~fits
  <2>1. executed' = executed /\ stage' \in {"failed", "aborted"}
    BY <1>1, <1>5
  <2>2. QED
    BY <1>1, <2>1
<1>6. QED
  BY <1>4, <1>5

\* The rest of a line after a step that leaves it as it is.
LEMMA StillThere ==
  ASSUME ReaderInv, InLine, UNCHANGED <<line, save>>, ~fresh
  PROVE  Further(line', save')
<1>1. /\ line \in Seq(Cells) /\ Place \in 1..(Len(line) + 1)
  BY DEF ReaderInv, ReaderTypes, LineInv
<1>2. Place = save
  BY DEF Place
<1>3. Len(line) \in Nat
  BY <1>1
<1> HIDE DEF Cells, Place
<1>4. QED
  BY <1>1, <1>2, <1>3 DEF Further

\* A command that is executed leaves its line alone.
LEMMA ExecuteInv == ReaderInv /\ Execute => ReaderInv'
<1> SUFFICES ASSUME ReaderInv, Execute PROVE ReaderInv'
  OBVIOUS
<1>1. /\ stage = "execute" /\ stage' \in {"line", "command", "failed", "aborted"}
      /\ executed' = executed \/ executed' = Append(executed, cmd \o args)
      /\ UNCHANGED <<file, read, line, save, fresh, cmd, args, more>>
  BY ExecuteStep
<1>2. InLine /\ stage # "off"
  BY <1>1 DEF InLine
<1>3. /\ cmd \in Seq(Cells) /\ args \in Seq(Cells) /\ more \in BOOLEAN
      /\ fresh = FALSE /\ Len(args) <= MAX_COMMAND_ARGS
  BY <1>1 DEF ReaderInv, ReaderTypes, LineInv
<1>4. ExecutedType'
  <2>1. CASE executed' = executed
    BY <1>1, <1>2, <2>1, ExecutedKept
  <2>2. CASE executed' = Append(executed, cmd \o args)
    <3> DEFINE V == Seq(Cells)
    <3>1. executed \in Seq(V)
      BY <1>2 DEF ReaderInv, ExecutedType
    <3>2. cmd \o args \in V
      BY <1>3
    <3> HIDE DEF V
    <3>3. executed' \in Seq(V)
      BY <2>2, <3>1, <3>2
    <3>4. Cells' = Cells
      BY <1>1 DEF Cells
    <3>5. executed' \in Seq(Seq(Cells'))
      BY <3>3, <3>4 DEF V
    <3>6. QED
      BY <3>5 DEF ExecutedType
  <2>3. QED
    BY <1>1, <2>1, <2>2
<1>5. Further(line', save')
  BY <1>1, <1>2, <1>3, StillThere
<1> HIDE DEF Cells
<1>6. /\ cmd' \in Seq(Cells) /\ args' \in Seq(Cells) /\ more' \in BOOLEAN /\ fresh' = FALSE
      /\ Len(args') <= MAX_COMMAND_ARGS
      /\ stage' \in {"argument", "execute"} => Len(cmd') > 0
      /\ stage' \in {"line", "command", "argument", "execute", "failed", "aborted"}
  BY <1>1, <1>3
<1>7. QED
  BY <1>1, <1>2, <1>4, <1>5, <1>6, OnTheLineInv

\* The next line: what has been read of the script, up to a remark.
LEMMA LineStep ==
  ASSUME ReaderInv, ReadLine
  PROVE  /\ stage = "line" /\ stage' = "command" /\ fresh' = TRUE
         /\ read < Len(file) /\ file' \in AsCut
         /\ UNCHANGED <<save, cmd, args, more, executed>>
         /\ line' \in Seq(Cells') /\ Len(line') \in 1..(Len(file') - read)
         /\ read' = read + Len(line') /\ read \in Nat /\ Len(file) \in Nat /\ Len(file') \in Nat
         /\ \A j \in 1..Len(line') : line'[j] \in {file'[read + j], NUL}
         /\ file' = file \/ (Len(file') = Len(file) + 1 /\ Len(line') = MAX_COMMAND_LEN - 1)
         /\ IsSequence(file') /\ Cells \subseteq Cells'
         /\ \A j \in 1..read : file'[j] = file[j]
<1> DEFINE remark == {"#"}
<1>1. PICK f : f = Fetched(file')
  OBVIOUS
<1>2. /\ stage = "line" /\ read < Len(file) /\ stage' = "command" /\ fresh' = TRUE
      /\ file' \in AsCut /\ UNCHANGED <<save, cmd, args, more, executed>>
      /\ read' = read + Len(f) /\ line' = Zero(f, Find(f, 1, remark))
  BY <1>1, Zenon DEF ReadLine
<1> HIDE DEF remark
<1>11. /\ IsSequence(file') /\ read \in Nat /\ Len(file) \in Nat /\ Len(file') \in Nat
       /\ read < Len(file') /\ \A j \in 1..read : file'[j] = file[j]
       /\ Range(file) \subseteq Range(file') \cup {c[1] : c \in Cuts}
       /\ file' = file \/ (Len(file') = Len(file) + 1 /\ Len(f) = MAX_COMMAND_LEN - 1)
  BY <1>1, <1>2, CutFile
<1>12. /\ f \in Seq(Range(file')) /\ Len(f) \in 1..(Len(file') - read)
       /\ \A j \in 1..Len(f) : f[j] = file'[read + j]
  BY <1>1, <1>11, FetchedPlace
<1>13. Cells \subseteq Cells'
  BY <1>11 DEF Cells
<1>3. /\ f \in Seq(Cells') /\ Len(f) \in 1..(Len(file') - read)
      /\ \A j \in 1..Len(f) : f[j] = file'[read + j]
  <2>1. Range(file') \subseteq Cells'
    BY DEF Cells
  <2> DEFINE R == Range(file')
             C == Cells'
  <2> HIDE DEF R, C
  <2>2. f \in Seq(R) /\ R \subseteq C
    BY <1>12, <2>1 DEF R, C
  <2>3. f \in Seq(C)
    BY <2>2
  <2>4. QED
    BY <1>12, <2>3 DEF C
<1>4. NUL \in Cells'
  BY DEF Cells
<1> HIDE DEF Cells
<1>5. 1 \in 1..(Len(f) + 1)
  BY <1>3
<1> DEFINE w == Find(f, 1, remark)
<1>6. w \in 1..(Len(f) + 1)
  BY <1>3, <1>5, FindPlace
<1>7. w \in Nat \ {0}
  BY <1>3, <1>6
<1> HIDE DEF w
<1>8. /\ Zero(f, w) \in Seq(Cells') /\ Len(Zero(f, w)) = Len(f)
      /\ \A j \in 1..Len(f) : Zero(f, w)[j] = IF j = w THEN NUL ELSE f[j]
  BY <1>3, <1>4, <1>7, ZeroType
<1>9. line' = Zero(f, w)
  BY <1>2 DEF w
<1>10. QED
  BY <1>2, <1>3, <1>8, <1>9, <1>11, <1>13

\* The next line is what was read of the script, up to its remark.
LEMMA LineInvKept == ReaderInv /\ ReadLine => ReaderInv'
<1> SUFFICES ASSUME ReaderInv, ReadLine PROVE ReaderInv'
  OBVIOUS
<1>1. /\ stage = "line" /\ stage' = "command" /\ fresh' = TRUE
      /\ UNCHANGED <<save, cmd, args, more, executed>>
      /\ line' \in Seq(Cells') /\ Len(line') \in 1..(Len(file') - read)
      /\ read' = read + Len(line') /\ read \in Nat /\ Len(file') \in Nat
      /\ \A j \in 1..Len(line') : line'[j] \in {file'[read + j], NUL}
  BY LineStep
<1>2. /\ cmd \in Seq(Cells) /\ args \in Seq(Cells) /\ Len(args) <= MAX_COMMAND_ARGS
      /\ more \in BOOLEAN /\ executed \in Seq(Seq(Cells))
  BY <1>1 DEF ReaderInv, ReaderTypes, ExecutedType
<1>3. Cells \subseteq Cells' /\ IsSequence(file')
  BY LineStep
<1> HIDE DEF Cells
<1>5. cmd \in Seq(Cells') /\ args \in Seq(Cells') /\ executed \in Seq(Seq(Cells'))
  <2> DEFINE C == Cells
             D == Cells'
  <2> HIDE DEF C, D
  <2>1. C \subseteq D
    BY <1>3 DEF C, D
  <2>2. Seq(C) \subseteq Seq(D)
    BY <2>1
  <2> DEFINE V == Seq(C)
             W == Seq(D)
  <2>3. cmd \in V /\ args \in V /\ executed \in Seq(V)
    BY <1>2 DEF C
  <2> HIDE DEF V, W
  <2>4. V \subseteq W
    BY <2>2 DEF V, W
  <2>5. cmd \in W /\ args \in W /\ executed \in Seq(W)
    BY <2>3, <2>4
  <2>6. QED
    BY <2>5 DEF W, D
<1>4. ExecutedType'
  BY <1>1, <1>5 DEF ExecutedType
<1>6. IsSequence(file')
  BY <1>3
<1>7. read' \in 0..Len(file') /\ Len(line') \in Nat /\ read' - Len(line') = read
  BY <1>1
<1>8. /\ line' \in Seq(Cells') /\ cmd' \in Seq(Cells') /\ args' \in Seq(Cells')
      /\ Len(args') <= MAX_COMMAND_ARGS /\ more' \in BOOLEAN
  BY <1>1, <1>2, <1>5
<1>9. ReaderTypes'
  BY <1>1, <1>6, <1>7, <1>8 DEF ReaderTypes
<1>10. Place' = 1
  BY <1>1 DEF Place
<1>11. /\ Place' \in 1..(Len(line') + 1) /\ Len(line') <= read'
       /\ \A j \in Place'..Len(line') : line'[j] \in {file'[read' - Len(line') + j], NUL}
  BY <1>1, <1>7, <1>10
<1>12. LineInv'
  <2> HIDE DEF Place
  <2>1. QED
    BY <1>1, <1>11 DEF LineInv
<1>13. QED
  BY <1>4, <1>9, <1>12 DEF ReaderInv

\* The end of the script.
LEMMA EndInv == ReaderInv /\ EndOfFile => ReaderInv'
<1> SUFFICES ASSUME ReaderInv, EndOfFile PROVE ReaderInv'
  OBVIOUS
<1>1. /\ stage = "line" /\ stage' = "done"
      /\ UNCHANGED <<file, read, line, save, fresh, cmd, args, more, executed>>
  BY DEF EndOfFile
<1>2. ExecutedType'
  BY <1>1, ExecutedKept
<1>3. Cells' = Cells
  BY <1>1 DEF Cells
<1>4. ReaderTypes'
  BY <1>1, <1>3 DEF ReaderInv, ReaderTypes, Ended
<1>5. LineInv'
  BY <1>1 DEF LineInv, InLine
<1>6. QED
  BY <1>2, <1>4, <1>5 DEF ReaderInv

\* Whatever orng does keeps the invariant of the reader.
LEMMA MainInv == ReaderInv /\ main => ReaderInv'
BY CommentInv, CommandInv, ArgumentInv, ExecuteInv, LineInvKept, EndInv DEF main

---------------------------------------------------------------------------
(* Steps of the controller and of the operator.                            *)

\* Words with something between them, and something else at the end, are a sequence.
SpacedOut(j, words, end, between) ==
  j = [i \in 1..(2 * Len(words)) |->
        IF i % 2 = 1 THEN words[(i + 1) \div 2]
        ELSE IF i = 2 * Len(words) THEN end ELSE between]

\* Its odd cells are the words.
Spread(j, words, end, between) ==
  /\ Len(j) = 2 * Len(words)
  /\ \A i \in 1..Len(words) :
       j[2 * i - 1] = words[i] /\ j[2 * i] = IF i = Len(words) THEN end ELSE between

\* It holds the words, what stands between them and the end.
LEMMA Spaced ==
  ASSUME NEW S, NEW words, words \in Seq(S), NEW end, end \in S, NEW between, between \in S,
         NEW j, SpacedOut(j, words, end, between)
  PROVE  j \in Seq(S) /\ Spread(j, words, end, between)
<1> DEFINE N == Len(words)
           E(i) == IF i % 2 = 1 THEN words[(i + 1) \div 2] ELSE IF i = 2 * N THEN end ELSE between
<1>1. N \in Nat /\ \A i \in 1..N : words[i] \in S
  OBVIOUS
<1>2. j = [i \in 1..(2 * N) |-> E(i)]
  BY DEF SpacedOut
<1>3. \A i \in 1..(2 * N) : E(i) \in S
  <2> TAKE i \in 1..(2 * N)
  <2>1. CASE i % 2 = 1
    <3>1. (i + 1) \div 2 \in 1..N
      BY <1>1, <2>1
    <3>2. words[(i + 1) \div 2] \in S
      BY <1>1, <3>1
    <3>3. QED
      BY <2>1, <3>2
  <2>2. CASE i % 2 # 1
    BY <2>2
  <2>3. QED
    BY <2>1, <2>2
<1>4. \A i \in 1..N : 2 * i - 1 \in 1..(2 * N) /\ 2 * i \in 1..(2 * N)
  <2> HIDE DEF N
  <2>1. QED
    BY <1>1
<1>5. \A i \in 1..N : E(2 * i - 1) = words[i] /\ E(2 * i) = IF i = N THEN end ELSE between
  <2> TAKE i \in 1..N
  <2>1. i \in Nat
    BY <1>1
  <2> HIDE DEF N
  <2>2. E(2 * i - 1) = words[i]
    <3>1. (2 * i - 1) % 2 = 1 /\ ((2 * i - 1) + 1) \div 2 = i
      BY <2>1
    <3>2. QED
      BY <3>1
  <2>3. E(2 * i) = IF i = N THEN end ELSE between
    <3>1. (2 * i) % 2 = 0
      BY <2>1
    <3>2. 2 * i = 2 * N <=> i = N
      BY <1>1, <2>1
    <3>3. QED
      BY <3>1, <3>2
  <2>4. QED
    BY <2>2, <2>3
<1>6. j \in Seq(S) /\ Len(j) = 2 * N
  <2> HIDE DEF N
  <2>1. 2 * N \in Nat
    BY <1>1
  <2>2. j \in [1..(2 * N) -> S]
    BY <1>2, <1>3
  <2>3. QED
    BY <2>1, <2>2
<1>7. \A i \in 1..N : j[2 * i - 1] = E(2 * i - 1) /\ j[2 * i] = E(2 * i)
  <2> HIDE DEF N
  <2>1. QED
    BY <1>2, <1>4
<1>8. \A i \in 1..N : j[2 * i - 1] = words[i] /\ j[2 * i] = IF i = N THEN end ELSE between
  <2> HIDE DEF E
  <2>1. QED
    BY <1>5, <1>7
<1>9. QED
  BY <1>6, <1>8 DEF Spread

\* What stands between the words of a line.
Space   == " "

\* So does the line of a script.
LEMMA JoinedType ==
  ASSUME NEW S, NEW words, words \in Seq(S), Newline \in S, Space \in S,
         NEW j, j = Joined(words)
  PROVE  j \in Seq(S) /\ Spread(j, words, Newline, Space)
<1>1. SpacedOut(j, words, Newline, Space)
  BY Zenon DEF Joined, Newline, Space, SpacedOut
<1>2. QED
  BY <1>1, Spaced

\* The script of a request is a sequence of cells.
LEMMA TextType == ASSUME NEW lines, Commands(lines) PROVE IsSequence(Text(lines))
<1> DEFINE W == UNION {Range(words) : words \in Range(lines)}
           S == W \cup {Newline, Space}
           V == Seq(W)
           U == Seq(S)
           parts == [i \in 1..Len(lines) |-> Joined(lines[i])]
<1>1. lines \in Seq(V)
  BY DEF Commands
<1>2. \A words \in V : Joined(words) \in U
  <2> TAKE words \in V
  <2> HIDE DEF W
  <2>1. words \in Seq(S) /\ Newline \in S /\ Space \in S
    OBVIOUS
  <2> HIDE DEF S
  <2>2. QED
    BY <2>1, JoinedType
<1> HIDE DEF W, S, V, U
<1>3. parts \in Seq(U)
  BY <1>1, <1>2
<1>4. parts \in Seq(Seq(S))
  BY <1>3 DEF U
<1>5. Text(lines) = FlattenSeq(parts)
  BY DEF Text
<1> HIDE DEF parts
<1>6. FlattenSeq(parts) \in Seq(S)
  BY <1>4, FlattenType
<1>7. QED
  BY <1>5, <1>6, Sequences

\* orng is started on any script.
LEMMA StartInv ==
  \A f, opens : ReaderInv /\ IsSequence(f) /\ Start(f, opens) => ReaderInv'
<1> SUFFICES ASSUME NEW f, NEW opens, ReaderInv, IsSequence(f), Start(f, opens)
             PROVE  ReaderInv'
  OBVIOUS
<1>1. /\ stage = "off" /\ file' = f /\ read' = 0 /\ executed' = << >>
      /\ stage' = IF opens THEN "line" ELSE "failed"
      /\ UNCHANGED <<line, save, fresh, cmd, args, more>>
  BY DEF Start
<1>2. /\ line = << >> /\ cmd = << >> /\ args = << >> /\ fresh \in BOOLEAN /\ more \in BOOLEAN
  BY <1>1 DEF ReaderInv, ReaderTypes, LineInv
<1>3. stage' \in {"line", "failed"}
  BY <1>1
<1>4. IsSequence(file') /\ read' \in 0..Len(file')
  BY <1>1 DEF IsSequence
<1>5. /\ << >> \in Seq(Cells') /\ << >> \in Seq(Seq(Cells'))
      /\ MAX_COMMAND_ARGS \in Nat /\ Len(<< >>) = 0
  BY ScriptAssumption
<1>6. ReaderTypes'
  BY <1>1, <1>2, <1>3, <1>4, <1>5 DEF ReaderTypes, Ended
<1>7. ExecutedType'
  BY <1>1, <1>5 DEF ExecutedType
<1>8. LineInv'
  BY <1>3 DEF LineInv, InLine
<1>9. QED
  BY <1>6, <1>7, <1>8 DEF ReaderInv

\* The process is gone.
LEMMA ReapInv ==
  \A outcome : ReaderInv /\ Reap(outcome) => ReaderInv' /\ stage' = "off"
<1> SUFFICES ASSUME NEW outcome, ReaderInv, Reap(outcome) PROVE ReaderInv' /\ stage' = "off"
  OBVIOUS
<1>1. /\ stage' = "off" /\ file' = << >> /\ read' = 0
      /\ line' = << >> /\ fresh' = TRUE /\ cmd' = << >> /\ args' = << >> /\ more' = FALSE
  BY DEF Reap
<1>2. IsSequence(file') /\ read' \in 0..Len(file')
  BY <1>1 DEF IsSequence
<1>3. << >> \in Seq(Cells') /\ MAX_COMMAND_ARGS \in Nat
  BY ScriptAssumption
<1>8. Len(args') <= MAX_COMMAND_ARGS
  <2>1. Len(args') = 0
    BY <1>1
  <2>2. QED
    BY <1>3, <2>1
<1>4. ReaderTypes'
  <2> HIDE DEF Cells
  <2>1. line' \in Seq(Cells') /\ cmd' \in Seq(Cells') /\ args' \in Seq(Cells')
    BY <1>1, <1>3
  <2>2. QED
    BY <1>1, <1>2, <1>8, <2>1 DEF ReaderTypes
<1>5. ExecutedType'
  BY <1>1 DEF ExecutedType
<1>6. LineInv'
  BY <1>1 DEF LineInv, InLine
<1>7. QED
  BY <1>1, <1>4, <1>5, <1>6 DEF ReaderInv

\* Nothing of the reader changes but what was executed, when no script is being read.
LEMMA ForgottenInv ==
  /\ ReaderInv /\ stage = "off"
  /\ UNCHANGED <<file, read, line, save, fresh, cmd, args, more, stage>>
  => ReaderInv'
<1> SUFFICES ASSUME ReaderInv, stage = "off",
                    UNCHANGED <<file, read, line, save, fresh, cmd, args, more, stage>>
             PROVE  ReaderInv'
  OBVIOUS
<1>1. Cells' = Cells
  BY DEF Cells
<1>2. ReaderTypes'
  BY <1>1 DEF ReaderInv, ReaderTypes, Ended
<1>3. ExecutedType'
  BY DEF ExecutedType
<1>4. LineInv'
  BY DEF ReaderInv, LineInv, InLine
<1>5. QED
  BY <1>2, <1>3, <1>4 DEF ReaderInv

\* Nothing of the reader changes.
LEMMA ReaderKept == ReaderInv /\ UNCHANGED scriptVars => ReaderInv'
<1> SUFFICES ASSUME ReaderInv, UNCHANGED scriptVars PROVE ReaderInv'
  OBVIOUS
<1>1. UNCHANGED <<file, read, line, save, fresh, cmd, args, more, stage, executed>>
  BY DEF scriptVars
<1>2. Cells' = Cells /\ Place' = Place /\ InLine' = InLine
  BY <1>1 DEF Cells, Place, InLine
<1>3. ReaderTypes'
  BY <1>1, <1>2 DEF ReaderInv, ReaderTypes
<1>4. ExecutedType'
  BY <1>1, <1>2 DEF ReaderInv, ExecutedType
<1>5. LineInv'
  BY <1>1, <1>2 DEF ReaderInv, LineInv
<1>6. QED
  BY <1>3, <1>4, <1>5 DEF ReaderInv

\* The steps of orng say nothing of its callers.
LEMMA MainStage == ASSUME ReaderInv, main PROVE stage # "off"
BY DEF main, ReadLine, EndOfFile, parseComment, ParseCommand, ParseArgument, Execute

\* What the controller knows of itself and has left on the device stays right, whatever it
\* does.
LEMMA RequestStep == SessionInv /\ Request => SessionInv'
<1> SUFFICES ASSUME SessionInv, Request PROVE SessionInv'
  OBVIOUS
<1>1. PICK r \in Requests :
        LET result == get_cmd_events(r.cmd, r.args)
        IN  /\ events' = result.lines
            /\ IF ~result.ok THEN Raise
               ELSE /\ controller' = IF result.lines = << >> THEN "reading" ELSE "push"
                    /\ UNCHANGED crashes
  BY DEF Request
<1>2. /\ controller = "reading" /\ stage = "off"
      /\ UNCHANGED <<scriptVars, remote, idle, author, byHand>>
  BY DEF Request
<1>3. Commands(events')
  <2>1. Commands(get_cmd_events(r.cmd, r.args).lines)
    BY RequestCommands
  <2>2. QED
    BY <1>1, <2>1
<1>4. \/ controller' \in {"reading", "push"} /\ crashes' = crashes
      \/ controller' = "dead" /\ crashes' = crashes + 1
  BY <1>1 DEF Raise
<1>5. remote \in Int /\ crashes \in Nat /\ remote <= crashes
  BY <1>2 DEF SessionInv, ControllerInv, LeftBehind
<1>6. stage' = "off" /\ remote' = remote
  BY <1>2 DEF scriptVars
<1>7. ReaderInv'
  BY <1>2, ReaderKept DEF SessionInv
<1>8. ControllerInv'
  BY <1>3, <1>4, <1>5, <1>6 DEF ControllerInv
<1>9. LeftBehind'
  BY <1>4, <1>5, <1>6 DEF LeftBehind
<1>10. QED
  BY <1>7, <1>8, <1>9 DEF SessionInv

\* A controller that ends.
LEMMA QuitStep == SessionInv /\ Quit => SessionInv'
<1> SUFFICES ASSUME SessionInv, Quit PROVE SessionInv'
  OBVIOUS
<1>1. /\ controller = "reading" /\ controller' = "ended"
      /\ UNCHANGED <<scriptVars, events, remote, idle, author, requests, crashes, byHand>>
  BY DEF Quit, Step
<1>2. ReaderInv'
  BY <1>1, ReaderKept DEF SessionInv
<1>3. stage' = stage /\ events' = events /\ remote' = remote /\ crashes' = crashes
  BY <1>1 DEF scriptVars
<1>4. ControllerInv'
  BY <1>1, <1>3 DEF SessionInv, ControllerInv
<1>5. LeftBehind'
  BY <1>1, <1>3 DEF SessionInv, LeftBehind
<1>6. QED
  BY <1>2, <1>4, <1>5 DEF SessionInv

\* A push leaves at most one more file, and a controller that will remove it.
LEMMA PushStep == SessionInv /\ pushFile => SessionInv'
<1> SUFFICES ASSUME SessionInv, pushFile PROVE SessionInv'
  OBVIOUS
<1>1. /\ controller = "push"
      /\ \/ remote' = remote + 1 /\ controller' = "run" /\ crashes' = crashes
         \/ controller' = "dead" /\ crashes' = crashes + 1 /\ remote' \in {remote, remote + 1}
      /\ UNCHANGED <<scriptVars, events>>
  BY DEF pushFile, Raise
<1>2. /\ remote \in Int /\ crashes \in Nat /\ remote <= crashes /\ stage = "off"
      /\ Commands(events)
  BY <1>1 DEF SessionInv, ControllerInv, LeftBehind
<1>3. ReaderInv'
  BY <1>1, ReaderKept DEF SessionInv
<1>4. stage' = "off" /\ Commands(events')
  BY <1>1, <1>2 DEF scriptVars
<1>5. ControllerInv'
  BY <1>1, <1>2, <1>4 DEF ControllerInv
<1>6. LeftBehind'
  BY <1>1, <1>2 DEF LeftBehind
<1>7. QED
  BY <1>3, <1>5, <1>6 DEF SessionInv

\* orng, started for the request, begins with an empty line.
LEMMA RunStep == SessionInv /\ shellCheckOutput => SessionInv'
<1> SUFFICES ASSUME SessionInv, shellCheckOutput PROVE SessionInv'
  OBVIOUS
<1>1. /\ controller = "run" /\ stage = "off"
      /\ \/ /\ \E opens : Start(Text(events), opens)
            /\ controller' = "wait" /\ crashes' = crashes
         \/ /\ UNCHANGED scriptVars
            /\ \/ controller' = "remove" /\ crashes' = crashes
               \/ controller' = "dead" /\ crashes' = crashes + 1
      /\ UNCHANGED <<events, remote>>
  BY Zenon DEF shellCheckOutput, Raise
<1>2. /\ remote \in Int /\ crashes \in Nat /\ remote <= crashes + 1
      /\ Commands(events)
  BY <1>1 DEF SessionInv, ControllerInv, LeftBehind
<1>3. ReaderInv
  BY DEF SessionInv
<1>4. CASE /\ \E opens : Start(Text(events), opens)
           /\ controller' = "wait" /\ crashes' = crashes
  <2>1. PICK opens : Start(Text(events), opens)
    BY <1>4
  <2>2. IsSequence(Text(events))
    BY <1>2, TextType
  <2>3. ReaderInv'
    BY <1>3, <2>1, <2>2, StartInv
  <2>4. ControllerInv'
    BY <1>1, <1>2, <1>4 DEF ControllerInv
  <2>5. LeftBehind'
    BY <1>1, <1>2, <1>4 DEF LeftBehind
  <2>6. QED
    BY <2>3, <2>4, <2>5 DEF SessionInv
<1>5. CASE /\ UNCHANGED scriptVars
           /\ \/ controller' = "remove" /\ crashes' = crashes
              \/ controller' = "dead" /\ crashes' = crashes + 1
  <2>1. ReaderInv'
    BY <1>3, <1>5, ReaderKept
  <2>2. stage' = "off"
    BY <1>1, <1>5 DEF scriptVars
  <2>3. ControllerInv'
    BY <1>1, <1>2, <1>5, <2>2 DEF ControllerInv
  <2>4. LeftBehind'
    BY <1>1, <1>2, <1>5 DEF LeftBehind
  <2>5. QED
    BY <2>1, <2>3, <2>4 DEF SessionInv
<1>6. QED
  BY <1>1, <1>4, <1>5

\* When orng has ended the controller goes on, or dies over its file.
LEMMA CheckedStep == SessionInv /\ Checked => SessionInv'
<1> SUFFICES ASSUME SessionInv, Checked PROVE SessionInv'
  OBVIOUS
<1>1. PICK outcome \in Ended :
        /\ Reap(outcome)
        /\ IF outcome = "done" THEN controller' = "remove" /\ UNCHANGED crashes ELSE Raise
  BY DEF Checked
<1>2. controller = "wait" /\ UNCHANGED <<events, remote>>
  BY DEF Checked
<1>3. \/ controller' = "remove" /\ crashes' = crashes
      \/ controller' = "dead" /\ crashes' = crashes + 1
  BY <1>1 DEF Raise
<1>4. ReaderInv' /\ stage' = "off"
  BY <1>1, ReapInv DEF SessionInv
<1>5. /\ remote \in Int /\ crashes \in Nat /\ remote <= crashes + 1
      /\ Commands(events)
  BY <1>2 DEF SessionInv, ControllerInv, LeftBehind
<1>6. ControllerInv'
  BY <1>2, <1>3, <1>4, <1>5 DEF ControllerInv
<1>7. LeftBehind'
  BY <1>2, <1>3, <1>5 DEF LeftBehind
<1>8. QED
  BY <1>4, <1>6, <1>7 DEF SessionInv

\* The file is removed, or the controller dies over it.
LEMMA RemoveStep == SessionInv /\ removeFile => SessionInv'
<1> SUFFICES ASSUME SessionInv, removeFile PROVE SessionInv'
  OBVIOUS
<1>1. /\ controller = "remove" /\ events' = << >>
      /\ \/ remote' = remote - 1 /\ controller' = "reading" /\ crashes' = crashes
         \/ controller' = "dead" /\ crashes' = crashes + 1 /\ remote' = remote
      /\ UNCHANGED <<file, read, line, save, fresh, cmd, args, more, stage>>
  BY DEF removeFile, Raise
<1>2. /\ remote \in Int /\ crashes \in Nat /\ remote <= crashes + 1 /\ stage = "off"
  BY <1>1 DEF SessionInv, ControllerInv, LeftBehind
<1>3. ReaderInv'
  BY <1>1, <1>2, ForgottenInv DEF SessionInv
<1>4. Commands(events')
  BY <1>1, NoCommand
<1>5. ControllerInv'
  BY <1>1, <1>2, <1>4 DEF ControllerInv
<1>6. LeftBehind'
  BY <1>1, <1>2 DEF LeftBehind
<1>7. QED
  BY <1>3, <1>5, <1>6 DEF SessionInv

\* A new controller knows of no file.
LEMMA RestartStep == SessionInv /\ Restart => SessionInv'
<1> SUFFICES ASSUME SessionInv, Restart PROVE SessionInv'
  OBVIOUS
<1>1. /\ controller = "dead" /\ controller' = "reading" /\ events' = << >>
      /\ UNCHANGED <<file, read, line, save, fresh, cmd, args, more, stage, remote, crashes>>
  BY DEF Restart, Step
<1>2. /\ remote \in Int /\ crashes \in Nat /\ remote <= crashes /\ stage = "off"
  BY <1>1 DEF SessionInv, ControllerInv, LeftBehind
<1>3. ReaderInv'
  BY <1>1, <1>2, ForgottenInv DEF SessionInv
<1>4. Commands(events')
  BY <1>1, NoCommand
<1>5. ControllerInv'
  BY <1>1, <1>2, <1>4 DEF ControllerInv
<1>6. LeftBehind'
  BY <1>1, <1>2 DEF LeftBehind
<1>7. QED
  BY <1>3, <1>5, <1>6 DEF SessionInv

\* The operator starts orng on an empty line.
LEMMA ByHandStep == SessionInv /\ ByHand => SessionInv'
<1> SUFFICES ASSUME SessionInv, ByHand PROVE SessionInv'
  OBVIOUS
<1>1. /\ controller \in {"reading", "ended"}
      /\ UNCHANGED <<controller, events, remote, crashes>>
      /\ \E f \in Soups \cup {Document(d).text : d \in Documents} : Start(f, TRUE)
  BY DEF ByHand
<1>2. PICK f : IsSequence(f) /\ Start(f, TRUE)
  BY <1>1, SessionAssumption
<1>3. ReaderInv'
  BY <1>2, StartInv DEF SessionInv
<1>4. ControllerInv'
  BY <1>1 DEF SessionInv, ControllerInv
<1>5. LeftBehind'
  BY <1>1 DEF SessionInv, LeftBehind
<1>6. QED
  BY <1>3, <1>4, <1>5 DEF SessionInv

\* The operator's orng is gone.
LEMMA FinishedStep == SessionInv /\ Finished => SessionInv'
<1> SUFFICES ASSUME SessionInv, Finished PROVE SessionInv'
  OBVIOUS
<1>1. PICK outcome : Reap(outcome)
  BY DEF Finished
<1>2. UNCHANGED <<controller, events, remote, crashes>>
  BY DEF Finished, ctlVars
<1>3. ReaderInv' /\ stage' = "off"
  BY <1>1, ReapInv DEF SessionInv
<1>4. ControllerInv'
  BY <1>2, <1>3 DEF SessionInv, ControllerInv
<1>5. LeftBehind'
  BY <1>2 DEF SessionInv, LeftBehind
<1>6. QED
  BY <1>3, <1>4, <1>5 DEF SessionInv

\* orng and the controller do not disturb each other.
LEMMA orngStep == SessionInv /\ orng => SessionInv'
<1> SUFFICES ASSUME SessionInv, orng PROVE SessionInv'
  OBVIOUS
<1>1. main /\ UNCHANGED <<controller, events, remote, crashes>>
  BY DEF orng, ctlVars
<1>2. ReaderInv' /\ stage # "off"
  BY <1>1, MainInv, MainStage DEF SessionInv
<1>3. controller \notin {"push", "run", "remove", "dead"}
  BY <1>2 DEF SessionInv, ControllerInv
<1>4. ControllerInv'
  BY <1>1, <1>3 DEF SessionInv, ControllerInv
<1>5. LeftBehind'
  BY <1>1 DEF SessionInv, LeftBehind
<1>6. QED
  BY <1>2, <1>4, <1>5 DEF SessionInv

\* Nor does a step of somebody else.
LEMMA NothingStep == SessionInv /\ UNCHANGED vars => SessionInv'
<1> SUFFICES ASSUME SessionInv, UNCHANGED vars PROVE SessionInv'
  OBVIOUS
<1>1. UNCHANGED scriptVars /\ UNCHANGED <<controller, events, remote, crashes>>
  BY DEF vars, ctlVars
<1>2. ReaderInv' /\ stage' = stage
  BY <1>1, ReaderKept DEF SessionInv, scriptVars
<1>3. ControllerInv'
  BY <1>1, <1>2 DEF SessionInv, ControllerInv
<1>4. LeftBehind'
  BY <1>1 DEF SessionInv, LeftBehind
<1>5. QED
  BY <1>2, <1>3, <1>4 DEF SessionInv

\* It holds at first.
LEMMA SessionStart == Init => SessionInv
<1> SUFFICES ASSUME Init PROVE SessionInv
  OBVIOUS
<1>1. /\ file = << >> /\ read = 0 /\ line = << >> /\ fresh = TRUE
      /\ cmd = << >> /\ args = << >> /\ more = FALSE /\ stage = "off"
      /\ controller = "reading" /\ events = << >> /\ remote = 0 /\ crashes = 0
  BY DEF Init, ScriptInit
<1>2. /\ << >> \in Seq(Cells) /\ IsSequence(file) /\ read \in 0..Len(file)
      /\ MAX_COMMAND_ARGS \in Nat
  BY <1>1, ScriptAssumption DEF IsSequence
<1>9. Len(args) <= MAX_COMMAND_ARGS
  <2>1. Len(args) = 0
    BY <1>1
  <2>2. QED
    BY <1>2, <2>1
<1>3. ReaderTypes
  <2> HIDE DEF Cells
  <2>1. line \in Seq(Cells) /\ cmd \in Seq(Cells) /\ args \in Seq(Cells)
    BY <1>1, <1>2
  <2>2. QED
    BY <1>1, <1>2, <1>9, <2>1 DEF ReaderTypes
<1>4. ExecutedType /\ LineInv
  BY <1>1 DEF ExecutedType, LineInv, InLine
<1>5. ControllerInv
  BY <1>1, NoCommand DEF ControllerInv
<1>6. LeftBehind
  BY <1>1 DEF LeftBehind
<1>7. QED
  BY <1>3, <1>4, <1>5, <1>6 DEF SessionInv, ReaderInv

---------------------------------------------------------------------------
(* Theorems.                                                               *)

\* The reader of scripts and the controller keep their invariants, whatever the scripts, the
\* requests and the calls of su (main, execute_script, su).
THEOREM SessionInductive == Spec => []SessionInv
<1>1. SessionInv /\ [Next]_vars => SessionInv'
  BY RequestStep, QuitStep, PushStep, RunStep, CheckedStep, RemoveStep, RestartStep,
     ByHandStep, FinishedStep, orngStep, NothingStep DEF Next, execute_script, Over
<1>2. QED
  BY <1>1, SessionStart, PTL DEF Spec

\* No more scripts are left on the device than controllers died (execute_script).
THEOREM FewLeftBehind == Spec => []LeftBehind
<1>1. SessionInv => LeftBehind
  BY DEF SessionInv
<1>2. QED
  BY <1>1, SessionInductive, PTL

---------------------------------------------------------------------------
(* The end of a script.                                                    *)

\* What is left to do, stage by stage.
Ahead(n, k) ==
  /\ n \in Nat /\ k \in Nat
  /\ n = Len(file) - read /\ (InLine => k = Len(line) + 1 - Place)
  /\ stage = "line"     => Unread = 8 * n
  /\ stage = "command"  => Unread = 8 * n + 4 * k + 1
  /\ stage = "argument" => Unread = 8 * n + 4 * k + 3
  /\ stage = "execute"  => Unread = 8 * n + 4 * k + 2
  /\ stage \in Ended    => Unread = 8 * n - 1

\* In every state there is such a measure.
LEMMA UnreadStages == ReaderInv => \E n, k : Ahead(n, k)
<1> SUFFICES ASSUME ReaderInv PROVE \E n, k : Ahead(n, k)
  OBVIOUS
<1> DEFINE n == Len(file) - read
           k == IF InLine THEN Len(line) + 1 - Place ELSE 0
<1>1. n \in Nat
  BY DEF ReaderInv, ReaderTypes, IsSequence
<1>2. k \in Nat
  <2>1. CASE InLine
    <3>1. Place \in 1..(Len(line) + 1) /\ Len(line) \in Nat
      BY <2>1 DEF ReaderInv, ReaderTypes, LineInv
    <3> HIDE DEF Place
    <3>2. QED
      BY <2>1, <3>1
  <2>2. CASE ~InLine
    BY <2>2
  <2>3. QED
    BY <2>1, <2>2
<1>3. Unread = 4 * (2 * n + k) + CASE stage = "argument" -> 3 [] stage = "execute" -> 2
                                   [] stage = "command" -> 1 [] stage = "line" -> 0 [] OTHER -> -1
  BY DEF Unread
<1>4. InLine => k = Len(line) + 1 - Place
  OBVIOUS
<1>5. stage = "line" \/ stage \in Ended => k = 0
  BY DEF InLine, Ended
<1> HIDE DEF n
<1>6. n = Len(file) - read
  BY DEF n
<1> HIDE DEF k
<1>7. stage = "line" => Unread = 8 * n
  BY <1>1, <1>2, <1>3, <1>5
<1>8. stage = "command" => Unread = 8 * n + 4 * k + 1
  BY <1>1, <1>2, <1>3
<1>9. stage = "argument" => Unread = 8 * n + 4 * k + 3
  BY <1>1, <1>2, <1>3
<1>10. stage = "execute" => Unread = 8 * n + 4 * k + 2
  BY <1>1, <1>2, <1>3
<1>11. stage \in Ended => Unread = 8 * n - 1
  BY <1>1, <1>2, <1>3, <1>5 DEF Ended
<1>12. Ahead(n, k)
  BY <1>1, <1>2, <1>4, <1>6, <1>7, <1>8, <1>9, <1>10, <1>11 DEF Ahead
<1>13. QED
  BY <1>12

\* Also in the next state.
LEMMA UnreadStagesNext == (ReaderInv => \E n, k : Ahead(n, k))'
BY UnreadStages, PTL

\* A step further down the line leaves less to do: it takes a cell, or it goes on to a stage
\* of which less is to come.
Sinks == \/ stage = "argument" /\ stage' = "execute"
         \/ stage = "execute" /\ stage' = "command"
         \/ stage' \in {"line", "failed", "aborted"}

\* Such a step lowers the measure.
LEMMA FurtherAdvances ==
  ASSUME ReaderInv, ReaderInv', InLine, Further(line', save'), fresh' = FALSE,
         UNCHANGED <<file, read>>,
         \/ save' > Place /\ stage' \in {"command", "argument", "execute", "line", "failed", "aborted"}
         \/ Sinks
  PROVE  Unread' < Unread
<1>1. PICK n : \E k : Ahead(n, k)
  BY UnreadStages
<1>2. PICK k : Ahead(n, k)
  BY <1>1
<1>3. PICK m : \E j : Ahead(m, j)'
  BY UnreadStagesNext
<1>4. PICK j : Ahead(m, j)'
  BY <1>3
<1>5. n \in Nat /\ k \in Nat /\ m \in Nat /\ j \in Nat /\ m = n
  BY <1>2, <1>4 DEF Ahead
<1>6. k = Len(line) + 1 - Place /\ Place \in 1..(Len(line) + 1) /\ Len(line) \in Nat
  BY <1>2 DEF Ahead, ReaderInv, ReaderTypes, LineInv
<1>7. Len(line') = Len(line) /\ save' \in Place..(Len(line) + 1)
  BY DEF Further
<1>8. Place' = save'
  BY DEF Place
<1>9. InLine' => j = Len(line) + 1 - save'
  BY <1>4, <1>7, <1>8 DEF Ahead
<1>10. stage \in {"command", "argument", "execute"}
  BY DEF InLine
<1> HIDE DEF Place
<1>11. Unread >= 8 * n + 4 * k + 1
  BY <1>2, <1>5, <1>10, SMTT(30) DEF Ahead
<1>12. CASE stage' \in {"line", "failed", "aborted"}
  <2>1. Unread' <= 8 * n
    BY <1>4, <1>5, <1>12 DEF Ahead, Ended
  <2>2. Unread' \in Int /\ Unread \in Int
    BY <1>2, <1>4, <1>5, <1>10, <1>12 DEF Ahead, Ended
  <2>3. QED
    BY <1>5, <1>11, <2>1, <2>2
<1>13. CASE stage' \in {"command", "argument", "execute"}
  <2>1. InLine'
    BY <1>13 DEF InLine
  <2>2. Unread' \in 8 * n + 4 * j + 1 .. 8 * n + 4 * j + 3 /\ Unread \in 8 * n + 4 * k + 1 .. 8 * n + 4 * k + 3
    <3>1. /\ Unread = 8 * n + 4 * k + 1 \/ Unread = 8 * n + 4 * k + 2 \/ Unread = 8 * n + 4 * k + 3
          /\ \/ Unread' = 8 * n + 4 * j + 1
             \/ Unread' = 8 * n + 4 * j + 2
             \/ Unread' = 8 * n + 4 * j + 3
      BY <1>2, <1>4, <1>5, <1>10, <1>13 DEF Ahead
    <3>2. QED
      BY <1>5, <3>1
  <2>3. CASE save' > Place
    <3>1. j < k
      BY <1>6, <1>7, <1>9, <2>1, <2>3
    <3>2. QED
      BY <1>5, <2>2, <3>1
  <2>4. CASE Sinks
    <3>1. j <= k
      BY <1>6, <1>7, <1>9, <2>1
    <3>2. CASE stage = "argument" /\ stage' = "execute"
      BY <1>2, <1>4, <1>5, <3>1, <3>2, SMTT(30) DEF Ahead
    <3>3. CASE stage = "execute" /\ stage' = "command"
      BY <1>2, <1>4, <1>5, <3>1, <3>3, SMTT(30) DEF Ahead
    <3>4. QED
      BY <1>13, <2>4, <3>2, <3>3 DEF Sinks
  <2>5. QED
    BY <1>13, <2>3, <2>4
<1>14. QED
  BY <1>12, <1>13 DEF Sinks

\* Every step of orng leaves it less to do.
LEMMA MainAdvances == ASSUME ReaderInv, main PROVE Unread' < Unread
<1>1. ReaderInv'
  BY MainInv
<1>2. CASE parseComment
  <2>1. /\ stage \in {"command", "argument"} /\ stage' \in {stage, "failed"}
        /\ Further(line', save') /\ fresh' = FALSE /\ save' > Place /\ UNCHANGED <<file, read>>
    BY <1>2, CommentStep
  <2>2. InLine
    BY <2>1 DEF InLine
  <2>3. stage' \in {"command", "argument", "execute", "line", "failed", "aborted"}
    BY <2>1
  <2>4. QED
    BY <1>1, <2>1, <2>2, <2>3, FurtherAdvances
<1>3. CASE ParseCommand
  <2>1. PICK t : t = Token
    OBVIOUS
  <2>2. stage = "command" /\ Further(line', save') /\ fresh' = FALSE /\ UNCHANGED <<file, read>>
    BY <1>3, <2>1, CommandStep
  <2>3. t.found \in BOOLEAN
    BY <1>3, <2>1, CommandStep
  <2>4. t.found => stage' = "argument" /\ save' > Place
    BY <1>3, <2>1, CommandStep
  <2>5. ~t.found => stage' = "line"
    BY <1>3, <2>1, CommandStep
  <2>6. InLine
    BY <2>2 DEF InLine
  <2>7. \/ save' > Place /\ stage' \in {"command", "argument", "execute", "line", "failed", "aborted"}
        \/ Sinks
    BY <2>3, <2>4, <2>5 DEF Sinks
  <2>8. QED
    BY <1>1, <2>2, <2>6, <2>7, FurtherAdvances
<1>4. CASE ParseArgument
  <2>1. PICK t : t = Token
    OBVIOUS
  <2>2. stage = "argument" /\ Further(line', save') /\ fresh' = FALSE /\ UNCHANGED <<file, read>>
    BY <1>4, <2>1, ArgumentStep
  <2>3. t.found \in BOOLEAN /\ stage' \in {"argument", "execute", "aborted"}
    BY <1>4, <2>1, ArgumentStep
  <2>4. t.found => save' > Place
    BY <1>4, <2>1, ArgumentStep
  <2>5. ~t.found => stage' = "execute"
    BY <1>4, <2>1, ArgumentStep
  <2>6. InLine
    BY <2>2 DEF InLine
  <2>7. \/ save' > Place /\ stage' \in {"command", "argument", "execute", "line", "failed", "aborted"}
        \/ Sinks
    BY <2>2, <2>3, <2>4, <2>5 DEF Sinks
  <2>8. QED
    BY <1>1, <2>2, <2>6, <2>7, FurtherAdvances
<1>5. CASE Execute
  <2>1. /\ stage = "execute" /\ stage' \in {"line", "command", "failed", "aborted"}
        /\ UNCHANGED <<file, read, line, save, fresh>>
    BY <1>5, ExecuteStep
  <2>2. InLine /\ fresh = FALSE
    BY <2>1 DEF InLine, ReaderInv, ReaderTypes, LineInv
  <2>3. Further(line', save') /\ fresh' = FALSE
    BY <2>1, <2>2, StillThere
  <2>4. Sinks
    BY <2>1 DEF Sinks
  <2>5. QED
    BY <1>1, <2>1, <2>2, <2>3, <2>4, FurtherAdvances
<1>6. CASE ReadLine
  <2>1. /\ stage = "line" /\ stage' = "command" /\ fresh' = TRUE
        /\ Len(line') \in 1..(Len(file') - read) /\ read' = read + Len(line')
        /\ file' = file \/ (Len(file') = Len(file) + 1 /\ Len(line') = MAX_COMMAND_LEN - 1)
        /\ read \in Nat /\ Len(file) \in Nat /\ Len(file') \in Nat
    BY <1>6, LineStep
  <2>2. PICK n : \E k : Ahead(n, k)
    BY UnreadStages
  <2>3. PICK k : Ahead(n, k)
    BY <2>2
  <2>4. PICK m : \E j : Ahead(m, j)'
    BY <1>1, UnreadStagesNext
  <2>5. PICK j : Ahead(m, j)'
    BY <2>4
  <2>6. Place' = 1 /\ InLine'
    BY <2>1 DEF Place, InLine
  <2>7. /\ n = Len(file) - read /\ m = Len(file') - read' /\ j = Len(line') + 1 - Place'
        /\ Unread = 8 * n /\ Unread' = 8 * m + 4 * j + 1
    BY <2>1, <2>3, <2>5, <2>6 DEF Ahead
  <2>8. read \in Int /\ Len(file) \in Int /\ Len(line') \in Nat
    BY <2>1
  <2>9. /\ j = Len(line') /\ Len(line') >= 1
        /\ m = n - Len(line') \/ (m = n + 1 - Len(line') /\ Len(line') >= 3)
    <3>1. MAX_COMMAND_LEN \in Nat /\ MAX_COMMAND_LEN > 3
      BY ScriptAssumption
    <3>2. m = n - Len(line') \/ (m = n + 1 - Len(line') /\ Len(line') >= 3)
      BY <2>1, <2>7, <2>8, <3>1
    <3>3. j = Len(line') + 1 - 1
      BY <2>6, <2>7
    <3>4. QED
      BY <2>1, <2>8, <3>2, <3>3
  <2>10. n \in Nat /\ m \in Nat
    BY <2>3, <2>5 DEF Ahead
  <2>11. PICK l \in Nat : l = Len(line')
    BY <2>8
  <2>12. j = l /\ l >= 1 /\ (m = n - l \/ (m = n + 1 - l /\ l >= 3))
    BY <2>9, <2>11
  <2>13. 8 * m + 4 * j + 1 < 8 * n
    BY <2>10, <2>11, <2>12
  <2>14. QED
    BY <2>7, <2>13
<1>7. CASE EndOfFile
  <2>1. stage = "line" /\ stage' = "done" /\ UNCHANGED <<file, read>>
    BY <1>7 DEF EndOfFile
  <2>2. PICK n : \E k : Ahead(n, k)
    BY UnreadStages
  <2>3. PICK k : Ahead(n, k)
    BY <2>2
  <2>4. PICK m : \E j : Ahead(m, j)'
    BY <1>1, UnreadStagesNext
  <2>5. PICK j : Ahead(m, j)'
    BY <2>4
  <2>6. Unread = 8 * n /\ Unread' = 8 * m - 1 /\ m = n /\ n \in Nat
    BY <2>1, <2>3, <2>5 DEF Ahead, Ended
  <2>7. QED
    BY <2>6
<1>8. QED
  BY <1>2, <1>3, <1>4, <1>5, <1>6, <1>7 DEF main

\* Whatever stands in a script, orng comes closer to its end with every step (main,
\* parseComment).
THEOREM AlwaysAdvances == Spec => Advances
<1>1. SessionInv /\ [Next]_vars =>
        [stage \notin Ended \cup {"off"} => Unread' < Unread]_scriptVars
  <2> SUFFICES ASSUME SessionInv, [Next]_vars, stage \notin Ended \cup {"off"},
                      ~ (UNCHANGED scriptVars)
               PROVE  Unread' < Unread
    BY Zenon
  <2>1. controller \notin {"push", "run", "remove", "dead"}
    BY DEF SessionInv, ControllerInv
  <2>2. ~Request /\ ~Quit /\ ~execute_script /\ ~Restart
    <3>1. ~Request
      BY DEF Request
    <3>2. ~Quit
      BY DEF Quit
    <3>3. ~pushFile /\ ~removeFile /\ ~Restart
      BY <2>1 DEF pushFile, removeFile, Restart, Step
    <3>4. ~shellCheckOutput
      BY Zenon DEF shellCheckOutput
    <3>5. ~Checked
      BY DEF Checked, Reap
    <3>6. QED
      BY <3>1, <3>2, <3>3, <3>4, <3>5 DEF execute_script
  <2>3. ~ByHand /\ ~Finished
    BY DEF ByHand, Start, Finished, Reap
  <2>4. ~Over /\ ~ (UNCHANGED vars)
    BY DEF Over, vars
  <2>5. orng
    BY <2>2, <2>3, <2>4 DEF Next
  <2>6. QED
    BY <2>5, MainAdvances DEF orng, SessionInv
<1>2. QED
  BY <1>1, SessionInductive, PTL DEF Spec, Advances

---------------------------------------------------------------------------
(* Nothing is invented.                                                    *)

\* One more at the end of the second part is one more at the end of both.
LEMMA AppendBehind ==
  ASSUME NEW C, NEW s, s \in Seq(C), NEW t, t \in Seq(C), NEW w, w \in C
  PROVE  s \o Append(t, w) = Append(s \o t, w)
<1> DEFINE e == <<w>>
<1>1. e \in Seq(C) /\ Append(t, w) = t \o e
  OBVIOUS
<1>2. (s \o t) \o e = s \o (t \o e)
  BY <1>1, ConcatAssociative
<1>3. s \o t \in Seq(C)
  OBVIOUS
<1> DEFINE st == s \o t
<1>4. st \in Seq(C)
  BY <1>3
<1> HIDE DEF st
<1>5. Append(st, w) = st \o e
  BY <1>4
<1>6. QED
  BY <1>1, <1>2, <1>5 DEF st

\* The words of the command at hand, and how many cells of the script were taken for it and
\* for the commands before it.
Pending == IF stage \in {"argument", "execute"} THEN <<cmd[1]>> \o args ELSE << >>
Taken   == IF InLine THEN read - Len(line) + Place - 1 ELSE read

WordsInv == stage # "off" => Embeds(FlattenSeq(executed) \o Pending, file, Taken)

\* All of them are cells, and none is taken that has not been read.
LEMMA WordTypes ==
  ReaderInv /\ stage # "off" =>
    /\ FlattenSeq(executed) \in Seq(Cells) /\ Pending \in Seq(Cells)
    /\ Taken \in Nat /\ Taken <= read /\ read \in Nat /\ read <= Len(file) /\ Len(file) \in Nat
<1> SUFFICES ASSUME ReaderInv, stage # "off"
             PROVE  /\ FlattenSeq(executed) \in Seq(Cells) /\ Pending \in Seq(Cells)
                    /\ Taken \in Nat /\ Taken <= read /\ read \in Nat /\ read <= Len(file)
                    /\ Len(file) \in Nat
  OBVIOUS
<1>1. FlattenSeq(executed) \in Seq(Cells)
  <2>1. executed \in Seq(Seq(Cells))
    BY DEF ReaderInv, ExecutedType
  <2>2. QED
    BY <2>1, FlattenType
<1>2. read \in Nat /\ read <= Len(file) /\ Len(file) \in Nat
  BY DEF ReaderInv, ReaderTypes, IsSequence
<1>3. Pending \in Seq(Cells)
  <2>1. CASE stage \in {"argument", "execute"}
    <3>1. cmd \in Seq(Cells) /\ args \in Seq(Cells) /\ Len(cmd) > 0
      BY <2>1 DEF ReaderInv, ReaderTypes, LineInv
    <3> HIDE DEF Cells
    <3>2. <<cmd[1]>> \in Seq(Cells)
      BY <3>1
    <3>3. QED
      BY <2>1, <3>1, <3>2 DEF Pending
  <2>2. CASE stage \notin {"argument", "execute"}
    BY <2>2 DEF Pending
  <2>3. QED
    BY <2>1, <2>2
<1>4. Taken \in Nat /\ Taken <= read
  <2>1. CASE InLine
    <3>1. /\ Place \in 1..(Len(line) + 1) /\ Len(line) <= read /\ Len(line) \in Nat
      BY <2>1 DEF ReaderInv, ReaderTypes, LineInv
    <3>2. Taken = read - Len(line) + Place - 1
      BY <2>1 DEF Taken
    <3>3. QED
      BY <1>2, <3>1, <3>2
  <2>2. CASE ~InLine
    BY <1>2, <2>2 DEF Taken
  <2>3. QED
    BY <2>1, <2>2
<1>5. QED
  BY <1>1, <1>2, <1>3, <1>4

\* They are so in the next state.
LEMMA WordTypesNext ==
  (ReaderInv /\ stage # "off" =>
    /\ FlattenSeq(executed) \in Seq(Cells) /\ Pending \in Seq(Cells)
    /\ Taken \in Nat /\ Taken <= read /\ read \in Nat /\ read <= Len(file) /\ Len(file) \in Nat)'
BY WordTypes, PTL

\* The words that stand in the script before do so after a step that takes no word, and may
\* drop the command at hand.
LEMMA NoWord ==
  ASSUME ReaderInv, ReaderInv', WordsInv, stage # "off", UNCHANGED <<file, executed>>,
         Taken <= Taken', Pending' = Pending \/ Pending' = << >>
  PROVE  WordsInv'
<1>1. CASE stage' = "off"
  BY <1>1 DEF WordsInv
<1>2. CASE stage' # "off"
  <2> DEFINE F == FlattenSeq(executed)
             P == Pending
             n == Taken
             m == Taken'
             C == Cells
  <2>1. F \in Seq(C) /\ P \in Seq(C) /\ n \in Nat
    BY WordTypes
  <2>2. m \in Nat
    BY <1>2, WordTypesNext
  <2>3. n <= m /\ (Pending' = P \/ Pending' = << >>) /\ FlattenSeq(executed') = F
    OBVIOUS
  <2>4. Embeds(F \o P, file, n)
    BY DEF WordsInv
  <2> HIDE DEF F, P, n, m, C
  <2>5. << >> \in Seq(C) /\ F \o << >> = F /\ F \o P \in Seq(C)
    BY <2>1
  <2>6. Embeds(F, file, m)
    BY <2>1, <2>2, <2>3, <2>4, EmbedsLess
  <2>7. Embeds(F \o P, file, m)
    <3> DEFINE G == F \o P
    <3>1. G \in Seq(C) /\ G \o << >> = G
      BY <2>5
    <3> DEFINE e == << >>
    <3>2. e \in Seq(C) /\ G \o e = G
      BY <2>5, <3>1
    <3> HIDE DEF G, e
    <3>3. Embeds(G \o e, file, n)
      BY <2>4, <3>2 DEF G
    <3>4. Embeds(G, file, m)
      BY <2>1, <2>2, <2>3, <3>1, <3>2, <3>3, EmbedsLess
    <3>5. QED
      BY <3>4 DEF G
  <2>8. Embeds(F \o Pending', file, m)
    BY <2>3, <2>5, <2>6, <2>7
  <2>9. Embeds(FlattenSeq(executed') \o Pending', file', Taken')
    BY <2>3, <2>8 DEF m
  <2>10. QED
    BY <2>9 DEF WordsInv
<1>3. QED
  BY <1>1, <1>2

\* They do so with one more word behind them.
LEMMA OneWord ==
  ASSUME ReaderInv, ReaderInv', WordsInv, stage # "off", stage' # "off",
         UNCHANGED <<file, executed>>,
         NEW w, NEW i, w \in Cells, i \in Nat, Taken < i, i <= Taken', Reads(file[i], w),
         FlattenSeq(executed) \o Pending' = Append(FlattenSeq(executed) \o Pending, w)
  PROVE  WordsInv'
<1> DEFINE F == FlattenSeq(executed)
           P == Pending
           n == Taken
           m == Taken'
           C == Cells
           G == F \o P
<1>1. F \in Seq(C) /\ P \in Seq(C) /\ n \in Nat /\ w \in C
  BY WordTypes
<1>2. m \in Nat
  BY WordTypesNext
<1>3. Embeds(G, file, n)
  BY DEF WordsInv
<1>4. F \o Pending' = Append(G, w) /\ n < i /\ i <= m /\ FlattenSeq(executed') = F
  OBVIOUS
<1> HIDE DEF F, P, n, m, C
<1>5. G \in Seq(C)
  BY <1>1
<1> HIDE DEF G
<1>6. Embeds(Append(G, w), file, m)
  BY <1>1, <1>2, <1>3, <1>4, <1>5, EmbedsMore
<1>7. Embeds(F \o Pending', file, m)
  BY <1>4, <1>6
<1>8. Embeds(FlattenSeq(executed') \o Pending', file', Taken')
  BY <1>4, <1>7 DEF m
<1>9. QED
  BY <1>8 DEF WordsInv

\* How far a step further down the line gets.
LEMMA TakenFurther ==
  ASSUME ReaderInv, ReaderInv', InLine, Further(line', save'), fresh' = FALSE,
         UNCHANGED <<file, read>>,
         stage' \in {"line", "command", "argument", "execute", "failed", "aborted"}
  PROVE  /\ Taken <= Taken' /\ Taken = read - Len(line) + Place - 1
         /\ stage' \in {"command", "argument", "execute"} => Taken' = read - Len(line) + save' - 1
<1>1. stage # "off"
  BY DEF InLine
<1>2. /\ Taken \in Nat /\ Taken <= read /\ read \in Nat
  BY <1>1, WordTypes
<1>3. Taken = read - Len(line) + Place - 1
  BY DEF Taken
<1>4. Place \in 1..(Len(line) + 1) /\ Len(line) \in Nat /\ Len(line) <= read
  BY DEF ReaderInv, ReaderTypes, LineInv
<1>5. Len(line') = Len(line) /\ save' \in Place..(Len(line) + 1) /\ Place' = save'
  BY DEF Further, Place
<1>6. CASE InLine'
  <2>1. Taken' = read - Len(line) + save' - 1
    BY <1>5, <1>6 DEF Taken
  <2>2. QED
    BY <1>2, <1>3, <1>4, <1>5, <2>1
<1>7. CASE ~InLine'
  <2>1. Taken' = read
    BY <1>7 DEF Taken
  <2>2. stage' \notin {"command", "argument", "execute"}
    BY <1>7 DEF InLine
  <2>3. QED
    BY <1>2, <1>3, <2>1, <2>2
<1>8. QED
  BY <1>6, <1>7

\* A comment takes no word.
LEMMA CommentWords == ReaderInv /\ WordsInv /\ parseComment => WordsInv'
<1> SUFFICES ASSUME ReaderInv, WordsInv, parseComment PROVE WordsInv'
  OBVIOUS
<1>1. ReaderInv'
  BY CommentInv
<1>2. /\ stage \in {"command", "argument"} /\ stage' \in {stage, "failed"}
      /\ Further(line', save') /\ fresh' = FALSE
      /\ UNCHANGED <<file, read, cmd, args, executed>>
  BY CommentStep
<1>3. InLine /\ stage # "off"
  BY <1>2 DEF InLine
<1>4. Taken <= Taken'
  BY <1>1, <1>2, <1>3, TakenFurther
<1>5. Pending' = Pending \/ Pending' = << >>
  BY <1>2 DEF Pending
<1>6. QED
  BY <1>1, <1>2, <1>3, <1>4, <1>5, NoWord

\* A command takes its name.
LEMMA NameWords == ReaderInv /\ WordsInv /\ ParseCommand => WordsInv'
<1> SUFFICES ASSUME ReaderInv, WordsInv, ParseCommand PROVE WordsInv'
  OBVIOUS
<1>1. ReaderInv'
  BY CommandInv
<1>2. PICK t : t = Token
  OBVIOUS
<1>3. /\ stage = "command" /\ cmd' = t.text /\ cmd' \in Seq(Cells) /\ args' = << >>
      /\ Further(line', save') /\ fresh' = FALSE /\ UNCHANGED <<file, read, executed>>
      /\ save' = t.save
  BY <1>2, CommandStep
<1>4. t.found => stage' = "argument"
  BY <1>2, CommandStep
<1>5. ~t.found => stage' = "line"
  BY <1>2, CommandStep
<1>6. t.found \in BOOLEAN
  BY <1>2, CommandStep
<1>7. InLine /\ stage # "off"
  BY <1>3 DEF InLine
<1>8. stage' \in {"line", "command", "argument", "execute", "failed", "aborted"}
  BY <1>4, <1>5, <1>6
<1>9. /\ Taken <= Taken' /\ Taken = read - Len(line) + Place - 1
      /\ stage' \in {"command", "argument", "execute"} => Taken' = read - Len(line) + save' - 1
  BY <1>1, <1>3, <1>7, <1>8, TakenFurther
<1>10. CASE ~t.found
  <2>1. Pending' = << >>
    BY <1>5, <1>10 DEF Pending
  <2>2. QED
    BY <1>1, <1>3, <1>7, <1>9, <2>1, NoWord
<1>11. CASE t.found
  <2> DEFINE w == t.text[1]
             i == read - Len(line) + t.at
  <2>1. /\ t.at \in Place..(Len(line) + 1) /\ t.at < t.save /\ Len(line) \in Nat
        /\ Place \in 1..(Len(line) + 1) /\ t.save \in t.at..(Len(line) + 1)
        /\ t.text[1] = file[read - Len(line) + t.at] /\ Len(t.text) > 0
    BY <1>2, <1>3, <1>11, TokenHere
  <2>2. read \in Nat /\ Len(line) <= read
    BY <1>7 DEF ReaderInv, ReaderTypes, LineInv
  <2>3. Taken' = read - Len(line) + save' - 1
    BY <1>4, <1>9, <1>11
  <2> HIDE DEF Place, Cells
  <2>4. i \in Nat /\ Taken < i /\ i <= Taken'
    BY <1>3, <1>9, <2>1, <2>2, <2>3, SMTT(30)
  <2>5. w = file[i] /\ w \in Cells
    BY <1>3, <2>1
  <2>6. Reads(file[i], w)
    BY <2>5 DEF Reads
  <2>7. Pending = << >> /\ Pending' = <<w>> \o << >>
    BY <1>3, <1>4, <1>11 DEF Pending
  <2>8. FlattenSeq(executed) \in Seq(Cells)
    BY <1>7, WordTypes
  <2> DEFINE F == FlattenSeq(executed)
  <2> HIDE DEF w, i, F
  <2>9. F \o Pending' = Append(F \o Pending, w)
    <3>1. F \in Seq(Cells)
      BY <2>8 DEF F
    <3>2. F \o << >> = F
      BY <3>1
    <3>3. F \o (<<w>> \o << >>) = Append(F, w)
      BY <2>5, <3>1
    <3>4. QED
      BY <2>7, <3>2, <3>3
  <2>10. stage' # "off"
    BY <1>4, <1>11
  <2>11. QED
    BY <1>1, <1>3, <1>7, <2>4, <2>5, <2>6, <2>9, <2>10, OneWord DEF F
<1>12. QED
  BY <1>6, <1>10, <1>11

\* An argument is taken as the number it is, or as zero.
LEMMA ArgumentWords == ReaderInv /\ WordsInv /\ ParseArgument => WordsInv'
<1> SUFFICES ASSUME ReaderInv, WordsInv, ParseArgument PROVE WordsInv'
  OBVIOUS
<1>1. ReaderInv'
  BY ArgumentInv
<1>2. PICK t : t = Token
  OBVIOUS
<1>3. /\ stage = "argument" /\ Further(line', save') /\ fresh' = FALSE
      /\ stage' \in {"argument", "execute", "aborted"}
      /\ UNCHANGED <<file, read, cmd, executed>> /\ save' = t.save
  BY <1>2, ArgumentStep
<1>4. args' = args \/ (args' = Append(args, atoi(t.text)) /\ t.found /\ stage' = "argument")
  BY <1>2, ArgumentStep
<1>7. InLine /\ stage # "off"
  BY <1>3 DEF InLine
<1>8. stage' \in {"line", "command", "argument", "execute", "failed", "aborted"}
  BY <1>3
<1>9. /\ Taken <= Taken' /\ Taken = read - Len(line) + Place - 1
      /\ stage' \in {"command", "argument", "execute"} => Taken' = read - Len(line) + save' - 1
  BY <1>1, <1>3, <1>7, <1>8, TakenFurther
<1>10. CASE args' = args
  <2>1. Pending' = Pending \/ Pending' = << >>
    BY <1>3, <1>10 DEF Pending
  <2>2. QED
    BY <1>1, <1>3, <1>7, <1>9, <2>1, NoWord
<1>11. CASE args' = Append(args, atoi(t.text)) /\ t.found /\ stage' = "argument"
  <2> DEFINE w == atoi(t.text)
             i == read - Len(line) + t.at
  <2>1. /\ t.at \in Place..(Len(line) + 1) /\ t.at < t.save /\ Len(line) \in Nat
        /\ Place \in 1..(Len(line) + 1) /\ t.save \in t.at..(Len(line) + 1)
        /\ t.text[1] = file[read - Len(line) + t.at] /\ Len(t.text) > 0 /\ t.text \in Seq(Cells)
    BY <1>2, <1>3, <1>11, TokenHere
  <2>2. read \in Nat /\ Len(line) <= read
    BY <1>7 DEF ReaderInv, ReaderTypes, LineInv
  <2>3. Taken' = read - Len(line) + save' - 1
    BY <1>9, <1>11
  <2> HIDE DEF Place, Cells
  <2>4. i \in Nat /\ Taken < i /\ i <= Taken'
    BY <1>3, <1>9, <2>1, <2>2, <2>3, SMTT(30)
  <2>5. w \in Cells
    BY <2>1, NumberType
  <2>6. Reads(file[i], w)
    <3>1. t.text[1] = file[i]
      BY <2>1
    <3> HIDE DEF i
    <3>2. <<file[i]>>[1] = t.text[1]
      BY <3>1
    <3>3. w = atoi(<<file[i]>>)
      BY <3>2 DEF atoi
    <3>4. QED
      BY <3>3 DEF Reads
  <2>7. FlattenSeq(executed) \in Seq(Cells)
    BY <1>7, WordTypes
  <2>8. cmd \in Seq(Cells) /\ Len(cmd) > 0 /\ args \in Seq(Cells)
    BY <1>3 DEF ReaderInv, ReaderTypes, LineInv
  <2> DEFINE F == FlattenSeq(executed)
             P == <<cmd[1]>> \o args
             Q == <<cmd[1]>> \o Append(args, w)
  <2>9. Pending = P /\ Pending' = Q
    BY <1>3, <1>11 DEF Pending
  <2> HIDE DEF w, i, F
  <2>10. F \o Q = Append(F \o P, w)
    <3> DEFINE c == <<cmd[1]>>
    <3>1. F \in Seq(Cells) /\ c \in Seq(Cells)
      BY <2>7, <2>8 DEF F
    <3> HIDE DEF c
    <3>2. c \o Append(args, w) = Append(c \o args, w)
      BY <2>5, <2>8, <3>1, AppendBehind
    <3> DEFINE ca == c \o args
    <3>3. ca \in Seq(Cells)
      BY <2>8, <3>1
    <3> HIDE DEF ca
    <3>4. F \o Append(ca, w) = Append(F \o ca, w)
      BY <2>5, <3>1, <3>3, AppendBehind
    <3>5. QED
      BY <3>2, <3>4 DEF ca, c
  <2>11. stage' # "off" /\ F \o Pending' = Append(F \o Pending, w)
    BY <1>11, <2>9, <2>10
  <2>12. QED
    BY <1>1, <1>3, <1>7, <2>4, <2>5, <2>6, <2>11, OneWord DEF F
<1>12. QED
  BY <1>4, <1>10, <1>11

\* A command that is executed is the one at hand.
LEMMA ExecuteWords == ReaderInv /\ WordsInv /\ Execute => WordsInv'
<1> SUFFICES ASSUME ReaderInv, WordsInv, Execute PROVE WordsInv'
  OBVIOUS
<1>1. ReaderInv'
  BY ExecuteInv
<1>2. /\ stage = "execute" /\ stage' \in {"line", "command", "failed", "aborted"}
      /\ UNCHANGED <<file, read, line, save, fresh, cmd, args>>
  BY ExecuteStep
<1>3. InLine /\ stage # "off" /\ fresh = FALSE
  BY <1>2 DEF InLine, ReaderInv, ReaderTypes, LineInv
<1>4. Further(line', save') /\ fresh' = FALSE
  BY <1>2, <1>3, StillThere
<1>5. stage' \in {"line", "command", "argument", "execute", "failed", "aborted"}
  BY <1>2
<1>6. Taken <= Taken'
  BY <1>1, <1>2, <1>3, <1>4, <1>5, TakenFurther
<1>7. Pending' = << >>
  BY <1>2 DEF Pending
<1>8. CASE executed' = executed
  BY <1>1, <1>2, <1>3, <1>6, <1>7, <1>8, NoWord
<1>9. CASE /\ executed' = Append(executed, cmd \o args)
           /\ \E name \in DOMAIN Arity : cmd = <<name>> /\ Len(args) = Arity[name]
  <2> DEFINE F == FlattenSeq(executed)
             P == cmd \o args
             C == Cells
             n == Taken
             m == Taken'
             e == << >>
  <2>1. cmd = <<cmd[1]>>
    <3>1. PICK name : cmd = <<name>>
      BY <1>9
    <3>2. cmd[1] = name
      BY <3>1
    <3>3. QED
      BY <3>1, <3>2
  <2>2. Pending = P
    BY <1>2, <2>1 DEF Pending
  <2>3. F \in Seq(C) /\ P \in Seq(C) /\ n \in Nat
    BY <1>3, <2>2, WordTypes
  <2>4. m \in Nat
    BY <1>1, <1>2, WordTypesNext
  <2>5. Embeds(F \o P, file, n)
    BY <1>3, <2>2 DEF WordsInv
  <2>6. FlattenSeq(executed') = F \o P
    <3>1. executed \in Seq(Seq(C))
      BY <1>3 DEF ReaderInv, ExecutedType
    <3> HIDE DEF C, P
    <3>2. FlattenSeq(Append(executed, P)) = F \o P
      BY <2>3, <3>1, FlattenAppend
    <3>3. QED
      BY <1>9, <3>2 DEF P
  <2>7. n <= m
    BY <1>6
  <2> DEFINE G == F \o P
  <2> HIDE DEF F, P, C, n, m
  <2>8. G \in Seq(C) /\ e \in Seq(C)
    BY <2>3
  <2>9. FlattenSeq(executed') = G
    BY <2>6
  <2>10. Embeds(G, file, n)
    BY <2>5
  <2> HIDE DEF G
  <2>11. G \o e = G
    BY <2>8
  <2>12. Embeds(G \o e, file, n)
    BY <2>10, <2>11
  <2> HIDE DEF e
  <2>13. Embeds(G, file, m)
    BY <2>3, <2>4, <2>7, <2>8, <2>12, EmbedsLess
  <2>14. Embeds(G \o e, file, m)
    BY <2>11, <2>13
  <2>15. Embeds(FlattenSeq(executed') \o Pending', file', Taken')
    BY <1>2, <1>7, <2>9, <2>14 DEF e, m
  <2>16. QED
    BY <2>15 DEF WordsInv
<1>10. QED
  BY <1>8, <1>9, ExecuteStep

\* What stands in some cells stands in others that are like them.
LEMMA EmbedsLike ==
  ASSUME NEW words, NEW cells, NEW others, NEW n \in Nat, Embeds(words, cells, n),
         \A j \in 1..n : others[j] = cells[j]
  PROVE  Embeds(words, others, n)
<1>1. PICK p \in [1..Len(words) -> 1..n] :
           /\ \A k \in 1..Len(words) : Reads(cells[p[k]], words[k])
           /\ \A k \in 1..(Len(words) - 1) : p[k] < p[k + 1]
  BY DEF Embeds
<1>2. ASSUME NEW k \in 1..Len(words) PROVE Reads(others[p[k]], words[k])
  <2>1. p[k] \in 1..n
    BY <1>1
  <2>2. others[p[k]] = cells[p[k]]
    BY <2>1
  <2>3. QED
    BY <1>1, <2>2
<1>3. QED
  BY <1>1, <1>2 DEF Embeds

\* A line that is read, and the end of the script, change nothing of this.
LEMMA ReadWords == ReaderInv /\ WordsInv /\ (ReadLine \/ EndOfFile) => WordsInv'
<1> SUFFICES ASSUME ReaderInv, WordsInv, ReadLine \/ EndOfFile PROVE WordsInv'
  OBVIOUS
<1>1. ReaderInv'
  BY LineInvKept, EndInv
<1>2. /\ stage = "line" /\ stage' \in {"command", "done"} /\ UNCHANGED executed
  BY DEF ReadLine, EndOfFile
<1>3. stage # "off" /\ Pending' = << >> /\ Pending = << >>
  BY <1>2 DEF Pending
<1>4. Taken = read /\ read \in Int
  BY <1>2 DEF Taken, InLine, ReaderInv, ReaderTypes
<1>5. Taken' = read
  <2>1. CASE ReadLine
    <3>1. /\ stage' = "command" /\ fresh' = TRUE /\ read' = read + Len(line')
          /\ Len(line') \in 1..(Len(file') - read)
      BY <2>1, LineStep
    <3>2. InLine' /\ Place' = 1
      BY <3>1 DEF InLine, Place
    <3>3. Taken' = read' - Len(line') + 1 - 1
      BY <3>2 DEF Taken
    <3>4. Len(line') \in Int
      BY <1>4, <3>1
    <3>5. QED
      BY <1>4, <3>1, <3>3, <3>4
  <2>2. CASE EndOfFile
    BY <2>2 DEF EndOfFile, Taken, InLine
  <2>3. QED
    BY <2>1, <2>2
<1>6. Taken <= Taken'
  BY <1>4, <1>5
<1>7. CASE EndOfFile
  <2>1. file' = file
    BY <1>7 DEF EndOfFile
  <2>2. QED
    BY <1>1, <1>2, <1>3, <1>6, <2>1, NoWord
<1>8. CASE ReadLine
  <2>1. read \in Nat /\ \A j \in 1..read : file'[j] = file[j]
    BY <1>8, LineStep
  <2> DEFINE F == FlattenSeq(executed) \o Pending
  <2>2. Embeds(F, file, read)
    BY <1>3, <1>4 DEF WordsInv
  <2>3. Embeds(F, file', read)
    <3> HIDE DEF F
    <3>1. QED
      BY <2>1, <2>2, EmbedsLike
  <2>4. F = FlattenSeq(executed') \o Pending'
    BY <1>2, <1>3
  <2>5. QED
    BY <1>5, <2>3, <2>4 DEF WordsInv
<1>9. QED
  BY <1>7, <1>8

\* Nothing was executed of a script that is only now read.
LEMMA StartWords == \A f, opens : IsSequence(f) /\ Start(f, opens) => WordsInv'
<1> SUFFICES ASSUME NEW f, NEW opens, IsSequence(f), Start(f, opens) PROVE WordsInv'
  OBVIOUS
<1>1. stage' \in {"line", "failed"} /\ read' = 0 /\ executed' = << >>
  BY DEF Start
<1>2. Pending' = << >> /\ Taken' = 0
  BY <1>1 DEF Pending, Taken, InLine
<1>3. FlattenSeq(executed') = << >>
  <2> DEFINE e == << >>
  <2>1. e \in Seq(Seq({})) /\ Len(e) = 0
    OBVIOUS
  <2> HIDE DEF e
  <2>2. PICK g : g[0] = << >> /\ g[Len(e)] = FlattenSeq(e) /\ Sums(g, e, Len(e), {})
    BY <2>1, FlattenSums
  <2>3. FlattenSeq(e) = << >>
    BY <2>1, <2>2
  <2>4. QED
    BY <1>1, <2>3 DEF e
<1>4. << >> \o << >> = << >> /\ Len(<< >>) = 0
  OBVIOUS
<1>5. Embeds(<< >>, file', 0)
  <2> DEFINE p == [k \in 1..0 |-> k]
  <2>1. p \in [1..Len(<< >>) -> 1..0]
    BY <1>4
  <2>2. \A k \in 1..Len(<< >>) : FALSE
    BY <1>4
  <2>3. \A k \in 1..(Len(<< >>) - 1) : FALSE
    BY <1>4
  <2> HIDE DEF p
  <2>4. QED
    BY <2>1, <2>2, <2>3 DEF Embeds
<1>6. Embeds(FlattenSeq(executed') \o Pending', file', Taken')
  BY <1>2, <1>3, <1>4, <1>5
<1>7. QED
  BY <1>6 DEF WordsInv

\* What is executed stands in the script, in this order: no token is taken twice, or put
\* together from two; a word that fgets cuts at the end of the buffer counts as the two
\* pieces it makes of it (main, parseComment).
THEOREM NothingIsInvented == Spec => []NothingInvented
<1>1. Init => WordsInv
  BY DEF Init, ScriptInit, WordsInv
<1>2. SessionInv /\ WordsInv /\ [Next]_vars => WordsInv'
  <2> SUFFICES ASSUME SessionInv, ReaderInv, WordsInv, [Next]_vars PROVE WordsInv'
    BY DEF SessionInv
  <2>1. CASE orng
    BY <2>1, CommentWords, NameWords, ArgumentWords, ExecuteWords, ReadWords DEF orng, main
  <2>2. CASE shellCheckOutput
    <3>1. stage = "off" /\ controller = "run"
      BY Zenon, <2>2 DEF shellCheckOutput
    <3>2. (\E opens : Start(Text(events), opens)) \/ UNCHANGED scriptVars
      BY Zenon, <2>2 DEF shellCheckOutput
    <3>3. IsSequence(Text(events))
      BY TextType DEF SessionInv, ControllerInv
    <3>4. UNCHANGED scriptVars => stage' = "off"
      BY <3>1 DEF scriptVars
    <3>5. QED
      BY <3>2, <3>3, <3>4, StartWords DEF WordsInv
  <2>3. CASE ByHand
    <3>1. \E f \in Soups \cup {Document(d).text : d \in Documents} : Start(f, TRUE)
      BY <2>3 DEF ByHand
    <3>2. PICK f : IsSequence(f) /\ Start(f, TRUE)
      BY <3>1, SessionAssumption
    <3>3. QED
      BY <3>2, StartWords
  <2>4. CASE Checked \/ Finished
    <3>1. stage' = "off"
      BY <2>4 DEF Checked, Finished, Reap
    <3>2. QED
      BY <3>1 DEF WordsInv
  <2>5. CASE removeFile \/ Restart
    <3>1. stage = "off" /\ stage' = stage
      BY <2>5 DEF removeFile, Restart, Step, SessionInv, ControllerInv
    <3>2. QED
      BY <3>1 DEF WordsInv
  <2>6. CASE UNCHANGED scriptVars
    <3>1. UNCHANGED <<file, read, line, save, fresh, cmd, args, more, stage, executed>>
      BY <2>6 DEF scriptVars
    <3>2. Pending' = Pending /\ Taken' = Taken
      BY <3>1 DEF Pending, Taken, InLine, Place
    <3>3. QED
      BY <3>1, <3>2 DEF WordsInv
  <2>7. Request \/ Quit \/ pushFile \/ Over \/ UNCHANGED vars => UNCHANGED scriptVars
    BY DEF Request, Quit, pushFile, Over, vars
  <2>8. QED
    BY <2>1, <2>2, <2>3, <2>4, <2>5, <2>6, <2>7 DEF Next, execute_script
<1>3. SessionInv /\ WordsInv => NothingInvented
  <2> SUFFICES ASSUME ReaderInv, WordsInv, stage # "off"
               PROVE  Within(FlattenSeq(executed), file)
    BY DEF NothingInvented, SessionInv
  <2> DEFINE F == FlattenSeq(executed)
             P == Pending
             C == Cells
             n == Taken
             m == Len(file)
  <2>1. F \in Seq(C) /\ P \in Seq(C) /\ n \in Nat /\ m \in Nat
    BY WordTypes
  <2>2. n <= m
    BY WordTypes
  <2>3. Embeds(F \o P, file, n)
    BY DEF WordsInv
  <2>4. IsSequence(file)
    BY DEF ReaderInv, ReaderTypes
  <2> HIDE DEF F, P, C, n
  <2>5. Embeds(F, file, m)
    <3> HIDE DEF m
    <3>1. QED
      BY <2>1, <2>2, <2>3, EmbedsLess
  <2>6. IsSequence(F)
    BY <2>1, Sequences
  <2>7. Within(F, file)
    BY <2>4, <2>5, <2>6, EmbeddedWithin
  <2>8. QED
    BY <2>7 DEF F
<1>4. QED
  BY <1>1, <1>2, <1>3, SessionInductive, PTL DEF Spec

---------------------------------------------------------------------------
(* A request is played as asked.                                           *)

\* A sequence that another one begins with.
Begins(s, t) == Len(s) <= Len(t) /\ \A j \in 1..Len(s) : t[j] = s[j]

\* What is put together from the left begins with each of its stages.
LEMMA SumsBegin ==
  ASSUME NEW S, NEW n \in Nat, NEW e, NEW f, Sums(f, e, n, S)
  PROVE  \A i \in 0..n : Begins(f[i], f[n])
<1>1. /\ \A i \in 0..n : f[i] \in Seq(S)
      /\ \A i \in 1..n : e[i] \in Seq(S)
      /\ \A i \in 1..n : f[i] = f[i - 1] \o e[i]
  BY DEF Sums
<1> DEFINE T == {m \in 0..n : ~Begins(f[n - m], f[n])}
<1>2. T = {}
  <2> SUFFICES ASSUME T # {} PROVE FALSE
    OBVIOUS
  <2>1. T \subseteq Nat
    OBVIOUS
  <2>2. PICK x \in T : \A y \in T : x <= y
    <3> HIDE DEF T
    <3>1. QED
      BY <2>1, Least
  <2>3. x \in 0..n /\ ~Begins(f[n - x], f[n])
    OBVIOUS
  <2>4. x # 0
    <3>1. Begins(f[n], f[n])
      <4>1. Len(f[n]) \in Nat
        BY <1>1
      <4>2. QED
        BY <4>1 DEF Begins
    <3>2. x = 0 => n - x = n
      OBVIOUS
    <3>3. QED
      BY <2>3, <3>1, <3>2
  <2>5. x - 1 \in 0..n /\ ~ (x <= x - 1)
    BY <2>3, <2>4
  <2>6. Begins(f[n - (x - 1)], f[n])
    <3>1. x - 1 \notin T
      BY <2>2, <2>5
    <3>2. QED
      BY <2>5, <3>1
  <2> DEFINE i == n - (x - 1)
  <2>7. i \in 1..n /\ i - 1 = n - x /\ i - 1 \in 0..n /\ n \in 0..n /\ i \in 0..n
    BY <2>3, <2>4
  <2> HIDE DEF i
  <2>8. f[i] = f[i - 1] \o e[i] /\ f[i - 1] \in Seq(S) /\ e[i] \in Seq(S) /\ f[n] \in Seq(S)
    BY <1>1, <2>7
  <2>9. Begins(f[i], f[n])
    BY <2>6 DEF i
  <2>10. Begins(f[i - 1], f[n])
    <3> DEFINE a == f[i - 1]
               b == e[i]
               c == f[n]
               ab == f[i]
    <3>1. ab = a \o b /\ a \in Seq(S) /\ b \in Seq(S) /\ c \in Seq(S) /\ Begins(ab, c)
      BY <2>8, <2>9
    <3> HIDE DEF a, b, c, ab
    <3>2. Len(ab) = Len(a) + Len(b) /\ Len(a) \in Nat /\ Len(b) \in Nat /\ Len(c) \in Nat
      BY <3>1
    <3>3. \A j \in 1..Len(a) : j \in 1..Len(ab) /\ ab[j] = a[j]
      BY <3>1, <3>2
    <3>4. Begins(a, c)
      BY <3>1, <3>2, <3>3 DEF Begins
    <3>5. QED
      BY <3>4 DEF a, c
  <2>11. QED
    BY <2>3, <2>7, <2>10
<1>3. \A i \in 0..n : Begins(f[i], f[n])
  <2> TAKE i \in 0..n
  <2>1. n - i \in 0..n /\ n - (n - i) = i
    OBVIOUS
  <2>2. QED
    BY <1>2, <2>1
<1>4. QED
  BY <1>3

\* Where the parts lie in a whole: part i behind the first o[i - 1] places.
Parts(o, seqs) ==
  /\ o[0] = 0 /\ o[Len(seqs)] = Len(FlattenSeq(seqs))
  /\ \A i \in 0..Len(seqs) : o[i] \in Nat /\ o[i] <= o[Len(seqs)]
  /\ \A i \in 1..Len(seqs) :
       /\ o[i] = o[i - 1] + Len(seqs[i])
       /\ \A k \in 1..Len(seqs[i]) : FlattenSeq(seqs)[o[i - 1] + k] = seqs[i][k]

\* Every whole has such places.
LEMMA PartsExist == ASSUME NEW S, NEW seqs, seqs \in Seq(Seq(S)) PROVE \E o : Parts(o, seqs)
<1> DEFINE N == Len(seqs)
           whole == FlattenSeq(seqs)
<1>1. N \in Nat
  OBVIOUS
<1>2. PICK f : f[0] = << >> /\ f[N] = whole /\ Sums(f, seqs, N, S)
  BY FlattenSums
<1> HIDE DEF N, whole
<1>3. \A i \in 0..N : Begins(f[i], f[N])
  BY <1>1, <1>2, SumsBegin
<1> DEFINE o == [i \in 0..N |-> Len(f[i])]
<1>4. o[0] = 0 /\ o[N] = Len(whole)
  <2>1. 0 \in 0..N /\ N \in 0..N /\ Len(<< >>) = 0
    BY <1>1
  <2>2. QED
    BY <1>2, <2>1
<1>5. \A i \in 0..N : o[i] \in Nat /\ o[i] <= o[N]
  <2> TAKE i \in 0..N
  <2>1. f[i] \in Seq(S) /\ N \in 0..N
    BY <1>1, <1>2 DEF Sums
  <2>2. Len(f[i]) \in Nat
    BY <2>1
  <2>3. Len(f[i]) <= Len(f[N])
    BY <1>3 DEF Begins
  <2>4. QED
    BY <2>1, <2>2, <2>3
<1>6. ASSUME NEW i \in 1..N
      PROVE  /\ o[i] = o[i - 1] + Len(seqs[i])
             /\ \A k \in 1..Len(seqs[i]) : whole[o[i - 1] + k] = seqs[i][k]
  <2> DEFINE a == f[i - 1]
             b == seqs[i]
             c == f[N]
             ab == f[i]
  <2>1. i \in 0..N /\ i - 1 \in 0..N
    BY <1>1
  <2>2. ab = a \o b /\ a \in Seq(S) /\ b \in Seq(S) /\ c = whole
    BY <1>2, <2>1 DEF Sums
  <2>3. Begins(ab, c)
    BY <1>3, <2>1
  <2>4. o[i] = Len(ab) /\ o[i - 1] = Len(a)
    BY <2>1
  <2> HIDE DEF a, b, c, ab, o
  <2>5. Len(ab) = Len(a) + Len(b) /\ Len(a) \in Nat /\ Len(b) \in Nat
    BY <2>2
  <2>6. \A k \in 1..Len(b) : c[Len(a) + k] = b[k]
    <3> TAKE k \in 1..Len(b)
    <3>1. Len(a) + k \in 1..Len(ab)
      BY <2>5
    <3>2. c[Len(a) + k] = ab[Len(a) + k]
      BY <2>3, <3>1 DEF Begins
    <3>3. (a \o b)[Len(a) + k] = b[k]
      BY <2>2, <2>5
    <3>4. QED
      BY <2>2, <3>2, <3>3
  <2>7. QED
    BY <2>2, <2>4, <2>5, <2>6 DEF b
<1>7. Parts(o, seqs)
  <2> HIDE DEF o
  <2>1. QED
    BY <1>4, <1>5, <1>6 DEF Parts, N, whole
<1>8. QED
  BY <1>7

\* Where the lines of a script lie in its text: behind the first i of them o[i] cells.
Spells(cells, from, words) ==
  \A j \in 1..Len(words) :
    /\ cells[from + 2 * j - 1] = words[j]
    /\ cells[from + 2 * j] = IF j = Len(words) THEN Newline ELSE Space

Offsets(o, lines) ==
  /\ o[0] = 0 /\ o[Len(lines)] = Len(Text(lines))
  /\ \A i \in 0..Len(lines) : o[i] \in Nat /\ o[i] <= o[Len(lines)]
  /\ \A i \in 1..Len(lines) :
       o[i] = o[i - 1] + 2 * Len(lines[i]) /\ Spells(Text(lines), o[i - 1], lines[i])

\* The lines of every script have offsets.
LEMMA OffsetsExist == ASSUME NEW W, NEW lines, lines \in Seq(Seq(W)) PROVE \E o : Offsets(o, lines)
<1> DEFINE S == W \cup {Newline, Space}
           V == Seq(W)
           U == Seq(S)
           N == Len(lines)
           parts == [i \in 1..N |-> Joined(lines[i])]
<1>1. lines \in Seq(V)
  OBVIOUS
<1>2. \A words \in V : Joined(words) \in U /\ Spread(Joined(words), words, Newline, Space)
  <2> TAKE words \in V
  <2>1. words \in Seq(S) /\ Newline \in S /\ Space \in S
    OBVIOUS
  <2> HIDE DEF S
  <2>2. QED
    BY <2>1, JoinedType
<1>3. \A words \in V : Len(words) \in Nat
  OBVIOUS
<1> HIDE DEF S, V, U
<1>4. parts \in Seq(U) /\ Len(parts) = N /\ N \in Nat
  BY <1>1, <1>2
<1>5. \A i \in 1..N : lines[i] \in V /\ Spread(parts[i], lines[i], Newline, Space)
  BY <1>1, <1>2
<1>6. parts \in Seq(Seq(S))
  BY <1>4 DEF U
<1>7. Text(lines) = FlattenSeq(parts)
  BY DEF Text
<1> HIDE DEF parts, N
<1>8. PICK o : Parts(o, parts)
  BY <1>6, PartsExist
<1>9. ASSUME NEW i \in 1..N
      PROVE  o[i] = o[i - 1] + 2 * Len(lines[i]) /\ Spells(Text(lines), o[i - 1], lines[i])
  <2> DEFINE n == Len(lines[i])
             b == parts[i]
             c == Text(lines)
  <2>1. n \in Nat /\ Spread(b, lines[i], Newline, Space)
    BY <1>3, <1>5
  <2>2. o[i] = o[i - 1] + Len(b) /\ \A k \in 1..Len(b) : c[o[i - 1] + k] = b[k]
    BY <1>4, <1>7, <1>8 DEF Parts
  <2>3. o[i - 1] \in Nat
    <3>1. i - 1 \in 0..N
      BY <1>4
    <3>2. QED
      BY <1>4, <1>8, <3>1 DEF Parts
  <2> HIDE DEF b, c
  <2>4. Len(b) = 2 * n
    BY <2>1 DEF Spread
  <2>5. ASSUME NEW j \in 1..n
        PROVE  /\ c[o[i - 1] + 2 * j - 1] = lines[i][j]
               /\ c[o[i - 1] + 2 * j] = IF j = n THEN Newline ELSE Space
    <3>1. b[2 * j - 1] = lines[i][j] /\ b[2 * j] = IF j = n THEN Newline ELSE Space
      BY <2>1 DEF Spread
    <3>2. 2 * j - 1 \in 1..Len(b) /\ 2 * j \in 1..Len(b)
      BY <2>1, <2>4
    <3>3. o[i - 1] + (2 * j - 1) = o[i - 1] + 2 * j - 1
      BY <2>1, <2>3
    <3>4. QED
      BY <2>2, <3>1, <3>2, <3>3
  <2>6. Spells(c, o[i - 1], lines[i])
    BY <2>5 DEF Spells
  <2>7. QED
    BY <2>2, <2>4, <2>6 DEF c
<1>10. Offsets(o, lines)
  BY <1>4, <1>7, <1>8, <1>9 DEF Parts, Offsets, N
<1>11. QED
  BY <1>10

\* A token begins where something stands that is no delimiter, and nothing else stands in
\* front of it.
LEMMA TokenWord ==
  ASSUME ReaderInv, stage \in {"command", "argument"}, NEW t, t = Token
  PROVE  /\ t.found <=> Cell(line, t.at) # NUL
         /\ Cell(line, t.at) \notin Blank
         /\ \A k \in Place..(t.at - 1) : Cell(line, k) \in Blank
<1>1. line \in Seq(Cells) /\ Place \in 1..(Len(line) + 1)
  BY DEF ReaderInv, ReaderTypes, LineInv, InLine
<1>2. NUL \notin Blank
  BY DEF Blank, NUL
<1>3. t.at = Skip(line, Place, Blank) /\ t.found = (Cell(line, t.at) # NUL)
  BY DEF Token, Place, strtok
<1> HIDE DEF Cells, Place, Blank
<1>4. /\ Cell(line, Skip(line, Place, Blank)) \notin Blank
      /\ \A k \in Place..(Skip(line, Place, Blank) - 1) : Cell(line, k) \in Blank
  BY <1>1, <1>2, SkipPlace
<1>5. QED
  BY <1>3, <1>4

\* A line that begins with a word has this word as its first token.
LEMMA FirstToken ==
  ASSUME ReaderInv, stage = "command", fresh, Len(line) > 0, Word(line[1]), NEW t, t = Token
  PROVE  t.found /\ t.at = 1 /\ t.text[1] = line[1]
<1>1. /\ t.at \in Place..(Len(line) + 1) /\ Len(line) \in Nat /\ t.found \in BOOLEAN
      /\ t.found => t.text[1] = line[t.at]
  BY TokenHere
<1>2. Place = 1
  BY DEF Place
<1>3. Cell(line, 1) \notin Blank /\ Cell(line, 1) # NUL
  BY <1>1 DEF Cell, Word
<1> HIDE DEF Place
<1>4. /\ t.found <=> Cell(line, t.at) # NUL
      /\ \A k \in Place..(t.at - 1) : Cell(line, k) \in Blank
  BY TokenWord
<1>5. t.at = 1
  <2>1. t.at # 1 => 1 \in Place..(t.at - 1)
    BY <1>1, <1>2
  <2>2. QED
    BY <1>3, <1>4, <2>1
<1>6. QED
  BY <1>1, <1>3, <1>4, <1>5

\* A line that consists of its end has none.
LEMMA NoToken ==
  ASSUME ReaderInv, stage = "command", fresh, Len(line) = 1, ~Word(line[1]), NEW t, t = Token
  PROVE  ~t.found
<1>1. t.at \in Place..(Len(line) + 1) /\ (t.found => t.at <= Len(line))
  BY TokenHere
<1>2. Place = 1
  BY DEF Place
<1> HIDE DEF Place
<1>3. (t.found <=> Cell(line, t.at) # NUL) /\ Cell(line, t.at) \notin Blank
  BY TokenWord
<1>4. t.found => t.at = 1
  BY <1>1, <1>2
<1>5. Cell(line, 1) = line[1]
  BY DEF Cell
<1>6. QED
  BY <1>3, <1>4, <1>5 DEF Word

\* The beginning of a comment.
Opening == "{"

\* A comment takes the token that begins it.
LEMMA CommentTakes ==
  ASSUME ReaderInv, parseComment, NEW t, t = Token
  PROVE  t.found /\ t.text[1] = Opening /\ save' > t.at /\ save' \in Int
<1> DEFINE closing == {"}"}
<1>1. stage \in {"command", "argument"}
  BY DEF parseComment
<1>2. /\ t.found /\ t.text[1] = Opening
      /\ \/ Take([t EXCEPT !.line = Zero(t.line, Find(t.line, t.at, closing))])
         \/ Take(strtok(t.line, t.save, closing))
  BY Zenon DEF parseComment, Opening
<1>3. NUL \notin closing
  BY Zenon DEF NUL
<1> HIDE DEF closing
<1>4. /\ t.save \in t.at..(Len(line) + 1) /\ t.at \in Place..(Len(line) + 1)
      /\ Place \in 1..(Len(line) + 1) /\ Len(line) \in Nat /\ t.at < t.save
  BY <1>1, <1>2, TokenHere
<1> HIDE DEF Place
<1>5. CASE Take([t EXCEPT !.line = Zero(t.line, Find(t.line, t.at, closing))])
  <2> DEFINE z == Zero(t.line, Find(t.line, t.at, closing))
  <2>1. save' = [t EXCEPT !.line = z].save
    BY <1>5 DEF Take
  <2> HIDE DEF z
  <2>2. [t EXCEPT !.line = z].save = t.save
    BY OtherLine DEF Token
  <2>3. QED
    BY <1>2, <1>4, <2>1, <2>2
<1>6. CASE Take(strtok(t.line, t.save, closing))
  <2> DEFINE u == strtok(t.line, t.save, closing)
  <2>1. Further(u.line, u.save) /\ u.save >= t.save
    BY <1>1, <1>3, CommentBehind
  <2>2. save' = u.save
    BY <1>6 DEF Take
  <2> HIDE DEF u
  <2>3. u.save \in Int
    BY <1>4, <2>1 DEF Further
  <2>4. QED
    BY <1>2, <1>4, <2>1, <2>2, <2>3
<1>7. QED
  BY <1>2, <1>5, <1>6

\* The beginning of a remark.
Remark == "#"

\* A line is read up to its end at most, and a word at the head of it stays there.
LEMMA NextLine ==
  ASSUME ReaderInv, ReadLine, file' = file
  PROVE  /\ \A e \in 1..(Len(file) - read) : file[read + e] = Newline => Len(line') <= e
         /\ file[read + 1] \notin {Remark, NUL} => line'[1] = file[read + 1]
<1> DEFINE remark == {Remark}
<1>1. PICK f : f = Fetched(file)
  OBVIOUS
<1>2. read < Len(file) /\ line' = Zero(f, Find(f, 1, remark))
  BY <1>1, Zenon DEF ReadLine, Remark
<1> DEFINE R == Range(file) \cup {NUL}
<1>14. IsSequence(file) /\ read \in Nat
  BY DEF ReaderInv, ReaderTypes, IsSequence
<1>13. /\ f \in Seq(Range(file)) /\ Len(f) \in 1..(Len(file) - read)
       /\ \A j \in 1..Len(f) : f[j] = file[read + j]
  BY <1>1, <1>2, <1>14, FetchedPlace
<1>3. f \in Seq(R)
  BY <1>13
<1>4. NUL \in R
  OBVIOUS
<1> HIDE DEF R
<1>5. 1 \in 1..(Len(f) + 1) /\ Len(f) >= 1
  BY <1>13
<1> DEFINE w == Find(f, 1, remark)
<1>6. w \in 1..(Len(f) + 1) /\ Cell(f, w) \in remark \cup {NUL}
  BY <1>3, <1>5, FindPlace
<1> HIDE DEF w
<1>7. w \in Nat \ {0}
  BY <1>3, <1>6
<1>8. /\ Len(Zero(f, w)) = Len(f)
      /\ \A j \in 1..Len(f) : Zero(f, w)[j] = IF j = w THEN NUL ELSE f[j]
  BY <1>3, <1>4, <1>7, ZeroType
<1>9. line' = Zero(f, w)
  BY <1>2 DEF w
<1>10. \A e \in 1..(Len(file) - read) : file[read + e] = Newline => Len(line') <= e
  BY <1>1, <1>2, <1>8, <1>9, <1>14, FetchedEnds
<1>11. ASSUME file[read + 1] \notin {Remark, NUL} PROVE line'[1] = file[read + 1]
  <2>1. 1 \in 1..Len(f) /\ f[1] = file[read + 1]
    BY <1>5, <1>13
  <2>2. Cell(f, 1) = f[1]
    BY <1>5 DEF Cell
  <2>3. w # 1
    BY <1>6, <1>11, <2>1, <2>2
  <2>4. QED
    BY <1>8, <1>9, <2>1, <2>3
<1>12. QED
  BY <1>10, <1>11

\* No command is called like the beginning of a comment, and the ends of words are no words.
LEMMA Names ==
  /\ \A name \in DOMAIN Arity : name # Opening /\ name # Remark
  /\ ~Word(Newline) /\ ~Word(Space) /\ ~Word(NUL)
<1>1. DOMAIN Arity = {"tap", "drag", "sleep", "pinch", "keyup", "keydown", "reset"}
  BY DEF Arity
<1>2. \A name \in DOMAIN Arity : name # Opening /\ name # Remark
  BY Zenon, <1>1 DEF Opening, Remark
<1>3. Newline \in Blank /\ Space \in Blank
  BY Zenon DEF Blank, Newline, Space
<1>4. QED
  BY <1>2, <1>3 DEF Word

\* A line of a request, and where it lies in the script.
Lies(o, d, words, cells) ==
  /\ Complete(words) /\ Len(words) \in Nat /\ Len(words) > 0
  /\ \A j \in 1..Len(words) : Word(words[j])
  /\ o[d] \in Nat /\ o[d + 1] = o[d] + 2 * Len(words) /\ o[d + 1] <= Len(cells)
  /\ Spells(cells, o[d], words)

\* Every line of a request has its place.
LEMMA LineFacts ==
  ASSUME NEW lines, Commands(lines), NEW o, Offsets(o, lines), NEW d \in Nat, d < Len(lines),
         NEW words, words = lines[d + 1]
  PROVE  Lies(o, d, words, Text(lines))
<1> DEFINE W == UNION {Range(v) : v \in Range(lines)}
           V == Seq(W)
<1>1. lines \in Seq(V) /\ \A i \in 1..Len(lines) : Complete(lines[i])
  BY DEF Commands
<1>2. \A v \in V : Len(v) \in Nat /\ \A j \in 1..Len(v) : v[j] \in Range(v)
  <2> HIDE DEF W
  <2>1. QED
    BY DEF Range
<1> HIDE DEF V, W
<1>3. Len(lines) \in Nat
  BY <1>1
<1>4. d + 1 \in 1..Len(lines) /\ d \in 0..Len(lines) /\ d + 1 \in 0..Len(lines) /\ (d + 1) - 1 = d
  BY <1>3
<1>5. words \in V /\ Complete(words)
  BY <1>1, <1>4
<1>6. Len(words) \in Nat /\ Len(words) > 0 /\ \A j \in 1..Len(words) : words[j] \in Range(words)
  BY <1>2, <1>5 DEF Complete
<1>7. \A j \in 1..Len(words) : Word(words[j])
  BY <1>5, <1>6 DEF Complete, Word
<1>8. o[d] \in Nat /\ o[d + 1] <= Len(Text(lines))
  BY <1>4 DEF Offsets
<1>9. o[d + 1] = o[d] + 2 * Len(words) /\ Spells(Text(lines), o[d], words)
  BY <1>4 DEF Offsets
<1>10. QED
  BY <1>5, <1>6, <1>7, <1>8, <1>9 DEF Lies

---------------------------------------------------------------------------

\* Between two lines: behind the last command, or in front of the end of its line if the
\* buffer had no room for that.
Between(o) ==
  \/ read = o[Len(executed)]
  \/ Len(executed) > 0 /\ read = o[Len(executed)] - 1

\* The end of a line that was left over.
LeftOver(o) ==
  stage = "command" /\ fresh /\ Len(line) = 1 /\ ~Word(line[1]) /\ read = o[Len(executed)]

\* The arguments so far are those of the request.
Kept(words) ==
  /\ Len(args) < Len(words) /\ 2 * Len(args) + 2 <= save
  /\ \A i \in 1..Len(args) : args[i] = atoi(<<words[i + 1]>>)
  /\ stage = "execute" /\ Len(args) = Len(words) - 1 => ~more

\* So many words were lost to comments that there will never be enough arguments.
Lost(words) == Len(args) + 2 <= Len(words) /\ 2 * (Len(args) + 2) <= save

OnTheWay(o, words) ==
  /\ read - Len(line) = o[Len(executed)] /\ Len(line) <= 2 * Len(words)
  /\ stage = "command" => fresh /\ Len(line) > 0 /\ line[1] = words[1]
  /\ stage \in {"argument", "execute"} => cmd[1] = words[1] /\ (Kept(words) \/ Lost(words))

\* orng has executed as many commands of the request as it has read, and is at the next.
Follows(o) ==
  /\ Offsets(o, events) /\ file = Text(events)
  /\ Len(executed) <= Len(events)
  /\ \A i \in 1..Len(executed) : executed[i] = Meant(events[i])
  /\ stage = "line" => Between(o)
  /\ stage = "done" => Len(executed) = Len(events)
  /\ InLine => \/ LeftOver(o)
               \/ Len(executed) < Len(events) /\ OnTheWay(o, events[Len(executed) + 1])

\* A place is odd or even.
LEMMA OddOrEven ==
  ASSUME NEW n \in Nat, NEW a \in 1..(2 * n)
  PROVE  \E q \in 1..n : a = 2 * q - 1 \/ a = 2 * q
<1> DEFINE q == (a + 1) \div 2
<1>1. q \in 1..n /\ (a = 2 * q - 1 \/ a = 2 * q)
  OBVIOUS
<1>2. QED
  BY <1>1

\* A token on the line of a command is one of its words.
LEMMA WordToken ==
  ASSUME ReaderInv, Commands(events), NEW o, Follows(o), stage \in {"command", "argument"},
         Len(executed) < Len(events), NEW words, words = events[Len(executed) + 1],
         OnTheWay(o, words), NEW t, t = Token, t.found
  PROVE  \E q \in 1..Len(words) : t.at = 2 * q - 1 /\ t.text[1] = words[q]
<1>1. executed \in Seq(Seq(Cells)) /\ Len(line) \in Nat
  BY DEF ReaderInv, ReaderTypes, ExecutedType
<1> HIDE DEF Cells
<1>2. PICK d \in Nat : d = Len(executed)
  BY <1>1
<1>3. Len(words) \in Nat /\ Spells(file, o[d], words)
  <2>1. Lies(o, d, words, file)
    BY <1>2, LineFacts DEF Follows
  <2>2. QED
    BY <2>1 DEF Lies
<1>4. /\ t.at \in 1..Len(line) /\ t.text[1] = line[t.at]
      /\ t.text[1] = file[read - Len(line) + t.at]
  <2>1. /\ Place \in 1..(Len(line) + 1) /\ t.at \in Place..(Len(line) + 1) /\ t.at <= Len(line)
        /\ t.text[1] = line[t.at] /\ t.text[1] = file[read - Len(line) + t.at]
    BY TokenHere
  <2> HIDE DEF Place
  <2>2. QED
    BY <1>1, <2>1
<1>5. read - Len(line) = o[d] /\ Len(line) <= 2 * Len(words)
  BY <1>2 DEF OnTheWay
<1>6. t.text[1] = file[o[d] + t.at] /\ t.at \in 1..(2 * Len(words))
  BY <1>1, <1>3, <1>4, <1>5
<1>7. t.text[1] \notin Blank
  <2>1. Cell(line, t.at) \notin Blank
    BY TokenWord
  <2>2. Cell(line, t.at) = line[t.at]
    BY <1>1, <1>4 DEF Cell
  <2>3. QED
    BY <1>4, <2>1, <2>2
<1>8. PICK q \in 1..Len(words) : t.at = 2 * q - 1 \/ t.at = 2 * q
  BY <1>3, <1>6, OddOrEven
<1>9. t.at # 2 * q
  <2> SUFFICES ASSUME t.at = 2 * q PROVE FALSE
    OBVIOUS
  <2>1. t.text[1] = IF q = Len(words) THEN Newline ELSE Space
    BY <1>3, <1>6 DEF Spells
  <2>2. Newline \in Blank /\ Space \in Blank
    BY Zenon DEF Blank, Newline, Space
  <2>3. QED
    BY <1>7, <2>1, <2>2
<1>10. t.at = 2 * q - 1
  BY <1>8, <1>9
<1>11. t.text[1] = words[q]
  <2>1. file[o[d] + 2 * q - 1] = words[q]
    BY <1>3 DEF Spells
  <2>2. o[d] \in Int
    <3>1. Lies(o, d, words, file)
      BY <1>2, LineFacts DEF Follows
    <3>2. QED
      BY <3>1 DEF Lies
  <2>3. o[d] + t.at = o[d] + 2 * q - 1
    BY <1>10, <2>2
  <2>4. QED
    BY <1>6, <2>1, <2>3
<1>12. QED
  BY <1>10, <1>11

\* What a request has left of its script.
LEMMA FollowsOn ==
  ASSUME NEW o, Follows(o), UNCHANGED <<events, file, executed>>,
         stage' # "done", stage' = "line" => Between(o)',
         InLine' => \/ LeftOver(o)'
                    \/ Len(executed) < Len(events) /\ OnTheWay(o, events[Len(executed) + 1])'
  PROVE  Follows(o)'
BY DEF Follows

\* No word of a request that fits the buffer is cut in two.
LEMMA FollowsUncut ==
  ASSUME ReaderInv, Commands(events), Fitting(events), NEW o, Follows(o), ReadLine
  PROVE  file' = file
<1>1. /\ stage = "line" /\ read < Len(file) /\ file' \in AsCut
      /\ read \in Nat /\ Len(file) \in Nat
  BY LineStep
<1>2. executed \in Seq(Seq(Cells))
  BY <1>1 DEF ReaderInv, ExecutedType
<1> HIDE DEF Cells
<1>3. PICK d \in Nat : d = Len(executed)
  BY <1>2
<1>4. d <= Len(events) /\ Between(o) /\ file = Text(events) /\ Offsets(o, events)
  BY <1>1, <1>3 DEF Follows
<1>5. Len(events) \in Nat
  BY DEF Commands
<1>6. \E e \in 1..(Len(file) - read) : file[read + e] = Newline /\ e < MAX_COMMAND_LEN
  <2>1. CASE read = o[d]
    <3>1. d < Len(events)
      <4>1. d = Len(events) => read = Len(file)
        BY <1>4, <2>1 DEF Offsets
      <4>2. QED
        BY <1>1, <1>4, <1>5, <4>1
    <3>2. PICK words : words = events[d + 1]
      OBVIOUS
    <3>3. /\ Len(words) \in Nat /\ Len(words) > 0 /\ o[d] \in Nat
          /\ o[d + 1] = o[d] + 2 * Len(words) /\ o[d + 1] <= Len(file)
          /\ Spells(file, o[d], words)
      <4>1. Lies(o, d, words, file)
        BY <1>4, <3>1, <3>2, LineFacts
      <4>2. QED
        BY <4>1 DEF Lies
    <3>4. file[o[d] + 2 * Len(words)] = Newline
      BY <3>3 DEF Spells
    <3>5. 2 * Len(words) < MAX_COMMAND_LEN
      <4>1. d + 1 \in 1..Len(events)
        BY <1>5, <3>1
      <4>2. QED
        BY <3>2, <4>1 DEF Fitting
    <3>6. 2 * Len(words) \in 1..(Len(file) - read)
      BY <1>1, <2>1, <3>3
    <3>7. QED
      BY <2>1, <3>4, <3>5, <3>6
  <2>2. CASE d > 0 /\ read = o[d] - 1
    <3>1. PICK c \in Nat : c + 1 = d
      <4>1. d - 1 \in Nat /\ (d - 1) + 1 = d
        BY <2>2
      <4>2. QED
        BY <4>1
    <3>2. PICK words : words = events[c + 1]
      OBVIOUS
    <3>3. c < Len(events)
      BY <1>4, <1>5, <3>1
    <3>4. /\ Len(words) \in Nat /\ Len(words) > 0
          /\ o[c] \in Nat /\ o[d] = o[c] + 2 * Len(words) /\ Spells(file, o[c], words)
      <4>1. Lies(o, c, words, file)
        BY <1>4, <3>2, <3>3, LineFacts
      <4>2. QED
        BY <3>1, <4>1 DEF Lies
    <3>5. file[read + 1] = Newline
      <4>1. file[o[c] + 2 * Len(words)] = Newline
        BY <3>4 DEF Spells
      <4>2. read + 1 = o[c] + 2 * Len(words)
        BY <2>2, <3>4
      <4>3. QED
        BY <4>1, <4>2
    <3>6. 1 \in 1..(Len(file) - read) /\ 1 < MAX_COMMAND_LEN
      BY <1>1, ScriptAssumption
    <3>7. QED
      BY <3>5, <3>6
  <2>3. QED
    BY <1>3, <1>4, <2>1, <2>2 DEF Between
<1>7. QED
  BY <1>1, <1>6, CutFile

\* The next line of the request, or what was left of the last one.
LEMMA FollowsRead ==
  ASSUME ReaderInv, Commands(events), Fitting(events), events' = events, NEW o, Follows(o), ReadLine
  PROVE  Follows(o)'
<1>10. file' = file
  BY FollowsUncut
<1>1. /\ stage = "line" /\ stage' = "command" /\ fresh' = TRUE /\ file' = file /\ executed' = executed
      /\ Len(line') \in 1..(Len(file) - read) /\ read' = read + Len(line')
      /\ \A j \in 1..Len(line') : line'[j] \in {file[read + j], NUL}
  BY <1>10, LineStep
<1>2. /\ executed \in Seq(Seq(Cells)) /\ read \in Nat /\ Len(file) \in Nat /\ read < Len(file)
  BY <1>1 DEF ReaderInv, ReaderTypes, ExecutedType, IsSequence, ReadLine
<1> HIDE DEF Cells
<1>3. PICK d \in Nat : d = Len(executed)
  BY <1>2
<1>4. d <= Len(events) /\ Between(o) /\ file = Text(events) /\ Offsets(o, events)
  BY <1>1, <1>3 DEF Follows
<1>5. PICK k \in Nat : k = Len(line')
  BY <1>1
<1>6. /\ \A e \in 1..(Len(file) - read) : file[read + e] = Newline => Len(line') <= e
      /\ file[read + 1] \notin {Remark, NUL} => line'[1] = file[read + 1]
  BY <1>10, NextLine
<1>7. LeftOver(o)' \/ (Len(executed) < Len(events) /\ OnTheWay(o, events[Len(executed) + 1])')
  <2>1. CASE read = o[d]
    <3>1. d < Len(events)
      <4>1. d = Len(events) => read = Len(file)
        BY <1>4, <2>1 DEF Offsets
      <4>2. Len(events) \in Nat
        BY DEF Commands
      <4>3. QED
        BY <1>2, <1>4, <4>1, <4>2
    <3>2. PICK words : words = events[d + 1]
      OBVIOUS
    <3>3. /\ Complete(words) /\ Len(words) \in Nat /\ Len(words) > 0 /\ Word(words[1])
          /\ o[d] \in Nat /\ o[d + 1] = o[d] + 2 * Len(words) /\ o[d + 1] <= Len(file)
          /\ Spells(file, o[d], words)
      <4>1. Lies(o, d, words, file)
        BY <1>4, <3>1, <3>2, LineFacts
      <4>2. 1 \in 1..Len(words)
        BY <4>1 DEF Lies
      <4>3. QED
        BY <4>1, <4>2 DEF Lies
    <3>4. PICK n \in Nat : n = Len(words) /\ n > 0
      BY <3>3
    <3>5. file[read + (2 * n - 1)] = words[n] /\ file[read + 2 * n] = Newline /\ file[read + 1] = words[1]
      <4>1. 1 \in 1..n /\ n \in 1..n /\ read + 2 * 1 - 1 = read + 1 /\ read + 2 * n - 1 = read + (2 * n - 1)
        BY <1>2, <3>4
      <4>2. QED
        BY <2>1, <3>3, <3>4, <4>1 DEF Spells
    <3>6. words[1] \notin {Remark, NUL}
      BY <3>3, Names DEF Complete, Word
    <3>7. line'[1] = words[1]
      BY <1>6, <3>5, <3>6
    <3>8. k <= 2 * n
      <4>1. 2 * n \in 1..(Len(file) - read)
        BY <1>2, <2>1, <3>3, <3>4
      <4>2. QED
        BY <1>5, <1>6, <3>5, <4>1
    <3>9. read' - Len(line') = o[Len(executed')] /\ Len(line') > 0
      BY <1>1, <1>2, <1>3, <1>5, <2>1
    <3>10. OnTheWay(o, words)'
      BY <1>1, <1>5, <3>4, <3>7, <3>8, <3>9 DEF OnTheWay
    <3>11. QED
      <4>1. OnTheWay(o, events[d + 1])'
        BY <3>2, <3>10
      <4>2. QED
        BY <1>1, <1>3, <3>1, <4>1
  <2>2. CASE d > 0 /\ read = o[d] - 1
    <3>1. PICK c \in Nat : c + 1 = d
      <4>1. d - 1 \in Nat /\ (d - 1) + 1 = d
        BY <2>2
      <4>2. QED
        BY <4>1
    <3>2. PICK words : words = events[c + 1]
      OBVIOUS
    <3>3. c < Len(events)
      <4>1. Len(events) \in Nat
        BY DEF Commands
      <4>2. QED
        BY <1>4, <3>1, <4>1
    <3>4. /\ Len(words) \in Nat /\ Len(words) > 0
          /\ o[c] \in Nat /\ o[d] = o[c] + 2 * Len(words) /\ Spells(file, o[c], words)
      <4>1. Lies(o, c, words, file)
        BY <1>4, <3>2, <3>3, LineFacts
      <4>2. QED
        BY <3>1, <4>1 DEF Lies
    <3>5. file[read + 1] = Newline
      <4>1. file[o[c] + 2 * Len(words)] = Newline
        BY <3>4 DEF Spells
      <4>2. read + 1 = o[c] + 2 * Len(words)
        BY <2>2, <3>4
      <4>3. QED
        BY <4>1, <4>2
    <3>6. k = 1
      <4>1. 1 \in 1..(Len(file) - read)
        BY <1>2
      <4>2. QED
        BY <1>1, <1>5, <1>6, <3>5, <4>1
    <3>7. line'[1] \in {Newline, NUL}
      BY <1>1, <1>5, <3>5, <3>6
    <3>8. ~Word(line'[1])
      BY <3>7, Names
    <3>9. read' = o[d]
      BY <1>1, <1>2, <1>5, <2>2, <3>4, <3>6
    <3>10. LeftOver(o)'
      BY <1>1, <1>3, <1>5, <3>6, <3>8, <3>9 DEF LeftOver
    <3>11. QED
      BY <3>10
  <2>3. QED
    BY <1>3, <1>4, <2>1, <2>2 DEF Between
<1>8. stage' # "line" /\ stage' # "done"
  BY <1>1
<1>9. QED
  BY <1>1, <1>7, <1>8, FollowsOn

\* The end of the script is behind the last command.
LEMMA FollowsEnd ==
  ASSUME ReaderInv, Commands(events), events' = events, NEW o, Follows(o), EndOfFile
  PROVE  Follows(o)'
<1>1. /\ stage = "line" /\ stage' = "done" /\ read = Len(file)
      /\ file' = file /\ executed' = executed
  BY DEF EndOfFile
<1>2. executed \in Seq(Seq(Cells)) /\ read \in Nat
  BY <1>1 DEF ReaderInv, ReaderTypes, ExecutedType
<1> HIDE DEF Cells
<1>3. PICK d \in Nat : d = Len(executed)
  BY <1>2
<1>4. d <= Len(events) /\ Between(o) /\ file = Text(events) /\ Offsets(o, events)
  BY <1>1, <1>3 DEF Follows
<1>5. ~(d < Len(events))
  <2> SUFFICES ASSUME d < Len(events) PROVE FALSE
    OBVIOUS
  <2>1. PICK words : words = events[d + 1]
    OBVIOUS
  <2>2. /\ Len(words) \in Nat /\ Len(words) > 0
        /\ o[d] \in Nat /\ o[d + 1] = o[d] + 2 * Len(words) /\ o[d + 1] <= Len(file)
    <3>1. Lies(o, d, words, file)
      BY <1>4, <2>1, LineFacts
    <3>2. QED
      BY <3>1 DEF Lies
  <2>3. read = o[d] \/ read = o[d] - 1
    BY <1>3, <1>4 DEF Between
  <2>4. QED
    BY <1>1, <1>2, <2>2, <2>3
<1>6. d = Len(events)
  <2>1. Len(events) \in Nat
    BY DEF Commands
  <2>2. QED
    BY <1>4, <1>5, <2>1
<1>7. ~InLine' /\ stage' # "line"
  BY <1>1 DEF InLine
<1>8. QED
  BY <1>1, <1>3, <1>6, <1>7 DEF Follows

\* A comment is none of the request's: where one is, there will be too few arguments.
LEMMA FollowsComment ==
  ASSUME ReaderInv, Commands(events), events' = events, NEW o, Follows(o), parseComment
  PROVE  Follows(o)'
<1>1. /\ stage \in {"command", "argument"} /\ stage' \in {stage, "failed"}
      /\ Further(line', save') /\ fresh' = FALSE /\ save' > Place
      /\ UNCHANGED <<file, read, cmd, args, more, executed>>
  BY CommentStep
<1>2. PICK t : t = Token
  OBVIOUS
<1>3. t.found /\ t.text[1] = Opening /\ save' > t.at /\ save' \in Int
  BY <1>2, CommentTakes
<1>4. ~LeftOver(o)
  BY <1>2, <1>3, NoToken DEF LeftOver
<1>5. InLine
  BY <1>1 DEF InLine
<1>6. PICK words : words = events[Len(executed) + 1]
  OBVIOUS
<1>7. Len(executed) < Len(events) /\ OnTheWay(o, words)
  BY <1>4, <1>5, <1>6 DEF Follows
<1>8. executed \in Seq(Seq(Cells)) /\ Len(line) \in Nat /\ args \in Seq(Cells)
  BY <1>1 DEF ReaderInv, ReaderTypes, ExecutedType
<1>9. Complete(words) /\ Len(words) \in Nat /\ Word(words[1])
  <2> HIDE DEF Cells
  <2>1. Len(executed) \in Nat
    BY <1>8
  <2>2. Offsets(o, events) /\ file = Text(events)
    BY DEF Follows
  <2>3. PICK d \in Nat : d = Len(executed)
    BY <2>1
  <2>4. Lies(o, d, words, file)
    BY <1>6, <1>7, <2>2, <2>3, LineFacts
  <2>5. 1 \in 1..Len(words)
    BY <2>4 DEF Lies
  <2>6. QED
    BY <2>4, <2>5 DEF Lies
<1>10. stage = "argument"
  <2>1. stage = "command" => t.text[1] = words[1]
    BY <1>2, <1>7, <1>9, FirstToken DEF OnTheWay
  <2>2. words[1] # Opening
    BY <1>9, Names DEF Complete
  <2>3. QED
    BY <1>1, <1>3, <2>1, <2>2
<1>11. PICK q \in 1..Len(words) : t.at = 2 * q - 1
  BY <1>1, <1>2, <1>3, <1>6, <1>7, WordToken
<1>12. save <= t.at /\ save \in Int
  <2>1. Place = save /\ Place \in 1..(Len(line) + 1)
    BY <1>5, <1>10 DEF Place, ReaderInv, LineInv
  <2>2. t.at \in Place..(Len(line) + 1)
    BY <1>1, <1>2, TokenHere
  <2> HIDE DEF Place
  <2>3. QED
    BY <1>8, <2>1, <2>2
<1>13. Lost(words)'
  <2>1. PICK a \in Nat : a = Len(args)
    <3> HIDE DEF Cells
    <3>1. QED
      BY <1>8
  <2>2. 2 * a + 2 <= save \/ 2 * (a + 2) <= save
    BY <1>7, <1>10, <2>1 DEF OnTheWay, Kept, Lost
  <2>3. a + 2 <= Len(words) /\ 2 * (a + 2) <= save'
    BY <1>3, <1>9, <1>11, <1>12, <2>2
  <2>4. QED
    BY <1>1, <2>1, <2>3 DEF Lost
<1>14. OnTheWay(o, words)'
  <2>1. Len(line') = Len(line)
    BY <1>1 DEF Further
  <2>2. read - Len(line) = o[Len(executed)] /\ Len(line) <= 2 * Len(words) /\ cmd[1] = words[1]
    BY <1>7, <1>10 DEF OnTheWay
  <2>3. stage' # "command"
    BY <1>1, <1>10
  <2>4. QED
    BY <1>1, <1>13, <2>1, <2>2, <2>3 DEF OnTheWay
<1>15. stage' # "done" /\ stage' # "line"
  BY <1>1
<1>16. QED
  BY <1>1, <1>6, <1>7, <1>14, <1>15, FollowsOn

\* Where orng is on the line of a command of the request.
LEMMA HereOnTheWay ==
  ASSUME ReaderInv, Commands(events), NEW o, Follows(o), InLine, ~LeftOver(o),
         NEW words, words = events[Len(executed) + 1]
  PROVE  /\ Len(executed) < Len(events) /\ OnTheWay(o, words)
         /\ Lies(o, Len(executed), words, file) /\ Word(words[1])
         /\ Len(executed) \in Nat /\ Len(line) \in Nat /\ Len(args) \in Nat
<1>1. Len(executed) < Len(events) /\ OnTheWay(o, words) /\ Offsets(o, events) /\ file = Text(events)
  BY DEF Follows
<1>2. executed \in Seq(Seq(Cells)) /\ line \in Seq(Cells) /\ args \in Seq(Cells)
  BY DEF InLine, ReaderInv, ReaderTypes, ExecutedType
<1> HIDE DEF Cells
<1>3. Len(executed) \in Nat /\ Len(line) \in Nat /\ Len(args) \in Nat
  BY <1>2
<1>4. PICK d \in Nat : d = Len(executed)
  BY <1>3
<1>5. Lies(o, d, words, file)
  BY <1>1, <1>4, LineFacts
<1>6. 1 \in 1..Len(words)
  BY <1>5 DEF Lies
<1>7. Word(words[1])
  BY <1>5, <1>6 DEF Lies
<1>8. QED
  BY <1>1, <1>3, <1>4, <1>5, <1>7

\* The name of the next command, or the end of a line that was left over.
LEMMA FollowsCommand ==
  ASSUME ReaderInv, Commands(events), events' = events, NEW o, Follows(o), ParseCommand
  PROVE  Follows(o)'
<1>1. PICK t : t = Token
  OBVIOUS
<1>2. /\ stage = "command" /\ cmd' = t.text /\ args' = << >>
      /\ more' = FALSE /\ Further(line', save') /\ fresh' = FALSE
      /\ t.found => stage' = "argument" /\ save' > Place
      /\ ~t.found => stage' = "line"
      /\ save' = t.save /\ UNCHANGED <<file, read, executed>>
  BY <1>1, CommandStep
<1>3. InLine /\ stage' # "done"
  BY <1>2 DEF InLine
<1>4. CASE LeftOver(o)
  <2>1. stage' = "line"
    BY <1>1, <1>2, <1>4, NoToken DEF LeftOver
  <2>2. Between(o)'
    BY <1>2, <1>4 DEF LeftOver, Between
  <2>3. ~InLine'
    BY <2>1 DEF InLine
  <2>4. QED
    BY <1>2, <1>3, <2>1, <2>2, <2>3, FollowsOn
<1>5. CASE ~LeftOver(o)
  <2>1. PICK words : words = events[Len(executed) + 1]
    OBVIOUS
  <2>2. /\ Len(executed) < Len(events) /\ OnTheWay(o, words) /\ Word(words[1])
        /\ Len(words) \in Nat /\ Len(words) > 0
    BY <1>3, <1>5, <2>1, HereOnTheWay DEF Lies
  <2>3. t.found /\ cmd'[1] = words[1]
    BY <1>1, <1>2, <2>2, FirstToken DEF OnTheWay
  <2>4. stage' = "argument" /\ Len(line') = Len(line)
    BY <1>2, <2>3 DEF Further
  <2>5. Kept(words)'
    <3>1. Place = 1
      BY <1>2, <2>2 DEF Place, OnTheWay
    <3>2. save' \in Int
      <4>1. save' \in Place..(Len(line) + 1) /\ Len(line) \in Nat
        BY <1>2, TokenHere, <1>1 DEF Further
      <4>2. QED
        BY <3>1, <4>1
    <3>3. Len(args') = 0 /\ save' >= 2
      BY <1>2, <2>3, <3>1, <3>2
    <3>4. QED
      BY <2>2, <2>4, <3>2, <3>3 DEF Kept
  <2>6. OnTheWay(o, words)'
    <3>1. read - Len(line) = o[Len(executed)] /\ Len(line) <= 2 * Len(words)
      BY <2>2 DEF OnTheWay
    <3>2. QED
      BY <1>2, <2>3, <2>4, <2>5, <3>1 DEF OnTheWay
  <2>7. QED
    BY <1>2, <1>3, <2>1, <2>2, <2>4, <2>6, FollowsOn
<1>6. QED
  BY <1>4, <1>5

\* What a word of a script is to atoi depends on its first cell.
LEMMA NumberOfWord ==
  ASSUME NEW text, NEW w, text[1] = w PROVE atoi(text) = atoi(<<w>>)
BY DEF atoi

\* One argument more is still right, or one word was passed over.
LEMMA MoreKept ==
  ASSUME NEW a, a \in Seq(Cells), NEW words, Len(words) \in Nat,
         NEW q \in 1..Len(words), q = Len(a) + 2,
         \A i \in 1..Len(a) : a[i] = atoi(<<words[i + 1]>>), NEW b, NEW v,
         v = atoi(<<words[q]>>), b = Append(a, v)
  PROVE  \A i \in 1..Len(b) : b[i] = atoi(<<words[i + 1]>>)
<1> HIDE DEF Cells
<1>1. PICK n \in Nat : n = Len(a)
  OBVIOUS
<1>2. Len(b) = n + 1 /\ b[n + 1] = v /\ \A i \in 1..n : b[i] = a[i]
  BY <1>1
<1>3. TAKE i \in 1..Len(b)
<1>4. i \in 1..(n + 1)
  BY <1>2
<1>5. CASE i = n + 1
  <2>1. i + 1 = q
    BY <1>1, <1>5
  <2>2. QED
    BY <1>2, <1>5, <2>1
<1>6. CASE i # n + 1
  <2>1. i \in 1..n
    BY <1>4, <1>6
  <2>2. QED
    BY <1>1, <1>2, <2>1
<1>7. QED
  BY <1>5, <1>6

\* An argument, a ';' among the arguments, or the end of the line.
LEMMA FollowsArgument ==
  ASSUME ReaderInv, Commands(events), events' = events, NEW o, Follows(o), ParseArgument
  PROVE  Follows(o)'
<1>1. PICK t : t = Token
  OBVIOUS
<1>2. /\ stage = "argument" /\ more' \in BOOLEAN /\ Further(line', save') /\ fresh' = FALSE
      /\ ~t.found => stage' = "execute" /\ ~more' /\ save' >= Place
      /\ t.found \in BOOLEAN
      /\ stage' \in {"argument", "execute", "aborted"}
      /\ \/ args' = args
         \/ args' = Append(args, atoi(t.text)) /\ t.found /\ stage' = "argument"
      /\ stage' = "argument" => args' = Append(args, atoi(t.text))
      /\ line' = t.line /\ save' = t.save
      /\ UNCHANGED <<file, read, cmd, executed>>
  BY <1>1, ArgumentStep
<1>3. InLine /\ stage' # "done" /\ stage' # "line" /\ ~LeftOver(o)
  BY <1>2 DEF InLine, LeftOver
<1>4. PICK words : words = events[Len(executed) + 1]
  OBVIOUS
<1>5. /\ Len(executed) < Len(events) /\ OnTheWay(o, words)
      /\ Len(words) \in Nat /\ Len(line) \in Nat /\ Len(args) \in Nat
  BY <1>3, <1>4, HereOnTheWay DEF Lies
<1>6. args \in Seq(Cells)
  BY DEF ReaderInv, ReaderTypes
<1>7. /\ read - Len(line) = o[Len(executed)] /\ Len(line) <= 2 * Len(words)
      /\ cmd[1] = words[1] /\ (Kept(words) \/ Lost(words))
  BY <1>2, <1>5 DEF OnTheWay
<1>8. /\ save \in Int /\ save' \in Int
      /\ t.found => save <= t.at /\ t.at < save'
      /\ ~t.found => save <= save'
  <2>1. Place = save /\ Place \in 1..(Len(line) + 1)
    BY <1>2, <1>3 DEF Place, ReaderInv, LineInv
  <2>2. /\ t.at \in Place..(Len(line) + 1) /\ t.save \in t.at..(Len(line) + 1)
        /\ t.found => t.at < t.save
    BY <1>1, <1>2, TokenHere
  <2> HIDE DEF Place
  <2>3. QED
    BY <1>2, <1>5, <2>1, <2>2
<1> HIDE DEF Cells
<1>9. PICK a \in Nat : a = Len(args)
  BY <1>5
<1>10. stage' = "aborted" \/ Kept(words)' \/ Lost(words)'
  <2>1. CASE ~t.found
    <3>1. stage' = "execute" /\ ~more' /\ args' = args /\ save <= save'
      BY <1>2, <1>8, <2>1
    <3>2. CASE Kept(words)
      <4>1. a < Len(words) /\ 2 * a + 2 <= save /\ \A i \in 1..a : args[i] = atoi(<<words[i + 1]>>)
        BY <1>9, <3>2 DEF Kept
      <4>2. 2 * a + 2 <= save'
        BY <1>8, <3>1, <4>1
      <4>3. QED
        BY <1>9, <3>1, <4>1, <4>2 DEF Kept
    <3>3. CASE Lost(words)
      <4>1. a + 2 <= Len(words) /\ 2 * (a + 2) <= save
        BY <1>9, <3>3 DEF Lost
      <4>2. 2 * (a + 2) <= save'
        BY <1>8, <3>1, <4>1
      <4>3. QED
        BY <1>9, <3>1, <4>1, <4>2 DEF Lost
    <3>4. QED
      BY <1>7, <3>2, <3>3
  <2>2. CASE t.found
    <3>1. PICK q \in 1..Len(words) : t.at = 2 * q - 1 /\ t.text[1] = words[q]
      BY <1>1, <1>2, <1>4, <1>5, <2>2, WordToken
    <3>2. save <= 2 * q - 1 /\ 2 * q <= save'
      BY <1>8, <2>2, <3>1
    <3>3. CASE stage' = "execute"
      <4>1. args' = args
        BY <1>2, <3>3
      <4>2. CASE Kept(words)
        <5>1. a < Len(words) /\ 2 * a + 2 <= save /\ \A i \in 1..a : args[i] = atoi(<<words[i + 1]>>)
          BY <1>9, <4>2 DEF Kept
        <5>2. 2 * a + 2 <= save' /\ a # Len(words) - 1
          BY <1>5, <1>8, <3>2, <5>1
        <5>3. QED
          BY <1>9, <4>1, <5>1, <5>2 DEF Kept
      <4>3. CASE Lost(words)
        <5>1. a + 2 <= Len(words) /\ 2 * (a + 2) <= save
          BY <1>9, <4>3 DEF Lost
        <5>2. 2 * (a + 2) <= save'
          BY <1>8, <3>2, <5>1
        <5>3. QED
          BY <1>9, <4>1, <5>1, <5>2 DEF Lost
      <4>4. QED
        BY <1>7, <4>2, <4>3
    <3>4. CASE stage' = "argument"
      <4>1. args' = Append(args, atoi(t.text)) /\ atoi(t.text) = atoi(<<words[q]>>)
        BY <1>2, <3>1, <3>4, NumberOfWord
      <4>2. Len(args') = a + 1
        BY <1>6, <1>9, <4>1
      <4>3. CASE q = a + 2
        <5>1. CASE Kept(words)
          <6>1. \A i \in 1..Len(args) : args[i] = atoi(<<words[i + 1]>>)
            BY <5>1 DEF Kept
          <6>2. \A i \in 1..Len(args') : args'[i] = atoi(<<words[i + 1]>>)
            <7>1. q = Len(args) + 2
              BY <1>9, <4>3
            <7>2. PICK v : v = atoi(<<words[q]>>)
              OBVIOUS
            <7>3. args' = Append(args, v)
              BY <4>1, <7>2
            <7> HIDE DEF Cells
            <7>4. QED
              BY <1>5, <1>6, <6>1, <7>1, <7>2, <7>3, MoreKept
          <6>3. a + 1 < Len(words) /\ 2 * (a + 1) + 2 <= save'
            BY <1>5, <1>8, <3>2, <4>3
          <6>4. QED
            BY <3>4, <4>2, <6>2, <6>3 DEF Kept
        <5>2. CASE Lost(words)
          <6>1. 2 * (a + 2) <= save
            BY <1>9, <5>2 DEF Lost
          <6>2. QED
            BY <1>8, <3>2, <4>3, <6>1
        <5>3. QED
          BY <1>7, <5>1, <5>2
      <4>4. CASE q # a + 2
        <5>1. 2 * a + 2 <= save
          <6>1. 2 * a + 2 <= save \/ 2 * (a + 2) <= save
            BY <1>7, <1>9 DEF Kept, Lost
          <6>2. QED
            BY <1>8, <6>1
        <5>2. (a + 1) + 2 <= Len(words) /\ 2 * ((a + 1) + 2) <= save'
          BY <1>5, <1>8, <3>2, <4>4, <5>1
        <5>3. QED
          BY <4>2, <5>2 DEF Lost
      <4>5. QED
        BY <4>3, <4>4
    <3>5. QED
      BY <1>2, <3>3, <3>4
  <2>3. QED
    BY <1>2, <2>1, <2>2
<1>11. CASE stage' = "aborted"
  <2>1. ~InLine'
    BY <1>11 DEF InLine
  <2>2. QED
    BY <1>2, <1>3, <2>1, FollowsOn
<1>12. CASE stage' # "aborted"
  <2>1. Len(line') = Len(line) /\ stage' # "command"
    BY <1>2 DEF Further
  <2>2. OnTheWay(o, words)'
    BY <1>2, <1>7, <1>10, <1>12, <2>1 DEF OnTheWay
  <2>3. QED
    BY <1>2, <1>3, <1>4, <1>5, <2>2, FollowsOn
<1>13. QED
  BY <1>11, <1>12

\* A command with the arguments of the request is what the request means.
LEMMA MeantWords ==
  ASSUME NEW words, Len(words) \in Nat, Len(words) > 0, NEW a, a \in Seq(Cells),
         Len(a) = Len(words) - 1, \A i \in 1..Len(a) : a[i] = atoi(<<words[i + 1]>>)
  PROVE  <<words[1]>> \o a = Meant(words)
<1> HIDE DEF Cells
<1>1. a = [i \in 1..Len(a) |-> a[i]]
  OBVIOUS
<1>2. a = [i \in 1..(Len(words) - 1) |-> atoi(<<words[i + 1]>>)]
  BY <1>1
<1>3. QED
  BY <1>2 DEF Meant

\* One command more is executed as it is meant.
LEMMA OneMoreMeant ==
  ASSUME executed \in Seq(Seq(Cells)), NEW c, c \in Seq(Cells), executed' = Append(executed, c),
         \A i \in 1..Len(executed) : executed[i] = Meant(events[i]), events' = events,
         c = Meant(events[Len(executed) + 1])
  PROVE  /\ Len(executed') = Len(executed) + 1
         /\ \A i \in 1..Len(executed') : executed'[i] = Meant(events'[i])
<1> DEFINE V == Seq(Cells)
           n == Len(executed)
<1>1. executed \in Seq(V) /\ c \in V
  OBVIOUS
<1> HIDE DEF V
<1>2. /\ n \in Nat /\ Len(executed') = n + 1 /\ executed'[n + 1] = c
      /\ \A i \in 1..n : executed'[i] = executed[i]
  BY <1>1
<1> HIDE DEF n
<1>3. \A i \in 1..(n + 1) : i = n + 1 \/ i \in 1..n
  BY <1>2
<1>4. \A i \in 1..(n + 1) : executed'[i] = Meant(events[i])
  BY <1>2, <1>3 DEF n
<1>5. QED
  BY <1>2, <1>4 DEF n

\* A command is executed if it has all its arguments, and it has them only as the request
\* gives them.
LEMMA FollowsExecute ==
  ASSUME ReaderInv, Commands(events), events' = events, NEW o, Follows(o), Execute
  PROVE  Follows(o)'
<1>1. /\ stage = "execute" /\ stage' \in {"line", "command", "failed", "aborted"}
      /\ \/ executed' = executed
         \/ /\ executed' = Append(executed, cmd \o args)
            /\ \E name \in DOMAIN Arity : cmd = <<name>> /\ Len(args) = Arity[name]
            /\ stage' = IF more THEN "command" ELSE "line"
      /\ stage' \in {"line", "command"} => executed' = Append(executed, cmd \o args)
      /\ UNCHANGED <<file, read, line, save, fresh, cmd, args, more>>
  BY ExecuteStep
<1>2. InLine /\ ~LeftOver(o) /\ stage' # "done"
  BY <1>1 DEF InLine, LeftOver
<1>3. PICK words : words = events[Len(executed) + 1]
  OBVIOUS
<1>4. /\ Len(executed) < Len(events) /\ OnTheWay(o, words) /\ Lies(o, Len(executed), words, file)
      /\ Len(executed) \in Nat /\ Len(line) \in Nat /\ Len(args) \in Nat
  BY <1>2, <1>3, HereOnTheWay
<1>5. /\ executed \in Seq(Seq(Cells)) /\ args \in Seq(Cells) /\ cmd \in Seq(Cells)
  BY <1>1 DEF ReaderInv, ReaderTypes, ExecutedType
<1>6. CASE executed' = executed
  <2>1. cmd \o args \in Seq(Cells)
    BY <1>5
  <2>2. executed' # Append(executed, cmd \o args)
    <3> DEFINE V == Seq(Cells)
    <3>1. executed \in Seq(V) /\ cmd \o args \in V
      BY <1>5, <2>1
    <3> HIDE DEF V
    <3>2. Len(Append(executed, cmd \o args)) = Len(executed) + 1
      BY <3>1
    <3>3. QED
      BY <1>4, <1>6, <3>2
  <2>3. ~InLine' /\ stage' # "line"
    BY <1>1, <2>2 DEF InLine
  <2>4. QED
    BY <1>1, <1>2, <1>6, <2>3, FollowsOn
<1>7. CASE /\ executed' = Append(executed, cmd \o args)
           /\ \E name \in DOMAIN Arity : cmd = <<name>> /\ Len(args) = Arity[name]
           /\ stage' = IF more THEN "command" ELSE "line"
  <2>1. PICK name \in DOMAIN Arity : cmd = <<name>> /\ Len(args) = Arity[name]
    BY <1>7
  <2>2. /\ Complete(words) /\ Len(words) \in Nat /\ Len(words) > 0
        /\ read - Len(line) = o[Len(executed)] /\ Len(line) <= 2 * Len(words)
        /\ cmd[1] = words[1] /\ (Kept(words) \/ Lost(words))
    BY <1>1, <1>4 DEF Lies, OnTheWay
  <2>3. name = words[1] /\ cmd = <<words[1]>>
    BY <2>1, <2>2
  <2>4. PICK n \in Nat : n = Len(words)
    BY <2>2
  <2>5. Len(args) = n - 1
    <3>1. n = Arity[words[1]] + 1
      BY <2>2, <2>4 DEF Complete
    <3>2. \A m \in DOMAIN Arity : Arity[m] \in Int
      BY DEF Arity
    <3>3. QED
      BY <2>1, <2>3, <3>1, <3>2
  <2>6. Kept(words)
    <3>1. ~Lost(words)
      BY <2>4, <2>5 DEF Lost
    <3>2. QED
      BY <2>2, <3>1
  <2>7. /\ 2 * n <= save /\ \A i \in 1..Len(args) : args[i] = atoi(<<words[i + 1]>>)
        /\ ~more
    BY <1>1, <2>4, <2>5, <2>6 DEF Kept
  <2>8. cmd \o args = Meant(words)
    BY <1>5, <2>2, <2>3, <2>4, <2>5, <2>7, MeantWords
  <2>9. \A i \in 1..Len(executed) : executed[i] = Meant(events[i])
    BY DEF Follows
  <2>10. cmd \o args \in Seq(Cells)
    BY <1>5
  <2>11. PICK c : c = cmd \o args
    OBVIOUS
  <2>12. /\ Len(executed') = Len(executed) + 1
         /\ \A i \in 1..Len(executed') : executed'[i] = Meant(events'[i])
    BY <1>3, <1>5, <1>7, <2>8, <2>9, <2>10, <2>11, OneMoreMeant
  <2>13. Between(o)'
    <3>1. PICK d \in Nat : d = Len(executed)
      BY <1>4
    <3>2. o[d] \in Nat /\ o[d + 1] = o[d] + 2 * n
      BY <1>4, <2>4, <3>1 DEF Lies
    <3>3. save \in 1..(Len(line) + 1)
      <4>1. Place = save
        BY <1>1 DEF Place, ReaderInv, LineInv
      <4>2. QED
        BY <1>2, <4>1 DEF ReaderInv, LineInv
    <3>4. read \in Int
      BY DEF ReaderInv, ReaderTypes
    <3>5. PICK l \in Nat : l = Len(line)
      BY <1>4
    <3>6. l = 2 * n \/ l = 2 * n - 1
      BY <2>2, <2>4, <2>7, <3>3, <3>5
    <3>7. read - l = o[d]
      BY <2>2, <3>1, <3>5
    <3>8. read = o[d + 1] \/ read = o[d + 1] - 1
      BY <3>2, <3>4, <3>6, <3>7
    <3>9. d + 1 > 0 /\ Len(executed') = d + 1
      BY <2>12, <3>1
    <3>10. QED
      BY <1>1, <3>8, <3>9 DEF Between
  <2>14. stage' = "line" /\ ~InLine'
    BY <1>7, <2>7 DEF InLine
  <2>15. Len(executed') <= Len(events)
    <3>1. Len(events) \in Nat
      BY DEF Commands
    <3>2. QED
      BY <1>4, <2>12, <3>1
  <2>16. Offsets(o, events') /\ file' = Text(events')
    BY <1>1 DEF Follows
  <2>17. QED
    BY <1>2, <2>12, <2>13, <2>14, <2>15, <2>16 DEF Follows
<1>8. QED
  BY <1>1, <1>6, <1>7

\* Whatever orng does with a request, it follows it.
LEMMA FollowsMain ==
  ASSUME ReaderInv, Commands(events), Fitting(events), events' = events, NEW o, Follows(o), main
  PROVE  Follows(o)'
BY FollowsRead, FollowsEnd, FollowsComment, FollowsCommand, FollowsArgument, FollowsExecute DEF main

\* orng goes on or ends; its process is still there.
LEMMA MainStages ==
  ASSUME ReaderInv, main
  PROVE  stage' \in {"line", "command", "argument", "execute", "done", "failed", "aborted"}
<1>1. CASE ReadLine \/ EndOfFile
  BY <1>1 DEF ReadLine, EndOfFile
<1>2. CASE parseComment
  BY <1>2, CommentStep
<1>3. CASE ParseCommand
  <2>1. PICK t : t = Token
    OBVIOUS
  <2>2. QED
    BY <1>3, <2>1, CommandStep
<1>4. CASE ParseArgument
  <2>1. PICK t : t = Token
    OBVIOUS
  <2>2. QED
    BY <1>4, <2>1, ArgumentStep
<1>5. CASE Execute
  BY <1>5, ExecuteStep
<1>6. QED
  BY <1>1, <1>2, <1>3, <1>4, <1>5 DEF main

\* It begins with the first line.
LEMMA FollowsStart ==
  ASSUME Commands(events), events' = events, NEW opens, Start(Text(events), opens)
  PROVE  \E o : Follows(o)'
<1>1. PICK o : Offsets(o, events)
  BY OffsetsExist DEF Commands
<1>2. /\ file' = Text(events) /\ read' = 0 /\ executed' = << >> /\ stage' \in {"line", "failed"}
  BY DEF Start
<1>3. ~InLine' /\ stage' # "done"
  BY <1>2 DEF InLine
<1>4. Len(executed') = 0 /\ \A i \in 1..Len(executed') : FALSE
  BY <1>2
<1>5. Between(o)'
  BY <1>1, <1>2, <1>4 DEF Between, Offsets
<1>6. Len(events) \in Nat
  BY DEF Commands
<1>7. Follows(o)'
  BY <1>1, <1>2, <1>3, <1>4, <1>5, <1>6 DEF Follows
<1>8. QED
  BY <1>7

\* A controller that waits, waits for its own request.
AskedInv ==
  controller = "wait" =>
    stage # "off" /\ author.who = "controller" /\ (Fitting(events) => \E o : Follows(o))

\* When orng has come to its end, it has executed the whole request.
LEMMA FollowedToTheEnd ==
  ASSUME ReaderInv, Commands(events), NEW o, Follows(o), stage = "done"
  PROVE  executed = Wanted(events)
<1>1. executed \in Seq(Seq(Cells)) /\ Len(events) \in Nat
  BY DEF ReaderInv, ExecutedType, Commands
<1>2. Len(executed) = Len(events) /\ \A i \in 1..Len(executed) : executed[i] = Meant(events[i])
  BY DEF Follows
<1> HIDE DEF Cells
<1>3. executed = [i \in 1..Len(executed) |-> executed[i]]
  <2> DEFINE V == Seq(Cells)
  <2>1. executed \in Seq(V)
    BY <1>1
  <2> HIDE DEF V
  <2>2. QED
    BY <2>1
<1>4. QED
  BY <1>2, <1>3 DEF Wanted

\* When the controller goes on after a run, orng has executed the script of the request from
\* its first to its last command, whatever words it was given, if its lines fit the buffer and
\* unless su never came to run it (execute_script, main, su).
THEOREM PlaysAllAsAsked == Spec => []PlayedAsAsked
<1>1. Init => AskedInv /\ PlayedAsAsked
  BY DEF Init, AskedInv, PlayedAsAsked
<1>2. SessionInv /\ AskedInv /\ PlayedAsAsked /\ [Next]_vars => (AskedInv /\ PlayedAsAsked)'
  <2> SUFFICES ASSUME SessionInv, AskedInv, PlayedAsAsked, [Next]_vars
               PROVE  (AskedInv /\ PlayedAsAsked)'
    OBVIOUS
  <2>1. /\ ReaderInv /\ Commands(events)
        /\ controller \in {"push", "run", "remove", "dead"} => stage = "off"
    BY DEF SessionInv, ControllerInv
  <2>2. CASE orng
    <3>1. main /\ stage # "off" /\ UNCHANGED <<controller, events, idle, author>>
      BY <2>1, <2>2, MainStage DEF orng, ctlVars
    <3>2. controller # "remove"
      BY <2>1, <3>1
    <3>3. ASSUME controller = "wait"
          PROVE  stage' # "off" /\ (Fitting(events) => \E o : Follows(o)')
      <4>2. ASSUME Fitting(events) PROVE \E o : Follows(o)'
        <5>1. PICK o : Follows(o)
          BY <3>3, <4>2 DEF AskedInv
        <5>2. Follows(o)'
          BY <2>1, <3>1, <4>2, <5>1, FollowsMain
        <5>3. QED
          BY <5>2
      <4>3. stage' # "off"
        <5>1. stage' \in {"line", "command", "argument", "execute", "done", "failed", "aborted"}
          BY <2>1, <3>1, MainStages
        <5>2. QED
          BY <5>1
      <4>4. QED
        BY <4>2, <4>3
    <3>4. QED
      BY <3>1, <3>2, <3>3 DEF AskedInv, PlayedAsAsked, Fitting
  <2>3. CASE shellCheckOutput
    <3>1. /\ events' = events /\ controller' \in {"wait", "remove", "dead"}
          /\ controller' = "remove" => idle' = TRUE
          /\ controller' = "wait" => /\ author' = [who |-> "controller", wants |-> events]
                                     /\ \E opens : Start(Text(events), opens)
      BY Zenon, <2>3 DEF shellCheckOutput, Raise
    <3>2. ASSUME controller' = "wait" PROVE stage' # "off" /\ \E o : Follows(o)'
      <4>1. PICK opens : Start(Text(events), opens)
        BY <3>1, <3>2
      <4>2. stage' \in {"line", "failed"}
        BY <4>1 DEF Start
      <4>3. \E o : Follows(o)'
        BY <2>1, <3>1, <4>1, FollowsStart
      <4>4. QED
        BY <4>2, <4>3
    <3>3. QED
      BY <3>1, <3>2 DEF AskedInv, PlayedAsAsked
  <2>4. CASE Checked
    <3>1. PICK outcome \in Ended :
            /\ controller = "wait" /\ stage = outcome /\ UNCHANGED <<executed, events>>
            /\ controller' = IF outcome = "done" THEN "remove" ELSE "dead"
      BY <2>4 DEF Checked, Reap, Raise
    <3>2. CASE outcome = "done"
      <4>1. ASSUME Fitting(events) PROVE executed = Wanted(events)
        <5>1. PICK o : Follows(o)
          BY <3>1, <4>1 DEF AskedInv
        <5>2. QED
          BY <2>1, <3>1, <3>2, <5>1, FollowedToTheEnd
      <4>2. QED
        BY <3>1, <3>2, <4>1 DEF AskedInv, PlayedAsAsked, Fitting
    <3>3. CASE outcome # "done"
      BY <3>1, <3>3 DEF AskedInv, PlayedAsAsked
    <3>4. QED
      BY <3>2, <3>3
  <2>5. CASE removeFile \/ Restart \/ pushFile \/ Request \/ Quit
    <3>1. controller' \in {"reading", "dead", "run", "push", "ended"}
      BY <2>5 DEF removeFile, Restart, pushFile, Request, Quit, Raise, Step
    <3>2. QED
      BY <3>1 DEF AskedInv, PlayedAsAsked
  <2>6. CASE ByHand
    BY <2>6 DEF ByHand, AskedInv, PlayedAsAsked
  <2>7. CASE Finished
    <3>1. author.who # "controller" /\ stage # "off" /\ controller' = controller
      BY <2>7 DEF Finished, Reap, ctlVars, Ended
    <3>2. controller # "wait" /\ controller # "remove"
      BY <2>1, <3>1 DEF AskedInv
    <3>3. QED
      BY <3>1, <3>2 DEF AskedInv, PlayedAsAsked
  <2>8. CASE UNCHANGED vars
    <3>1. UNCHANGED <<controller, events, idle, author, file, read, line, save, fresh, cmd, args,
                      more, stage, executed>>
      BY <2>8 DEF vars, ctlVars, scriptVars
    <3>2. ASSUME NEW o, Follows(o) PROVE Follows(o)'
      BY <3>1, <3>2 DEF Follows, Between, LeftOver, OnTheWay, Kept, Lost, InLine
    <3>3. QED
      BY <3>1, <3>2 DEF AskedInv, PlayedAsAsked, Fitting
  <2>9. Over => UNCHANGED vars
    BY DEF Over
  <2>10. QED
    BY <2>2, <2>3, <2>4, <2>5, <2>6, <2>7, <2>8, <2>9 DEF Next, execute_script
<1>3. QED
  BY <1>1, <1>2, SessionInductive, PTL DEF Spec

=============================================================================
