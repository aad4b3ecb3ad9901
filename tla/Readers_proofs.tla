----------------------------- MODULE Readers_proofs -----------------------------
(***************************************************************************)
(* What the readers of texts promise, for texts of any length: the smart   *)
(* scan divides a document into its sections and labels what it finds, a   *)
(* questionnaire is split into questions that are all answered, the        *)
(* ingestion of Bird Eye keeps every line of a file, and a migration maps  *)
(* a document to the fields and sections it has, read as a source and as a *)
(* template. Each reader goes over its text once; the invariant of each    *)
(* proof is what has been read of a prefix, and the step from one prefix   *)
(* to the next is that of the code's loop.                                 *)
(***************************************************************************)
EXTENDS SmartScan, DocumentText, Questionnaires, TemplateMapping, FiniteSetsExt,
        SequencesExt, WellFoundedInduction, NaturalsInduction, FiniteSetTheorems, TLAPS

-----------------------------------------------------------------------------
(***************************************************************************)
(* How a fold reads its sequence. The folds of the community modules are   *)
(* defined by a recursion over the set of the places; here they become the *)
(* result for the empty prefix and the step from one prefix to the next.   *)
(***************************************************************************)
\* A set of numbers has a least one.
LEMMA SetsHaveLeast ==
  ASSUME NEW S, S \subseteq Nat, S # {}
  PROVE  \E k \in S : \A j \in S : k <= j
<1>1. \E k \in S : \A j \in S : ~(<<j, k>> \in OpToRel(<, Nat))
  BY NatLessThanWellFounded, WFMin
<1>2. PICK k \in S : \A j \in S : ~(<<j, k>> \in OpToRel(<, Nat))
  BY <1>1
<1>3. ASSUME NEW j \in S PROVE k <= j
  <2>1. <<j, k>> \in Nat \X Nat
    OBVIOUS
  <2>2. ~(j < k)
    BY <1>2, <2>1 DEF OpToRel
  <2>3. QED
    BY <2>2
<1>4. QED
  BY <1>3

\* What holds of 0, and of a number when of the one before, holds up to N.
LEMMA UpTo ==
  ASSUME NEW N \in Nat, NEW S, 0 \in S, \A n \in 1..N : n - 1 \in S => n \in S
  PROVE  0..N \subseteq S
<1> DEFINE Missing == (0..N) \ S
<1>1. SUFFICES ASSUME Missing # {} PROVE FALSE
  OBVIOUS
<1>2. PICK m \in Missing : \A k \in Missing : m <= k
  <2>1. Missing \subseteq Nat
    OBVIOUS
  <2> HIDE DEF Missing
  <2>2. QED
    BY <1>1, <2>1, SetsHaveLeast
<1>3. m \in 1..N
  BY <1>2
<1>4. m - 1 \notin Missing /\ m - 1 \in 0..N
  BY <1>2, <1>3
<1>5. QED
  BY <1>2, <1>3, <1>4

\* Max is the member that none exceeds.
LEMMA GreatestIs ==
  ASSUME NEW S, S \subseteq Int, NEW m \in S, \A y \in S : y <= m
  PROVE  Max(S) = m
<1>1. \A y \in S : m >= y
  OBVIOUS
<1>2. \A x \in S : (\A y \in S : x >= y) => x = m
  BY <1>1
<1>3. QED
  BY <1>1, <1>2 DEF Max

\* A finite set of numbers has a greatest one.
LEMMA GreatestExists ==
  ASSUME NEW n \in Nat, NEW s \in SUBSET (1..n), s # {}
  PROVE  Max(s) \in s /\ \A k \in s : k <= Max(s)
<1> DEFINE Above == {m \in 0..n : \A k \in s : k <= m}
<1>1. Above \subseteq Nat /\ n \in Above
  OBVIOUS
<1>2. PICK m \in Above : \A j \in Above : m <= j
  <2> HIDE DEF Above
  <2>1. QED
    BY <1>1, SetsHaveLeast
<1>3. m \in s
  <2>1. ASSUME m \notin s PROVE FALSE
    <3>1. \A k \in s : k < m
      BY <1>2, <2>1
    <3>2. m > 0
      <4>1. PICK k \in s : TRUE
        OBVIOUS
      <4>2. k \in 1..n /\ k < m /\ m \in Nat
        BY <1>2, <3>1
      <4>3. QED
        BY <4>2
    <3>3. m - 1 \in Above
      BY <1>2, <3>1, <3>2
    <3>4. QED
      BY <1>2, <3>2, <3>3
  <2>2. QED
    BY <2>1
<1>4. s \subseteq Int /\ \A k \in s : k <= m
  BY <1>2
<1>5. Max(s) = m
  BY <1>3, <1>4, GreatestIs
<1>6. QED
  BY <1>3, <1>4, <1>5

\* Of the first n numbers the greatest is n, and without it they are the first
\* n - 1.
LEMMA MaxOfPrefix ==
  ASSUME NEW n \in Nat \ {0}
  PROVE  Max(1..n) = n /\ (1..n) \ {n} = 1..(n - 1) /\ 1..n # {}
<1>1. n \in 1..n /\ 1..n \subseteq Int /\ \A y \in 1..n : y <= n
  OBVIOUS
<1>2. Max(1..n) = n
  BY <1>1, GreatestIs
<1>3. QED
  BY <1>1, <1>2

\* A function on the sets of places that folds over them from the greatest
\* place.
IsFold(g, R, base, N, F) ==
  /\ g \in [SUBSET (1..N) -> R]
  /\ \A s \in SUBSET (1..N) :
       g[s] = IF s = {} THEN base ELSE F[<<g[s \ {Max(s)}], Max(s)>>]

\* The same, as a function of the length of the prefix read.
IsPrefixFold(h, R, base, N, F) ==
  /\ h \in [0..N -> R] /\ h[0] = base
  /\ \A n \in 1..N : h[n] = F[<<h[n - 1], n>>]

\* The recursion over sets that the folds are defined by has a solution.
LEMMA FoldExists ==
  ASSUME NEW R, NEW base \in R, NEW N \in Nat, NEW F \in [R \X (1..N) -> R]
  PROVE  \E g : IsFold(g, R, base, N, F)
<1> DEFINE Solves(n, g) == \A s \in SUBSET (1..n) :
                           g[s] = IF s = {} THEN base ELSE F[<<g[s \ {Max(s)}], Max(s)>>]
           S == {n \in 0..N : \E g \in [SUBSET (1..n) -> R] : Solves(n, g)}
<1>1. 0 \in S
  <2>1. SUBSET (1..0) = {{}}
    OBVIOUS
  <2> DEFINE e == [s \in SUBSET (1..0) |-> base]
  <2>2. e \in [SUBSET (1..0) -> R]
    OBVIOUS
  <2>3. \A s \in SUBSET (1..0) : s = {} /\ e[s] = base
    BY <2>1
  <2>4. Solves(0, e)
    BY <2>3
  <2> HIDE DEF e, Solves
  <2>5. 0 \in 0..N
    OBVIOUS
  <2>6. QED
    BY <2>2, <2>4, <2>5
<1>2. ASSUME NEW n \in 1..N, n - 1 \in S PROVE n \in S
  <2>1. PICK g \in [SUBSET (1..(n-1)) -> R] : Solves(n-1, g)
    BY <1>2
  <2> DEFINE h == [s \in SUBSET (1..n) |-> IF n \in s THEN F[<<g[s \ {n}], n>>] ELSE g[s]]
  <2>2. ASSUME NEW s \in SUBSET (1..n)
        PROVE /\ n \notin s => s \in SUBSET (1..(n-1))
              /\ s \ {n} \in SUBSET (1..(n-1))
    OBVIOUS
  <2>3. \A s \in SUBSET (1..n) : n \in s => Max(s) = n
    <3>1. ASSUME NEW s \in SUBSET (1..n), n \in s PROVE Max(s) = n
      <4>1. s \subseteq Int /\ \A y \in s : y <= n
        OBVIOUS
      <4>2. QED
        BY <3>1, <4>1, GreatestIs
    <3>2. QED
      BY <3>1
  <2>4. h \in [SUBSET (1..n) -> R]
    BY <2>2
  <2>5. ASSUME NEW s \in SUBSET (1..n)
        PROVE h[s] = IF s = {} THEN base ELSE F[<<h[s \ {Max(s)}], Max(s)>>]
    <3>1. CASE n \in s
      <4>1. h[s \ {n}] = g[s \ {n}]
        BY <2>2
      <4> QED
        BY <3>1, <4>1, <2>3
    <3>2. CASE n \notin s
      <4>1. /\ s \in SUBSET (1..(n-1)) /\ s \ {Max(s)} \in SUBSET (1..(n-1))
            /\ s \ {Max(s)} \in SUBSET (1..n)
            /\ n \notin s \ {Max(s)}
        BY <3>2, <2>2
      <4> HIDE DEF h
      <4>2. h[s] = g[s] /\ h[s \ {Max(s)}] = g[s \ {Max(s)}]
        BY <3>2, <4>1 DEF h
      <4>3. g[s] = IF s = {} THEN base ELSE F[<<g[s \ {Max(s)}], Max(s)>>]
        BY <4>1, <2>1
      <4> QED
        BY <4>2, <4>3
    <3> QED
      BY <3>1, <3>2
  <2>6. Solves(n, h)
    BY <2>5
  <2> HIDE DEF h, Solves
  <2>7. QED
    BY <2>4, <2>6
<1>3. N \in S
  <2> HIDE DEF S
  <2>1. 0..N \subseteq S
    BY <1>1, <1>2, UpTo
  <2> QED
    BY <2>1
<1>4. PICK g \in [SUBSET (1..N) -> R] : Solves(N, g)
  BY <1>3
<1>5. IsFold(g, R, base, N, F)
  BY <1>4 DEF IsFold
<1>6. QED
  BY <1>5

\* What the iteration of the community modules computes on a prefix.
Iterates(it, R, base, N, F) ==
  /\ it[{}] = base
  /\ \A n \in 1..N : it[1..(n - 1)] \in R => it[1..n] = F[<<it[1..(n - 1)], n>>]

\* The prefixes of a fold can be read off one function.
FoldsTo(it, R, base, N, F) == \E h : IsPrefixFold(h, R, base, N, F) /\ h[N] = it[1..N]

\* A solution, looked at on the prefixes only, is the step by step result.
LEMMA PrefixesFold ==
  ASSUME NEW R, NEW base \in R, NEW N \in Nat, NEW F \in [R \X (1..N) -> R],
         NEW it, Iterates(it, R, base, N, F)
  PROVE  FoldsTo(it, R, base, N, F)
<1> DEFINE S == {n \in 0..N : it[1..n] \in R}
<1>1. 1..0 = {}
  OBVIOUS
<1>2. 0 \in S
  BY <1>1 DEF Iterates
<1>3. ASSUME NEW n \in 1..N, n - 1 \in S PROVE n \in S
  <2>1. <<it[1..(n - 1)], n>> \in R \X (1..N)
    BY <1>3
  <2>2. it[1..n] \in R
    BY <1>3, <2>1 DEF Iterates
  <2>3. QED
    BY <2>2
<1>4. 0..N \subseteq S
  <2> HIDE DEF S
  <2>1. QED
    BY <1>2, <1>3, UpTo
<1>5. \A n \in 0..N : it[1..n] \in R
  BY <1>4
<1> DEFINE h == [n \in 0..N |-> it[1..n]]
<1>6. h \in [0..N -> R] /\ h[0] = base /\ h[N] = it[1..N]
  BY <1>1, <1>5 DEF Iterates
<1>7. \A n \in 1..N : h[n] = F[<<h[n - 1], n>>]
  BY <1>5 DEF Iterates
<1>8. IsPrefixFold(h, R, base, N, F) /\ h[N] = it[1..N]
  <2> HIDE DEF h
  <2>1. QED
    BY <1>6, <1>7 DEF IsPrefixFold
<1>9. QED
  BY <1>8 DEF FoldsTo

-----------------------------------------------------------------------------
(***************************************************************************)
(* Lines that are divided into parts (Listings).                           *)
(***************************************************************************)
\* Lists of lines, by their numbers.
Texts == Seq(Seq(Nat))

\* What a sequence of members of S has in its places.
LEMMA SequencesHold ==
  ASSUME NEW S, NEW seq \in Seq(S)
  PROVE  /\ Len(seq) \in Nat /\ DOMAIN seq = 1..Len(seq)
         /\ \A k \in 1..Len(seq) : seq[k] \in S
OBVIOUS

\* A sequence with one more.
LEMMA SequencesGrow ==
  ASSUME NEW S, NEW seq \in Seq(S), NEW x \in S
  PROVE  /\ Append(seq, x) \in Seq(S)
         /\ DOMAIN Append(seq, x) = 1..(Len(seq) + 1) /\ Len(Append(seq, x)) = Len(seq) + 1
         /\ \A k \in 1..Len(seq) : Append(seq, x)[k] = seq[k]
         /\ Append(seq, x)[Len(seq) + 1] = x
OBVIOUS

\* A sequence with another member in one place.
LEMMA SequencesChange ==
  ASSUME NEW S, NEW seq \in Seq(S), NEW k \in 1..Len(seq), NEW x \in S
  PROVE  /\ [seq EXCEPT ![k] = x] \in Seq(S)
         /\ Len([seq EXCEPT ![k] = x]) = Len(seq)
         /\ DOMAIN [seq EXCEPT ![k] = x] = 1..Len(seq)
         /\ \A j \in 1..Len(seq) : [seq EXCEPT ![k] = x][j] = IF j = k THEN x ELSE seq[j]
OBVIOUS

\* Lines in order, with one more that is after all of them.
LEMMA LinesGrow ==
  ASSUME NEW lines \in Seq(Nat), NEW n \in Nat, Increasing(lines),
         \A x \in ToSet(lines) : x < n
  PROVE  /\ Append(lines, n) \in Seq(Nat) /\ Increasing(Append(lines, n))
         /\ ToSet(Append(lines, n)) = ToSet(lines) \cup {n}
<1> DEFINE more == Append(lines, n)
           N == Len(lines)
<1>1. /\ more \in Seq(Nat) /\ DOMAIN more = 1..(N + 1)
      /\ \A k \in 1..N : more[k] = lines[k]
      /\ more[N + 1] = n /\ N \in Nat /\ DOMAIN lines = 1..N
      /\ \A k \in 1..N : lines[k] \in Nat
  OBVIOUS
<1> HIDE DEF more, N
<1>2. ToSet(more) = ToSet(lines) \cup {n}
  BY <1>1 DEF ToSet
<1>3. ASSUME NEW i \in DOMAIN more, NEW j \in DOMAIN more, i < j PROVE more[i] < more[j]
  <2>1. i \in 1..N
    BY <1>1, <1>3
  <2>2. CASE j = N + 1
    <3>1. lines[i] \in ToSet(lines)
      BY <1>1, <2>1 DEF ToSet
    <3>2. QED
      BY <1>1, <2>1, <2>2, <3>1
  <2>3. CASE j # N + 1
    <3>1. j \in 1..N
      BY <1>1, <2>3
    <3>2. QED
      BY <1>1, <1>3, <2>1, <3>1 DEF Increasing
  <2>4. QED
    BY <2>2, <2>3
<1>4. QED
  BY <1>1, <1>2, <1>3 DEF more, Increasing

\* Lines in order, and other lines after them.
LEMMA LinesJoin ==
  ASSUME NEW lines \in Seq(Nat), NEW rest \in Seq(Nat), Increasing(lines), Increasing(rest),
         \A x \in ToSet(lines), y \in ToSet(rest) : x < y
  PROVE  /\ lines \o rest \in Seq(Nat) /\ Increasing(lines \o rest)
         /\ ToSet(lines \o rest) = ToSet(lines) \cup ToSet(rest)
<1> DEFINE more == lines \o rest
           N == Len(lines)
           M == Len(rest)
<1>1. /\ more \in Seq(Nat) /\ DOMAIN more = 1..(N + M)
      /\ \A k \in 1..N : more[k] = lines[k]
      /\ \A k \in (N + 1)..(N + M) : more[k] = rest[k - N]
      /\ N \in Nat /\ DOMAIN lines = 1..N /\ M \in Nat /\ DOMAIN rest = 1..M
      /\ \A k \in 1..N : lines[k] \in Nat
      /\ \A k \in 1..M : rest[k] \in Nat
  OBVIOUS
<1> HIDE DEF more, N, M
<1>2. ToSet(more) = ToSet(lines) \cup ToSet(rest)
  <2>1. \A k \in 1..M : k + N \in DOMAIN more /\ more[k + N] = rest[k]
    BY <1>1
  <2>2. \A k \in DOMAIN more : k \in 1..N \/ (k - N \in 1..M /\ more[k] = rest[k - N])
    BY <1>1
  <2>3. \A k \in 1..N : k \in DOMAIN more
    BY <1>1
  <2>4. ToSet(more) \subseteq ToSet(lines) \cup ToSet(rest)
    BY <1>1, <2>2 DEF ToSet
  <2>5. ToSet(lines) \subseteq ToSet(more)
    BY <1>1, <2>3 DEF ToSet
  <2>6. ToSet(rest) \subseteq ToSet(more)
    <3>1. ASSUME NEW y \in ToSet(rest) PROVE y \in ToSet(more)
      <4>1. PICK k \in 1..M : y = rest[k]
        BY <1>1 DEF ToSet
      <4>2. k + N \in DOMAIN more /\ more[k + N] = y
        BY <2>1, <4>1
      <4>3. QED
        BY <4>2 DEF ToSet
    <3>2. QED
      BY <3>1
  <2>7. QED
    BY <2>4, <2>5, <2>6
<1>3. ASSUME NEW i \in 1..(N + M), NEW j \in 1..(N + M), i < j PROVE more[i] < more[j]
  <2>1. CASE j \in 1..N
    <3>1. i \in 1..N
      BY <1>1, <1>3, <2>1
    <3>2. QED
      BY <1>1, <1>3, <2>1, <3>1 DEF Increasing
  <2>2. CASE i \in 1..N /\ j \notin 1..N
    <3>1. j \in (N + 1)..(N + M) /\ j - N \in 1..M
      <4>1. N \in Nat /\ M \in Nat
        BY <1>1
      <4>2. QED
        BY <2>2, <4>1
    <3>2. lines[i] \in ToSet(lines) /\ rest[j - N] \in ToSet(rest)
      BY <1>1, <2>2, <3>1 DEF ToSet
    <3>3. QED
      BY <1>1, <2>2, <3>1, <3>2
  <2>3. CASE i \notin 1..N
    <3>1. /\ j \in (N + 1)..(N + M) /\ j - N \in 1..M
          /\ i \in (N + 1)..(N + M) /\ i - N \in 1..M /\ i - N < j - N
      <4>1. N \in Nat /\ M \in Nat
        BY <1>1
      <4>2. QED
        BY <1>3, <2>3, <4>1
    <3>2. QED
      BY <1>1, <3>1 DEF Increasing
  <2>4. QED
    BY <1>1, <2>1, <2>2, <2>3
<1>4. QED
  BY <1>1, <1>2, <1>3 DEF more, Increasing

\* No parts list no lines.
LEMMA NothingIsListed == ListsInOrder(<<>>, {})
<1>1. DOMAIN <<>> = {}
  OBVIOUS
<1>2. QED
  BY <1>1 DEF ListsInOrder

\* One more part, after all the others, lists its own lines too.
LEMMA PartIsListed ==
  ASSUME NEW parts \in Texts, NEW lines, ListsInOrder(parts, lines),
         NEW part \in Seq(Nat), Increasing(part),
         \A x \in lines, y \in ToSet(part) : x < y
  PROVE  ListsInOrder(Append(parts, part), lines \cup ToSet(part))
<1> DEFINE more == Append(parts, part)
           N == Len(parts)
<1>1. /\ more \in Texts /\ DOMAIN more = 1..(N + 1)
      /\ \A k \in 1..N : more[k] = parts[k]
      /\ more[N + 1] = part /\ N \in Nat /\ DOMAIN parts = 1..N
  BY SequencesGrow, SequencesHold DEF Texts
<1> HIDE DEF more, N
<1>2. UNION {ToSet(more[k]) : k \in DOMAIN more} = lines \cup ToSet(part)
  <2>1. UNION {ToSet(more[k]) : k \in DOMAIN more} \subseteq lines \cup ToSet(part)
    <3>1. ASSUME NEW k \in DOMAIN more PROVE ToSet(more[k]) \subseteq lines \cup ToSet(part)
      <4>1. CASE k = N + 1
        BY <1>1, <4>1
      <4>2. CASE k # N + 1
        <5>1. k \in DOMAIN parts /\ more[k] = parts[k]
          BY <1>1, <4>2
        <5>2. ToSet(parts[k]) \subseteq lines
          BY <5>1 DEF ListsInOrder
        <5>3. QED
          BY <5>1, <5>2
      <4>3. QED
        BY <4>1, <4>2
    <3>2. QED
      BY <3>1
  <2>2. lines \subseteq UNION {ToSet(more[k]) : k \in DOMAIN more}
    <3>1. \A k \in DOMAIN parts : k \in DOMAIN more /\ more[k] = parts[k]
      BY <1>1
    <3>2. QED
      BY <3>1 DEF ListsInOrder
  <2>3. ToSet(part) \subseteq UNION {ToSet(more[k]) : k \in DOMAIN more}
    <3>1. N + 1 \in DOMAIN more
      BY <1>1
    <3>2. QED
      BY <1>1, <3>1
  <2>4. QED
    BY <2>1, <2>2, <2>3
<1>3. \A k \in DOMAIN more : Increasing(more[k])
  <2>1. ASSUME NEW k \in DOMAIN more PROVE Increasing(more[k])
    <3>1. k = N + 1 \/ k \in DOMAIN parts
      BY <1>1
    <3>2. QED
      BY <1>1, <3>1 DEF ListsInOrder
  <2>2. QED
    BY <2>1
<1>4. ASSUME NEW k \in DOMAIN more, NEW m \in DOMAIN more, k < m,
             NEW x \in ToSet(more[k]), NEW y \in ToSet(more[m])
      PROVE  x < y
  <2>1. k \in DOMAIN parts /\ more[k] = parts[k]
    BY <1>1, <1>4
  <2>2. x \in lines
    BY <1>4, <2>1 DEF ListsInOrder
  <2>3. CASE m = N + 1
    BY <1>1, <1>4, <2>2, <2>3
  <2>4. CASE m # N + 1
    <3>1. m \in DOMAIN parts /\ more[m] = parts[m]
      BY <1>1, <2>4
    <3>2. QED
      BY <1>4, <2>1, <3>1 DEF ListsInOrder
  <2>5. QED
    BY <2>3, <2>4
<1>5. QED
  BY <1>2, <1>3, <1>4 DEF more, ListsInOrder

\* The last part is replaced by one that goes on with it.
LEMMA LastPartGrows ==
  ASSUME NEW parts \in Texts, parts # <<>>, NEW lines, ListsInOrder(parts, lines),
         NEW longer \in Seq(Nat), Increasing(longer), NEW added,
         ToSet(longer) = ToSet(parts[Len(parts)]) \cup added,
         \A x \in lines, y \in added : x < y
  PROVE  ListsInOrder([parts EXCEPT ![Len(parts)] = longer], lines \cup added)
<1> DEFINE more == [parts EXCEPT ![Len(parts)] = longer]
           N == Len(parts)
<1>0. Len(parts) \in 1..Len(parts)
  BY DEF Texts
<1>1. /\ more \in Texts /\ DOMAIN more = 1..N
      /\ \A k \in 1..N : more[k] = IF k = N THEN longer ELSE parts[k]
      /\ N \in 1..N /\ DOMAIN parts = 1..N /\ N \in Nat
  BY <1>0, SequencesChange, SequencesHold DEF Texts
<1> HIDE DEF more
<1> SUFFICES ListsInOrder(more, lines \cup added)
  BY DEF more
<1>2. ToSet(longer) = ToSet(parts[N]) \cup added
  OBVIOUS
<1> HIDE DEF N
<1>3. UNION {ToSet(more[k]) : k \in DOMAIN more} = lines \cup added
  <2>1. ASSUME NEW k \in DOMAIN more PROVE ToSet(more[k]) \subseteq lines \cup added
    <3>1. ToSet(parts[k]) \subseteq lines
      BY <1>1 DEF ListsInOrder
    <3>2. QED
      BY <1>1, <1>2, <3>1
  <2>2. ASSUME NEW k \in DOMAIN parts PROVE ToSet(parts[k]) \subseteq ToSet(more[k])
    BY <1>1, <1>2
  <2>3. added \subseteq ToSet(more[N])
    BY <1>1, <1>2
  <2>4. lines \subseteq UNION {ToSet(more[k]) : k \in DOMAIN more}
    BY <1>1, <2>2 DEF ListsInOrder
  <2>5. QED
    BY <1>1, <2>1, <2>3, <2>4
<1>4. \A k \in DOMAIN more : Increasing(more[k])
  <2>1. ASSUME NEW k \in DOMAIN more PROVE Increasing(more[k])
    BY <1>1 DEF ListsInOrder
  <2>2. QED
    BY <2>1
<1>5. ASSUME NEW k \in DOMAIN more, NEW m \in DOMAIN more, k < m,
             NEW x \in ToSet(more[k]), NEW y \in ToSet(more[m])
      PROVE  x < y
  <2>1. k # N /\ more[k] = parts[k] /\ k \in DOMAIN parts /\ m \in DOMAIN parts
    BY <1>1, <1>5
  <2>2. x \in lines
    BY <1>5, <2>1 DEF ListsInOrder
  <2>3. y \in ToSet(parts[m]) \/ y \in added
    BY <1>1, <1>2, <1>5
  <2>4. QED
    BY <1>5, <2>1, <2>2, <2>3 DEF ListsInOrder
<1>6. QED
  BY <1>3, <1>4, <1>5 DEF ListsInOrder

-----------------------------------------------------------------------------
(***************************************************************************)
(* The smart scan (SmartScan).                                             *)
(***************************************************************************)
\* What a pass over a file has: the part that is open, and the blocks of each
\* part.
Readings == [current : ScanKeys, parts : [ScanKeys -> Seq(Nat)]]
Scanned == scanned \in Seq(ScanBlocks)

\* What is read of a file stays a reading.
LEMMA BlocksAreRead ==
  ASSUME Scanned, NEW read \in Readings, NEW n \in 1..Len(scanned)
  PROVE  /\ ReadBlock(read, n) \in Readings
         /\ ScanParagraph(read, n) \in Readings
         /\ ScanTable(read, n) \in Readings
<1>1. scanned[n] \in ScanBlocks /\ scanned[n].key \in ScanKeys /\ n \in Nat
  BY DEF Scanned, ScanKeys
<1>2. ReadBlock(read, n) \in Readings
  <2>1. CASE Splits(n)
    BY <1>1, <2>1 DEF ReadBlock, Readings
  <2>2. CASE ~Splits(n)
    <3>1. Append(read.parts[read.current], n) \in Seq(Nat)
      BY <1>1 DEF Readings
    <3>2. QED
      BY <2>2, <3>1 DEF ReadBlock, Readings
  <2>3. QED
    BY <2>1, <2>2
<1>3. QED
  BY <1>2 DEF ScanParagraph, ScanTable

\* _parse_docx, first pass: the paragraphs are read one after the other.
LEMMA ParagraphsFolded ==
  ASSUME Scanned
  PROVE  \E h : /\ h[0] = NothingRead /\ ParagraphsRead = h[Len(scanned)]
                /\ \A n \in 0..Len(scanned) : h[n] \in Readings
                /\ \A n \in 1..Len(scanned) : h[n] = ScanParagraph(h[n - 1], n)
<1> DEFINE N == Len(scanned)
           places == [i \in DOMAIN scanned |-> i]
           Unfolds(g) == g = [s \in SUBSET (DOMAIN places) |->
                                IF s = {} THEN NothingRead
                                ELSE ScanParagraph(g[s \ {Max(s)}], places[Max(s)])]
           it == CHOOSE g : Unfolds(g)
           F == [x \in Readings \X (1..N) |-> ScanParagraph(x[1], x[2])]
<1>1. ParagraphsRead = it[DOMAIN places]
  BY Zenon DEF ParagraphsRead, FoldLeftDomain, FoldLeft, MapThenFoldSet
<1>2. N \in Nat /\ DOMAIN places = 1..N /\ \A n \in 1..N : places[n] = n
  BY DEF Scanned
<1>3. NothingRead \in Readings
  BY DEF NothingRead, Readings, ScanKeys
<1>4. F \in [Readings \X (1..N) -> Readings]
  BY BlocksAreRead
<1> HIDE DEF N, places, F
<1>5. PICK g : IsFold(g, Readings, NothingRead, N, F)
  BY <1>2, <1>3, <1>4, FoldExists
<1>6. Unfolds(g)
  <2>1. ASSUME NEW s \in SUBSET (1..N), s # {}
        PROVE  g[s] = ScanParagraph(g[s \ {Max(s)}], places[Max(s)])
    <3>1. Max(s) \in s
      BY <1>2, <2>1, GreatestExists
    <3>2. places[Max(s)] = Max(s) /\ <<g[s \ {Max(s)}], Max(s)>> \in Readings \X (1..N)
      BY <1>2, <1>5, <3>1 DEF IsFold
    <3>3. QED
      BY <1>5, <2>1, <3>2 DEF F, IsFold
  <2>2. QED
    BY <1>2, <1>5, <2>1 DEF IsFold
<1>7. Unfolds(it)
  <2> HIDE DEF Unfolds
  <2>1. QED
    BY <1>6
<1> HIDE DEF it
<1>8. it[{}] = NothingRead
  BY <1>7
<1>9. Iterates(it, Readings, NothingRead, N, F)
  <2>1. ASSUME NEW n \in 1..N, it[1..(n - 1)] \in Readings
        PROVE  it[1..n] = F[<<it[1..(n - 1)], n>>]
    <3>1. 1..n \in SUBSET (DOMAIN places) /\ n \in Nat \ {0}
      BY <1>2
    <3>2. Max(1..n) = n /\ (1..n) \ {n} = 1..(n - 1) /\ 1..n # {} /\ places[n] = n
      BY <1>2, <3>1, MaxOfPrefix
    <3>3. it[1..n] = ScanParagraph(it[(1..n) \ {Max(1..n)}], places[Max(1..n)])
      BY <1>7, <3>1, <3>2
    <3>4. <<it[1..(n - 1)], n>> \in Readings \X (1..N)
      BY <2>1
    <3>5. QED
      BY <3>2, <3>3, <3>4 DEF F
  <2>2. QED
    BY <1>8, <2>1 DEF Iterates
<1>10. PICK h : IsPrefixFold(h, Readings, NothingRead, N, F) /\ h[N] = it[1..N]
  <2>1. FoldsTo(it, Readings, NothingRead, N, F)
    BY <1>2, <1>3, <1>4, <1>9, PrefixesFold
  <2>2. QED
    BY <2>1 DEF FoldsTo
<1>11. ASSUME NEW n \in 1..N PROVE h[n] = ScanParagraph(h[n - 1], n)
  <2>1. n - 1 \in 0..N
    BY <1>2
  <2>2. <<h[n - 1], n>> \in Readings \X (1..N)
    BY <1>10, <2>1 DEF IsPrefixFold
  <2>3. QED
    BY <1>10, <2>2 DEF IsPrefixFold, F
<1>12. QED
  BY <1>1, <1>2, <1>10, <1>11 DEF N, IsPrefixFold

\* _parse_docx, second pass: then the tables.
LEMMA TablesFolded ==
  ASSUME Scanned, ParagraphsRead \in Readings
  PROVE  \E h : /\ h[0] = ParagraphsRead /\ ScanSections = h[Len(scanned)].parts
                /\ \A n \in 0..Len(scanned) : h[n] \in Readings
                /\ \A n \in 1..Len(scanned) : h[n] = ScanTable(h[n - 1], n)
<1> DEFINE N == Len(scanned)
           places == [i \in DOMAIN scanned |-> i]
           Unfolds(g) == g = [s \in SUBSET (DOMAIN places) |->
                                IF s = {} THEN ParagraphsRead
                                ELSE ScanTable(g[s \ {Max(s)}], places[Max(s)])]
           it == CHOOSE g : Unfolds(g)
           F == [x \in Readings \X (1..N) |-> ScanTable(x[1], x[2])]
<1>1. ScanSections = it[DOMAIN places].parts
  BY Zenon DEF ScanSections, FoldLeftDomain, FoldLeft, MapThenFoldSet
<1>2. N \in Nat /\ DOMAIN places = 1..N /\ \A n \in 1..N : places[n] = n
  BY DEF Scanned
<1>3. ParagraphsRead \in Readings
  OBVIOUS
<1>4. F \in [Readings \X (1..N) -> Readings]
  BY BlocksAreRead
<1> HIDE DEF N, places, F
<1>5. PICK g : IsFold(g, Readings, ParagraphsRead, N, F)
  BY <1>2, <1>3, <1>4, FoldExists
<1>6. Unfolds(g)
  <2>1. ASSUME NEW s \in SUBSET (1..N), s # {}
        PROVE  g[s] = ScanTable(g[s \ {Max(s)}], places[Max(s)])
    <3>1. Max(s) \in s
      BY <1>2, <2>1, GreatestExists
    <3>2. places[Max(s)] = Max(s) /\ <<g[s \ {Max(s)}], Max(s)>> \in Readings \X (1..N)
      BY <1>2, <1>5, <3>1 DEF IsFold
    <3>3. QED
      BY <1>5, <2>1, <3>2 DEF F, IsFold
  <2>2. QED
    BY <1>2, <1>5, <2>1 DEF IsFold
<1>7. Unfolds(it)
  <2> HIDE DEF Unfolds
  <2>1. QED
    BY <1>6
<1> HIDE DEF it
<1>8. it[{}] = ParagraphsRead
  BY <1>7
<1>9. Iterates(it, Readings, ParagraphsRead, N, F)
  <2>1. ASSUME NEW n \in 1..N, it[1..(n - 1)] \in Readings
        PROVE  it[1..n] = F[<<it[1..(n - 1)], n>>]
    <3>1. 1..n \in SUBSET (DOMAIN places) /\ n \in Nat \ {0}
      BY <1>2
    <3>2. Max(1..n) = n /\ (1..n) \ {n} = 1..(n - 1) /\ 1..n # {} /\ places[n] = n
      BY <1>2, <3>1, MaxOfPrefix
    <3>3. it[1..n] = ScanTable(it[(1..n) \ {Max(1..n)}], places[Max(1..n)])
      BY <1>7, <3>1, <3>2
    <3>4. <<it[1..(n - 1)], n>> \in Readings \X (1..N)
      BY <2>1
    <3>5. QED
      BY <3>2, <3>3, <3>4 DEF F
  <2>2. QED
    BY <1>8, <2>1 DEF Iterates
<1>10. PICK h : IsPrefixFold(h, Readings, ParagraphsRead, N, F) /\ h[N] = it[1..N]
  <2>1. FoldsTo(it, Readings, ParagraphsRead, N, F)
    BY <1>2, <1>3, <1>4, <1>9, PrefixesFold
  <2>2. QED
    BY <2>1 DEF FoldsTo
<1>11. ASSUME NEW n \in 1..N PROVE h[n] = ScanTable(h[n - 1], n)
  <2>1. n - 1 \in 0..N
    BY <1>2
  <2>2. <<h[n - 1], n>> \in Readings \X (1..N)
    BY <1>10, <2>1 DEF IsPrefixFold
  <2>3. QED
    BY <1>10, <2>2 DEF IsPrefixFold, F
<1>12. QED
  BY <1>1, <1>2, <1>10, <1>11 DEF N, IsPrefixFold

-----------------------------------------------------------------------------
\* A sequence without repetitions, with one more.
LEMMA Appended ==
  ASSUME NEW S, NEW seq \in Seq(S), NEW x \in S
  PROVE  /\ ToSet(Append(seq, x)) = ToSet(seq) \cup {x}
         /\ IsInjective(seq) /\ x \notin ToSet(seq) => IsInjective(Append(seq, x))
<1> DEFINE longer == Append(seq, x)
<1>1. /\ longer \in Seq(S) /\ Len(longer) = Len(seq) + 1 /\ Len(seq) \in Nat
      /\ \A i \in 1..Len(seq) : longer[i] = seq[i]
      /\ longer[Len(seq) + 1] = x
  OBVIOUS
<1>2. DOMAIN seq = 1..Len(seq) /\ DOMAIN longer = 1..(Len(seq) + 1)
  BY <1>1
<1> HIDE DEF longer
<1>3. ToSet(longer) = ToSet(seq) \cup {x}
  BY <1>1, <1>2 DEF ToSet
<1>4. ASSUME IsInjective(seq), x \notin ToSet(seq), NEW i \in DOMAIN longer,
             NEW j \in DOMAIN longer, longer[i] = longer[j]
      PROVE  i = j
  BY <1>1, <1>2, <1>4 DEF ToSet, IsInjective
<1>5. QED
  BY <1>3, <1>4 DEF longer, IsInjective

\* The last heading at or before a block is the block itself, or that of the
\* block before.
LEMMA LastHeadingOf ==
  ASSUME Scanned
  PROVE  /\ LastHeading(0) = Preamble
         /\ \A n \in 0..Len(scanned) : LastHeading(n) \in ScanKeys
         /\ \A n \in 1..Len(scanned) :
              LastHeading(n) = IF Splits(n) THEN scanned[n].key ELSE LastHeading(n - 1)
<1> DEFINE N == Len(scanned)
           HeadingsTo(n) == {m \in DOMAIN scanned : m <= n /\ Splits(m)}
<1>1. N \in Nat /\ DOMAIN scanned = 1..N /\ \A n \in 1..N : scanned[n] \in ScanBlocks
  BY DEF Scanned
<1>2. \A n \in Nat : HeadingsTo(n) \in SUBSET (1..n)
  BY <1>1
<1>3. \A n \in Nat : HeadingsTo(n) # {} => Max(HeadingsTo(n)) \in HeadingsTo(n)
  <2> HIDE DEF Before
  <2>1. QED
    BY <1>2, GreatestExists
<1>4. LastHeading(0) = Preamble
  BY <1>2 DEF LastHeading
<1>5. ASSUME NEW n \in 0..N PROVE LastHeading(n) \in ScanKeys
  <2>1. LastHeading(n) = IF HeadingsTo(n) = {} THEN Preamble ELSE scanned[Max(HeadingsTo(n))].key
    BY DEF LastHeading
  <2>2. HeadingsTo(n) # {} => Max(HeadingsTo(n)) \in 1..N
    BY <1>1, <1>3
  <2> HIDE DEF Before
  <2>3. QED
    BY <1>1, <2>1, <2>2 DEF ScanKeys
<1>6. ASSUME NEW n \in 1..N, Splits(n) PROVE LastHeading(n) = scanned[n].key
  <2>1. n \in HeadingsTo(n) /\ HeadingsTo(n) \subseteq Int /\ \A m \in HeadingsTo(n) : m <= n
    BY <1>1, <1>6
  <2> HIDE DEF Before
  <2>2. Max(HeadingsTo(n)) = n /\ HeadingsTo(n) # {}
    BY <2>1, GreatestIs
  <2>3. QED
    BY <2>2 DEF LastHeading, Before
<1>7. ASSUME NEW n \in 1..N, ~Splits(n) PROVE LastHeading(n) = LastHeading(n - 1)
  <2>1. HeadingsTo(n) = HeadingsTo(n - 1)
    BY <1>1, <1>7
  <2>2. QED
    BY <2>1 DEF LastHeading
<1>8. QED
  BY <1>4, <1>5, <1>6, <1>7

\* A block that is no heading is added to the part that is open, and to no
\* other.
LEMMA BlockIsAdded ==
  ASSUME Scanned, NEW read \in Readings, NEW n \in 1..Len(scanned), ~Splits(n),
         \A k \in ScanKeys : n \notin ToSet(read.parts[k]) /\ IsInjective(read.parts[k])
  PROVE  /\ ReadBlock(read, n).current = read.current
         /\ \A k \in ScanKeys :
              /\ IsInjective(ReadBlock(read, n).parts[k])
              /\ ToSet(ReadBlock(read, n).parts[k]) =
                   ToSet(read.parts[k]) \cup (IF k = read.current THEN {n} ELSE {})
<1>1. n \in Nat /\ read.current \in ScanKeys /\ read.parts \in [ScanKeys -> Seq(Nat)]
  BY DEF Readings, Scanned
<1>2. /\ ReadBlock(read, n).current = read.current
      /\ \A k \in ScanKeys :
           ReadBlock(read, n).parts[k] =
             IF k = read.current THEN Append(read.parts[k], n) ELSE read.parts[k]
  BY <1>1 DEF ReadBlock, Readings
<1>3. ASSUME NEW k \in ScanKeys
      PROVE /\ ToSet(Append(read.parts[k], n)) = ToSet(read.parts[k]) \cup {n}
            /\ IsInjective(Append(read.parts[k], n))
  <2>1. read.parts[k] \in Seq(Nat)
    BY <1>1
  <2>2. QED
    BY <1>1, <2>1, Appended
<1>4. QED
  BY <1>2, <1>3

\* The blocks of each part, after n blocks of the first and of the second pass.
ParagraphsUpTo(n, k) == {m \in 1..n : ~IsTable(m) /\ ~Splits(m) /\ LastHeading(m) = k}
TablesUpTo(n, k) == {m \in 1..n : IsTable(m) /\ LastHeading(Len(scanned)) = k}

\* After the paragraphs, each part has those under its heading, each once.
LEMMA ParagraphsAreWhole ==
  ASSUME Scanned
  PROVE  /\ ParagraphsRead \in Readings
         /\ ParagraphsRead.current = LastHeading(Len(scanned))
         /\ \A k \in ScanKeys : /\ ToSet(ParagraphsRead.parts[k]) = ParagraphsUpTo(Len(scanned), k)
                                /\ IsInjective(ParagraphsRead.parts[k])
<1>1. PICK h : /\ h[0] = NothingRead /\ ParagraphsRead = h[Len(scanned)]
               /\ \A n \in 0..Len(scanned) : h[n] \in Readings
               /\ \A n \in 1..Len(scanned) : h[n] = ScanParagraph(h[n - 1], n)
  BY ParagraphsFolded
<1> DEFINE N == Len(scanned)
           Whole(n) == /\ h[n].current = LastHeading(n)
                       /\ \A k \in ScanKeys : /\ ToSet(h[n].parts[k]) = ParagraphsUpTo(n, k)
                                              /\ IsInjective(h[n].parts[k])
           S == {n \in 0..N : Whole(n)}
<1>2. N \in Nat /\ DOMAIN scanned = 1..N
  BY DEF Scanned
<1>3. 0 \in S
  <2>1. \A k \in ScanKeys : /\ ToSet(h[0].parts[k]) = {} /\ IsInjective(h[0].parts[k])
                            /\ ParagraphsUpTo(0, k) = {}
    BY <1>1 DEF NothingRead, ToSet, IsInjective, ParagraphsUpTo
  <2>2. h[0].current = LastHeading(0)
    BY <1>1, LastHeadingOf DEF NothingRead
  <2>3. Whole(0)
    BY <2>1, <2>2
  <2>4. QED
    BY <1>2, <2>3
<1>4. ASSUME NEW n \in 1..N, n - 1 \in S PROVE n \in S
  <2>1. Whole(n - 1) /\ h[n - 1] \in Readings /\ h[n] = ScanParagraph(h[n - 1], n) /\ n - 1 \in 0..N
    BY <1>1, <1>2, <1>4
  <2>2. LastHeading(n) = IF Splits(n) THEN scanned[n].key ELSE LastHeading(n - 1)
    BY LastHeadingOf
  <2>3. CASE Splits(n)
    <3>1. ~IsTable(n)
      BY <2>3 DEF Splits, IsTable
    <3>2. h[n].current = scanned[n].key /\ h[n].parts = h[n - 1].parts
      BY <2>1, <2>3, <3>1 DEF ScanParagraph, ReadBlock, Readings
    <3>3. \A k \in ScanKeys : ParagraphsUpTo(n, k) = ParagraphsUpTo(n - 1, k)
      BY <1>2, <2>3 DEF ParagraphsUpTo
    <3>4. Whole(n)
      BY <2>1, <2>2, <2>3, <3>2, <3>3
    <3>5. QED
      BY <3>4
  <2>4. CASE ~Splits(n) /\ IsTable(n)
    <3>1. h[n] = h[n - 1]
      BY <2>1, <2>4 DEF ScanParagraph
    <3>2. \A k \in ScanKeys : ParagraphsUpTo(n, k) = ParagraphsUpTo(n - 1, k)
      BY <1>2, <2>4 DEF ParagraphsUpTo
    <3>3. Whole(n)
      BY <2>1, <2>2, <2>4, <3>1, <3>2
    <3>4. QED
      BY <3>3
  <2>5. CASE ~Splits(n) /\ ~IsTable(n)
    <3>1. \A k \in ScanKeys : n \notin ToSet(h[n - 1].parts[k]) /\ IsInjective(h[n - 1].parts[k])
      BY <1>2, <2>1 DEF ParagraphsUpTo
    <3>2. h[n] = ReadBlock(h[n - 1], n)
      BY <2>1, <2>5 DEF ScanParagraph
    <3>3. /\ h[n].current = h[n - 1].current
          /\ \A k \in ScanKeys :
               /\ IsInjective(h[n].parts[k])
               /\ ToSet(h[n].parts[k]) =
                    ToSet(h[n - 1].parts[k]) \cup (IF k = h[n - 1].current THEN {n} ELSE {})
      <4> DEFINE read == h[n - 1]
      <4>1. /\ read \in Readings /\ ~Splits(n) /\ h[n] = ReadBlock(read, n)
            /\ \A k \in ScanKeys : n \notin ToSet(read.parts[k]) /\ IsInjective(read.parts[k])
        BY <2>1, <2>5, <3>1, <3>2
      <4> HIDE DEF read
      <4>2. /\ ReadBlock(read, n).current = read.current
            /\ \A k \in ScanKeys :
                 /\ IsInjective(ReadBlock(read, n).parts[k])
                 /\ ToSet(ReadBlock(read, n).parts[k]) =
                      ToSet(read.parts[k]) \cup (IF k = read.current THEN {n} ELSE {})
        BY <4>1, BlockIsAdded
      <4>3. QED
        BY <4>1, <4>2 DEF read
    <3>4. \A k \in ScanKeys : ParagraphsUpTo(n, k) =
               ParagraphsUpTo(n - 1, k) \cup (IF k = LastHeading(n) THEN {n} ELSE {})
      BY <1>2, <2>5 DEF ParagraphsUpTo
    <3>5. Whole(n)
      BY <2>1, <2>2, <2>5, <3>3, <3>4
    <3>6. QED
      BY <3>5
  <2>6. QED
    BY <2>3, <2>4, <2>5
<1>5. N \in S
  <2> HIDE DEF S
  <2>1. 0..N \subseteq S
    BY <1>2, <1>3, <1>4, UpTo
  <2>2. QED
    BY <1>2, <2>1
<1>6. QED
  BY <1>1, <1>2, <1>5

\* The text of each section is all of its text, once (ingestion of
\* smart_scan.py).
LEMMA SectionsAreWhole ==
  ASSUME Scanned
  PROVE  TextIsWhole
<1>1. PICK h : /\ h[0] = ParagraphsRead /\ ScanSections = h[Len(scanned)].parts
               /\ \A n \in 0..Len(scanned) : h[n] \in Readings
               /\ \A n \in 1..Len(scanned) : h[n] = ScanTable(h[n - 1], n)
  BY ParagraphsAreWhole, TablesFolded
<1> DEFINE N == Len(scanned)
           Whole(n) == /\ h[n].current = LastHeading(N)
                       /\ \A k \in ScanKeys :
                            /\ ToSet(h[n].parts[k]) = ParagraphsUpTo(N, k) \cup TablesUpTo(n, k)
                            /\ IsInjective(h[n].parts[k])
           S == {n \in 0..N : Whole(n)}
<1>2. N \in Nat /\ DOMAIN scanned = 1..N
  BY DEF Scanned
<1>3. 0 \in S
  <2>1. \A k \in ScanKeys : TablesUpTo(0, k) = {}
    BY DEF TablesUpTo
  <2>2. Whole(0)
    BY <1>1, <2>1, ParagraphsAreWhole
  <2>3. QED
    BY <1>2, <2>2
<1>4. ASSUME NEW n \in 1..N, n - 1 \in S PROVE n \in S
  <2>1. Whole(n - 1) /\ h[n - 1] \in Readings /\ h[n] = ScanTable(h[n - 1], n) /\ n - 1 \in 0..N
    BY <1>1, <1>2, <1>4
  <2>2. CASE ~IsTable(n)
    <3>1. h[n] = h[n - 1]
      BY <2>1, <2>2 DEF ScanTable
    <3>2. \A k \in ScanKeys : TablesUpTo(n, k) = TablesUpTo(n - 1, k)
      BY <1>2, <2>2 DEF TablesUpTo
    <3>3. Whole(n)
      BY <2>1, <3>1, <3>2
    <3>4. QED
      BY <3>3
  <2>3. CASE IsTable(n)
    <3>1. \A k \in ScanKeys : n \notin ToSet(h[n - 1].parts[k]) /\ IsInjective(h[n - 1].parts[k])
      BY <1>2, <2>1, <2>3 DEF ParagraphsUpTo, TablesUpTo
    <3>2. h[n] = ReadBlock(h[n - 1], n) /\ ~Splits(n)
      BY <2>1, <2>3 DEF ScanTable, IsTable, Splits
    <3>3. /\ h[n].current = h[n - 1].current
          /\ \A k \in ScanKeys :
               /\ IsInjective(h[n].parts[k])
               /\ ToSet(h[n].parts[k]) =
                    ToSet(h[n - 1].parts[k]) \cup (IF k = h[n - 1].current THEN {n} ELSE {})
      <4> DEFINE read == h[n - 1]
      <4>1. /\ read \in Readings /\ ~Splits(n) /\ h[n] = ReadBlock(read, n)
            /\ \A k \in ScanKeys : n \notin ToSet(read.parts[k]) /\ IsInjective(read.parts[k])
        BY <2>1, <3>2, <3>1, <3>2
      <4> HIDE DEF read
      <4>2. /\ ReadBlock(read, n).current = read.current
            /\ \A k \in ScanKeys :
                 /\ IsInjective(ReadBlock(read, n).parts[k])
                 /\ ToSet(ReadBlock(read, n).parts[k]) =
                      ToSet(read.parts[k]) \cup (IF k = read.current THEN {n} ELSE {})
        BY <4>1, BlockIsAdded
      <4>3. QED
        BY <4>1, <4>2 DEF read
    <3>4. \A k \in ScanKeys : TablesUpTo(n, k) =
               TablesUpTo(n - 1, k) \cup (IF k = LastHeading(N) THEN {n} ELSE {})
      BY <1>2, <2>3 DEF TablesUpTo
    <3>5. Whole(n)
      BY <2>1, <3>3, <3>4
    <3>6. QED
      BY <3>5
  <2>4. QED
    BY <2>2, <2>3
<1>5. Whole(N)
  <2>1. N \in S
    <3> HIDE DEF S
    <3>1. 0..N \subseteq S
      BY <1>2, <1>3, <1>4, UpTo
    <3>2. QED
      BY <1>2, <3>1
  <2>2. QED
    BY <2>1
<1>6. ASSUME NEW k \in ScanKeys
      PROVE  /\ ToSet(ScanSections[k]) =
                  {n \in DOMAIN scanned :
                     /\ ~Splits(n)
                     /\ LastHeading(IF IsTable(n) THEN Len(scanned) ELSE n) = k}
             /\ IsInjective(ScanSections[k])
  <2>1. \A n \in 1..N : IsTable(n) => ~Splits(n)
    BY DEF IsTable, Splits
  <2>2. ParagraphsUpTo(N, k) \cup TablesUpTo(N, k) =
          {n \in 1..N : ~Splits(n) /\ LastHeading(IF IsTable(n) THEN N ELSE n) = k}
    BY <2>1 DEF ParagraphsUpTo, TablesUpTo
  <2>3. QED
    BY <1>1, <1>2, <1>5, <2>2
<1>7. QED
  BY <1>6 DEF TextIsWhole

-----------------------------------------------------------------------------
\* Points, and where they begin; the points e of the required sections, of weights w.
Sums == Nat
NoMarks == 0
HasThree(S) == \E a \in S, b \in S, c \in S : a # b /\ b # c /\ a # c
SumOf(e) == e[1] + e[2] + e[3] + e[4] + e[5] + e[6]
Weighted(w) ==
  w[1] = 10 /\ w[2] = 10 /\ w[3] = 15 /\ w[4] = 15 /\ w[5] = 10 /\ w[6] = 10
Within(e, w) == \A k \in 1..6 : e[k] <= 10 * w[k]
Full(e, w) == \A k \in 1..6 : e[k] = 10 * w[k]
Assessed == \A k \in 1..6 : replied[k] \in Treatments


\* The sections an assessment looks for, and their weights.
LEMMA SectionsRequired ==
  /\ Len(RequiredSections) = 6 /\ DOMAIN RequiredSections = 1..6
  /\ WeightOf(1) = 10 /\ WeightOf(2) = 10 /\ WeightOf(3) = 15
  /\ WeightOf(4) = 15 /\ WeightOf(5) = 10 /\ WeightOf(6) = 10
  /\ \A k \in 1..6 : WeightOf(k) \in Nat
<1>1. Len(RequiredSections) = 6 /\ DOMAIN RequiredSections = 1..6
  BY DEF RequiredSections
<1>2. /\ RequiredSections[1] = "purpose" /\ RequiredSections[2] = "scope"
      /\ RequiredSections[3] = "policy_statement" /\ RequiredSections[4] = "procedures"
      /\ RequiredSections[5] = "roles_responsibilities"
      /\ RequiredSections[6] = "revision_history"
  BY DEF RequiredSections
<1>3. QED
  BY <1>1, <1>2 DEF WeightOf

\* The points of a section tell its status.
LEMMA SectionsEarn ==
  ASSUME Assessed, NEW k \in 1..6
  PROVE  /\ StatusOf(k) \in {"complete", "partial", "missing"}
         /\ Earned(k) \in Nat
         /\ StatusOf(k) = "complete" => Earned(k) = 10 * WeightOf(k)
         /\ StatusOf(k) = "partial" => Earned(k) < 10 * WeightOf(k)
         /\ StatusOf(k) = "missing" => Earned(k) = 0
<1>1. replied[k] \in Treatments /\ WeightOf(k) \in {10, 15}
  BY DEF Assessed, WeightOf
<1>2. /\ replied[k].missing \in BOOLEAN /\ replied[k].partial \in BOOLEAN
      /\ replied[k].mapped \in {"no", "thin", "full"}
  BY <1>1, TreatmentsAssumption
<1>3. StatusOf(k) \in {"complete", "partial", "missing"}
  BY <1>2 DEF StatusOf
<1>4. CASE StatusOf(k) = "complete"
  BY <1>1, <1>4 DEF Earned
<1>5. CASE StatusOf(k) = "partial"
  BY <1>1, <1>5 DEF Earned
<1>6. CASE StatusOf(k) = "missing"
  BY <1>1, <1>6 DEF Earned
<1>7. QED
  BY <1>3, <1>4, <1>5, <1>6

\* Total is the sum of the weights, taken one after the other.
LEMMA WeightsFolded ==
  \E h : /\ h[0] = NoMarks /\ Total = h[Len(RequiredSections)]
         /\ \A n \in 0..Len(RequiredSections) : h[n] \in Sums
         /\ \A n \in 1..Len(RequiredSections) : h[n] = h[n - 1] + WeightOf(n)
<1> DEFINE N == Len(RequiredSections)
           places == [i \in DOMAIN RequiredSections |-> i]
           Unfolds(g) == g = [s \in SUBSET (DOMAIN places) |->
                                IF s = {} THEN NoMarks
                                ELSE g[s \ {Max(s)}] + WeightOf(places[Max(s)])]
           it == CHOOSE g : Unfolds(g)
           F == [x \in Sums \X (1..N) |-> x[1] + WeightOf(x[2])]
<1>1. Total = it[DOMAIN places]
  BY Zenon DEF Total, NoMarks, FoldLeftDomain, FoldLeft, MapThenFoldSet
<1>2. N \in Nat /\ DOMAIN places = 1..N /\ \A n \in 1..N : places[n] = n
  BY SectionsRequired
<1>3. NoMarks \in Sums
  BY DEF Sums, NoMarks
<1>4. F \in [Sums \X (1..N) -> Sums]
  BY SectionsRequired DEF Sums, NoMarks
<1> HIDE DEF N, places, F
<1>5. PICK g : IsFold(g, Sums, NoMarks, N, F)
  BY <1>2, <1>3, <1>4, FoldExists
<1>6. Unfolds(g)
  <2>1. ASSUME NEW s \in SUBSET (1..N), s # {}
        PROVE  g[s] = g[s \ {Max(s)}] + WeightOf(places[Max(s)])
    <3>1. Max(s) \in s
      BY <1>2, <2>1, GreatestExists
    <3>2. places[Max(s)] = Max(s) /\ <<g[s \ {Max(s)}], Max(s)>> \in Sums \X (1..N)
      BY <1>2, <1>5, <3>1 DEF IsFold
    <3>3. QED
      BY <1>5, <2>1, <3>2 DEF F, IsFold
  <2>2. QED
    BY <1>2, <1>5, <2>1 DEF IsFold
<1>7. Unfolds(it)
  <2> HIDE DEF Unfolds
  <2>1. QED
    BY <1>6
<1> HIDE DEF it
<1>8. it[{}] = NoMarks
  BY <1>7
<1>9. Iterates(it, Sums, NoMarks, N, F)
  <2>1. ASSUME NEW n \in 1..N, it[1..(n - 1)] \in Sums
        PROVE  it[1..n] = F[<<it[1..(n - 1)], n>>]
    <3>1. 1..n \in SUBSET (DOMAIN places) /\ n \in Nat \ {0}
      BY <1>2
    <3>2. Max(1..n) = n /\ (1..n) \ {n} = 1..(n - 1) /\ 1..n # {} /\ places[n] = n
      BY <1>2, <3>1, MaxOfPrefix
    <3>3. it[1..n] = it[(1..n) \ {Max(1..n)}] + WeightOf(places[Max(1..n)])
      BY <1>7, <3>1, <3>2
    <3>4. <<it[1..(n - 1)], n>> \in Sums \X (1..N)
      BY <2>1
    <3>5. QED
      BY <3>2, <3>3, <3>4 DEF F
  <2>2. QED
    BY <1>8, <2>1 DEF Iterates
<1>10. PICK h : IsPrefixFold(h, Sums, NoMarks, N, F) /\ h[N] = it[1..N]
  <2>1. FoldsTo(it, Sums, NoMarks, N, F)
    BY <1>2, <1>3, <1>4, <1>9, PrefixesFold
  <2>2. QED
    BY <2>1 DEF FoldsTo
<1>11. ASSUME NEW n \in 1..N PROVE h[n] = h[n - 1] + WeightOf(n)
  <2>1. n - 1 \in 0..N
    BY <1>2
  <2>2. <<h[n - 1], n>> \in Sums \X (1..N)
    BY <1>10, <2>1 DEF IsPrefixFold
  <2>3. QED
    BY <1>10, <2>2 DEF IsPrefixFold, F
<1>12. QED
  BY <1>1, <1>2, <1>10, <1>11 DEF N, IsPrefixFold

\* Points is the sum of what the sections earn, taken one after the other.
LEMMA PointsFolded ==
  ASSUME Assessed
  PROVE  \E h : /\ h[0] = NoMarks /\ Points = h[Len(RequiredSections)]
                /\ \A n \in 0..Len(RequiredSections) : h[n] \in Sums
                /\ \A n \in 1..Len(RequiredSections) : h[n] = h[n - 1] + Earned(n)
<1> DEFINE N == Len(RequiredSections)
           places == [i \in DOMAIN RequiredSections |-> i]
           Unfolds(g) == g = [s \in SUBSET (DOMAIN places) |->
                                IF s = {} THEN NoMarks
                                ELSE g[s \ {Max(s)}] + Earned(places[Max(s)])]
           it == CHOOSE g : Unfolds(g)
           F == [x \in Sums \X (1..N) |-> x[1] + Earned(x[2])]
<1>1. Points = it[DOMAIN places]
  BY Zenon DEF Points, NoMarks, FoldLeftDomain, FoldLeft, MapThenFoldSet
<1>2. N \in Nat /\ DOMAIN places = 1..N /\ \A n \in 1..N : places[n] = n
  BY SectionsRequired
<1>3. NoMarks \in Sums
  BY DEF Sums, NoMarks
<1>4. F \in [Sums \X (1..N) -> Sums]
  BY SectionsRequired, SectionsEarn DEF Sums, NoMarks
<1> HIDE DEF N, places, F
<1>5. PICK g : IsFold(g, Sums, NoMarks, N, F)
  BY <1>2, <1>3, <1>4, FoldExists
<1>6. Unfolds(g)
  <2>1. ASSUME NEW s \in SUBSET (1..N), s # {}
        PROVE  g[s] = g[s \ {Max(s)}] + Earned(places[Max(s)])
    <3>1. Max(s) \in s
      BY <1>2, <2>1, GreatestExists
    <3>2. places[Max(s)] = Max(s) /\ <<g[s \ {Max(s)}], Max(s)>> \in Sums \X (1..N)
      BY <1>2, <1>5, <3>1 DEF IsFold
    <3>3. QED
      BY <1>5, <2>1, <3>2 DEF F, IsFold
  <2>2. QED
    BY <1>2, <1>5, <2>1 DEF IsFold
<1>7. Unfolds(it)
  <2> HIDE DEF Unfolds
  <2>1. QED
    BY <1>6
<1> HIDE DEF it
<1>8. it[{}] = NoMarks
  BY <1>7
<1>9. Iterates(it, Sums, NoMarks, N, F)
  <2>1. ASSUME NEW n \in 1..N, it[1..(n - 1)] \in Sums
        PROVE  it[1..n] = F[<<it[1..(n - 1)], n>>]
    <3>1. 1..n \in SUBSET (DOMAIN places) /\ n \in Nat \ {0}
      BY <1>2
    <3>2. Max(1..n) = n /\ (1..n) \ {n} = 1..(n - 1) /\ 1..n # {} /\ places[n] = n
      BY <1>2, <3>1, MaxOfPrefix
    <3>3. it[1..n] = it[(1..n) \ {Max(1..n)}] + Earned(places[Max(1..n)])
      BY <1>7, <3>1, <3>2
    <3>4. <<it[1..(n - 1)], n>> \in Sums \X (1..N)
      BY <2>1
    <3>5. QED
      BY <3>2, <3>3, <3>4 DEF F
  <2>2. QED
    BY <1>8, <2>1 DEF Iterates
<1>10. PICK h : IsPrefixFold(h, Sums, NoMarks, N, F) /\ h[N] = it[1..N]
  <2>1. FoldsTo(it, Sums, NoMarks, N, F)
    BY <1>2, <1>3, <1>4, <1>9, PrefixesFold
  <2>2. QED
    BY <2>1 DEF FoldsTo
<1>11. ASSUME NEW n \in 1..N PROVE h[n] = h[n - 1] + Earned(n)
  <2>1. n - 1 \in 0..N
    BY <1>2
  <2>2. <<h[n - 1], n>> \in Sums \X (1..N)
    BY <1>10, <2>1 DEF IsPrefixFold
  <2>3. QED
    BY <1>10, <2>2 DEF IsPrefixFold, F
<1>12. QED
  BY <1>1, <1>2, <1>10, <1>11 DEF N, IsPrefixFold

\* Total, Points and Score written out.
LEMMA PointsAddUp ==
  ASSUME Assessed
  PROVE  /\ Total = 70
         /\ Points = Earned(1) + Earned(2) + Earned(3) + Earned(4) + Earned(5) + Earned(6)
         /\ Score = (100 * Points) \div 700
<1>1. Total = 70
  <2>1. PICK h : /\ h[0] = NoMarks /\ Total = h[Len(RequiredSections)]
                 /\ \A n \in 0..Len(RequiredSections) : h[n] \in Sums
                 /\ \A n \in 1..Len(RequiredSections) : h[n] = h[n - 1] + WeightOf(n)
    BY WeightsFolded
  <2>2. /\ h[1] = h[0] + WeightOf(1) /\ h[2] = h[1] + WeightOf(2) /\ h[3] = h[2] + WeightOf(3)
        /\ h[4] = h[3] + WeightOf(4) /\ h[5] = h[4] + WeightOf(5) /\ h[6] = h[5] + WeightOf(6)
    BY <2>1, SectionsRequired
  <2>3. QED
    BY <2>1, <2>2, SectionsRequired DEF Sums, NoMarks
<1>2. Points = Earned(1) + Earned(2) + Earned(3) + Earned(4) + Earned(5) + Earned(6)
  <2>1. PICK h : /\ h[0] = NoMarks /\ Points = h[Len(RequiredSections)]
                 /\ \A n \in 0..Len(RequiredSections) : h[n] \in Sums
                 /\ \A n \in 1..Len(RequiredSections) : h[n] = h[n - 1] + Earned(n)
    BY PointsFolded
  <2>2. /\ h[1] = h[0] + Earned(1) /\ h[2] = h[1] + Earned(2) /\ h[3] = h[2] + Earned(3)
        /\ h[4] = h[3] + Earned(4) /\ h[5] = h[4] + Earned(5) /\ h[6] = h[5] + Earned(6)
    BY <2>1, SectionsRequired
  <2>3. \A k \in 1..6 : Earned(k) \in Nat
    BY SectionsEarn
  <2>4. QED
    BY <2>1, <2>2, <2>3, SectionsRequired DEF Sums, NoMarks
<1>3. QED
  BY <1>1, <1>2 DEF Score

\* Among three or more there are three different ones.
LEMMA ThreeOfThem ==
  ASSUME NEW S, IsFiniteSet(S), Cardinality(S) >= 3
  PROVE  HasThree(S)
<1>1. PICK a \in S : TRUE
  BY FS_EmptySet
<1>2. IsFiniteSet(S \ {a}) /\ Cardinality(S \ {a}) = Cardinality(S) - 1 /\ Cardinality(S) \in Nat
  BY <1>1, FS_RemoveElement, FS_CardinalityType
<1>3. PICK b \in S \ {a} : TRUE
  BY <1>2, FS_EmptySet
<1>4. IsFiniteSet((S \ {a}) \ {b}) /\ Cardinality((S \ {a}) \ {b}) = Cardinality(S \ {a}) - 1
  BY <1>2, <1>3, FS_RemoveElement
<1>5. PICK c \in (S \ {a}) \ {b} : TRUE
  BY <1>2, <1>4, FS_EmptySet
<1>6. QED
  BY <1>1, <1>3, <1>5 DEF HasThree

\* Points are not negative.
LEMMA SumsAreNatural ==
  ASSUME NEW e \in [1..6 -> Nat]
  PROVE  SumOf(e) \in Nat
<1>1. /\ e[1] \in Nat /\ e[2] \in Nat /\ e[3] \in Nat
      /\ e[4] \in Nat /\ e[5] \in Nat /\ e[6] \in Nat
  OBVIOUS
<1>2. QED
  BY <1>1 DEF SumOf

\* With 80 % of the points at most one section is missing, none that weighs 15.
LEMMA FewMissing ==
  ASSUME NEW e \in [1..6 -> Nat], NEW w \in [1..6 -> Nat], Within(e, w), Weighted(w),
         SumOf(e) >= 560,
         NEW S \in SUBSET (1..6), \A k \in S : e[k] = 0
  PROVE  Cardinality(S) <= 1 /\ 3 \notin S /\ 4 \notin S
<1>1. /\ e[1] \in Nat /\ e[2] \in Nat /\ e[3] \in Nat /\ e[4] \in Nat /\ e[5] \in Nat
      /\ e[6] \in Nat
      /\ e[1] <= 100 /\ e[2] <= 100 /\ e[3] <= 150 /\ e[4] <= 150 /\ e[5] <= 100 /\ e[6] <= 100
  BY DEF Within, Weighted
<1>2. e[3] # 0 /\ e[4] # 0
  BY <1>1 DEF SumOf
<1>3. ASSUME NEW j \in S, NEW k \in S PROVE j = k
  <2>1. j \in 1..6 /\ k \in 1..6 /\ e[j] = 0 /\ e[k] = 0
    OBVIOUS
  <2>2. QED
    BY <1>1, <2>1 DEF SumOf
<1>4. Cardinality(S) <= 1
  <2>1. CASE S = {}
    BY <2>1, FS_EmptySet
  <2>2. CASE S # {}
    <3>1. PICK k \in S : S = {k}
      BY <1>3, <2>2
    <3>2. Cardinality(S) = 1
      BY <3>1, FS_Singleton
    <3>3. QED
      BY <3>2
  <2>3. QED
    BY <2>1, <2>2
<1>5. QED
  BY <1>2, <1>4

\* All points, and only all points, are those of every section.
LEMMA FullMarks ==
  ASSUME NEW e \in [1..6 -> Nat], NEW w \in [1..6 -> Nat], Within(e, w), Weighted(w)
  PROVE  SumOf(e) <= 700 /\ (SumOf(e) = 700 <=> Full(e, w))
<1>1. /\ e[1] \in Nat /\ e[2] \in Nat /\ e[3] \in Nat /\ e[4] \in Nat /\ e[5] \in Nat
      /\ e[6] \in Nat
      /\ e[1] <= 100 /\ e[2] <= 100 /\ e[3] <= 150 /\ e[4] <= 150 /\ e[5] <= 100 /\ e[6] <= 100
  BY DEF Within, Weighted
<1>2. Full(e, w) <=>
        /\ e[1] = 100 /\ e[2] = 100 /\ e[3] = 150 /\ e[4] = 150 /\ e[5] = 100 /\ e[6] = 100
  BY DEF Full, Weighted
<1>3. QED
  BY <1>1, <1>2 DEF SumOf

\* Three sections with all their points earn at least 300.
LEMMA HalfMarks ==
  ASSUME NEW e \in [1..6 -> Nat], NEW S \in SUBSET (1..6), \A k \in S : e[k] >= 100,
         Cardinality(S) >= 3
  PROVE  SumOf(e) >= 300
<1>1. IsFiniteSet(S)
  <2>1. IsFiniteSet(1..6)
    <3>1. 1 \in Int /\ 6 \in Int
      OBVIOUS
    <3>2. QED
      BY ONLY <3>1, FS_Interval
  <2>2. QED
    BY <2>1, FS_Subset
<1>2. PICK a \in S, b \in S, c \in S : a # b /\ b # c /\ a # c
  <2>1. HasThree(S)
    BY <1>1, ThreeOfThem
  <2>2. QED
    BY <2>1 DEF HasThree
<1>3. /\ a \in 1..6 /\ b \in 1..6 /\ c \in 1..6 /\ a # b /\ b # c /\ a # c
      /\ e[a] >= 100 /\ e[b] >= 100 /\ e[c] >= 100
  BY <1>2
<1>4. QED
  BY <1>3 DEF SumOf

\* The label an assessment gets says what its sections are (smart_scan.py,
\* _overall_status).
LEMMA LabelsAreEarned ==
  ASSUME replied \in Seq(Treatments)
  PROVE  LabelIsEarned
<1> DEFINE e == [k \in 1..6 |-> Earned(k)]
           w == [k \in 1..6 |-> WeightOf(k)]
<1> SUFFICES ASSUME Len(replied) = 6 PROVE LabelIsEarned
  BY SectionsRequired DEF LabelIsEarned
<1>1. Assessed /\ DOMAIN replied = 1..6
  <2>1. DOMAIN replied = 1..Len(replied) /\ \A k \in 1..Len(replied) : replied[k] \in Treatments
    BY SequencesHold
  <2>2. QED
    BY <2>1 DEF Assessed
<1>2. e \in [1..6 -> Nat] /\ w \in [1..6 -> Nat]
  BY <1>1, SectionsEarn, SectionsRequired
<1>3. Weighted(w)
  BY SectionsRequired DEF Weighted
<1>4. \A k \in 1..6 : /\ w[k] \in {10, 15}
                      /\ StatusOf(k) \in {"complete", "partial", "missing"}
                      /\ StatusOf(k) = "complete" => e[k] = 10 * w[k]
                      /\ StatusOf(k) = "partial" => e[k] < 10 * w[k]
                      /\ StatusOf(k) = "missing" => e[k] = 0
  <2>1. \A k \in 1..6 : WeightOf(k) \in {10, 15}
    BY DEF WeightOf
  <2>2. QED
    BY <1>1, <2>1, SectionsEarn
<1>5. Points = SumOf(e)
  BY <1>1, PointsAddUp DEF SumOf
<1>51. Score = (100 * Points) \div 700
  BY <1>1, PointsAddUp
<1>6. \A s : With(s) = {k \in 1..6 : StatusOf(k) = s}
  BY <1>1 DEF With
<1> HIDE DEF e, w
<1>7. \A k \in 1..6 : /\ e[k] <= 10 * w[k]
                      /\ e[k] = 10 * w[k] <=> StatusOf(k) = "complete"
  <2>1. ASSUME NEW k \in 1..6
        PROVE  /\ e[k] <= 10 * w[k]
               /\ e[k] = 10 * w[k] <=> StatusOf(k) = "complete"
    <3>1. e[k] \in Nat /\ w[k] \in {10, 15}
      BY <1>2, <1>4
    <3>2. QED
      BY <1>4, <3>1
  <2>2. QED
    BY <2>1
<1>71. Within(e, w)
  BY <1>7 DEF Within
<1>8. Points \in Nat
  BY <1>2, <1>5, SumsAreNatural
<1>9. Score \in Nat /\ 700 * Score <= 100 * Points /\ 100 * Points < 700 * Score + 700
  BY <1>51, <1>8
<1>10. (Label = "Strong" <=> Score >= 80) /\ (Label = "Critical" <=> Score < 30)
  <2>1. CASE Score >= 80
    <3>1. Score \notin 55..79 /\ Score \notin 30..54 /\ ~(Score < 30)
      BY <1>9, <2>1
    <3>2. Label = "Strong"
      BY Zenon, <2>1, <3>1 DEF Label
    <3>3. QED
      BY <2>1, <3>1, <3>2
  <2>2. CASE Score \in 55..79
    <3>1. ~(Score >= 80) /\ Score \notin 30..54 /\ ~(Score < 30)
      BY <1>9, <2>2
    <3>2. Label = "Moderate"
      BY Zenon, <2>2, <3>1 DEF Label
    <3>3. QED
      BY <3>1, <3>2
  <2>3. CASE Score \in 30..54
    <3>1. ~(Score >= 80) /\ Score \notin 55..79 /\ ~(Score < 30)
      BY <1>9, <2>3
    <3>2. Label = "Weak"
      BY Zenon, <2>3, <3>1 DEF Label
    <3>3. QED
      BY <3>1, <3>2
  <2>4. CASE Score < 30
    <3>1. ~(Score >= 80) /\ Score \notin 55..79 /\ Score \notin 30..54
      BY <1>9, <2>4
    <3>2. Label = "Critical"
      BY Zenon, <2>4, <3>1 DEF Label
    <3>3. QED
      BY <2>4, <3>1, <3>2
  <2>5. QED
    BY <1>9, <2>1, <2>2, <2>3, <2>4
<1>11. ASSUME Label = "Strong"
       PROVE  /\ Cardinality(With("missing")) <= 1
               /\ 3 \notin With("missing") /\ 4 \notin With("missing")
  <2>1. Points >= 560
    BY <1>8, <1>9, <1>10, <1>11
  <2>2. With("missing") \in SUBSET (1..6) /\ \A k \in With("missing") : e[k] = 0
    BY <1>4, <1>6
  <2>3. QED
    BY <1>2, <1>3, <1>5, <1>71, <2>1, <2>2, FewMissing
<1>12. \A k \in With("missing") :
         Label = "Strong" => RequiredSections[k] \notin {"policy_statement", "procedures"}
  <2>1. \A k \in 1..6 : RequiredSections[k] \in {"policy_statement", "procedures"} => k \in {3, 4}
    BY DEF RequiredSections
  <2>2. QED
    BY <1>6, <1>11, <2>1
<1>13. Score = 100 <=> With("complete") = DOMAIN replied
  <2>1. Points <= 700 /\ (Points = 700 <=> Full(e, w))
    <3>1. SumOf(e) <= 700 /\ (SumOf(e) = 700 <=> Full(e, w))
      BY <1>2, <1>3, <1>71, FullMarks
    <3>2. QED
      BY <1>5, <3>1
  <2>2. Score = 100 <=> Points = 700
    BY <1>8, <1>9, <2>1
  <2>3. With("complete") = 1..6 <=> Full(e, w)
    BY <1>6, <1>7 DEF Full
  <2>4. QED
    BY <1>1, <2>1, <2>2, <2>3
<1>14. ASSUME 2 * Cardinality(With("complete")) >= Len(replied)
       PROVE  Label # "Critical"
  <2>1. With("complete") \in SUBSET (1..6)
    BY <1>6
  <2>2. Cardinality(With("complete")) \in Nat
    <3>1. 1 \in Int /\ 6 \in Int
      OBVIOUS
    <3>2. IsFiniteSet(1..6)
      BY ONLY <3>1, FS_Interval
    <3>3. QED
      BY <2>1, <3>2, FS_Subset, FS_CardinalityType
  <2>3. Cardinality(With("complete")) >= 3
    BY <1>14, <2>2
  <2>4. \A k \in With("complete") : e[k] >= 100
    BY <1>4, <1>6
  <2>5. Points >= 300
    BY <1>2, <1>5, <2>1, <2>3, <2>4, HalfMarks
  <2>6. QED
    BY <1>8, <1>9, <1>10, <2>5
<1>15. QED
  BY <1>11, <1>12, <1>13, <1>14 DEF LabelIsEarned

ScanTyped ==
  /\ scanned \in Seq(ScanBlocks) /\ replied \in Seq(Treatments)

(***************************************************************************)
(* smart_scan.py, for a file of any blocks: the text of each section is    *)
(* all of its text and no other, each piece once, and the label of an      *)
(* assessment is the one its sections earn.                                *)
(***************************************************************************)
THEOREM ScanIsSoundAlways == ScanSpec => []ScanIsSound
<1>1. ScanInit => ScanTyped
  BY DEF ScanInit, ScanTyped
<1>2. ScanTyped /\ [ScanNext]_scanVars => ScanTyped'
  <2> SUFFICES ASSUME ScanTyped, [ScanNext]_scanVars PROVE ScanTyped'
    OBVIOUS
  <2>1. ASSUME NEW b \in ScanBlocks, WriteBlock(b) PROVE ScanTyped'
    BY <2>1 DEF ScanTyped, WriteBlock
  <2>2. CASE AskModel
    BY <2>2 DEF ScanTyped, AskModel
  <2>3. ASSUME NEW treatment \in Treatments, ReplyOn(treatment) PROVE ScanTyped'
    BY <2>3 DEF ScanTyped, ReplyOn
  <2>4. CASE UNCHANGED scanVars
    BY <2>4 DEF ScanTyped, scanVars
  <2>5. QED
    BY <2>1, <2>2, <2>3, <2>4 DEF ScanNext
<1>3. ScanTyped => ScanIsSound
  BY SectionsAreWhole, LabelsAreEarned DEF ScanTyped, Scanned, ScanIsSound
<1>4. QED
  BY <1>1, <1>2, <1>3, PTL DEF ScanSpec

-----------------------------------------------------------------------------
(***************************************************************************)
(* The questions of a questionnaire (Questionnaires).                      *)
(***************************************************************************)
\* Where the folds over a questionnaire begin, and its lines.
NoTexts == <<>>
Pasting == sheet \in Seq(Marks)

\* Questions stay lists of lines.
LEMMA QuestionsStayTexts ==
  ASSUME NEW questions \in Texts, NEW n \in Nat
  PROVE  /\ AddLine(questions, n) \in Texts
         /\ \A part \in Seq(Nat) : KeepLong(questions, part) \in Texts
<1>1. <<n>> \in Seq(Nat)
  OBVIOUS
<1>2. \A part \in Seq(Nat) : Append(questions, part) \in Texts
  BY SequencesGrow DEF Texts
<1>3. [questions EXCEPT ![Len(questions)] = Append(@, n)] \in Texts
  <2>1. CASE questions = <<>>
    <3>1. [questions EXCEPT ![Len(questions)] = Append(@, n)] = <<>>
      BY <2>1
    <3>2. QED
      BY <2>1, <3>1
  <2>2. CASE questions # <<>>
    <3>1. Len(questions) \in 1..Len(questions)
      BY <2>2 DEF Texts
    <3>2. questions[Len(questions)] \in Seq(Nat)
      BY <3>1 DEF Texts
    <3>3. Append(questions[Len(questions)], n) \in Seq(Nat)
      BY <3>2
    <3>4. QED
      BY <3>1, <3>3, SequencesChange DEF Texts
  <2>3. QED
    BY <2>1, <2>2
<1>4. QED
  BY <1>1, <1>2, <1>3 DEF AddLine, KeepLong

\* _split_questions reads the pasted lines one after the other.
LEMMA LinesGrouped ==
  ASSUME Pasting
  PROVE  \E h : /\ h[0] = NoTexts /\ Grouped = h[Len(sheet)]
                /\ \A n \in 0..Len(sheet) : h[n] \in Texts
                /\ \A n \in 1..Len(sheet) : h[n] = AddLine(h[n - 1], n)
<1> DEFINE N == Len(sheet)
           places == [i \in DOMAIN sheet |-> i]
           Unfolds(g) == g = [s \in SUBSET (DOMAIN places) |->
                                IF s = {} THEN NoTexts
                                ELSE AddLine(g[s \ {Max(s)}], places[Max(s)])]
           it == CHOOSE g : Unfolds(g)
           F == [x \in Texts \X (1..N) |-> AddLine(x[1], x[2])]
<1>1. Grouped = it[DOMAIN places]
  BY Zenon DEF Grouped, NoTexts, FoldLeftDomain, FoldLeft, MapThenFoldSet
<1>2. N \in Nat /\ DOMAIN places = 1..N /\ \A n \in 1..N : places[n] = n
  BY DEF Pasting
<1>3. NoTexts \in Texts
  BY DEF Texts, NoTexts
<1>4. F \in [Texts \X (1..N) -> Texts]
  BY QuestionsStayTexts
<1> HIDE DEF N, places, F
<1>5. PICK g : IsFold(g, Texts, NoTexts, N, F)
  BY <1>2, <1>3, <1>4, FoldExists
<1>6. Unfolds(g)
  <2>1. ASSUME NEW s \in SUBSET (1..N), s # {}
        PROVE  g[s] = AddLine(g[s \ {Max(s)}], places[Max(s)])
    <3>1. Max(s) \in s
      BY <1>2, <2>1, GreatestExists
    <3>2. places[Max(s)] = Max(s) /\ <<g[s \ {Max(s)}], Max(s)>> \in Texts \X (1..N)
      BY <1>2, <1>5, <3>1 DEF IsFold
    <3>3. QED
      BY <1>5, <2>1, <3>2 DEF F, IsFold
  <2>2. QED
    BY <1>2, <1>5, <2>1 DEF IsFold
<1>7. Unfolds(it)
  <2> HIDE DEF Unfolds
  <2>1. QED
    BY <1>6
<1> HIDE DEF it
<1>8. it[{}] = NoTexts
  BY <1>7
<1>9. Iterates(it, Texts, NoTexts, N, F)
  <2>1. ASSUME NEW n \in 1..N, it[1..(n - 1)] \in Texts
        PROVE  it[1..n] = F[<<it[1..(n - 1)], n>>]
    <3>1. 1..n \in SUBSET (DOMAIN places) /\ n \in Nat \ {0}
      BY <1>2
    <3>2. Max(1..n) = n /\ (1..n) \ {n} = 1..(n - 1) /\ 1..n # {} /\ places[n] = n
      BY <1>2, <3>1, MaxOfPrefix
    <3>3. it[1..n] = AddLine(it[(1..n) \ {Max(1..n)}], places[Max(1..n)])
      BY <1>7, <3>1, <3>2
    <3>4. <<it[1..(n - 1)], n>> \in Texts \X (1..N)
      BY <2>1
    <3>5. QED
      BY <3>2, <3>3, <3>4 DEF F
  <2>2. QED
    BY <1>8, <2>1 DEF Iterates
<1>10. PICK h : IsPrefixFold(h, Texts, NoTexts, N, F) /\ h[N] = it[1..N]
  <2>1. FoldsTo(it, Texts, NoTexts, N, F)
    BY <1>2, <1>3, <1>4, <1>9, PrefixesFold
  <2>2. QED
    BY <2>1 DEF FoldsTo
<1>11. ASSUME NEW n \in 1..N PROVE h[n] = AddLine(h[n - 1], n)
  <2>1. n - 1 \in 0..N
    BY <1>2
  <2>2. <<h[n - 1], n>> \in Texts \X (1..N)
    BY <1>10, <2>1 DEF IsPrefixFold
  <2>3. QED
    BY <1>10, <2>2 DEF IsPrefixFold, F
<1>12. QED
  BY <1>1, <1>2, <1>10, <1>11 DEF N, IsPrefixFold

\* _split_questions keeps the long questions, one after the other.
LEMMA QuestionsSplit ==
  ASSUME Grouped \in Texts
  PROVE  \E h : /\ h[0] = NoTexts /\ Split = h[Len(Grouped)]
                /\ \A n \in 0..Len(Grouped) : h[n] \in Texts
                /\ \A n \in 1..Len(Grouped) : h[n] = KeepLong(h[n - 1], Grouped[n])
<1> DEFINE N == Len(Grouped)
           places == Grouped
           Unfolds(g) == g = [s \in SUBSET (DOMAIN places) |->
                                IF s = {} THEN NoTexts
                                ELSE KeepLong(g[s \ {Max(s)}], places[Max(s)])]
           it == CHOOSE g : Unfolds(g)
           F == [x \in Texts \X (1..N) |-> KeepLong(x[1], places[x[2]])]
<1>1. Split = it[DOMAIN places]
  BY Zenon DEF Split, NoTexts, FoldLeft, MapThenFoldSet
<1>2. N \in Nat /\ DOMAIN places = 1..N /\ \A n \in 1..N : places[n] \in Seq(Nat)
  BY DEF Texts
<1>3. NoTexts \in Texts
  BY DEF Texts, NoTexts
<1>4. F \in [Texts \X (1..N) -> Texts]
  BY <1>2, QuestionsStayTexts
<1> HIDE DEF N, places, F
<1>5. PICK g : IsFold(g, Texts, NoTexts, N, F)
  BY <1>2, <1>3, <1>4, FoldExists
<1>6. Unfolds(g)
  <2>1. ASSUME NEW s \in SUBSET (1..N), s # {}
        PROVE  g[s] = KeepLong(g[s \ {Max(s)}], places[Max(s)])
    <3>1. Max(s) \in s
      BY <1>2, <2>1, GreatestExists
    <3>2. Max(s) \in 1..N /\ <<g[s \ {Max(s)}], Max(s)>> \in Texts \X (1..N)
      BY <1>2, <1>5, <3>1 DEF IsFold
    <3>3. QED
      BY <1>5, <2>1, <3>2 DEF F, IsFold
  <2>2. QED
    BY <1>2, <1>5, <2>1 DEF IsFold
<1>7. Unfolds(it)
  <2> HIDE DEF Unfolds
  <2>1. QED
    BY <1>6
<1> HIDE DEF it
<1>8. it[{}] = NoTexts
  BY <1>7
<1>9. Iterates(it, Texts, NoTexts, N, F)
  <2>1. ASSUME NEW n \in 1..N, it[1..(n - 1)] \in Texts
        PROVE  it[1..n] = F[<<it[1..(n - 1)], n>>]
    <3>1. 1..n \in SUBSET (DOMAIN places) /\ n \in Nat \ {0}
      BY <1>2
    <3>2. Max(1..n) = n /\ (1..n) \ {n} = 1..(n - 1) /\ 1..n # {}
      BY <1>2, <3>1, MaxOfPrefix
    <3>3. it[1..n] = KeepLong(it[(1..n) \ {Max(1..n)}], places[Max(1..n)])
      BY <1>7, <3>1, <3>2
    <3>4. <<it[1..(n - 1)], n>> \in Texts \X (1..N)
      BY <2>1
    <3>5. QED
      BY <3>2, <3>3, <3>4 DEF F
  <2>2. QED
    BY <1>8, <2>1 DEF Iterates
<1>10. PICK h : IsPrefixFold(h, Texts, NoTexts, N, F) /\ h[N] = it[1..N]
  <2>1. FoldsTo(it, Texts, NoTexts, N, F)
    BY <1>2, <1>3, <1>4, <1>9, PrefixesFold
  <2>2. QED
    BY <2>1 DEF FoldsTo
<1>11. ASSUME NEW n \in 1..N PROVE h[n] = KeepLong(h[n - 1], places[n])
  <2>1. n - 1 \in 0..N
    BY <1>2
  <2>2. <<h[n - 1], n>> \in Texts \X (1..N)
    BY <1>10, <2>1 DEF IsPrefixFold
  <2>3. QED
    BY <1>10, <2>2 DEF IsPrefixFold, F
<1>12. QED
  BY <1>1, <1>2, <1>10, <1>11 DEF N, places, IsPrefixFold

-----------------------------------------------------------------------------
\* The lines that are not empty among the first n, and what is known of the
\* questions they make.
NonEmpty(n) == {m \in 1..n : ~Empty(m)}
LastOf(question) == question[Len(question)]

\* What the questions are after n lines.
Begun(questions, n) ==
  \A k \in DOMAIN questions :
    /\ questions[k] # <<>> /\ ~Continues(questions[k][1])
    /\ \A i \in DOMAIN questions[k] : i > 1 => Continues(questions[k][i])
    /\ LastOf(questions[k]) + 1 \in NonEmpty(n) => ~Continues(LastOf(questions[k]) + 1)
LastGoesOn(questions, n) ==
  n \in NonEmpty(n) => questions # <<>> /\ LastOf(questions[Len(questions)]) = n

WellGrouped(questions, n) ==
  /\ questions \in Texts
  /\ ListsInOrder(questions, NonEmpty(n))
  /\ Begun(questions, n)
  /\ LastGoesOn(questions, n)

\* A line that begins a question.
LEMMA LineIsBegun ==
  ASSUME Pasting, NEW n \in 1..Len(sheet), NEW questions, WellGrouped(questions, n - 1),
         ~Empty(n), ~Continues(n)
  PROVE  WellGrouped(Append(questions, <<n>>), n)
<1> DEFINE N == Len(questions)
           more == Append(questions, <<n>>)
           one == <<n>>
<1>1. n \in Nat /\ n \in 1..n /\ n >= 1
  BY DEF Pasting
<1>2. one \in Seq(Nat) /\ Len(one) = 1 /\ DOMAIN one = 1..1 /\ one[1] = n /\ one # <<>>
  BY <1>1
<1> HIDE DEF one
<1>3. ToSet(one) = {n} /\ Increasing(one)
  BY <1>2 DEF ToSet, Increasing
<1>4. questions \in Texts
  BY DEF WellGrouped
<1>5. /\ Append(questions, one) \in Texts
      /\ DOMAIN Append(questions, one) = 1..(N + 1) /\ Len(Append(questions, one)) = N + 1
      /\ \A k \in 1..N : Append(questions, one)[k] = questions[k]
      /\ Append(questions, one)[N + 1] = one
      /\ N \in Nat /\ DOMAIN questions = 1..N
  BY <1>2, <1>4, SequencesGrow, SequencesHold DEF Texts
<1>6. more = Append(questions, one)
  BY DEF one
<1>7. NonEmpty(n) = NonEmpty(n - 1) \cup {n} /\ \A m \in NonEmpty(n - 1) : m < n
  BY <1>1 DEF NonEmpty
<1>8. ListsInOrder(more, NonEmpty(n))
  <2>1. \A x \in NonEmpty(n - 1), y \in ToSet(one) : x < y
    BY <1>3, <1>7
  <2>2. ListsInOrder(Append(questions, one), NonEmpty(n - 1) \cup ToSet(one))
    BY <1>2, <1>3, <1>4, <2>1, PartIsListed DEF WellGrouped
  <2>3. QED
    BY <1>3, <1>6, <1>7, <2>2
<1> HIDE DEF more, N
<1>9. ASSUME NEW k \in DOMAIN more
      PROVE  /\ more[k] # <<>> /\ ~Continues(more[k][1])
             /\ \A i \in DOMAIN more[k] : i > 1 => Continues(more[k][i])
             /\ LastOf(more[k]) + 1 \in NonEmpty(n) => ~Continues(LastOf(more[k]) + 1)
  <2>1. CASE k = N + 1
    <3>1. more[k] = one
      BY <1>5, <1>6, <2>1
    <3>2. LastOf(more[k]) = n
      BY <1>2, <3>1 DEF LastOf
    <3>3. n + 1 \notin NonEmpty(n)
      BY <1>1 DEF NonEmpty
    <3>4. \A i \in DOMAIN one : ~(i > 1)
      BY <1>2
    <3>5. QED
      BY <1>2, <3>1, <3>2, <3>3, <3>4
  <2>2. CASE k # N + 1
    <3>1. k \in DOMAIN questions /\ more[k] = questions[k]
      BY <1>5, <1>6, <2>2
    <3>2. /\ questions[k] # <<>> /\ ~Continues(questions[k][1])
          /\ \A i \in DOMAIN questions[k] : i > 1 => Continues(questions[k][i])
          /\ LastOf(questions[k]) + 1 \in NonEmpty(n - 1) => ~Continues(LastOf(questions[k]) + 1)
      BY <3>1 DEF WellGrouped, Begun
    <3>3. QED
      BY <1>7, <3>1, <3>2
  <2>3. QED
    BY <2>1, <2>2
<1>10. LastGoesOn(more, n)
  <2>1. Len(more) = N + 1 /\ more[N + 1] = one /\ DOMAIN more = 1..(N + 1) /\ N \in Nat
    BY <1>5, <1>6
  <2>2. more # <<>>
    <3>1. N + 1 \in DOMAIN more
      BY <2>1
    <3>2. DOMAIN <<>> = {}
      OBVIOUS
    <3>3. QED
      BY <3>1, <3>2
  <2>3. LastOf(more[Len(more)]) = n
    BY <1>2, <2>1 DEF LastOf
  <2>4. QED
    BY <2>2, <2>3 DEF LastGoesOn
<1>11. more \in Texts
  BY <1>5, <1>6
<1>12. QED
  BY <1>8, <1>9, <1>10, <1>11 DEF WellGrouped, Begun, more

\* A line that goes on with the question before.
LEMMA LineGoesOn ==
  ASSUME Pasting, NEW n \in 1..Len(sheet), NEW questions, WellGrouped(questions, n - 1),
         ~Empty(n), Continues(n)
  PROVE  WellGrouped([questions EXCEPT ![Len(questions)] = Append(@, n)], n)
<1> DEFINE N == Len(questions)
           longer == Append(questions[N], n)
           more == [questions EXCEPT ![Len(questions)] = longer]
<1>1. n \in Nat /\ n > 1 /\ n - 1 \in NonEmpty(n - 1)
  BY DEF Pasting, Continues, NonEmpty
<1>2. questions \in Texts /\ questions # <<>> /\ LastOf(questions[N]) = n - 1
  BY <1>1 DEF WellGrouped, LastGoesOn
<1>3. N \in 1..N /\ N \in Nat /\ DOMAIN questions = 1..N /\ questions[N] \in Seq(Nat)
  BY <1>2 DEF Texts
<1>4. NonEmpty(n) = NonEmpty(n - 1) \cup {n} /\ \A m \in NonEmpty(n - 1) : m < n
  BY <1>1 DEF NonEmpty
<1>5. Increasing(questions[N]) /\ ToSet(questions[N]) \subseteq NonEmpty(n - 1)
  BY <1>3 DEF WellGrouped, ListsInOrder
<1>6. \A x \in ToSet(questions[N]) : x < n
  BY <1>4, <1>5
<1>7. /\ longer \in Seq(Nat) /\ Increasing(longer)
      /\ ToSet(longer) = ToSet(questions[N]) \cup {n}
  <2> DEFINE lines == questions[N]
  <2>1. lines \in Seq(Nat) /\ Increasing(lines) /\ \A x \in ToSet(lines) : x < n
    BY <1>3, <1>5, <1>6
  <2> HIDE DEF lines
  <2>2. /\ Append(lines, n) \in Seq(Nat) /\ Increasing(Append(lines, n))
        /\ ToSet(Append(lines, n)) = ToSet(lines) \cup {n}
    BY <1>1, <2>1, LinesGrow
  <2>3. QED
    BY <2>2 DEF lines
<1>8. /\ DOMAIN longer = 1..(Len(questions[N]) + 1) /\ Len(longer) = Len(questions[N]) + 1
      /\ \A i \in 1..Len(questions[N]) : longer[i] = questions[N][i]
      /\ longer[Len(questions[N]) + 1] = n
      /\ Len(questions[N]) \in Nat /\ DOMAIN questions[N] = 1..Len(questions[N])
  BY <1>1, <1>3, SequencesGrow, SequencesHold
<1> HIDE DEF longer
<1>9. /\ more \in Texts /\ Len(more) = N /\ DOMAIN more = 1..N
      /\ \A k \in 1..N : more[k] = IF k = N THEN longer ELSE questions[k]
  BY <1>2, <1>3, <1>7, SequencesChange DEF Texts
<1>10. ListsInOrder(more, NonEmpty(n))
  <2>1. ListsInOrder(questions, NonEmpty(n - 1)) /\ \A x \in NonEmpty(n - 1), y \in {n} : x < y
    BY <1>4 DEF WellGrouped
  <2>2. ListsInOrder(more, NonEmpty(n - 1) \cup {n})
    BY <1>2, <1>7, <2>1, LastPartGrows
  <2>3. QED
    BY <1>4, <2>2
<1> HIDE DEF more
<1>11. more = [questions EXCEPT ![Len(questions)] = Append(@, n)]
  BY DEF more, longer
<1> HIDE DEF N
<1>12. ASSUME NEW k \in DOMAIN more
       PROVE  /\ more[k] # <<>> /\ ~Continues(more[k][1])
              /\ \A i \in DOMAIN more[k] : i > 1 => Continues(more[k][i])
              /\ LastOf(more[k]) + 1 \in NonEmpty(n) => ~Continues(LastOf(more[k]) + 1)
  <2>1. /\ questions[k] # <<>> /\ ~Continues(questions[k][1])
        /\ \A i \in DOMAIN questions[k] : i > 1 => Continues(questions[k][i])
        /\ LastOf(questions[k]) + 1 \in NonEmpty(n - 1) => ~Continues(LastOf(questions[k]) + 1)
    BY <1>3, <1>9 DEF WellGrouped, Begun
  <2>2. CASE k = N
    <3>1. more[k] = longer
      BY <1>3, <1>9, <2>2
    <3>2. LastOf(more[k]) = n
      BY <1>8, <3>1 DEF LastOf
    <3>3. n + 1 \notin NonEmpty(n)
      BY <1>1 DEF NonEmpty
    <3>4. questions[N] # <<>> /\ Len(questions[N]) >= 1
      BY <1>3, <2>1, <2>2
    <3>5. longer # <<>> /\ longer[1] = questions[N][1]
      BY <1>7, <1>8, <3>4
    <3>6. ASSUME NEW i \in DOMAIN longer, i > 1 PROVE Continues(longer[i])
      <4>1. CASE i = Len(questions[N]) + 1
        BY <1>8, <4>1
      <4>2. CASE i # Len(questions[N]) + 1
        <5>1. i \in DOMAIN questions[N] /\ longer[i] = questions[N][i]
          BY <1>8, <4>2
        <5>2. QED
          BY <2>1, <2>2, <3>6, <5>1
      <4>3. QED
        BY <4>1, <4>2
    <3>7. QED
      BY <2>1, <2>2, <3>1, <3>2, <3>3, <3>5, <3>6
  <2>3. CASE k # N
    <3>1. k \in 1..N /\ more[k] = questions[k]
      BY <1>9, <2>3
    <3>2. LastOf(questions[k]) + 1 # n
      <4>1. /\ LastOf(questions[k]) \in ToSet(questions[k])
            /\ n - 1 \in ToSet(questions[N])
        <5>1. \A j \in 1..N : questions[j] \in Seq(Nat) /\ questions[j] # <<>>
          <6>1. \A j \in 1..N : questions[j] \in Seq(Nat)
            BY <1>2, <1>3, SequencesHold DEF Texts
          <6>2. \A j \in 1..N : questions[j] # <<>>
            BY <1>3 DEF WellGrouped, Begun
          <6>3. QED
            BY <6>1, <6>2
        <5>2. \A j \in 1..N : Len(questions[j]) \in DOMAIN questions[j]
          BY <5>1
        <5>3. QED
          BY <1>2, <1>3, <3>1, <5>2 DEF LastOf, ToSet
      <4>2. k < N /\ N \in DOMAIN questions /\ k \in DOMAIN questions
        BY <1>3, <2>3, <3>1
      <4>3. LastOf(questions[k]) < n - 1
        BY <4>1, <4>2 DEF WellGrouped, ListsInOrder
      <4>4. LastOf(questions[k]) \in NonEmpty(n - 1)
        BY <4>1, <4>2 DEF WellGrouped, ListsInOrder
      <4>5. LastOf(questions[k]) \in Nat
        BY <4>4 DEF NonEmpty
      <4>6. QED
        BY <1>1, <4>3, <4>5
    <3>3. QED
      BY <1>4, <2>1, <3>1, <3>2
  <2>4. QED
    BY <2>2, <2>3
<1>13. LastGoesOn(more, n)
  <2>1. more # <<>> /\ more[Len(more)] = longer
    BY <1>3, <1>9
  <2>2. QED
    BY <1>8, <2>1 DEF LastGoesOn, LastOf
<1>14. QED
  BY <1>9, <1>10, <1>11, <1>12, <1>13 DEF WellGrouped, Begun

\* Every line that is not empty is in one question, in order.
LEMMA LinesAreGrouped ==
  ASSUME Pasting
  PROVE  WellGrouped(Grouped, Len(sheet))
<1>1. PICK h : /\ h[0] = NoTexts /\ Grouped = h[Len(sheet)]
               /\ \A n \in 0..Len(sheet) : h[n] \in Texts
               /\ \A n \in 1..Len(sheet) : h[n] = AddLine(h[n - 1], n)
  BY LinesGrouped
<1> DEFINE N == Len(sheet)
           S == {n \in 0..N : WellGrouped(h[n], n)}
<1>2. N \in Nat
  BY DEF Pasting
<1>3. 0 \in S
  <2>1. NonEmpty(0) = {} /\ h[0] = <<>> /\ h[0] \in Texts /\ DOMAIN h[0] = {}
    BY <1>1, <1>2 DEF NonEmpty, NoTexts
  <2>2. ListsInOrder(h[0], NonEmpty(0))
    BY <2>1, NothingIsListed
  <2>3. Begun(h[0], 0) /\ LastGoesOn(h[0], 0)
    BY <2>1 DEF Begun, LastGoesOn
  <2>4. WellGrouped(h[0], 0)
    BY <2>1, <2>2, <2>3 DEF WellGrouped
  <2>5. QED
    BY <1>2, <2>4
<1>4. ASSUME NEW n \in 1..N, n - 1 \in S PROVE n \in S
  <2> DEFINE q == h[n - 1]
  <2>1. WellGrouped(q, n - 1) /\ h[n] = AddLine(q, n)
    BY <1>1, <1>4
  <2> HIDE DEF q
  <2>2. CASE Empty(n)
    <3>1. NonEmpty(n) = NonEmpty(n - 1) /\ n \notin NonEmpty(n)
      BY <1>2, <2>2 DEF NonEmpty
    <3>2. h[n] = q
      BY <2>1, <2>2 DEF AddLine
    <3>3. WellGrouped(q, n)
      BY <2>1, <3>1 DEF WellGrouped, Begun, LastGoesOn
    <3>4. QED
      BY <3>2, <3>3
  <2>3. CASE ~Empty(n) /\ Continues(n)
    <3> DEFINE more == [q EXCEPT ![Len(q)] = Append(@, n)]
    <3>1. h[n] = more
      BY <2>1, <2>3 DEF AddLine
    <3>2. WellGrouped(more, n)
      BY <2>1, <2>3, LineGoesOn
    <3> HIDE DEF more
    <3>3. QED
      BY <3>1, <3>2
  <2>4. CASE ~Empty(n) /\ ~Continues(n)
    <3> DEFINE more == Append(q, <<n>>)
    <3>1. h[n] = more
      BY <2>1, <2>4 DEF AddLine
    <3>2. WellGrouped(more, n)
      BY <2>1, <2>4, LineIsBegun
    <3> HIDE DEF more
    <3>3. QED
      BY <3>1, <3>2
  <2>5. QED
    BY <2>2, <2>3, <2>4
<1>5. N \in S
  <2> HIDE DEF S
  <2>1. 0..N \subseteq S
    BY <1>2, <1>3, <1>4, UpTo
  <2>2. QED
    BY <1>2, <2>1
<1>6. QED
  BY <1>1, <1>5

-----------------------------------------------------------------------------
\* A question goes on with the very next line.
LEMMA NextLineGoesOn ==
  ASSUME Pasting, NEW k \in DOMAIN Grouped, 2 \in DOMAIN Grouped[k]
  PROVE  Grouped[k][2] = Grouped[k][1] + 1
<1> DEFINE N == Len(sheet)
           x == Grouped[k][1]
           y == Grouped[k][2]
<1>1. WellGrouped(Grouped, N) /\ N \in Nat
  BY LinesAreGrouped DEF Pasting
<1>2. /\ Grouped[k] \in Seq(Nat) /\ DOMAIN Grouped[k] = 1..Len(Grouped[k])
      /\ Len(Grouped[k]) \in Nat
      /\ \A j \in DOMAIN Grouped : Grouped[j] \in Seq(Nat)
      /\ DOMAIN Grouped = 1..Len(Grouped) /\ Len(Grouped) \in Nat
  <2>1. \A j \in DOMAIN Grouped : Grouped[j] \in Seq(Nat)
    BY <1>1, SequencesHold DEF WellGrouped, Texts
  <2>2. DOMAIN Grouped = 1..Len(Grouped) /\ Len(Grouped) \in Nat
    BY <1>1, SequencesHold DEF WellGrouped, Texts
  <2>3. QED
    BY <2>1, <2>2, SequencesHold
<1>3. 1 \in DOMAIN Grouped[k] /\ x \in ToSet(Grouped[k]) /\ y \in ToSet(Grouped[k])
  <2> DEFINE part == Grouped[k]
  <2>1. part \in Seq(Nat) /\ DOMAIN part = 1..Len(part) /\ Len(part) \in Nat /\ 2 \in DOMAIN part
    BY <1>2
  <2> HIDE DEF part
  <2>2. 1 \in DOMAIN part
    BY <2>1
  <2>3. part[1] \in ToSet(part) /\ part[2] \in ToSet(part)
    BY <2>1, <2>2 DEF ToSet
  <2>4. QED
    BY <2>2, <2>3 DEF part
<1>4. Continues(y) /\ y \in NonEmpty(N) /\ x \in NonEmpty(N) /\ x < y
  <2>1. Continues(y)
    BY <1>1 DEF WellGrouped, Begun
  <2>2. y \in NonEmpty(N) /\ x \in NonEmpty(N)
    BY <1>1, <1>3 DEF WellGrouped, ListsInOrder
  <2>3. x < y
    BY <1>1, <1>3 DEF WellGrouped, ListsInOrder, Increasing
  <2>4. QED
    BY <2>1, <2>2, <2>3
<1> HIDE DEF N
<1>5. y - 1 \in NonEmpty(N)
  BY <1>1, <1>4 DEF Continues, NonEmpty
<1>6. PICK j \in DOMAIN Grouped : y - 1 \in ToSet(Grouped[j])
  BY <1>1, <1>5 DEF WellGrouped, ListsInOrder
<1>7. x \in Nat /\ y \in Nat
  BY <1>1, <1>4 DEF NonEmpty
<1> HIDE DEF x, y
<1>8. j = k
  <2>1. CASE j < k
    <3>1. y - 1 < x
      BY <1>1, <1>3, <1>6, <2>1 DEF WellGrouped, ListsInOrder
    <3>2. QED
      BY <1>4, <1>7, <3>1
  <2>2. CASE k < j
    <3>1. y < y - 1
      BY <1>1, <1>3, <1>6, <2>2 DEF WellGrouped, ListsInOrder
    <3>2. QED
      BY <1>7, <3>1
  <2>3. QED
    BY <1>2, <2>1, <2>2
<1>9. PICK i \in DOMAIN Grouped[k] : y - 1 = Grouped[k][i]
  BY <1>6, <1>8 DEF ToSet
<1>10. ~(2 < i) /\ i # 2
  <2>1. 2 < i => y < y - 1
    BY <1>1, <1>9 DEF y, WellGrouped, ListsInOrder, Increasing
  <2>2. i = 2 => y = y - 1
    BY <1>9 DEF y
  <2>3. QED
    BY <1>7, <2>1, <2>2
<1>11. i = 1
  BY <1>2, <1>10
<1>12. QED
  BY <1>7, <1>9, <1>11 DEF x, y

\* A line is too short when the question it is in is.
LEMMA ShortQuestions ==
  ASSUME Pasting, NEW k \in DOMAIN Grouped, NEW m \in ToSet(Grouped[k])
  PROVE  TooShort(m) <=> ~LongEnough(Grouped[k])
<1> DEFINE N == Len(sheet)
           part == Grouped[k]
<1>1. WellGrouped(Grouped, N) /\ N \in Nat /\ DOMAIN sheet = 1..N
  BY LinesAreGrouped DEF Pasting
<1>2. part \in Seq(Nat) /\ DOMAIN part = 1..Len(part) /\ Len(part) \in Nat
  <2>1. part \in Seq(Nat)
    BY <1>1, SequencesHold DEF WellGrouped, Texts
  <2>2. QED
    BY <2>1, SequencesHold
<1>3. /\ part # <<>> /\ ~Continues(part[1])
      /\ \A i \in DOMAIN part : i > 1 => Continues(part[i])
      /\ LastOf(part) + 1 \in NonEmpty(N) => ~Continues(LastOf(part) + 1)
  BY <1>1 DEF WellGrouped, Begun
<1>4. Len(part) >= 1 /\ 1 \in DOMAIN part
  BY <1>2, <1>3
<1>5. PICK i \in DOMAIN part : m = part[i]
  BY DEF ToSet
<1>6. \A j \in DOMAIN part : part[j] \in NonEmpty(N)
  BY <1>1 DEF WellGrouped, ListsInOrder, ToSet
<1>7. Pasted = NonEmpty(N)
  BY <1>1 DEF Pasted, NonEmpty
<1>8. m \in 1..N /\ sheet[m] \in Marks /\ sheet[m] # "blank"
  <2>1. m \in NonEmpty(N)
    BY <1>5, <1>6
  <2>2. m \in 1..N /\ ~Empty(m)
    BY <2>1 DEF NonEmpty
  <2>3. sheet[m] \in Marks
    BY <2>2, SequencesHold DEF Pasting
  <2>4. QED
    BY <2>2, <2>3 DEF Empty
<1>9. 2 \in DOMAIN part => part[2] = part[1] + 1
  BY NextLineGoesOn
<1> HIDE DEF part, N
<1>10. ASSUME ~LongEnough(part) PROVE TooShort(m)
  <2>1. Len(part) = 1 /\ sheet[part[1]] \notin {"marked", "plain"}
    BY <1>2, <1>4, <1>10 DEF LongEnough
  <2>2. i = 1 /\ m = part[1] /\ m = LastOf(part)
    BY <1>2, <1>5, <2>1 DEF LastOf
  <2>3. QED
    BY <1>3, <1>7, <1>8, <2>1, <2>2 DEF TooShort, Marks
<1>11. ASSUME TooShort(m), LongEnough(part) PROVE FALSE
  <2>1. ~Continues(m) /\ sheet[m] \in {"short marked", "short plain"}
        /\ (m + 1 \in Pasted => ~Continues(m + 1))
    BY <1>11 DEF TooShort
  <2>2. i = 1
    <3>1. i \in 1..Len(part) /\ ~(i > 1)
      BY <1>2, <1>3, <1>5, <2>1
    <3>2. QED
      BY <1>2, <3>1
  <2>3. Len(part) > 1
    BY <1>5, <1>11, <2>1, <2>2 DEF LongEnough
  <2>4. 2 \in DOMAIN part
    BY <1>2, <2>3
  <2>5. Continues(part[2]) /\ part[2] \in NonEmpty(N) /\ part[2] = m + 1
    BY <1>3, <1>5, <1>6, <1>9, <2>2, <2>4
  <2>6. QED
    BY <1>7, <2>1, <2>5
<1>12. QED
  BY <1>10, <1>11 DEF part

\* The lines of the long ones among the first n questions.
LongUpTo(n) == UNION {ToSet(Grouped[k]) : k \in {j \in 1..n : LongEnough(Grouped[j])}}

\* The questions are the pasted lines that are not too short, each once and in
\* order.
LEMMA NothingIsLost ==
  ASSUME Pasting
  PROVE  Split \in Texts /\ ListsInOrder(Split, {n \in Pasted : ~TooShort(n)})
<1> DEFINE N == Len(Grouped)
<1>1. /\ WellGrouped(Grouped, Len(sheet)) /\ Grouped \in Texts
      /\ Len(sheet) \in Nat /\ DOMAIN sheet = 1..Len(sheet)
  BY LinesAreGrouped DEF Pasting, WellGrouped
<1>2. N \in Nat /\ DOMAIN Grouped = 1..N /\ \A k \in 1..N : Grouped[k] \in Seq(Nat)
  BY <1>1, SequencesHold DEF Texts
<1>3. PICK h : /\ h[0] = NoTexts /\ Split = h[Len(Grouped)]
               /\ \A n \in 0..Len(Grouped) : h[n] \in Texts
               /\ \A n \in 1..Len(Grouped) : h[n] = KeepLong(h[n - 1], Grouped[n])
  BY <1>1, QuestionsSplit
<1> DEFINE S == {n \in 0..N : ListsInOrder(h[n], LongUpTo(n))}
<1> HIDE DEF N
<1>4. 0 \in S
  <2>1. LongUpTo(0) = {}
    BY DEF LongUpTo
  <2>2. ListsInOrder(h[0], LongUpTo(0))
    BY <1>3, <2>1, NothingIsListed DEF NoTexts
  <2>3. QED
    BY <1>2, <2>2
<1>5. ASSUME NEW n \in 1..N, n - 1 \in S PROVE n \in S
  <2> DEFINE kept == h[n - 1]
             part == Grouped[n]
             more == Append(kept, part)
  <2>1. /\ ListsInOrder(kept, LongUpTo(n - 1)) /\ h[n] = KeepLong(kept, part) /\ kept \in Texts
        /\ n - 1 \in 0..N
    BY <1>2, <1>3, <1>5 DEF N
  <2>2. LongUpTo(n) = LongUpTo(n - 1) \cup (IF LongEnough(part) THEN ToSet(part) ELSE {})
    <3>1. 1..n = (1..(n - 1)) \cup {n}
      BY <1>2
    <3>2. QED
      BY <3>1 DEF LongUpTo
  <2>3. part \in Seq(Nat) /\ Increasing(part)
    BY <1>1, <1>2 DEF WellGrouped, ListsInOrder
  <2>4. \A x \in LongUpTo(n - 1), y \in ToSet(part) : x < y
    <3>1. ASSUME NEW x \in LongUpTo(n - 1), NEW y \in ToSet(part) PROVE x < y
      <4>1. PICK k \in 1..(n - 1) : x \in ToSet(Grouped[k])
        BY DEF LongUpTo
      <4>2. k \in DOMAIN Grouped /\ n \in DOMAIN Grouped /\ k < n
        BY <1>2, <4>1
      <4>3. QED
        BY <1>1, <4>1, <4>2 DEF WellGrouped, ListsInOrder
    <3>2. QED
      BY <3>1
  <2> HIDE DEF kept, part
  <2>5. CASE LongEnough(part)
    <3>1. h[n] = more
      BY <2>1, <2>5 DEF KeepLong
    <3>2. ListsInOrder(more, LongUpTo(n - 1) \cup ToSet(part))
      BY <2>1, <2>3, <2>4, PartIsListed
    <3> HIDE DEF more
    <3>3. ListsInOrder(h[n], LongUpTo(n))
      BY <2>2, <2>5, <3>1, <3>2
    <3>4. QED
      BY <3>3
  <2>6. CASE ~LongEnough(part)
    <3>1. h[n] = kept /\ LongUpTo(n) = LongUpTo(n - 1)
      BY <2>1, <2>2, <2>6 DEF KeepLong
    <3>2. QED
      BY <2>1, <3>1
  <2>7. QED
    BY <2>5, <2>6
<1>6. ListsInOrder(h[N], LongUpTo(N)) /\ h[N] \in Texts
  <2>1. N \in S
    <3> HIDE DEF S
    <3>1. 0..N \subseteq S
      BY <1>2, <1>4, <1>5, UpTo
    <3>2. QED
      BY <1>2, <3>1
  <2>2. QED
    BY <1>2, <1>3, <2>1 DEF N
<1>7. LongUpTo(N) = {n \in Pasted : ~TooShort(n)}
  <2>1. Pasted = NonEmpty(Len(sheet))
    BY <1>1 DEF Pasted, NonEmpty
  <2>2. \A x : x \in Pasted <=> \E k \in 1..N : x \in ToSet(Grouped[k])
    BY <1>1, <1>2, <2>1 DEF WellGrouped, ListsInOrder
  <2>3. \A k \in 1..N : \A x \in ToSet(Grouped[k]) : TooShort(x) <=> ~LongEnough(Grouped[k])
    BY <1>2, ShortQuestions
  <2>4. \A x : x \in LongUpTo(N) <=>
               \E k \in 1..N : LongEnough(Grouped[k]) /\ x \in ToSet(Grouped[k])
    BY DEF LongUpTo
  <2>5. \A x : x \in LongUpTo(N) <=> x \in Pasted /\ ~TooShort(x)
    BY <2>2, <2>3, <2>4
  <2>6. QED
    BY <2>5
<1>8. QED
  BY <1>3, <1>6, <1>7 DEF N

-----------------------------------------------------------------------------
\* The questions depend on what was pasted only.
LEMMA SplitStays ==
  ASSUME sheet' = sheet
  PROVE  /\ Split' = Split /\ Pasted' = Pasted
         /\ \A n : TooShort(n)' = TooShort(n)
<1>1. Grouped' = Grouped
  BY DEF Grouped, AddLine, Empty, Continues, HasMarkers, Marked, FoldLeftDomain, FoldLeft,
         MapThenFoldSet
<1>2. Split' = Split
  BY <1>1 DEF Split, KeepLong, LongEnough, FoldLeft, MapThenFoldSet
<1>3. Pasted' = Pasted
  BY DEF Pasted, Empty
<1>4. \A n : TooShort(n)' = TooShort(n)
  BY <1>3 DEF TooShort, Continues, HasMarkers, Marked, Empty
<1>5. QED
  BY <1>2, <1>3, <1>4

\* The answers with a status in T.
AnswersWith(T) == {k \in DOMAIN answers : answers[k].status \in T}

\* There are finitely many statuses.
LEMMA StatusesAreFinite == IsFiniteSet(Statuses)
<1>1. Statuses = {"satisfied", "partially_satisfied", "not_satisfied"}
                   \cup {"insufficient_evidence", "not_applicable"}
  BY DEF Statuses
<1>2. \A x, y : IsFiniteSet({x, y})
  <2>1. ASSUME NEW x, NEW y PROVE IsFiniteSet({x, y})
    <3>1. IsFiniteSet({x}) /\ IsFiniteSet({y}) /\ {x, y} = {x} \cup {y}
      BY FS_Singleton
    <3>2. QED
      BY <3>1, FS_Union
  <2>2. QED
    BY <2>1
<1>3. IsFiniteSet({"satisfied", "partially_satisfied", "not_satisfied"})
  <2>1. {"satisfied", "partially_satisfied", "not_satisfied"} =
          {"satisfied", "partially_satisfied"} \cup {"not_satisfied"}
    OBVIOUS
  <2>2. IsFiniteSet({"satisfied", "partially_satisfied"}) /\ IsFiniteSet({"not_satisfied"})
    BY <1>2, FS_Singleton
  <2>3. QED
    BY <2>1, <2>2, FS_Union
<1>4. QED
  BY <1>1, <1>2, <1>3, FS_Union

\* What the counts of a set of statuses add up to.
LEMMA CountsAddUp ==
  ASSUME Len(Split) \in Nat, DOMAIN answers = 1..Len(Split),
         \A k \in DOMAIN answers : answers[k].status \in Statuses, listed[1] = Counts
  PROVE  MapThenSumSet(LAMBDA s : listed[1][s], Statuses) = Len(Split)
<1> DEFINE n == Len(Split)
           counts == listed[1]
           Unfolds(g) == g = [T \in SUBSET Statuses |->
                                IF T = {} THEN 0
                                ELSE counts[CHOOSE x \in T : TRUE] + g[T \ {CHOOSE x \in T : TRUE}]]
           it == CHOOSE g : Unfolds(g)
           own == [T \in SUBSET Statuses |-> Cardinality(AnswersWith(T))]
<1>1. MapThenSumSet(LAMBDA s : listed[1][s], Statuses) = it[Statuses]
  BY Zenon DEF MapThenSumSet, MapThenFoldSet
<1>0. n \in Nat /\ DOMAIN answers = 1..n /\ counts = Counts
  OBVIOUS
<1> HIDE DEF n, counts
<1>2. \A T : IsFiniteSet(AnswersWith(T)) /\ Cardinality(AnswersWith(T)) \in Nat
  <2>1. IsFiniteSet(1..n) /\ Cardinality(1..n) \in Nat
    <3>1. 1 \in Int /\ n \in Int
      BY <1>0
    <3>2. QED
      BY <3>1, FS_Interval, FS_CardinalityType
  <2>2. \A T : AnswersWith(T) \subseteq 1..n
    BY <1>0 DEF AnswersWith
  <2>3. QED
    BY <2>1, <2>2, FS_Subset, FS_CardinalityType
<1>3. ASSUME NEW T \in SUBSET Statuses, T # {}
      PROVE  own[T] = counts[CHOOSE x \in T : TRUE] + own[T \ {CHOOSE x \in T : TRUE}]
  <2> DEFINE c == CHOOSE x \in T : TRUE
  <2>1. c \in T
    BY <1>3
  <2> HIDE DEF c
  <2>2. /\ AnswersWith(T) = AnswersWith({c}) \cup AnswersWith(T \ {c})
        /\ AnswersWith({c}) \cap AnswersWith(T \ {c}) = {}
    BY <2>1 DEF AnswersWith
  <2>3. Cardinality(AnswersWith(T)) =
          Cardinality(AnswersWith({c})) + Cardinality(AnswersWith(T \ {c}))
    <3>1. Cardinality(AnswersWith({c}) \cup AnswersWith(T \ {c})) =
            Cardinality(AnswersWith({c})) + Cardinality(AnswersWith(T \ {c}))
              - Cardinality(AnswersWith({c}) \cap AnswersWith(T \ {c}))
      BY <1>2, FS_Union
    <3>2. Cardinality({}) = 0
      BY FS_EmptySet
    <3>3. /\ Cardinality(AnswersWith({c})) \in Nat
          /\ Cardinality(AnswersWith(T \ {c})) \in Nat
      BY <1>2
    <3>4. Cardinality(AnswersWith(T)) =
            Cardinality(AnswersWith({c})) + Cardinality(AnswersWith(T \ {c})) - 0
      BY <2>2, <3>1, <3>2
    <3>5. QED
      BY <3>3, <3>4
  <2>4. counts[c] = Cardinality(AnswersWith({c}))
    <3>1. c \in Statuses
      BY <2>1
    <3>2. AnswersWith({c}) = {k \in DOMAIN answers : answers[k].status = c}
      BY DEF AnswersWith
    <3>3. QED
      BY <1>0, <3>1, <3>2 DEF Counts
  <2>5. T \ {c} \in SUBSET Statuses
    OBVIOUS
  <2>6. QED
    BY <2>3, <2>4, <2>5 DEF c
<1>4. own[{}] = 0
  <2>1. AnswersWith({}) = {}
    BY DEF AnswersWith
  <2>2. QED
    BY <2>1, FS_EmptySet
<1>5. own = [T \in SUBSET Statuses |-> own[T]]
  OBVIOUS
<1> HIDE DEF own
<1>6. Unfolds(own)
  BY <1>3, <1>4, <1>5
<1>7. Unfolds(it)
  <2> HIDE DEF Unfolds
  <2>1. QED
    BY <1>6
<1> HIDE DEF it
<1>8. /\ it[{}] = 0
      /\ \A T \in SUBSET Statuses :
           T # {} => it[T] = counts[CHOOSE x \in T : TRUE] + it[T \ {CHOOSE x \in T : TRUE}]
  BY <1>7
<1> HIDE DEF Unfolds
<1>9. \A T \in SUBSET Statuses : it[T] = own[T]
  <2> DEFINE Bad == {T \in SUBSET Statuses : it[T] # own[T]}
             Sizes == {Cardinality(T) : T \in Bad}
  <2>1. \A T \in SUBSET Statuses : IsFiniteSet(T) /\ Cardinality(T) \in Nat
    BY StatusesAreFinite, FS_Subset, FS_CardinalityType
  <2>2. SUFFICES ASSUME Bad # {} PROVE FALSE
    OBVIOUS
  <2>3. Sizes \subseteq Nat /\ Sizes # {}
    BY <2>1, <2>2
  <2>4. \E k \in Sizes : \A j \in Sizes : k <= j
    <3> HIDE DEF Sizes
    <3>1. QED
      BY <2>3, SetsHaveLeast
  <2>5. PICK T \in Bad : \A U \in Bad : Cardinality(T) <= Cardinality(U)
    BY <2>4
  <2>6. T # {}
    BY <1>4, <1>8, <2>5
  <2> DEFINE c == CHOOSE x \in T : TRUE
  <2>7. c \in T
    BY <2>6
  <2>8. it[T] = counts[c] + it[T \ {c}] /\ own[T] = counts[c] + own[T \ {c}]
    BY <1>3, <1>8, <2>5, <2>6
  <2> HIDE DEF c
  <2>9. Cardinality(T \ {c}) = Cardinality(T) - 1 /\ Cardinality(T) \in Nat
    BY <2>1, <2>5, <2>7, FS_RemoveElement
  <2>10. T \ {c} \notin Bad
    <3>1. ASSUME T \ {c} \in Bad PROVE FALSE
      <4>1. Cardinality(T) <= Cardinality(T \ {c})
        BY <2>5, <3>1
      <4>2. QED
        BY <2>9, <4>1
    <3>2. QED
      BY <3>1
  <2>11. it[T \ {c}] = own[T \ {c}]
    BY <2>5, <2>10
  <2>12. it[T] = own[T]
    BY <2>8, <2>11
  <2>13. QED
    BY <2>5, <2>12
<1>10. own[Statuses] = n
  <2>1. AnswersWith(Statuses) = 1..n
    BY <1>0 DEF AnswersWith
  <2>2. Cardinality(1..n) = n
    <3>1. 1 \in Int /\ n \in Int
      BY <1>0
    <3>2. Cardinality(1..n) = IF 1 > n THEN 0 ELSE n - 1 + 1
      BY <3>1, FS_Interval
    <3>3. QED
      BY <1>0, <3>2
  <2>3. QED
    BY <2>1, <2>2 DEF own
<1>11. QED
  BY <1>1, <1>9, <1>10 DEF n

-----------------------------------------------------------------------------
\* The steps of answer_questions, and what holds between them: the answers are
\* those of the first questions, in order, and are listed and exported only
\* when complete.
Steps == {"paste", "load", "embed", "answer", "store", "end"}

AnsweredInv ==
  /\ sheet \in Seq(Marks) /\ step \in Steps
  /\ answers \in Seq(ToSet(answers))
  /\ \A k \in DOMAIN answers :
       answers[k].question = Split[k] /\ answers[k].status \in Statuses
  /\ step \in {"paste", "load", "embed"} => answers = <<>>
  /\ step \in {"store", "end"} => Len(answers) = Len(Split)
  /\ step \notin {"store", "end"} => listed = <<>>
  /\ listed # <<>> => listed = <<Counts>>
  /\ step = "store" => listed # <<>>
  /\ exported # <<>> => step = "end" /\ exported = answers /\ listed # <<>>

\* The questions are lists of lines, finitely many.
LEMMA SplitHolds == Pasting => Split \in Texts /\ Len(Split) \in Nat
<1>1. Pasting => Split \in Texts
  BY NothingIsLost
<1>2. QED
  BY <1>1, SequencesHold DEF Texts

\* One more question is answered.
LEMMA AnswerIsAdded ==
  ASSUME AnsweredInv, step = "answer", NEW a, answers' = Append(answers, a),
         a.question = Split[Len(answers) + 1], a.status \in Statuses,
         UNCHANGED <<sheet, step, listed, exported>>
  PROVE  AnsweredInv'
<1> DEFINE S == ToSet(answers) \cup {a}
           N == Len(answers)
<1>0. answers \in Seq(ToSet(answers))
  BY DEF AnsweredInv
<1>1. answers \in Seq(S) /\ a \in S
  BY <1>0 DEF ToSet
<1> HIDE DEF S
<1>2. /\ answers' \in Seq(S) /\ N \in Nat /\ DOMAIN answers = 1..N
      /\ DOMAIN answers' = 1..(N + 1)
      /\ \A k \in 1..N : answers'[k] = answers[k]
      /\ answers'[N + 1] = a
  BY <1>1, SequencesGrow, SequencesHold
<1>3. answers' \in Seq(ToSet(answers'))
  <2>1. ToSet(answers') = {answers'[k] : k \in DOMAIN answers'}
    BY DEF ToSet
  <2>2. answers' \in Seq({answers'[k] : k \in DOMAIN answers'})
    BY <1>2
  <2>3. QED
    BY <2>1, <2>2
<1> HIDE DEF N
<1>4. Split' = Split
  BY SplitStays
<1>5. \A k \in DOMAIN answers' :
        answers'[k].question = Split[k] /\ answers'[k].status \in Statuses
  <2>1. ASSUME NEW k \in DOMAIN answers'
        PROVE  answers'[k].question = Split[k] /\ answers'[k].status \in Statuses
    <3>1. CASE k = N + 1
      BY <1>2, <3>1 DEF N
    <3>2. CASE k # N + 1
      <4>1. k \in DOMAIN answers /\ answers'[k] = answers[k]
        BY <1>2, <3>2
      <4>2. QED
        BY <4>1 DEF AnsweredInv
    <3>3. QED
      BY <3>1, <3>2
  <2>2. QED
    BY <2>1
<1>6. listed' = <<>> /\ exported' = <<>> /\ step' = "answer" /\ sheet' \in Seq(Marks)
  BY DEF AnsweredInv
<1>7. QED
  BY <1>3, <1>4, <1>5, <1>6 DEF AnsweredInv, Steps

\* A step that neither answers nor exports.
LEMMA NothingChanges ==
  ASSUME AnsweredInv, UNCHANGED <<sheet, answers, listed, exported>>,
         step' \in Steps, step' \in {"paste", "load", "embed"} => answers = <<>>,
         step' \in {"store", "end"} => Len(answers) = Len(Split),
         step' \notin {"store", "end"} => listed = <<>>,
         step' = "store" => listed # <<>>,
         exported # <<>> => step' = "end"
  PROVE  AnsweredInv'
<1>1. Split' = Split
  BY SplitStays
<1>2. Counts' = Counts
  BY DEF Counts
<1>3. QED
  BY <1>1, <1>2 DEF AnsweredInv

\* Every step of answer_questions keeps the invariant.
LEMMA AnsweredStep ==
  ASSUME AnsweredInv, [AnswersNext]_answerVars
  PROVE  AnsweredInv'
<1>1. ASSUME NEW kind \in Marks, WriteLine(kind) PROVE AnsweredInv'
  <2>1. answers = <<>> /\ listed = <<>> /\ exported = <<>> /\ step = "paste"
    BY <1>1 DEF WriteLine, AnsweredInv
  <2>2. sheet' \in Seq(Marks)
    BY <1>1 DEF WriteLine, AnsweredInv
  <2>3. answers' = <<>> /\ listed' = <<>> /\ exported' = <<>> /\ step' = "paste"
    BY <1>1, <2>1 DEF WriteLine
  <2>4. DOMAIN answers' = {} /\ answers' \in Seq(ToSet(answers'))
    BY <2>3
  <2>5. QED
    BY <2>2, <2>3, <2>4 DEF AnsweredInv, Steps
<1>2. CASE Submit
  <2>1. answers = <<>> /\ listed = <<>> /\ exported = <<>> /\ step = "paste"
    BY <1>2 DEF Submit, AnsweredInv
  <2>2. QED
    BY <1>2, <2>1, NothingChanges DEF Submit, Steps
<1>3. ASSUME NEW sections \in SUBSET Evidence, LoadSections(sections) PROVE AnsweredInv'
  <2>1. answers = <<>> /\ listed = <<>> /\ exported = <<>> /\ step = "load"
    BY <1>3 DEF LoadSections, AnsweredInv
  <2>2. QED
    BY <1>3, <2>1, NothingChanges DEF LoadSections, Steps
<1>4. CASE EmbedQuestions
  <2>1. answers = <<>> /\ listed = <<>> /\ exported = <<>> /\ step = "embed"
    BY <1>4 DEF EmbedQuestions, AnsweredInv
  <2>2. QED
    BY <1>4, <2>1, NothingChanges DEF EmbedQuestions, Steps
<1>5. ASSUME NEW retrieved \in SUBSET Evidence, NEW v \in Verdicts, AnswerQuestion(retrieved, v)
      PROVE  AnsweredInv'
  <2> DEFINE a == IF retrieved = {} THEN Insufficient(NextQuestion, "deterministic")
                  ELSE Validated(v, retrieved, NextQuestion)
  <2>1. a.question = NextQuestion /\ a.status \in Statuses
    <3>1. \A p : /\ Insufficient(NextQuestion, p).question = NextQuestion
                 /\ Insufficient(NextQuestion, p).status \in Statuses
      BY DEF Insufficient, Statuses
    <3>2. v.status \in Statuses
      BY VerdictsAssumption
    <3>3. /\ Validated(v, retrieved, NextQuestion).question = NextQuestion
          /\ Validated(v, retrieved, NextQuestion).status \in Statuses
      BY <3>1, <3>2 DEF Validated
    <3>4. QED
      BY <3>1, <3>3
  <2>2. /\ step = "answer" /\ answers' = Append(answers, a)
        /\ UNCHANGED <<sheet, step, listed, exported>>
    BY <1>5 DEF AnswerQuestion
  <2> HIDE DEF a
  <2>3. QED
    BY <2>1, <2>2, AnswerIsAdded DEF NextQuestion
<1>6. CASE FailQuestion
  <2> DEFINE a == Insufficient(NextQuestion, "deterministic")
  <2>1. a.question = NextQuestion /\ a.status \in Statuses
    BY DEF Insufficient, Statuses
  <2>2. /\ step = "answer" /\ answers' = Append(answers, a)
        /\ UNCHANGED <<sheet, step, listed, exported>>
    BY <1>6 DEF FailQuestion
  <2> HIDE DEF a
  <2>3. QED
    BY <2>1, <2>2, AnswerIsAdded DEF NextQuestion
<1>7. CASE StoreRun
  <2>1. /\ step = "answer" /\ Len(answers) = Len(Split) /\ UNCHANGED <<sheet, answers, exported>>
        /\ exported = <<>> /\ listed = <<>>
    BY <1>7 DEF StoreRun, AnsweredInv
  <2>2. \/ listed' = <<Counts>> /\ step' = "store"
        \/ step' = "end" /\ listed' = <<>>
    BY <1>7, <2>1 DEF StoreRun
  <2>3. Split' = Split
    BY <2>1, SplitStays
  <2>4. Counts' = Counts
    BY <2>1 DEF Counts
  <2>5. <<Counts>> # <<>>
    OBVIOUS
  <2>6. QED
    BY <2>1, <2>2, <2>3, <2>4, <2>5 DEF AnsweredInv, Steps
<1>8. CASE StoreAnswers
  <2>1. /\ step = "store" /\ step' = "end" /\ UNCHANGED <<sheet, answers, listed>>
        /\ listed # <<>> /\ exported = <<>>
    BY <1>8 DEF StoreAnswers, AnsweredInv
  <2>2. exported' = answers \/ exported' = <<>>
    BY <1>8, <2>1 DEF StoreAnswers
  <2>3. Split' = Split
    BY <2>1, SplitStays
  <2>4. Counts' = Counts
    BY <2>1 DEF Counts
  <2>5. QED
    BY <2>1, <2>2, <2>3, <2>4 DEF AnsweredInv, Steps
<1>9. CASE UNCHANGED answerVars
  <2>1. UNCHANGED <<sheet, answers, listed, exported>> /\ step' = step
    BY <1>9 DEF answerVars
  <2>2. QED
    BY <2>1, NothingChanges DEF AnsweredInv
<1>10. QED
  BY <1>1, <1>2, <1>3, <1>4, <1>5, <1>6, <1>7, <1>8, <1>9 DEF AnswersNext

\* The invariant says that the questionnaire is answered.
LEMMA AnsweredHolds ==
  ASSUME AnsweredInv
  PROVE  QuestionnaireIsAnswered
<1>1. Pasting
  BY DEF Pasting, AnsweredInv
<1>2. /\ answers \in Seq(ToSet(answers)) /\ DOMAIN answers = 1..Len(answers)
      /\ Len(answers) \in Nat
  <2>1. answers \in Seq(ToSet(answers))
    BY DEF AnsweredInv
  <2>2. QED
    BY <2>1, SequencesHold
<1>3. /\ Split \in Texts /\ DOMAIN Split = 1..Len(Split) /\ Len(Split) \in Nat
      /\ Split = [k \in 1..Len(Split) |-> Split[k]]
  <2>1. Split \in Seq(Seq(Nat))
    BY <1>1, SplitHolds DEF Texts
  <2>2. QED
    BY <2>1 DEF Texts
<1>4. ASSUME step \in {"store", "end"}
      PROVE  ListsInOrder([k \in DOMAIN answers |-> answers[k].question],
                          {n \in Pasted : ~TooShort(n)})
  <2>1. Len(answers) = Len(Split)
    BY <1>4 DEF AnsweredInv
  <2>2. [k \in DOMAIN answers |-> answers[k].question] = Split
    <3>1. \A k \in DOMAIN answers : answers[k].question = Split[k]
      BY DEF AnsweredInv
    <3>2. [k \in DOMAIN answers |-> answers[k].question] = [k \in 1..Len(Split) |-> Split[k]]
      BY <1>2, <2>1, <3>1
    <3>3. QED
      BY <1>3, <3>2
  <2>3. QED
    BY <1>1, <2>2, NothingIsLost
<1>5. ASSUME listed # <<>>
      PROVE  MapThenSumSet(LAMBDA s : listed[1][s], Statuses) = Len(Split)
  <2>1. listed = <<Counts>> /\ step \in {"store", "end"}
    BY <1>5 DEF AnsweredInv
  <2>2. Len(answers) = Len(Split) /\ \A k \in DOMAIN answers : answers[k].status \in Statuses
    BY <2>1 DEF AnsweredInv
  <2>3. listed[1] = Counts
    BY <2>1
  <2>4. QED
    BY <1>2, <1>3, <2>2, <2>3, CountsAddUp
<1>6. ASSUME exported # <<>>
      PROVE  /\ listed # <<>>
             /\ \A s \in Statuses :
                  listed[1][s] = Cardinality({k \in DOMAIN exported : exported[k].status = s})
  <2>1. exported = answers /\ listed = <<Counts>> /\ listed # <<>>
    BY <1>6 DEF AnsweredInv
  <2>2. listed[1] = Counts
    BY <2>1
  <2>3. QED
    BY <2>1, <2>2 DEF Counts
<1>7. QED
  BY <1>4, <1>5, <1>6 DEF QuestionnaireIsAnswered, StoredRunsAddUp

(***************************************************************************)
(* compliance_corpus.py, for any pasted text, evidence and verdicts: every *)
(* question gets one answer, in order, no line that is not too short is    *)
(* lost, and the counts and the export are those of the answers.           *)
(***************************************************************************)
THEOREM QuestionnaireIsAnsweredAlways == AnswersSpec => []QuestionnaireIsAnswered
<1>1. AnswersInit => AnsweredInv
  <2> SUFFICES ASSUME AnswersInit PROVE AnsweredInv
    OBVIOUS
  <2>1. /\ sheet \in Seq(Marks) /\ answers = <<>> /\ listed = <<>> /\ exported = <<>>
        /\ step = "paste" /\ DOMAIN answers = {} /\ answers \in Seq(ToSet(answers))
    BY DEF AnswersInit
  <2>2. QED
    BY <2>1 DEF AnsweredInv, Steps
<1>2. AnsweredInv /\ [AnswersNext]_answerVars => AnsweredInv'
  BY AnsweredStep
<1>3. AnsweredInv => QuestionnaireIsAnswered
  BY AnsweredHolds
<1>4. QED
  BY <1>1, <1>2, <1>3, PTL DEF AnswersSpec

-----------------------------------------------------------------------------
(***************************************************************************)
(* The text of a file (DocumentText).                                      *)
(***************************************************************************)
\* Where the folds over a file begin, and what they make.
NoLines == <<>>
NoSections == <<>>
SectionSet == [heading : Nat, content : Seq(Nat)]
LineReadings == [sections : Seq(SectionSet), heading : Nat, content : Seq(Nat)]
Filed == file \in Seq(Paragraphs)

\* Lines stay lines.
LEMMA LinesStayLines ==
  ASSUME NEW lines \in Seq(Nat), NEW k \in Nat
  PROVE  KeepLine(lines, k) \in Seq(Nat)
BY SequencesGrow DEF KeepLine

\* What is read of the lines stays a reading.
LEMMA ReadingsStayReadings ==
  ASSUME Lines \in Seq(Nat), NEW read \in LineReadings
  PROVE  /\ Close(read) \in Seq(SectionSet)
         /\ \A n \in 1..Len(Lines) : ReadLine(read, n) \in LineReadings
<1>1. /\ read.sections \in Seq(SectionSet) /\ read.heading \in Nat /\ read.content \in Seq(Nat)
  BY DEF LineReadings
<1>2. Close(read) \in Seq(SectionSet)
  <2>1. [heading |-> read.heading, content |-> read.content] \in SectionSet
    BY <1>1 DEF SectionSet
  <2>2. QED
    BY <1>1, <2>1, SequencesGrow DEF Close
<1>3. ASSUME NEW n \in 1..Len(Lines) PROVE ReadLine(read, n) \in LineReadings
  <2>1. Lines[n] \in Nat
    BY SequencesHold
  <2>2. <<>> \in Seq(Nat) /\ Append(read.content, Lines[n]) \in Seq(Nat)
    BY <1>1, <2>1, SequencesGrow
  <2>3. CASE IsHeading(n)
    <3>1. ReadLine(read, n) = [sections |-> Close(read), heading |-> Lines[n], content |-> <<>>]
      BY <2>3 DEF ReadLine
    <3>2. QED
      BY <1>2, <2>1, <2>2, <3>1 DEF LineReadings
  <2>4. CASE ~IsHeading(n) /\ (read.heading = 0 \/ Blank(Lines[n]))
    BY <2>4 DEF ReadLine
  <2>5. CASE ~IsHeading(n) /\ ~(read.heading = 0 \/ Blank(Lines[n]))
    <3>1. ReadLine(read, n) = [read EXCEPT !.content = Append(@, Lines[n])]
      BY <2>5 DEF ReadLine
    <3>2. QED
      BY <2>2, <3>1 DEF LineReadings
  <2>6. QED
    BY <2>3, <2>4, <2>5
<1>4. QED
  BY <1>2, <1>3

\* Sections stay sections.
LEMMA SectionsStaySections ==
  ASSUME NEW kept \in Seq(SectionSet), NEW section \in SectionSet
  PROVE  KeepSection(kept, section) \in Seq(SectionSet)
BY SequencesGrow DEF KeepSection

\* Stretches stay lists of lines.
LEMMA StretchesStayTexts ==
  ASSUME Lines \in Seq(Nat), NEW stretches \in Texts, NEW n \in 1..Len(Lines)
  PROVE  AddToStretches(stretches, n) \in Texts
<1>1. Lines[n] \in Nat
  BY SequencesHold
<1>2. Append(stretches, <<Lines[n]>>) \in Texts
  <2>1. <<Lines[n]>> \in Seq(Nat)
    BY <1>1
  <2>2. QED
    BY <2>1, SequencesGrow DEF Texts
<1>3. [stretches EXCEPT ![Len(stretches)] = Append(@, Lines[n])] \in Texts
  <2>1. CASE stretches = <<>>
    <3>1. [stretches EXCEPT ![Len(stretches)] = Append(@, Lines[n])] = <<>>
      BY <2>1
    <3>2. QED
      BY <2>1, <3>1
  <2>2. CASE stretches # <<>>
    <3>1. Len(stretches) \in 1..Len(stretches)
      BY <2>2 DEF Texts
    <3>2. stretches[Len(stretches)] \in Seq(Nat)
      BY <3>1 DEF Texts
    <3>3. Append(stretches[Len(stretches)], Lines[n]) \in Seq(Nat)
      BY <1>1, <3>2, SequencesGrow
    <3>4. QED
      BY <3>1, <3>3, SequencesChange DEF Texts
  <2>3. QED
    BY <2>1, <2>2
<1>4. QED
  BY <1>2, <1>3 DEF AddToStretches

\* Parts stay lists of lines.
LEMMA PartsStayTexts ==
  ASSUME NEW parts \in Texts, NEW stretch \in Seq(Nat)
  PROVE  Pack(parts, stretch) \in Texts
<1>1. Append(parts, stretch) \in Texts
  BY SequencesGrow DEF Texts
<1>2. ASSUME parts # <<>>
      PROVE  [parts EXCEPT ![Len(parts)] = @ \o stretch] \in Texts
  <2>1. Len(parts) \in 1..Len(parts)
    BY <1>2 DEF Texts
  <2>2. parts[Len(parts)] \in Seq(Nat)
    BY <2>1 DEF Texts
  <2>3. parts[Len(parts)] \o stretch \in Seq(Nat)
    BY <2>2
  <2>4. QED
    BY <2>1, <2>3, SequencesChange DEF Texts
<1>3. QED
  BY <1>1, <1>2 DEF Pack

\* _extract_text_docx keeps the lines one after the other.
LEMMA LinesFolded ==
  ASSUME Filed
  PROVE  \E h : /\ h[0] = NoLines /\ Lines = h[Len(file)]
                /\ \A n \in 0..Len(file) : h[n] \in Seq(Nat)
                /\ \A n \in 1..Len(file) : h[n] = KeepLine(h[n - 1], n)
<1> DEFINE N == Len(file)
           places == [i \in DOMAIN file |-> i]
           Unfolds(g) == g = [s \in SUBSET (DOMAIN places) |->
                                IF s = {} THEN NoLines
                                ELSE KeepLine(g[s \ {Max(s)}], places[Max(s)])]
           it == CHOOSE g : Unfolds(g)
           F == [x \in Seq(Nat) \X (1..N) |-> KeepLine(x[1], x[2])]
<1>1. Lines = it[DOMAIN places]
  BY Zenon DEF Lines, NoLines, FoldLeftDomain, FoldLeft, MapThenFoldSet
<1>2. N \in Nat /\ DOMAIN places = 1..N /\ \A n \in 1..N : places[n] = n
  BY DEF Filed
<1>3. NoLines \in Seq(Nat)
  BY DEF NoLines
<1>4. F \in [Seq(Nat) \X (1..N) -> Seq(Nat)]
  BY LinesStayLines
<1> HIDE DEF N, places, F
<1>5. PICK g : IsFold(g, Seq(Nat), NoLines, N, F)
  BY <1>2, <1>3, <1>4, FoldExists
<1>6. Unfolds(g)
  <2>1. ASSUME NEW s \in SUBSET (1..N), s # {}
        PROVE  g[s] = KeepLine(g[s \ {Max(s)}], places[Max(s)])
    <3>1. Max(s) \in s
      BY <1>2, <2>1, GreatestExists
    <3>2. places[Max(s)] = Max(s) /\ <<g[s \ {Max(s)}], Max(s)>> \in Seq(Nat) \X (1..N)
      BY <1>2, <1>5, <3>1 DEF IsFold
    <3>3. QED
      BY <1>5, <2>1, <3>2 DEF F, IsFold
  <2>2. QED
    BY <1>2, <1>5, <2>1 DEF IsFold
<1>7. Unfolds(it)
  <2> HIDE DEF Unfolds
  <2>1. QED
    BY <1>6
<1> HIDE DEF it
<1>8. it[{}] = NoLines
  BY <1>7
<1>9. Iterates(it, Seq(Nat), NoLines, N, F)
  <2>1. ASSUME NEW n \in 1..N, it[1..(n - 1)] \in Seq(Nat)
        PROVE  it[1..n] = F[<<it[1..(n - 1)], n>>]
    <3>1. 1..n \in SUBSET (DOMAIN places) /\ n \in Nat \ {0}
      BY <1>2
    <3>2. Max(1..n) = n /\ (1..n) \ {n} = 1..(n - 1) /\ 1..n # {} /\ places[n] = n
      BY <1>2, <3>1, MaxOfPrefix
    <3>3. it[1..n] = KeepLine(it[(1..n) \ {Max(1..n)}], places[Max(1..n)])
      BY <1>7, <3>1, <3>2
    <3>4. <<it[1..(n - 1)], n>> \in Seq(Nat) \X (1..N)
      BY <2>1
    <3>5. QED
      BY <3>2, <3>3, <3>4 DEF F
  <2>2. QED
    BY <1>8, <2>1 DEF Iterates
<1>10. PICK h : IsPrefixFold(h, Seq(Nat), NoLines, N, F) /\ h[N] = it[1..N]
  <2>1. FoldsTo(it, Seq(Nat), NoLines, N, F)
    BY <1>2, <1>3, <1>4, <1>9, PrefixesFold
  <2>2. QED
    BY <2>1 DEF FoldsTo
<1>11. ASSUME NEW n \in 1..N PROVE h[n] = KeepLine(h[n - 1], n)
  <2>1. n - 1 \in 0..N
    BY <1>2
  <2>2. <<h[n - 1], n>> \in Seq(Nat) \X (1..N)
    BY <1>10, <2>1 DEF IsPrefixFold
  <2>3. QED
    BY <1>10, <2>2 DEF IsPrefixFold, F
<1>12. QED
  BY <1>1, <1>2, <1>10, <1>11 DEF N, IsPrefixFold

\* split_sections reads the lines one after the other.
LEMMA ReadingsFolded ==
  ASSUME Lines \in Seq(Nat)
  PROVE  \E h : /\ h[0] = NoLineRead /\ SectionsRead = Close(h[Len(Lines)])
                /\ \A n \in 0..Len(Lines) : h[n] \in LineReadings
                /\ \A n \in 1..Len(Lines) : h[n] = ReadLine(h[n - 1], n)
<1> DEFINE N == Len(Lines)
           places == [i \in DOMAIN Lines |-> i]
           Unfolds(g) == g = [s \in SUBSET (DOMAIN places) |->
                                IF s = {} THEN NoLineRead
                                ELSE ReadLine(g[s \ {Max(s)}], places[Max(s)])]
           it == CHOOSE g : Unfolds(g)
           F == [x \in LineReadings \X (1..N) |-> ReadLine(x[1], x[2])]
<1>1. SectionsRead = Close(it[DOMAIN places])
  BY Zenon DEF SectionsRead, FoldLeftDomain, FoldLeft, MapThenFoldSet
<1>2. N \in Nat /\ DOMAIN places = 1..N /\ \A n \in 1..N : places[n] = n
  BY SequencesHold
<1>3. NoLineRead \in LineReadings
  BY DEF NoLineRead, LineReadings
<1>4. F \in [LineReadings \X (1..N) -> LineReadings]
  BY ReadingsStayReadings
<1> HIDE DEF N, places, F
<1>5. PICK g : IsFold(g, LineReadings, NoLineRead, N, F)
  BY <1>2, <1>3, <1>4, FoldExists
<1>6. Unfolds(g)
  <2>1. ASSUME NEW s \in SUBSET (1..N), s # {}
        PROVE  g[s] = ReadLine(g[s \ {Max(s)}], places[Max(s)])
    <3>1. Max(s) \in s
      BY <1>2, <2>1, GreatestExists
    <3>2. places[Max(s)] = Max(s) /\ <<g[s \ {Max(s)}], Max(s)>> \in LineReadings \X (1..N)
      BY <1>2, <1>5, <3>1 DEF IsFold
    <3>3. QED
      BY <1>5, <2>1, <3>2 DEF F, IsFold
  <2>2. QED
    BY <1>2, <1>5, <2>1 DEF IsFold
<1>7. Unfolds(it)
  <2> HIDE DEF Unfolds
  <2>1. QED
    BY <1>6
<1> HIDE DEF it
<1>8. it[{}] = NoLineRead
  BY <1>7
<1>9. Iterates(it, LineReadings, NoLineRead, N, F)
  <2>1. ASSUME NEW n \in 1..N, it[1..(n - 1)] \in LineReadings
        PROVE  it[1..n] = F[<<it[1..(n - 1)], n>>]
    <3>1. 1..n \in SUBSET (DOMAIN places) /\ n \in Nat \ {0}
      BY <1>2
    <3>2. Max(1..n) = n /\ (1..n) \ {n} = 1..(n - 1) /\ 1..n # {} /\ places[n] = n
      BY <1>2, <3>1, MaxOfPrefix
    <3>3. it[1..n] = ReadLine(it[(1..n) \ {Max(1..n)}], places[Max(1..n)])
      BY <1>7, <3>1, <3>2
    <3>4. <<it[1..(n - 1)], n>> \in LineReadings \X (1..N)
      BY <2>1
    <3>5. QED
      BY <3>2, <3>3, <3>4 DEF F
  <2>2. QED
    BY <1>8, <2>1 DEF Iterates
<1>10. PICK h : IsPrefixFold(h, LineReadings, NoLineRead, N, F) /\ h[N] = it[1..N]
  <2>1. FoldsTo(it, LineReadings, NoLineRead, N, F)
    BY <1>2, <1>3, <1>4, <1>9, PrefixesFold
  <2>2. QED
    BY <2>1 DEF FoldsTo
<1>11. ASSUME NEW n \in 1..N PROVE h[n] = ReadLine(h[n - 1], n)
  <2>1. n - 1 \in 0..N
    BY <1>2
  <2>2. <<h[n - 1], n>> \in LineReadings \X (1..N)
    BY <1>10, <2>1 DEF IsPrefixFold
  <2>3. QED
    BY <1>10, <2>2 DEF IsPrefixFold, F
<1>12. QED
  BY <1>1, <1>2, <1>10, <1>11 DEF N, IsPrefixFold

\* split_sections drops the empty sections, one after the other.
LEMMA HeadedFolded ==
  ASSUME SectionsRead \in Seq(SectionSet)
  PROVE  \E h : /\ h[0] = NoSections /\ Headed = h[Len(SectionsRead)]
                /\ \A n \in 0..Len(SectionsRead) : h[n] \in Seq(SectionSet)
                /\ \A n \in 1..Len(SectionsRead) : h[n] = KeepSection(h[n - 1], SectionsRead[n])
<1> DEFINE N == Len(SectionsRead)
           places == SectionsRead
           Unfolds(g) == g = [s \in SUBSET (DOMAIN places) |->
                                IF s = {} THEN NoSections
                                ELSE KeepSection(g[s \ {Max(s)}], places[Max(s)])]
           it == CHOOSE g : Unfolds(g)
           F == [x \in Seq(SectionSet) \X (1..N) |-> KeepSection(x[1], places[x[2]])]
<1>1. Headed = it[DOMAIN places]
  BY Zenon DEF Headed, NoSections, FoldLeft, MapThenFoldSet
<1>2. N \in Nat /\ DOMAIN places = 1..N /\ \A n \in 1..N : places[n] \in SectionSet
  BY SequencesHold
<1>3. NoSections \in Seq(SectionSet)
  BY DEF NoSections
<1>4. F \in [Seq(SectionSet) \X (1..N) -> Seq(SectionSet)]
  BY <1>2, SectionsStaySections
<1> HIDE DEF N, places, F
<1>5. PICK g : IsFold(g, Seq(SectionSet), NoSections, N, F)
  BY <1>2, <1>3, <1>4, FoldExists
<1>6. Unfolds(g)
  <2>1. ASSUME NEW s \in SUBSET (1..N), s # {}
        PROVE  g[s] = KeepSection(g[s \ {Max(s)}], places[Max(s)])
    <3>1. Max(s) \in s
      BY <1>2, <2>1, GreatestExists
    <3>2. Max(s) \in 1..N /\ <<g[s \ {Max(s)}], Max(s)>> \in Seq(SectionSet) \X (1..N)
      BY <1>2, <1>5, <3>1 DEF IsFold
    <3>3. QED
      BY <1>5, <2>1, <3>2 DEF F, IsFold
  <2>2. QED
    BY <1>2, <1>5, <2>1 DEF IsFold
<1>7. Unfolds(it)
  <2> HIDE DEF Unfolds
  <2>1. QED
    BY <1>6
<1> HIDE DEF it
<1>8. it[{}] = NoSections
  BY <1>7
<1>9. Iterates(it, Seq(SectionSet), NoSections, N, F)
  <2>1. ASSUME NEW n \in 1..N, it[1..(n - 1)] \in Seq(SectionSet)
        PROVE  it[1..n] = F[<<it[1..(n - 1)], n>>]
    <3>1. 1..n \in SUBSET (DOMAIN places) /\ n \in Nat \ {0}
      BY <1>2
    <3>2. Max(1..n) = n /\ (1..n) \ {n} = 1..(n - 1) /\ 1..n # {}
      BY <1>2, <3>1, MaxOfPrefix
    <3>3. it[1..n] = KeepSection(it[(1..n) \ {Max(1..n)}], places[Max(1..n)])
      BY <1>7, <3>1, <3>2
    <3>4. <<it[1..(n - 1)], n>> \in Seq(SectionSet) \X (1..N)
      BY <2>1
    <3>5. QED
      BY <3>2, <3>3, <3>4 DEF F
  <2>2. QED
    BY <1>8, <2>1 DEF Iterates
<1>10. PICK h : IsPrefixFold(h, Seq(SectionSet), NoSections, N, F) /\ h[N] = it[1..N]
  <2>1. FoldsTo(it, Seq(SectionSet), NoSections, N, F)
    BY <1>2, <1>3, <1>4, <1>9, PrefixesFold
  <2>2. QED
    BY <2>1 DEF FoldsTo
<1>11. ASSUME NEW n \in 1..N PROVE h[n] = KeepSection(h[n - 1], places[n])
  <2>1. n - 1 \in 0..N
    BY <1>2
  <2>2. <<h[n - 1], n>> \in Seq(SectionSet) \X (1..N)
    BY <1>10, <2>1 DEF IsPrefixFold
  <2>3. QED
    BY <1>10, <2>2 DEF IsPrefixFold, F
<1>12. QED
  BY <1>1, <1>2, <1>10, <1>11 DEF N, places, IsPrefixFold

\* _chunk_unsectioned_text divides the lines one after the other.
LEMMA StretchesFolded ==
  ASSUME Lines \in Seq(Nat)
  PROVE  \E h : /\ h[0] = NoTexts /\ Stretches = h[Len(Lines)]
                /\ \A n \in 0..Len(Lines) : h[n] \in Texts
                /\ \A n \in 1..Len(Lines) : h[n] = AddToStretches(h[n - 1], n)
<1> DEFINE N == Len(Lines)
           places == [i \in DOMAIN Lines |-> i]
           Unfolds(g) == g = [s \in SUBSET (DOMAIN places) |->
                                IF s = {} THEN NoTexts
                                ELSE AddToStretches(g[s \ {Max(s)}], places[Max(s)])]
           it == CHOOSE g : Unfolds(g)
           F == [x \in Texts \X (1..N) |-> AddToStretches(x[1], x[2])]
<1>1. Stretches = it[DOMAIN places]
  BY Zenon DEF Stretches, NoTexts, FoldLeftDomain, FoldLeft, MapThenFoldSet
<1>2. N \in Nat /\ DOMAIN places = 1..N /\ \A n \in 1..N : places[n] = n
  BY SequencesHold
<1>3. NoTexts \in Texts
  BY DEF Texts, NoTexts
<1>4. F \in [Texts \X (1..N) -> Texts]
  BY StretchesStayTexts
<1> HIDE DEF N, places, F
<1>5. PICK g : IsFold(g, Texts, NoTexts, N, F)
  BY <1>2, <1>3, <1>4, FoldExists
<1>6. Unfolds(g)
  <2>1. ASSUME NEW s \in SUBSET (1..N), s # {}
        PROVE  g[s] = AddToStretches(g[s \ {Max(s)}], places[Max(s)])
    <3>1. Max(s) \in s
      BY <1>2, <2>1, GreatestExists
    <3>2. places[Max(s)] = Max(s) /\ <<g[s \ {Max(s)}], Max(s)>> \in Texts \X (1..N)
      BY <1>2, <1>5, <3>1 DEF IsFold
    <3>3. QED
      BY <1>5, <2>1, <3>2 DEF F, IsFold
  <2>2. QED
    BY <1>2, <1>5, <2>1 DEF IsFold
<1>7. Unfolds(it)
  <2> HIDE DEF Unfolds
  <2>1. QED
    BY <1>6
<1> HIDE DEF it
<1>8. it[{}] = NoTexts
  BY <1>7
<1>9. Iterates(it, Texts, NoTexts, N, F)
  <2>1. ASSUME NEW n \in 1..N, it[1..(n - 1)] \in Texts
        PROVE  it[1..n] = F[<<it[1..(n - 1)], n>>]
    <3>1. 1..n \in SUBSET (DOMAIN places) /\ n \in Nat \ {0}
      BY <1>2
    <3>2. Max(1..n) = n /\ (1..n) \ {n} = 1..(n - 1) /\ 1..n # {} /\ places[n] = n
      BY <1>2, <3>1, MaxOfPrefix
    <3>3. it[1..n] = AddToStretches(it[(1..n) \ {Max(1..n)}], places[Max(1..n)])
      BY <1>7, <3>1, <3>2
    <3>4. <<it[1..(n - 1)], n>> \in Texts \X (1..N)
      BY <2>1
    <3>5. QED
      BY <3>2, <3>3, <3>4 DEF F
  <2>2. QED
    BY <1>8, <2>1 DEF Iterates
<1>10. PICK h : IsPrefixFold(h, Texts, NoTexts, N, F) /\ h[N] = it[1..N]
  <2>1. FoldsTo(it, Texts, NoTexts, N, F)
    BY <1>2, <1>3, <1>4, <1>9, PrefixesFold
  <2>2. QED
    BY <2>1 DEF FoldsTo
<1>11. ASSUME NEW n \in 1..N PROVE h[n] = AddToStretches(h[n - 1], n)
  <2>1. n - 1 \in 0..N
    BY <1>2
  <2>2. <<h[n - 1], n>> \in Texts \X (1..N)
    BY <1>10, <2>1 DEF IsPrefixFold
  <2>3. QED
    BY <1>10, <2>2 DEF IsPrefixFold, F
<1>12. QED
  BY <1>1, <1>2, <1>10, <1>11 DEF N, IsPrefixFold

\* _chunk_unsectioned_text packs the stretches one after the other.
LEMMA PartsFolded ==
  ASSUME Stretches \in Texts
  PROVE  \E h : /\ h[0] = NoTexts /\ Packed = h[Len(Stretches)]
                /\ \A n \in 0..Len(Stretches) : h[n] \in Texts
                /\ \A n \in 1..Len(Stretches) : h[n] = Pack(h[n - 1], Stretches[n])
<1> DEFINE N == Len(Stretches)
           places == Stretches
           Unfolds(g) == g = [s \in SUBSET (DOMAIN places) |->
                                IF s = {} THEN NoTexts
                                ELSE Pack(g[s \ {Max(s)}], places[Max(s)])]
           it == CHOOSE g : Unfolds(g)
           F == [x \in Texts \X (1..N) |-> Pack(x[1], places[x[2]])]
<1>1. Packed = it[DOMAIN places]
  BY Zenon DEF Packed, NoTexts, FoldLeft, MapThenFoldSet
<1>2. N \in Nat /\ DOMAIN places = 1..N /\ \A n \in 1..N : places[n] \in Seq(Nat)
  BY SequencesHold DEF Texts
<1>3. NoTexts \in Texts
  BY DEF Texts, NoTexts
<1>4. F \in [Texts \X (1..N) -> Texts]
  BY <1>2, PartsStayTexts
<1> HIDE DEF N, places, F
<1>5. PICK g : IsFold(g, Texts, NoTexts, N, F)
  BY <1>2, <1>3, <1>4, FoldExists
<1>6. Unfolds(g)
  <2>1. ASSUME NEW s \in SUBSET (1..N), s # {}
        PROVE  g[s] = Pack(g[s \ {Max(s)}], places[Max(s)])
    <3>1. Max(s) \in s
      BY <1>2, <2>1, GreatestExists
    <3>2. Max(s) \in 1..N /\ <<g[s \ {Max(s)}], Max(s)>> \in Texts \X (1..N)
      BY <1>2, <1>5, <3>1 DEF IsFold
    <3>3. QED
      BY <1>5, <2>1, <3>2 DEF F, IsFold
  <2>2. QED
    BY <1>2, <1>5, <2>1 DEF IsFold
<1>7. Unfolds(it)
  <2> HIDE DEF Unfolds
  <2>1. QED
    BY <1>6
<1> HIDE DEF it
<1>8. it[{}] = NoTexts
  BY <1>7
<1>9. Iterates(it, Texts, NoTexts, N, F)
  <2>1. ASSUME NEW n \in 1..N, it[1..(n - 1)] \in Texts
        PROVE  it[1..n] = F[<<it[1..(n - 1)], n>>]
    <3>1. 1..n \in SUBSET (DOMAIN places) /\ n \in Nat \ {0}
      BY <1>2
    <3>2. Max(1..n) = n /\ (1..n) \ {n} = 1..(n - 1) /\ 1..n # {}
      BY <1>2, <3>1, MaxOfPrefix
    <3>3. it[1..n] = Pack(it[(1..n) \ {Max(1..n)}], places[Max(1..n)])
      BY <1>7, <3>1, <3>2
    <3>4. <<it[1..(n - 1)], n>> \in Texts \X (1..N)
      BY <2>1
    <3>5. QED
      BY <3>2, <3>3, <3>4 DEF F
  <2>2. QED
    BY <1>8, <2>1 DEF Iterates
<1>10. PICK h : IsPrefixFold(h, Texts, NoTexts, N, F) /\ h[N] = it[1..N]
  <2>1. FoldsTo(it, Texts, NoTexts, N, F)
    BY <1>2, <1>3, <1>4, <1>9, PrefixesFold
  <2>2. QED
    BY <2>1 DEF FoldsTo
<1>11. ASSUME NEW n \in 1..N PROVE h[n] = Pack(h[n - 1], places[n])
  <2>1. n - 1 \in 0..N
    BY <1>2
  <2>2. <<h[n - 1], n>> \in Texts \X (1..N)
    BY <1>10, <2>1 DEF IsPrefixFold
  <2>3. QED
    BY <1>10, <2>2 DEF IsPrefixFold, F
<1>12. QED
  BY <1>1, <1>2, <1>10, <1>11 DEF N, places, IsPrefixFold

-----------------------------------------------------------------------------
\* ToSet of the first n lines.
FirstLines(n) == {Lines[m] : m \in 1..n}

\* The lines are the paragraphs that stay, in order.
LEMMA LinesAreKept ==
  ASSUME Filed
  PROVE  /\ Lines \in Seq(Nat) /\ Increasing(Lines)
         /\ ToSet(Lines) = {k \in DOMAIN file : Stays(k)}
<1>1. PICK h : /\ h[0] = NoLines /\ Lines = h[Len(file)]
               /\ \A n \in 0..Len(file) : h[n] \in Seq(Nat)
               /\ \A n \in 1..Len(file) : h[n] = KeepLine(h[n - 1], n)
  BY LinesFolded
<1> DEFINE N == Len(file)
           S == {n \in 0..N : Increasing(h[n]) /\ ToSet(h[n]) = {k \in 1..n : Stays(k)}}
<1>2. N \in Nat /\ DOMAIN file = 1..N
  BY SequencesHold DEF Filed
<1>3. 0 \in S
  <2>1. h[0] = <<>> /\ DOMAIN h[0] = {}
    BY <1>1 DEF NoLines
  <2>2. Increasing(h[0]) /\ ToSet(h[0]) = {}
    BY <2>1 DEF Increasing, ToSet
  <2>3. QED
    BY <1>2, <2>2
<1>4. ASSUME NEW n \in 1..N, n - 1 \in S PROVE n \in S
  <2> DEFINE q == h[n - 1]
             more == Append(q, n)
  <2>1. /\ q \in Seq(Nat) /\ Increasing(q) /\ ToSet(q) = {k \in 1..(n - 1) : Stays(k)}
        /\ h[n] = KeepLine(q, n) /\ n \in Nat
    BY <1>1, <1>2, <1>4
  <2> HIDE DEF q
  <2>2. CASE Stays(n)
    <3>1. h[n] = more
      BY <2>1, <2>2 DEF KeepLine
    <3>2. \A x \in ToSet(q) : x < n
      BY <2>1
    <3>3. Increasing(more) /\ ToSet(more) = ToSet(q) \cup {n}
      BY <2>1, <3>2, LinesGrow
    <3>4. {k \in 1..n : Stays(k)} = {k \in 1..(n - 1) : Stays(k)} \cup {n}
      BY <2>1, <2>2
    <3> HIDE DEF more
    <3>5. QED
      BY <2>1, <3>1, <3>3, <3>4
  <2>3. CASE ~Stays(n)
    <3>1. h[n] = q
      BY <2>1, <2>3 DEF KeepLine
    <3>2. {k \in 1..n : Stays(k)} = {k \in 1..(n - 1) : Stays(k)}
      BY <2>1, <2>3
    <3>3. QED
      BY <2>1, <3>1, <3>2
  <2>4. QED
    BY <2>2, <2>3
<1>5. N \in S
  <2> HIDE DEF S
  <2>1. 0..N \subseteq S
    BY <1>2, <1>3, <1>4, UpTo
  <2>2. QED
    BY <1>2, <2>1
<1>6. QED
  BY <1>1, <1>2, <1>5

\* A heading is not blank.
LEMMA HeadingsAreNotBlank ==
  ASSUME NEW n, IsHeading(n)
  PROVE  ~Blank(Lines[n])
BY DEF IsHeading, LooksLike, Blank

\* Of the lines, in order, the first n and the one after them.
LEMMA FirstLinesGrow ==
  ASSUME Filed, NEW n \in 1..Len(Lines)
  PROVE  /\ FirstLines(n) = FirstLines(n - 1) \cup {Lines[n]}
         /\ \A x \in FirstLines(n - 1) : x < Lines[n] /\ x \in Nat
         /\ Lines[n] \in Nat /\ Lines[n] # 0
<1>1. Lines \in Seq(Nat) /\ Increasing(Lines) /\ ToSet(Lines) = {k \in DOMAIN file : Stays(k)}
  BY LinesAreKept
<1>2. /\ Len(Lines) \in Nat /\ DOMAIN Lines = 1..Len(Lines)
      /\ \A m \in 1..Len(Lines) : Lines[m] \in Nat
  BY <1>1, SequencesHold
<1>3. n \in Nat /\ 1..n = (1..(n - 1)) \cup {n}
  BY <1>2
<1>4. FirstLines(n) = FirstLines(n - 1) \cup {Lines[n]}
  BY <1>3 DEF FirstLines
<1>5. \A m \in 1..(n - 1) : Lines[m] < Lines[n] /\ Lines[m] \in Nat
  BY <1>1, <1>2 DEF Increasing
<1>6. Lines[n] # 0
  <2>1. Lines[n] \in DOMAIN file
    BY <1>1, <1>2 DEF ToSet
  <2>2. DOMAIN file = 1..Len(file) /\ Len(file) \in Nat
    BY SequencesHold DEF Filed
  <2>3. QED
    BY <2>1, <2>2
<1>7. QED
  BY <1>2, <1>4, <1>5, <1>6 DEF FirstLines

\* What of the prose is in the first n lines.
ProseUpTo(n) == {k \in FirstLines(n) : ~Blank(k)}

\* No paragraph that says something is left out of the lines.
LEMMA ProseIsRead ==
  ASSUME Filed
  PROVE  /\ ToSet(Lines) = FirstLines(Len(Lines)) /\ Len(Lines) \in Nat
         /\ ProseUpTo(Len(Lines)) = Prose
<1>1. Lines \in Seq(Nat) /\ ToSet(Lines) = {k \in DOMAIN file : Stays(k)}
  BY LinesAreKept
<1>2. ToSet(Lines) = FirstLines(Len(Lines)) /\ Len(Lines) \in Nat
  BY <1>1, SequencesHold DEF ToSet, FirstLines
<1>3. \A k \in DOMAIN file : ~Blank(k) => Stays(k)
  BY DEF Stays
<1>4. QED
  BY <1>1, <1>2, <1>3 DEF ProseUpTo, Prose

\* The stretches are the prose, each line once and in order.
LEMMA StretchesAreWhole ==
  ASSUME Filed
  PROVE  Stretches \in Texts /\ ListsInOrder(Stretches, Prose)
<1>1. Lines \in Seq(Nat)
  BY LinesAreKept
<1>2. PICK h : /\ h[0] = NoTexts /\ Stretches = h[Len(Lines)]
               /\ \A n \in 0..Len(Lines) : h[n] \in Texts
               /\ \A n \in 1..Len(Lines) : h[n] = AddToStretches(h[n - 1], n)
  BY <1>1, StretchesFolded
<1> DEFINE N == Len(Lines)
           Whole(q, n) == /\ ListsInOrder(q, ProseUpTo(n))
                          /\ n >= 1 /\ ~Blank(Lines[n]) => q # <<>>
           S == {n \in 0..N : Whole(h[n], n)}
<1>3. N \in Nat
  BY ProseIsRead
<1>4. 0 \in S
  <2>1. ProseUpTo(0) = {} /\ h[0] = <<>>
    BY <1>2 DEF ProseUpTo, FirstLines, NoTexts
  <2>2. ListsInOrder(h[0], ProseUpTo(0))
    BY <2>1, NothingIsListed
  <2>3. QED
    BY <1>3, <2>2
<1>5. ASSUME NEW n \in 1..N, n - 1 \in S PROVE n \in S
  <2> DEFINE q == h[n - 1]
             v == Lines[n]
  <2>1. q \in Texts /\ Whole(q, n - 1) /\ h[n] = AddToStretches(q, n) /\ n \in Nat /\ n - 1 \in Nat
    BY <1>2, <1>3, <1>5
  <2>2. /\ ProseUpTo(n) = ProseUpTo(n - 1) \cup (IF Blank(v) THEN {} ELSE {v})
        /\ \A x \in ProseUpTo(n - 1) : x < v
        /\ v \in Nat
    BY FirstLinesGrow DEF ProseUpTo
  <2>3. n - 1 >= 1 \/ n = 1
    BY <1>3
  <2> HIDE DEF q
  <2>4. CASE Blank(v)
    <3>1. h[n] = q
      BY <2>1, <2>4 DEF AddToStretches
    <3>2. ProseUpTo(n) = ProseUpTo(n - 1)
      BY <2>2, <2>4
    <3>3. Whole(q, n)
      BY <2>1, <2>4, <3>2
    <3>4. QED
      BY <3>1, <3>3
  <2>5. CASE ~Blank(v) /\ (n = 1 \/ Blank(Lines[n - 1]))
    <3> DEFINE one == <<v>>
               more == Append(q, one)
    <3>1. h[n] = more
      BY <2>1, <2>5 DEF AddToStretches
    <3>2. one \in Seq(Nat) /\ DOMAIN one = 1..1 /\ one[1] = v
      BY <2>2
    <3> HIDE DEF one, v
    <3>3. ToSet(one) = {v} /\ Increasing(one)
      BY <3>2 DEF ToSet, Increasing
    <3>4. \A x \in ProseUpTo(n - 1), y \in ToSet(one) : x < y
      BY <2>2, <3>3
    <3>5. ListsInOrder(more, ProseUpTo(n - 1) \cup ToSet(one))
      BY <2>1, <3>2, <3>3, <3>4, PartIsListed
    <3>6. more # <<>>
      <4>1. DOMAIN more = 1..(Len(q) + 1) /\ Len(q) \in Nat
        BY <2>1, <3>2, SequencesGrow, SequencesHold DEF Texts
      <4>2. Len(q) + 1 \in DOMAIN more /\ DOMAIN <<>> = {}
        BY <4>1
      <4>3. QED
        BY <4>2
    <3> HIDE DEF more
    <3>7. Whole(more, n)
      BY <2>2, <2>5, <3>3, <3>5, <3>6
    <3>8. QED
      BY <3>1, <3>7
  <2>6. CASE ~Blank(v) /\ ~(n = 1 \/ Blank(Lines[n - 1]))
    <3> DEFINE N0 == Len(q)
               lines == q[N0]
               longer == Append(lines, v)
               more == [q EXCEPT ![Len(q)] = longer]
    <3>1. h[n] = more
      BY <2>1, <2>6 DEF AddToStretches
    <3>2. q # <<>>
      BY <2>1, <2>3, <2>6
    <3>3. N0 \in 1..N0 /\ N0 \in DOMAIN q
      BY <2>1, <3>2 DEF Texts
    <3>4. lines \in Seq(Nat) /\ Increasing(lines) /\ ToSet(lines) \subseteq ProseUpTo(n - 1)
      BY <2>1, <3>3, SequencesHold DEF Texts, ListsInOrder
    <3>5. \A x \in ToSet(lines) : x < v
      BY <2>2, <3>4
    <3> HIDE DEF v, lines
    <3>6. /\ longer \in Seq(Nat) /\ Increasing(longer)
          /\ ToSet(longer) = ToSet(lines) \cup {v}
      BY <2>2, <3>4, <3>5, LinesGrow
    <3> HIDE DEF longer
    <3>7. ToSet(longer) = ToSet(q[Len(q)]) \cup {v}
      BY <3>6 DEF lines
    <3>8. \A x \in ProseUpTo(n - 1), y \in {v} : x < y
      BY <2>2
    <3>9. ListsInOrder(more, ProseUpTo(n - 1) \cup {v})
      BY <2>1, <3>2, <3>6, <3>7, <3>8, LastPartGrows
    <3>10. more # <<>>
      <4>1. DOMAIN more = DOMAIN q /\ DOMAIN <<>> = {}
        OBVIOUS
      <4>2. QED
        BY <3>3, <4>1
    <3> HIDE DEF more
    <3>11. Whole(more, n)
      BY <2>2, <2>6, <3>9, <3>10
    <3>12. QED
      BY <3>1, <3>11
  <2>7. QED
    BY <2>4, <2>5, <2>6
<1>6. N \in S
  <2> HIDE DEF S
  <2>1. 0..N \subseteq S
    BY <1>3, <1>4, <1>5, UpTo
  <2>2. QED
    BY <1>3, <2>1
<1>7. ListsInOrder(h[N], ProseUpTo(N)) /\ h[N] \in Texts
  BY <1>2, <1>3, <1>6
<1>8. QED
  BY <1>2, <1>7, ProseIsRead

\* The lines of the first n stretches.
StretchesUpTo(n) == UNION {ToSet(Stretches[k]) : k \in 1..n}

\* The parts are the prose, however much fits in one of them.
LEMMA PartsAreWhole ==
  ASSUME Filed
  PROVE  Packed \in Texts /\ ListsInOrder(Packed, Prose)
<1>1. Stretches \in Texts /\ ListsInOrder(Stretches, Prose)
  BY StretchesAreWhole
<1>2. PICK h : /\ h[0] = NoTexts /\ Packed = h[Len(Stretches)]
               /\ \A n \in 0..Len(Stretches) : h[n] \in Texts
               /\ \A n \in 1..Len(Stretches) : h[n] = Pack(h[n - 1], Stretches[n])
  BY <1>1, PartsFolded
<1> DEFINE N == Len(Stretches)
           S == {n \in 0..N : ListsInOrder(h[n], StretchesUpTo(n))}
<1>3. N \in Nat /\ DOMAIN Stretches = 1..N /\ \A k \in 1..N : Stretches[k] \in Seq(Nat)
  BY <1>1, SequencesHold DEF Texts
<1>4. 0 \in S
  <2>1. StretchesUpTo(0) = {} /\ h[0] = <<>>
    BY <1>2 DEF StretchesUpTo, NoTexts
  <2>2. ListsInOrder(h[0], StretchesUpTo(0))
    BY <2>1, NothingIsListed
  <2>3. QED
    BY <1>3, <2>2
<1>5. ASSUME NEW n \in 1..N, n - 1 \in S PROVE n \in S
  <2> DEFINE q == h[n - 1]
             stretch == Stretches[n]
  <2>1. /\ q \in Texts /\ ListsInOrder(q, StretchesUpTo(n - 1)) /\ h[n] = Pack(q, stretch)
    BY <1>2, <1>3, <1>5
  <2>2. StretchesUpTo(n) = StretchesUpTo(n - 1) \cup ToSet(stretch)
    <3>1. 1..n = (1..(n - 1)) \cup {n}
      BY <1>3
    <3>2. QED
      BY <3>1 DEF StretchesUpTo
  <2>3. stretch \in Seq(Nat) /\ Increasing(stretch)
    BY <1>1, <1>3 DEF ListsInOrder
  <2>4. \A x \in StretchesUpTo(n - 1), y \in ToSet(stretch) : x < y
    <3>1. ASSUME NEW x \in StretchesUpTo(n - 1), NEW y \in ToSet(stretch) PROVE x < y
      <4>1. PICK k \in 1..(n - 1) : x \in ToSet(Stretches[k])
        BY DEF StretchesUpTo
      <4>2. k \in DOMAIN Stretches /\ n \in DOMAIN Stretches /\ k < n
        BY <1>3, <4>1
      <4>3. QED
        BY <1>1, <4>1, <4>2 DEF ListsInOrder
    <3>2. QED
      BY <3>1
  <2> HIDE DEF q, stretch
  <2> DEFINE lines == q[Len(q)]
             longer == lines \o stretch
             joined == [q EXCEPT ![Len(q)] = longer]
             more == Append(q, stretch)
  <2>5. \/ h[n] = more
        \/ q # <<>> /\ h[n] = joined
    BY <2>1 DEF Pack
  <2>6. ListsInOrder(more, StretchesUpTo(n - 1) \cup ToSet(stretch))
    BY <2>1, <2>3, <2>4, PartIsListed
  <2>7. ASSUME q # <<>> PROVE ListsInOrder(joined, StretchesUpTo(n - 1) \cup ToSet(stretch))
    <3>1. Len(q) \in DOMAIN q
      BY <2>1, <2>7 DEF Texts
    <3>2. lines \in Seq(Nat) /\ Increasing(lines) /\ ToSet(lines) \subseteq StretchesUpTo(n - 1)
      BY <2>1, <3>1, SequencesHold DEF Texts, ListsInOrder
    <3>3. \A x \in ToSet(lines), y \in ToSet(stretch) : x < y
      BY <2>4, <3>2
    <3> HIDE DEF lines
    <3>4. /\ longer \in Seq(Nat) /\ Increasing(longer)
          /\ ToSet(longer) = ToSet(lines) \cup ToSet(stretch)
      BY <2>3, <3>2, <3>3, LinesJoin
    <3> HIDE DEF longer
    <3>5. ToSet(longer) = ToSet(q[Len(q)]) \cup ToSet(stretch)
      BY <3>4 DEF lines
    <3>6. QED
      BY <2>1, <2>4, <2>7, <3>4, <3>5, LastPartGrows
  <2> HIDE DEF joined, more
  <2>8. ListsInOrder(h[n], StretchesUpTo(n))
    BY <2>2, <2>5, <2>6, <2>7
  <2>9. QED
    BY <2>8
<1>6. N \in S
  <2> HIDE DEF S
  <2>1. 0..N \subseteq S
    BY <1>3, <1>4, <1>5, UpTo
  <2>2. QED
    BY <1>3, <2>1
<1>7. ListsInOrder(h[N], StretchesUpTo(N)) /\ h[N] \in Texts
  BY <1>2, <1>3, <1>6
<1>8. StretchesUpTo(N) = Prose
  BY <1>1, <1>3 DEF StretchesUpTo, ListsInOrder
<1>9. QED
  BY <1>2, <1>7, <1>8

-----------------------------------------------------------------------------
Contents(sections) == [n \in DOMAIN sections |-> sections[n].content]

\* The contents of the sections, with one more section.
LEMMA ContentsGrow ==
  ASSUME NEW sections \in Seq(SectionSet), NEW section \in SectionSet
  PROVE  /\ Contents(sections) \in Texts
         /\ Contents(Append(sections, section)) = Append(Contents(sections), section.content)
<1> DEFINE N == Len(sections)
           more == Append(sections, section)
<1>1. /\ N \in Nat /\ DOMAIN sections = 1..N /\ \A n \in 1..N : sections[n] \in SectionSet
      /\ DOMAIN more = 1..(N + 1) /\ \A n \in 1..N : more[n] = sections[n]
      /\ more[N + 1] = section
  BY SequencesHold, SequencesGrow
<1> HIDE DEF more, N
<1>2. \A s \in SectionSet : s.content \in Seq(Nat)
  BY DEF SectionSet
<1>3. Contents(sections) = [n \in 1..N |-> sections[n].content]
  BY <1>1 DEF Contents
<1>4. Contents(sections) \in [1..N -> Seq(Nat)]
  BY <1>1, <1>2, <1>3
<1>5. Contents(sections) \in Texts /\ Len(Contents(sections)) = N
  BY <1>1, <1>3, <1>4 DEF Texts
<1>6. Contents(more) = [n \in 1..(N + 1) |-> more[n].content]
  BY <1>1 DEF Contents
<1> DEFINE longer == Append(Contents(sections), section.content)
<1>7. /\ longer \in Texts /\ DOMAIN longer = 1..(N + 1)
      /\ \A n \in 1..N : longer[n] = Contents(sections)[n]
      /\ longer[N + 1] = section.content
  BY <1>2, <1>5, SequencesGrow DEF Texts
<1>8. longer = [n \in 1..(N + 1) |-> longer[n]]
  <2>1. longer \in Seq(Seq(Nat)) /\ Len(longer) = N + 1
    BY <1>2, <1>5, SequencesGrow DEF Texts
  <2> HIDE DEF longer
  <2>2. longer = [n \in 1..Len(longer) |-> longer[n]]
    BY <2>1
  <2>3. QED
    BY <2>1, <2>2
<1> HIDE DEF longer
<1>9. \A n \in 1..(N + 1) : longer[n] = more[n].content
  <2>1. ASSUME NEW n \in 1..(N + 1) PROVE longer[n] = more[n].content
    <3>1. n \in 1..N \/ n = N + 1
      BY <1>1
    <3>2. QED
      BY <1>1, <1>3, <1>7, <3>1
  <2>2. QED
    BY <2>1
<1>10. longer = Contents(more)
  BY <1>6, <1>8, <1>9
<1>11. QED
  BY <1>5, <1>10 DEF more, longer

\* The text of a document whose headings are h, and of its first lines.
BodyUpTo(n) == Body \cap FirstLines(n)
HeadedBy(section) == \A k \in ToSet(section.content) : section.heading = Max(Headings(k))

\* What has been read of the first n lines: the body so far, each line under
\* its heading, and the last heading.
WellRead(read, n) ==
  /\ read \in LineReadings
  /\ ListsInOrder(Contents(Close(read)), BodyUpTo(n))
  /\ \A k \in DOMAIN Close(read) : HeadedBy(Close(read)[k])
  /\ IF HeadingLines \cap FirstLines(n) = {} THEN read.heading = 0
     ELSE read.heading # 0 /\ read.heading = Max(HeadingLines \cap FirstLines(n))

\* What a line is, told from the lines before it.
LEMMA LineBelongs ==
  ASSUME Filed, NEW n \in 1..Len(Lines)
  PROVE  /\ Headings(Lines[n]) = HeadingLines \cap FirstLines(n - 1)
         /\ IsHeading(n) <=> Lines[n] \in HeadingLines
         /\ Lines[n] \in Body <=>
              /\ ~Blank(Lines[n]) /\ ~IsHeading(n)
              /\ HeadingLines \cap FirstLines(n - 1) # {}
<1>1. Lines \in Seq(Nat) /\ Increasing(Lines) /\ ToSet(Lines) = {k \in DOMAIN file : Stays(k)}
  BY LinesAreKept
<1>2. /\ Len(Lines) \in Nat /\ DOMAIN Lines = 1..Len(Lines)
      /\ \A m \in 1..Len(Lines) : Lines[m] \in Nat /\ Lines[m] \in DOMAIN file
  BY <1>1, SequencesHold DEF ToSet
<1>3. \A m \in 1..Len(Lines) : Lines[m] < Lines[n] <=> m < n
  <2>1. ASSUME NEW m \in 1..Len(Lines) PROVE Lines[m] < Lines[n] <=> m < n
    <3>1. m < n => Lines[m] < Lines[n]
      BY <1>1, <1>2 DEF Increasing
    <3>2. n < m => Lines[n] < Lines[m]
      BY <1>1, <1>2 DEF Increasing
    <3>3. Lines[m] \in Nat /\ Lines[n] \in Nat /\ m \in Nat /\ n \in Nat
      BY <1>2
    <3>4. QED
      BY <3>1, <3>2, <3>3
  <2>2. QED
    BY <2>1
<1>4. Headings(Lines[n]) = HeadingLines \cap FirstLines(n - 1)
  <2>1. \A m \in 1..Len(Lines) : m \in 1..(n - 1) <=> m < n
    BY <1>2
  <2>2. \A m \in 1..(n - 1) : m \in 1..Len(Lines)
    BY <1>2
  <2>3. \A x \in HeadingLines : \E m \in 1..Len(Lines) : x = Lines[m]
    BY <1>2 DEF HeadingLines
  <2>4. ASSUME NEW x \in Headings(Lines[n]) PROVE x \in FirstLines(n - 1)
    <3>1. PICK m \in 1..Len(Lines) : x = Lines[m]
      BY <2>3 DEF Headings
    <3>2. m < n
      BY <1>3, <3>1 DEF Headings
    <3>3. QED
      BY <2>1, <3>1, <3>2 DEF FirstLines
  <2>5. ASSUME NEW x \in HeadingLines \cap FirstLines(n - 1) PROVE x < Lines[n]
    <3>1. PICK m \in 1..(n - 1) : x = Lines[m]
      BY DEF FirstLines
    <3>2. QED
      BY <1>3, <2>1, <2>2, <3>1
  <2>6. QED
    BY <2>4, <2>5 DEF Headings
<1>5. IsHeading(n) <=> Lines[n] \in HeadingLines
  <2>1. IsHeading(n) => Lines[n] \in HeadingLines
    BY <1>2 DEF HeadingLines
  <2>2. ASSUME Lines[n] \in HeadingLines PROVE IsHeading(n)
    <3>1. PICK m \in 1..Len(Lines) : IsHeading(m) /\ Lines[m] = Lines[n]
      BY <1>2, <2>2 DEF HeadingLines
    <3>2. ~(m < n) /\ ~(n < m)
      <4>1. ~(m < n)
        BY <1>2, <1>3, <3>1
      <4>2. n < m => Lines[n] < Lines[m]
        BY <1>1, <1>2 DEF Increasing
      <4>3. Lines[n] \in Nat
        BY <1>2
      <4>4. QED
        BY <3>1, <4>1, <4>2, <4>3
    <3>3. m \in Nat /\ n \in Nat
      BY <1>2
    <3>4. m = n
      BY <3>2, <3>3
    <3>5. QED
      BY <3>1, <3>4
  <2>3. QED
    BY <2>1, <2>2
<1>6. QED
  BY <1>2, <1>4, <1>5 DEF Body, Prose

-----------------------------------------------------------------------------
\* One more section under the right heading.
LEMMA SectionsGrow ==
  ASSUME NEW sections \in Seq(SectionSet), NEW section \in SectionSet,
         \A k \in DOMAIN sections : HeadedBy(sections[k]), HeadedBy(section)
  PROVE  \A k \in DOMAIN Append(sections, section) : HeadedBy(Append(sections, section)[k])
<1> DEFINE N == Len(sections)
           more == Append(sections, section)
<1>1. /\ N \in Nat /\ DOMAIN sections = 1..N
      /\ DOMAIN more = 1..(N + 1) /\ \A n \in 1..N : more[n] = sections[n]
      /\ more[N + 1] = section
  BY SequencesHold, SequencesGrow
<1> HIDE DEF more, N
<1>2. ASSUME NEW k \in DOMAIN more PROVE HeadedBy(more[k])
  <2>1. k \in 1..N \/ k = N + 1
    BY <1>1
  <2>2. QED
    BY <1>1, <2>1
<1>3. QED
  BY <1>2 DEF more

\* A heading closes the section before and opens one.
LEMMA HeadingIsRead ==
  ASSUME Filed, NEW n \in 1..Len(Lines), NEW read, WellRead(read, n - 1), IsHeading(n)
  PROVE  WellRead(ReadLine(read, n), n)
<1> DEFINE v == Lines[n]
           sections == Close(read)
           next == [sections |-> sections, heading |-> v, content |-> <<>>]
           open == [heading |-> v, content |-> <<>>]
<1>1. ReadLine(read, n) = next
  BY DEF ReadLine
<1>2. /\ FirstLines(n) = FirstLines(n - 1) \cup {v}
      /\ \A x \in FirstLines(n - 1) : x < v /\ x \in Nat
      /\ v \in Nat /\ v # 0
  BY FirstLinesGrow
<1>3. Lines \in Seq(Nat) /\ read \in LineReadings
  BY LinesAreKept DEF WellRead
<1>4. sections \in Seq(SectionSet)
  BY <1>3, ReadingsStayReadings
<1>5. open \in SectionSet /\ next \in LineReadings
  BY <1>2, <1>4 DEF SectionSet, LineReadings
<1>6. Close(next) = Append(sections, open)
  BY <1>2 DEF Close
<1>7. v \in HeadingLines /\ v \notin Body
  BY LineBelongs
<1>8. BodyUpTo(n) = BodyUpTo(n - 1)
  BY <1>2, <1>7 DEF BodyUpTo
<1>9. ToSet(open.content) = {} /\ open.content \in Seq(Nat) /\ Increasing(open.content)
  <2>1. open.content = <<>> /\ DOMAIN open.content = {}
    OBVIOUS
  <2>2. QED
    BY <2>1 DEF ToSet, Increasing
<1>10. /\ ListsInOrder(Contents(sections), BodyUpTo(n - 1))
       /\ \A k \in DOMAIN sections : HeadedBy(sections[k])
  BY DEF WellRead
<1> HIDE DEF sections, open, next, v
<1>11. ListsInOrder(Contents(Close(next)), BodyUpTo(n))
  <2>1. /\ Contents(sections) \in Texts
        /\ Contents(Append(sections, open)) = Append(Contents(sections), open.content)
    BY <1>4, <1>5, ContentsGrow
  <2> DEFINE nothing == open.content
  <2> HIDE DEF nothing
  <2>2. /\ ToSet(nothing) = {} /\ nothing \in Seq(Nat) /\ Increasing(nothing)
        /\ \A x \in BodyUpTo(n - 1), y \in ToSet(nothing) : x < y
    BY <1>9 DEF nothing
  <2>3. ListsInOrder(Append(Contents(sections), nothing), BodyUpTo(n - 1) \cup ToSet(nothing))
    BY <1>10, <2>1, <2>2, PartIsListed
  <2>4. BodyUpTo(n - 1) \cup ToSet(nothing) = BodyUpTo(n)
    BY <1>8, <2>2
  <2>5. QED
    BY <1>6, <2>1, <2>3, <2>4 DEF nothing
<1>12. \A k \in DOMAIN Close(next) : HeadedBy(Close(next)[k])
  <2>1. HeadedBy(open)
    BY <1>9 DEF HeadedBy
  <2>2. QED
    BY <1>4, <1>5, <1>6, <1>10, <2>1, SectionsGrow
<1>13. next.heading = v
  BY DEF next
<1>14. HeadingLines \cap FirstLines(n) # {} /\ Max(HeadingLines \cap FirstLines(n)) = v
  <2> DEFINE heads == HeadingLines \cap FirstLines(n)
  <2>1. v \in heads /\ heads \subseteq Int /\ \A y \in heads : y <= v
    BY <1>2, <1>7
  <2> HIDE DEF heads
  <2>2. Max(heads) = v
    BY <2>1, GreatestIs
  <2>3. QED
    BY <2>1, <2>2 DEF heads
<1>15. WellRead(next, n)
  BY <1>2, <1>5, <1>11, <1>12, <1>13, <1>14 DEF WellRead
<1>16. QED
  BY <1>1, <1>15

\* A blank line, or one before the first heading, changes nothing.
LEMMA LineIsSkipped ==
  ASSUME Filed, NEW n \in 1..Len(Lines), NEW read, WellRead(read, n - 1), ~IsHeading(n),
         read.heading = 0 \/ Blank(Lines[n])
  PROVE  WellRead(ReadLine(read, n), n)
<1>1. ReadLine(read, n) = read
  BY DEF ReadLine
<1>2. FirstLines(n) = FirstLines(n - 1) \cup {Lines[n]}
  BY FirstLinesGrow
<1>3. Lines[n] \notin HeadingLines
  BY LineBelongs
<1>4. HeadingLines \cap FirstLines(n) = HeadingLines \cap FirstLines(n - 1)
  BY <1>2, <1>3
<1>5. Lines[n] \notin Body
  <2>1. read.heading = 0 => HeadingLines \cap FirstLines(n - 1) = {}
    BY DEF WellRead
  <2>2. QED
    BY <2>1, LineBelongs
<1>6. BodyUpTo(n) = BodyUpTo(n - 1)
  BY <1>2, <1>5 DEF BodyUpTo
<1>7. WellRead(read, n)
  BY <1>4, <1>6 DEF WellRead
<1>8. QED
  BY <1>1, <1>7

\* A sequence whose last member is replaced.
LEMMA LastIsReplaced ==
  ASSUME NEW S, NEW seq \in Seq(S), NEW x \in S, NEW y \in S
  PROVE  [Append(seq, x) EXCEPT ![Len(Append(seq, x))] = y] = Append(seq, y)
<1> DEFINE N == Len(seq)
           one == Append(seq, x)
           other == Append(seq, y)
<1>1. /\ N \in Nat /\ one \in Seq(S) /\ Len(one) = N + 1 /\ DOMAIN one = 1..(N + 1)
      /\ \A n \in 1..N : one[n] = seq[n]
  BY SequencesGrow
<1>2. /\ other \in Seq(S) /\ Len(other) = N + 1 /\ DOMAIN other = 1..(N + 1)
      /\ \A n \in 1..N : other[n] = seq[n]
      /\ other[N + 1] = y
  BY SequencesGrow
<1>3. other = [n \in 1..(N + 1) |-> other[n]]
  <2> HIDE DEF other
  <2>1. other = [n \in 1..Len(other) |-> other[n]]
    BY <1>2
  <2>2. QED
    BY <1>2, <2>1
<1> HIDE DEF one, other, N
<1>4. [one EXCEPT ![Len(one)] = y] = [n \in 1..(N + 1) |-> IF n = N + 1 THEN y ELSE one[n]]
  BY <1>1
<1>5. \A n \in 1..(N + 1) : other[n] = IF n = N + 1 THEN y ELSE one[n]
  <2>1. ASSUME NEW n \in 1..(N + 1) PROVE other[n] = IF n = N + 1 THEN y ELSE one[n]
    <3>1. n = N + 1 \/ (n # N + 1 /\ n \in 1..N)
      BY <1>1
    <3>2. QED
      BY <1>1, <1>2, <3>1
  <2>2. QED
    BY <2>1
<1>6. QED
  BY <1>3, <1>4, <1>5 DEF one, other

\* Any other line goes to the section that is open.
LEMMA LineIsAdded ==
  ASSUME Filed, NEW n \in 1..Len(Lines), NEW read, WellRead(read, n - 1), ~IsHeading(n),
         read.heading # 0, ~Blank(Lines[n])
  PROVE  WellRead(ReadLine(read, n), n)
<1> DEFINE v == Lines[n]
           content == read.content
           longer == Append(content, v)
           next == [read EXCEPT !.content = longer]
           sections == read.sections
           open == [heading |-> read.heading, content |-> content]
           wider == [heading |-> read.heading, content |-> longer]
<1>1. ReadLine(read, n) = next
  BY DEF ReadLine
<1>2. /\ FirstLines(n) = FirstLines(n - 1) \cup {v}
      /\ \A x \in FirstLines(n - 1) : x < v /\ x \in Nat
      /\ v \in Nat /\ v # 0
  BY FirstLinesGrow
<1>3. /\ read \in LineReadings /\ sections \in Seq(SectionSet) /\ read.heading \in Nat
      /\ content \in Seq(Nat)
  BY DEF WellRead, LineReadings
<1>4. longer \in Seq(Nat)
  BY <1>2, <1>3, SequencesGrow
<1>5. /\ open \in SectionSet /\ wider \in SectionSet
      /\ open.content = content /\ wider.content = longer
      /\ open.heading = read.heading /\ wider.heading = read.heading
  BY <1>3, <1>4 DEF SectionSet
<1>6. Close(read) = Append(sections, open)
  BY DEF Close
<1>7. /\ next \in LineReadings /\ next.heading = read.heading /\ next.content = longer
      /\ next.sections = sections
  BY <1>3, <1>4 DEF LineReadings
<1>8. Close(next) = Append(sections, wider)
  <2> HIDE DEF next, longer
  <2>1. QED
    BY <1>7 DEF Close
<1>9. /\ Headings(v) = HeadingLines \cap FirstLines(n - 1) /\ v \notin HeadingLines
      /\ HeadingLines \cap FirstLines(n - 1) # {} /\ v \in Body
      /\ read.heading = Max(Headings(v))
  <2>1. Headings(v) = HeadingLines \cap FirstLines(n - 1) /\ v \notin HeadingLines
    BY LineBelongs
  <2>2. HeadingLines \cap FirstLines(n - 1) # {}
    BY DEF WellRead
  <2>3. v \in Body
    BY <2>2, LineBelongs
  <2>4. read.heading = Max(HeadingLines \cap FirstLines(n - 1))
    BY <2>2 DEF WellRead
  <2>5. QED
    BY <2>1, <2>2, <2>3, <2>4
<1>10. BodyUpTo(n) = BodyUpTo(n - 1) \cup {v} /\ \A x \in BodyUpTo(n - 1) : x < v
  BY <1>2, <1>9 DEF BodyUpTo
<1>11. /\ ListsInOrder(Contents(Close(read)), BodyUpTo(n - 1))
       /\ \A k \in DOMAIN Close(read) : HeadedBy(Close(read)[k])
  BY DEF WellRead
<1>12. /\ Contents(sections) \in Texts
       /\ Contents(Close(read)) = Append(Contents(sections), content)
       /\ Contents(Close(next)) = Append(Contents(sections), longer)
  <2>1. /\ Contents(sections) \in Texts
        /\ Contents(Append(sections, open)) = Append(Contents(sections), open.content)
    BY <1>3, <1>5, ContentsGrow
  <2>2. Contents(Append(sections, wider)) = Append(Contents(sections), wider.content)
    BY <1>3, <1>5, ContentsGrow
  <2>3. QED
    BY <1>5, <1>6, <1>8, <2>1, <2>2
<1> DEFINE N == Len(Contents(sections))
           parts == Append(Contents(sections), content)
<1>13. /\ parts \in Texts /\ DOMAIN parts = 1..(N + 1) /\ Len(parts) = N + 1
       /\ \A k \in 1..N : parts[k] = Contents(sections)[k]
       /\ parts[N + 1] = content /\ N \in Nat
  BY <1>3, <1>12, SequencesGrow, SequencesHold DEF Texts
<1>14. [parts EXCEPT ![Len(parts)] = longer] = Append(Contents(sections), longer)
  <2>1. Contents(sections) \in Seq(Seq(Nat)) /\ content \in Seq(Nat)
    BY <1>3, <1>12 DEF Texts
  <2> HIDE DEF longer, content, sections
  <2>2. QED
    BY <1>4, <2>1, LastIsReplaced
<1> HIDE DEF parts, longer, content, sections, open, wider, next, v, N
<1>15. ToSet(content) \subseteq BodyUpTo(n - 1) /\ Increasing(content)
  <2>1. N + 1 \in DOMAIN parts /\ ListsInOrder(parts, BodyUpTo(n - 1))
    BY <1>11, <1>12, <1>13 DEF parts
  <2>2. QED
    BY <1>13, <2>1 DEF ListsInOrder
<1>16. Increasing(longer) /\ ToSet(longer) = ToSet(content) \cup {v}
  BY <1>2, <1>3, <1>10, <1>15, LinesGrow DEF longer
<1>17. ListsInOrder(Contents(Close(next)), BodyUpTo(n))
  <2>1. ListsInOrder(parts, BodyUpTo(n - 1)) /\ parts # <<>>
    <3>1. N + 1 \in DOMAIN parts /\ DOMAIN <<>> = {}
      BY <1>13
    <3>2. QED
      BY <1>11, <1>12, <3>1 DEF parts
  <2>2. ToSet(longer) = ToSet(parts[Len(parts)]) \cup {v}
    BY <1>13, <1>16
  <2>3. \A x \in BodyUpTo(n - 1), y \in {v} : x < y
    BY <1>10
  <2>4. ListsInOrder([parts EXCEPT ![Len(parts)] = longer], BodyUpTo(n - 1) \cup {v})
    BY <1>4, <1>13, <1>16, <2>1, <2>2, <2>3, LastPartGrows
  <2>5. QED
    BY <1>10, <1>12, <1>14, <2>4
<1>18. \A k \in DOMAIN Close(next) : HeadedBy(Close(next)[k])
  <2> DEFINE M == Len(sections)
  <2>1. /\ M \in Nat /\ DOMAIN sections = 1..M
        /\ DOMAIN Append(sections, open) = 1..(M + 1)
        /\ \A k \in 1..M : Append(sections, open)[k] = sections[k]
        /\ Append(sections, open)[M + 1] = open
    BY <1>3, <1>5, SequencesHold, SequencesGrow
  <2>2. \A k \in DOMAIN sections : HeadedBy(sections[k])
    BY <1>6, <1>11, <2>1
  <2>3. HeadedBy(open)
    BY <1>6, <1>11, <2>1
  <2>4. HeadedBy(wider)
    BY <1>5, <1>9, <1>16, <2>3 DEF HeadedBy
  <2>5. QED
    BY <1>3, <1>5, <1>8, <2>2, <2>4, SectionsGrow
<1>19. HeadingLines \cap FirstLines(n) = HeadingLines \cap FirstLines(n - 1)
  BY <1>2, <1>9
<1>20. WellRead(next, n)
  BY <1>7, <1>9, <1>17, <1>18, <1>19 DEF WellRead
<1>21. QED
  BY <1>1, <1>20

\* The sections read have the body of the file, each line under its heading.
LEMMA LinesAreRead ==
  ASSUME Filed
  PROVE  /\ SectionsRead \in Seq(SectionSet)
         /\ ListsInOrder(Contents(SectionsRead), Body)
         /\ \A k \in DOMAIN SectionsRead : HeadedBy(SectionsRead[k])
<1>1. Lines \in Seq(Nat)
  BY LinesAreKept
<1>2. PICK h : /\ h[0] = NoLineRead /\ SectionsRead = Close(h[Len(Lines)])
               /\ \A n \in 0..Len(Lines) : h[n] \in LineReadings
               /\ \A n \in 1..Len(Lines) : h[n] = ReadLine(h[n - 1], n)
  BY <1>1, ReadingsFolded
<1> DEFINE N == Len(Lines)
           S == {n \in 0..N : WellRead(h[n], n)}
<1>3. N \in Nat
  BY ProseIsRead
<1>4. 0 \in S
  <2>1. FirstLines(0) = {} /\ h[0] \in LineReadings /\ h[0].heading = 0
    BY <1>2, <1>3 DEF FirstLines, NoLineRead
  <2>2. Close(h[0]) = <<>>
    BY <1>2 DEF Close, NoLineRead
  <2>3. DOMAIN <<>> = {} /\ Contents(<<>>) = <<>>
    BY DEF Contents
  <2>4. ListsInOrder(Contents(Close(h[0])), BodyUpTo(0))
    BY <2>1, <2>2, <2>3, NothingIsListed DEF BodyUpTo
  <2>5. WellRead(h[0], 0)
    BY <2>1, <2>2, <2>3, <2>4 DEF WellRead
  <2>6. QED
    BY <1>3, <2>5
<1>5. ASSUME NEW n \in 1..N, n - 1 \in S PROVE n \in S
  <2> DEFINE read == h[n - 1]
  <2>1. WellRead(read, n - 1) /\ h[n] = ReadLine(read, n)
    BY <1>2, <1>5
  <2> HIDE DEF read
  <2>2. WellRead(ReadLine(read, n), n)
    BY <2>1, HeadingIsRead, LineIsSkipped, LineIsAdded
  <2>3. QED
    BY <2>1, <2>2
<1>6. WellRead(h[N], N)
  <2>1. N \in S
    <3> HIDE DEF S
    <3>1. 0..N \subseteq S
      BY <1>3, <1>4, <1>5, UpTo
    <3>2. QED
      BY <1>3, <3>1
  <2>2. QED
    BY <2>1
<1>7. BodyUpTo(N) = Body
  BY ProseIsRead DEF BodyUpTo, ProseUpTo, Body
<1>8. SectionsRead \in Seq(SectionSet)
  BY <1>1, <1>2, <1>6, ReadingsStayReadings DEF WellRead
<1>9. QED
  BY <1>2, <1>6, <1>7, <1>8 DEF WellRead

-----------------------------------------------------------------------------
\* The lines of the first n sections read, and what is kept of these sections.
SectionsUpTo(n) == UNION {ToSet(SectionsRead[k].content) : k \in 1..n}

WellKept(kept, n) ==
  /\ kept \in Seq(SectionSet)
  /\ ListsInOrder(Contents(kept), SectionsUpTo(n))
  /\ \A k \in DOMAIN kept : HeadedBy(kept[k])
  /\ \A k \in DOMAIN kept : kept[k].content # <<>>

\* A section is kept, or has no content.
LEMMA SectionIsKept ==
  ASSUME Filed, NEW n \in 1..Len(SectionsRead), NEW kept, WellKept(kept, n - 1)
  PROVE  WellKept(KeepSection(kept, SectionsRead[n]), n)
<1> DEFINE section == SectionsRead[n]
           content == section.content
<1>1. /\ SectionsRead \in Seq(SectionSet)
      /\ ListsInOrder(Contents(SectionsRead), Body)
      /\ \A k \in DOMAIN SectionsRead : HeadedBy(SectionsRead[k])
  BY LinesAreRead
<1>2. /\ Len(SectionsRead) \in Nat /\ DOMAIN SectionsRead = 1..Len(SectionsRead)
      /\ section \in SectionSet /\ HeadedBy(section)
  BY <1>1, SequencesHold
<1>3. content \in Seq(Nat)
  BY <1>2 DEF SectionSet
<1>4. /\ DOMAIN Contents(SectionsRead) = 1..Len(SectionsRead)
      /\ \A k \in 1..Len(SectionsRead) : Contents(SectionsRead)[k] = SectionsRead[k].content
  BY <1>2 DEF Contents
<1>5. Increasing(content)
  BY <1>1, <1>4 DEF ListsInOrder
<1>6. SectionsUpTo(n) = SectionsUpTo(n - 1) \cup ToSet(content)
  <2>1. 1..n = (1..(n - 1)) \cup {n}
    BY <1>2
  <2>2. QED
    BY <2>1 DEF SectionsUpTo
<1>7. \A x \in SectionsUpTo(n - 1), y \in ToSet(content) : x < y
  <2>1. ASSUME NEW x \in SectionsUpTo(n - 1), NEW y \in ToSet(content) PROVE x < y
    <3>1. PICK k \in 1..(n - 1) : x \in ToSet(SectionsRead[k].content)
      BY DEF SectionsUpTo
    <3>2. k \in 1..Len(SectionsRead) /\ k < n
      BY <1>2, <3>1
    <3>3. QED
      BY <1>1, <1>4, <3>1, <3>2 DEF ListsInOrder
  <2>2. QED
    BY <2>1
<1>8. /\ kept \in Seq(SectionSet) /\ ListsInOrder(Contents(kept), SectionsUpTo(n - 1))
      /\ \A k \in DOMAIN kept : HeadedBy(kept[k])
      /\ \A k \in DOMAIN kept : kept[k].content # <<>>
  BY DEF WellKept
<1> HIDE DEF section
<1>9. CASE content = <<>>
  <2>1. ToSet(content) = {}
    <3>1. DOMAIN content = {}
      BY <1>9
    <3>2. QED
      BY <3>1 DEF ToSet
  <2>2. KeepSection(kept, section) = kept
    BY <1>9 DEF KeepSection
  <2>3. WellKept(kept, n)
    BY <1>6, <1>8, <2>1 DEF WellKept
  <2>4. QED
    BY <2>2, <2>3 DEF section
<1>10. CASE content # <<>>
  <2> DEFINE more == Append(kept, section)
             N == Len(kept)
  <2>1. KeepSection(kept, section) = more
    BY <1>10 DEF KeepSection
  <2>2. more \in Seq(SectionSet)
    BY <1>2, <1>8, SequencesGrow
  <2>3. \A k \in DOMAIN more : HeadedBy(more[k])
    BY <1>2, <1>8, SectionsGrow
  <2>4. \A k \in DOMAIN more : more[k].content # <<>>
    <3>1. /\ N \in Nat /\ DOMAIN kept = 1..N
          /\ DOMAIN more = 1..(N + 1) /\ \A k \in 1..N : more[k] = kept[k]
          /\ more[N + 1] = section
      BY <1>2, <1>8, SequencesHold, SequencesGrow
    <3> HIDE DEF more, N
    <3>2. ASSUME NEW k \in DOMAIN more PROVE more[k].content # <<>>
      <4>1. k \in 1..N \/ k = N + 1
        BY <3>1
      <4>2. QED
        BY <1>8, <1>10, <3>1, <4>1
    <3>3. QED
      BY <3>2
  <2>5. Contents(kept) \in Texts /\ Contents(more) = Append(Contents(kept), content)
    BY <1>2, <1>8, ContentsGrow
  <2> HIDE DEF content, more
  <2>6. ListsInOrder(Append(Contents(kept), content), SectionsUpTo(n - 1) \cup ToSet(content))
    BY <1>3, <1>5, <1>7, <1>8, <2>5, PartIsListed
  <2>7. WellKept(more, n)
    BY <1>6, <2>2, <2>3, <2>4, <2>5, <2>6 DEF WellKept
  <2>8. QED
    BY <2>1, <2>7 DEF section
<1>11. QED
  BY <1>9, <1>10

\* What is kept has the body of the file still, and is nothing only when that
\* is nothing.
LEMMA HeadedAreWhole ==
  ASSUME Filed
  PROVE  /\ Headed \in Seq(SectionSet)
         /\ ListsInOrder(Contents(Headed), Body)
         /\ \A k \in DOMAIN Headed : HeadedBy(Headed[k])
         /\ Headed = <<>> <=> Body = {}
<1> DEFINE N == Len(SectionsRead)
<1>1. SectionsRead \in Seq(SectionSet) /\ ListsInOrder(Contents(SectionsRead), Body)
  BY LinesAreRead
<1>2. PICK h : /\ h[0] = NoSections /\ Headed = h[Len(SectionsRead)]
               /\ \A n \in 0..Len(SectionsRead) : h[n] \in Seq(SectionSet)
               /\ \A n \in 1..Len(SectionsRead) : h[n] = KeepSection(h[n - 1], SectionsRead[n])
  BY <1>1, HeadedFolded
<1> DEFINE S == {n \in 0..N : WellKept(h[n], n)}
<1>3. N \in Nat /\ DOMAIN SectionsRead = 1..N
  BY <1>1, SequencesHold
<1>4. 0 \in S
  <2>1. SectionsUpTo(0) = {} /\ h[0] = <<>> /\ h[0] \in Seq(SectionSet)
    BY <1>2, <1>3 DEF SectionsUpTo, NoSections
  <2>2. DOMAIN <<>> = {} /\ Contents(<<>>) = <<>>
    BY DEF Contents
  <2>3. WellKept(h[0], 0)
    BY <2>1, <2>2, NothingIsListed DEF WellKept
  <2>4. QED
    BY <1>3, <2>3
<1>5. ASSUME NEW n \in 1..N, n - 1 \in S PROVE n \in S
  <2> DEFINE kept == h[n - 1]
  <2>1. WellKept(kept, n - 1) /\ h[n] = KeepSection(kept, SectionsRead[n])
    BY <1>2, <1>5
  <2> HIDE DEF kept
  <2>2. WellKept(h[n], n)
    BY <2>1, SectionIsKept
  <2>3. QED
    BY <2>2
<1>6. WellKept(Headed, N)
  <2>1. N \in S
    <3> HIDE DEF S
    <3>1. 0..N \subseteq S
      BY <1>3, <1>4, <1>5, UpTo
    <3>2. QED
      BY <1>3, <3>1
  <2>2. QED
    BY <1>2, <2>1
<1>7. SectionsUpTo(N) = Body
  <2>1. /\ DOMAIN Contents(SectionsRead) = 1..N
        /\ \A k \in 1..N : Contents(SectionsRead)[k] = SectionsRead[k].content
    BY <1>3 DEF Contents
  <2>2. SectionsUpTo(N) = UNION {ToSet(Contents(SectionsRead)[k]) : k \in 1..N}
    BY <2>1 DEF SectionsUpTo
  <2>3. QED
    BY <1>1, <2>1, <2>2 DEF ListsInOrder
<1>8. /\ Headed \in Seq(SectionSet) /\ ListsInOrder(Contents(Headed), Body)
      /\ \A k \in DOMAIN Headed : HeadedBy(Headed[k])
      /\ \A k \in DOMAIN Headed : Headed[k].content # <<>>
  BY <1>6, <1>7 DEF WellKept
<1>9. Headed = <<>> <=> Body = {}
  <2>1. /\ DOMAIN Contents(Headed) = DOMAIN Headed
        /\ \A k \in DOMAIN Headed : Contents(Headed)[k] = Headed[k].content
    BY DEF Contents
  <2>2. ASSUME Headed = <<>> PROVE Body = {}
    <3>1. DOMAIN Contents(Headed) = {}
      BY <2>1, <2>2
    <3>2. QED
      BY <1>8, <3>1 DEF ListsInOrder
  <2>3. ASSUME Headed # <<>> PROVE Body # {}
    <3> DEFINE first == Headed[1].content
    <3>1. 1 \in DOMAIN Headed
      BY <1>8, <2>3
    <3>2. first \in Seq(Nat) /\ first # <<>>
      <4>1. Headed[1] \in SectionSet
        BY <1>8, <3>1, SequencesHold
      <4>2. QED
        BY <1>8, <3>1, <4>1 DEF SectionSet
    <3> HIDE DEF first
    <3>3. first[1] \in ToSet(first)
      <4>1. 1 \in DOMAIN first
        BY <3>2
      <4>2. QED
        BY <4>1 DEF ToSet
    <3>4. first = Contents(Headed)[1]
      BY <2>1, <3>1 DEF first
    <3>5. first[1] \in Body
      BY <1>8, <2>1, <3>1, <3>3, <3>4 DEF ListsInOrder
    <3>6. QED
      BY <3>5
  <2>4. QED
    BY <2>2, <2>3
<1>10. QED
  BY <1>8, <1>9

\* For a file of any paragraphs, the text is kept.
LEMMA TextHolds ==
  ASSUME Filed
  PROVE  TextIsKept
<1> DEFINE sections == SectionsOfText
<1>1. /\ Headed \in Seq(SectionSet) /\ ListsInOrder(Contents(Headed), Body)
      /\ \A k \in DOMAIN Headed : HeadedBy(Headed[k])
      /\ Headed = <<>> <=> Body = {}
  BY HeadedAreWhole
<1>2. CASE Body # {}
  <2>1. sections = Headed
    BY <1>1, <1>2 DEF SectionsOfText
  <2> HIDE DEF sections
  <2>2. ListsInOrder([n \in DOMAIN sections |-> sections[n].content], Body)
    BY <1>1, <2>1 DEF Contents
  <2>3. \A n \in DOMAIN sections : \A k \in ToSet(sections[n].content) :
          sections[n].heading = Max(Headings(k))
    BY <1>1, <2>1 DEF HeadedBy
  <2>4. QED
    BY <1>2, <2>2, <2>3 DEF TextIsKept, sections
<1>3. CASE Body = {}
  <2>1. sections = [n \in DOMAIN Packed |-> [heading |-> 0, content |-> Packed[n]]]
    BY <1>1, <1>3 DEF SectionsOfText
  <2> HIDE DEF sections
  <2>2. /\ DOMAIN sections = DOMAIN Packed
        /\ \A n \in DOMAIN sections : sections[n].content = Packed[n] /\ sections[n].heading = 0
    BY <2>1
  <2>3. [n \in DOMAIN sections |-> sections[n].content] = Packed
    <3>1. Packed = [n \in DOMAIN Packed |-> Packed[n]]
      <4>1. Packed \in Seq(Seq(Nat))
        BY PartsAreWhole DEF Texts
      <4>2. QED
        BY <4>1
    <3>2. QED
      BY <2>2, <3>1
  <2>4. ListsInOrder([n \in DOMAIN sections |-> sections[n].content], Prose)
    BY <2>3, PartsAreWhole
  <2>5. QED
    BY <1>3, <2>2, <2>4 DEF TextIsKept, sections
<1>4. QED
  BY <1>2, <1>3

(***************************************************************************)
(* ingestion.py, for a file of any paragraphs, any lengths and any target: *)
(* every line of its body is in one section, in order and under the last   *)
(* heading before it, and a file without a body is kept as a whole.        *)
(***************************************************************************)
THEOREM TextIsKeptAlways == TextSpec => []TextIsKept
<1>1. TextInit => Filed
  BY DEF TextInit, Filed
<1>2. Filed /\ [TextNext]_file => Filed'
  <2> SUFFICES ASSUME Filed, [TextNext]_file PROVE Filed'
    OBVIOUS
  <2>1. ASSUME NEW p \in Paragraphs, WriteParagraph(p) PROVE Filed'
    BY <2>1, SequencesGrow DEF WriteParagraph, Filed
  <2>2. CASE UNCHANGED file
    BY <2>2 DEF Filed
  <2>3. QED
    BY <2>1, <2>2 DEF TextNext
<1>3. Filed => TextIsKept
  BY TextHolds
<1>4. QED
  BY <1>1, <1>2, <1>3, PTL DEF TextSpec

-----------------------------------------------------------------------------
(***************************************************************************)
(* Lines of a document, in order (SourceMapping).                          *)
(***************************************************************************)
\* Lines of a source: paragraphs <<n, 0>> and rows <<n, k>>; NoLine is none.
Places == Nat \X Nat
NoLine == <<>>

\* Before is a total order of the lines.
LEMMA PlacesAreOrdered ==
  ASSUME NEW l \in Places, NEW m \in Places
  PROVE  /\ l = <<l[1], l[2]>> /\ l[1] \in Nat /\ l[2] \in Nat
         /\ ~Before(l, l) /\ (Before(l, m) => ~Before(m, l))
         /\ l = m \/ Before(l, m) \/ Before(m, l)
BY DEF Places, Before

\* Before is transitive.
LEMMA OrderCarries ==
  ASSUME NEW l \in Places, NEW m \in Places, NEW p \in Places, Before(l, m), Before(m, p)
  PROVE  Before(l, p)
BY DEF Places, Before

\* No line is none.
LEMMA NoLineIsNoPlace == NoLine \notin Places
BY DEF NoLine, Places

\* There is but one first line.
LEMMA FirstIsOne ==
  ASSUME NEW S \in SUBSET Places, NEW l, NEW m, IsFirst(l, S), IsFirst(m, S)
  PROVE  l = m
BY PlacesAreOrdered DEF IsFirst

\* Lines in order, and other lines after them.
LEMMA PlacesJoin ==
  ASSUME NEW lines \in Seq(Places), NEW rest \in Seq(Places), InOrder(lines), InOrder(rest),
         \A x \in ToSet(lines), y \in ToSet(rest) : Before(x, y)
  PROVE  /\ lines \o rest \in Seq(Places) /\ InOrder(lines \o rest)
         /\ ToSet(lines \o rest) = ToSet(lines) \cup ToSet(rest)
<1> DEFINE more == lines \o rest
           N == Len(lines)
           M == Len(rest)
<1>1. /\ more \in Seq(Places) /\ DOMAIN more = 1..(N + M)
      /\ \A k \in 1..N : more[k] = lines[k]
      /\ \A k \in (N + 1)..(N + M) : more[k] = rest[k - N]
      /\ N \in Nat /\ DOMAIN lines = 1..N /\ M \in Nat /\ DOMAIN rest = 1..M
      /\ \A k \in 1..N : lines[k] \in Places
      /\ \A k \in 1..M : rest[k] \in Places
  OBVIOUS
<1> HIDE DEF more, N, M
<1>2. ToSet(more) = ToSet(lines) \cup ToSet(rest)
  <2>1. \A k \in 1..M : k + N \in DOMAIN more /\ more[k + N] = rest[k]
    BY <1>1
  <2>2. \A k \in DOMAIN more : k \in 1..N \/ (k - N \in 1..M /\ more[k] = rest[k - N])
    BY <1>1
  <2>3. \A k \in 1..N : k \in DOMAIN more
    BY <1>1
  <2>4. ToSet(more) \subseteq ToSet(lines) \cup ToSet(rest)
    BY <1>1, <2>2 DEF ToSet
  <2>5. ToSet(lines) \subseteq ToSet(more)
    BY <1>1, <2>3 DEF ToSet
  <2>6. ToSet(rest) \subseteq ToSet(more)
    <3>1. ASSUME NEW y \in ToSet(rest) PROVE y \in ToSet(more)
      <4>1. PICK k \in 1..M : y = rest[k]
        BY <1>1 DEF ToSet
      <4>2. k + N \in DOMAIN more /\ more[k + N] = y
        BY <2>1, <4>1
      <4>3. QED
        BY <4>2 DEF ToSet
    <3>2. QED
      BY <3>1
  <2>7. QED
    BY <2>4, <2>5, <2>6
<1>3. ASSUME NEW i \in 1..(N + M), NEW j \in 1..(N + M), i < j PROVE Before(more[i], more[j])
  <2>1. CASE j \in 1..N
    <3>1. i \in 1..N
      BY <1>1, <1>3, <2>1
    <3>2. QED
      BY <1>1, <1>3, <2>1, <3>1 DEF InOrder
  <2>2. CASE i \in 1..N /\ j \notin 1..N
    <3>1. j \in (N + 1)..(N + M) /\ j - N \in 1..M
      <4>1. N \in Nat /\ M \in Nat
        BY <1>1
      <4>2. QED
        BY <2>2, <4>1
    <3>2. lines[i] \in ToSet(lines) /\ rest[j - N] \in ToSet(rest)
      BY <1>1, <2>2, <3>1 DEF ToSet
    <3>3. QED
      BY <1>1, <2>2, <3>1, <3>2
  <2>3. CASE i \notin 1..N
    <3>1. /\ j \in (N + 1)..(N + M) /\ j - N \in 1..M
          /\ i \in (N + 1)..(N + M) /\ i - N \in 1..M /\ i - N < j - N
      <4>1. N \in Nat /\ M \in Nat
        BY <1>1
      <4>2. QED
        BY <1>3, <2>3, <4>1
    <3>2. QED
      BY <1>1, <3>1 DEF InOrder
  <2>4. QED
    BY <1>1, <2>1, <2>2, <2>3
<1>4. QED
  BY <1>1, <1>2, <1>3 DEF more, InOrder

\* One more line, after all the others.
LEMMA PlaceIsAdded ==
  ASSUME NEW lines \in Seq(Places), NEW line \in Places, InOrder(lines),
         \A x \in ToSet(lines) : Before(x, line)
  PROVE  /\ Append(lines, line) \in Seq(Places) /\ InOrder(Append(lines, line))
         /\ ToSet(Append(lines, line)) = ToSet(lines) \cup {line}
<1> DEFINE rest == <<line>>
<1>1. /\ rest \in Seq(Places) /\ DOMAIN rest = {1} /\ rest[1] = line
      /\ Append(lines, line) = lines \o rest
  OBVIOUS
<1>2. ToSet(rest) = {line}
  BY <1>1 DEF ToSet
<1>3. InOrder(rest)
  BY <1>1 DEF InOrder
<1> HIDE DEF rest
<1>4. QED
  BY <1>1, <1>2, <1>3, PlacesJoin

\* A stretch of lines in order is in order, and has the lines between its ends.
LEMMA PlacesAreCut ==
  ASSUME NEW lines \in Seq(Places), InOrder(lines),
         NEW i \in DOMAIN lines, NEW j \in DOMAIN lines, i <= j
  PROVE  /\ SubSeq(lines, i, j) \in Seq(Places) /\ InOrder(SubSeq(lines, i, j))
         /\ ToSet(SubSeq(lines, i, j)) = {lines[k] : k \in i..j}
<1> DEFINE cut == SubSeq(lines, i, j)
           N == j - i + 1
<1>1. /\ DOMAIN lines = 1..Len(lines) /\ Len(lines) \in Nat
      /\ i \in Nat /\ j \in Nat /\ i >= 1 /\ j <= Len(lines)
  OBVIOUS
<1>2. /\ cut \in Seq(Places) /\ DOMAIN cut = 1..N
      /\ \A k \in 1..N : cut[k] = lines[k + i - 1]
  BY <1>1
<1>3. N \in Nat /\ \A k \in 1..N : k + i - 1 \in i..j /\ k + i - 1 \in DOMAIN lines
  BY <1>1
<1>4. \A k \in i..j : k - i + 1 \in 1..N /\ (k - i + 1) + i - 1 = k
  BY <1>1
<1> HIDE DEF cut, N
<1>5. ToSet(cut) = {lines[k] : k \in i..j}
  <2>1. ASSUME NEW x \in ToSet(cut) PROVE x \in {lines[k] : k \in i..j}
    <3>1. PICK k \in 1..N : x = cut[k]
      BY <1>2 DEF ToSet
    <3>2. QED
      BY <1>2, <1>3, <3>1
  <2>2. ASSUME NEW k \in i..j PROVE lines[k] \in ToSet(cut)
    <3>1. k - i + 1 \in 1..N /\ cut[k - i + 1] = lines[k]
      BY <1>2, <1>4
    <3>2. QED
      BY <1>2, <3>1 DEF ToSet
  <2>3. QED
    BY <2>1, <2>2
<1>6. InOrder(cut)
  <2>1. ASSUME NEW k \in 1..N, NEW m \in 1..N, k < m PROVE Before(cut[k], cut[m])
    <3>1. k + i - 1 < m + i - 1
      BY <1>1, <1>3, <2>1
    <3>2. QED
      BY <1>2, <1>3, <3>1 DEF InOrder
  <2>2. QED
    BY <1>2, <2>1 DEF InOrder
<1>7. QED
  BY <1>2, <1>5, <1>6 DEF cut

\* The first of lines in order is before the others, and the others are in
\* order.
LEMMA TailIsCut ==
  ASSUME NEW lines \in Seq(Places), InOrder(lines), lines # <<>>
  PROVE  /\ Tail(lines) \in Seq(Places) /\ InOrder(Tail(lines))
         /\ ToSet(Tail(lines)) = ToSet(lines) \ {lines[1]}
         /\ lines[1] \in ToSet(lines) /\ IsFirst(lines[1], ToSet(lines))
<1>1. /\ Len(lines) \in Nat /\ Len(lines) >= 1 /\ DOMAIN lines = 1..Len(lines)
      /\ Tail(lines) \in Seq(Places) /\ DOMAIN Tail(lines) = 1..(Len(lines) - 1)
      /\ \A k \in 1..(Len(lines) - 1) : Tail(lines)[k] = lines[k + 1]
      /\ \A k \in 1..Len(lines) : lines[k] \in Places
  OBVIOUS
<1> DEFINE rest == Tail(lines)
           N == Len(lines)
<1> HIDE DEF rest, N
<1>2. /\ N \in Nat /\ N >= 1 /\ DOMAIN lines = 1..N /\ DOMAIN rest = 1..(N - 1)
      /\ \A k \in 1..(N - 1) : rest[k] = lines[k + 1]
      /\ \A k \in 1..N : lines[k] \in Places
  BY <1>1 DEF rest, N
<1>3. InOrder(rest)
  <2>1. \A k \in 1..(N - 1) : k + 1 \in 1..N
    BY <1>2
  <2>2. \A k, m \in 1..(N - 1) : k < m => k + 1 < m + 1
    BY <1>2
  <2>3. QED
    BY <1>2, <2>1, <2>2 DEF InOrder
<1>4. \A k \in 1..N : k = 1 \/ (k - 1 \in 1..(N - 1) /\ (k - 1) + 1 = k /\ 1 < k)
  BY <1>2
<1>5. 1 \in 1..N
  BY <1>2
<1>6. \A k \in 1..N : k # 1 => Before(lines[1], lines[k])
  BY <1>2, <1>4, <1>5 DEF InOrder
<1>7. lines[1] \in ToSet(lines) /\ IsFirst(lines[1], ToSet(lines))
  BY <1>2, <1>5, <1>6 DEF IsFirst, ToSet
<1>8. ToSet(rest) = ToSet(lines) \ {lines[1]}
  <2>1. ASSUME NEW k \in 1..(N - 1) PROVE rest[k] \in ToSet(lines) \ {lines[1]}
    <3>1. k + 1 \in 1..N /\ k + 1 # 1
      BY <1>2
    <3>2. lines[k + 1] # lines[1]
      BY <1>2, <1>5, <1>6, <3>1, PlacesAreOrdered
    <3>3. QED
      BY <1>2, <3>1, <3>2 DEF ToSet
  <2>2. ASSUME NEW k \in 1..N, lines[k] # lines[1] PROVE lines[k] \in ToSet(rest)
    <3>1. k - 1 \in 1..(N - 1) /\ rest[k - 1] = lines[k]
      BY <1>2, <1>4, <2>2
    <3>2. QED
      BY <1>2, <3>1 DEF ToSet
  <2>3. ToSet(rest) \subseteq ToSet(lines) \ {lines[1]}
    BY <1>2, <2>1 DEF ToSet
  <2>4. ToSet(lines) \ {lines[1]} \subseteq ToSet(rest)
    BY <1>2, <2>2 DEF ToSet
  <2>5. QED
    BY <2>3, <2>4
<1>9. QED
  BY <1>1, <1>3, <1>7, <1>8 DEF rest

-----------------------------------------------------------------------------
\* The source is made of blocks, and so are what is read of it; L are lines
\* that have been read.
Blocked == source \in Seq(Blocks)
Kinds == {"blank", "text", "header", "heading", "table"}
SourceReadings ==
  [headers : [HeaderKeys -> Places \cup {NoLine}], parts : [SectionKeys -> Seq(Places)],
   current : SectionKeys \cup {Unmapped}]
NamingIn(key, L) == {l \in L : HeaderOf(l) = key}
HeadersHold(headers, L) ==
  \A key \in HeaderKeys :
    IF NamingIn(key, L) = {} THEN headers[key] = NoLine ELSE IsFirst(headers[key], NamingIn(key, L))
ReadsOn(c, read) == c \in SourceReadings /\ c.parts = read.parts /\ c.current = read.current
HeaderLines == {l \in Places : HeaderOf(l) \in HeaderKeys \cup {Unmapped}}

\* Unmapped is no key.
LEMMA KeysAreApart ==
  Unmapped \notin HeaderKeys /\ Unmapped \notin SectionKeys /\ History \in SectionKeys
BY BlocksAssumption DEF SectionKeys

\* What a block is.
LEMMA BlocksAreTyped ==
  ASSUME NEW b \in Blocks
  PROVE  /\ b.kind \in Kinds /\ b.header \in HeaderKeys \cup {Unmapped}
         /\ b.section \in SectionKeys \cup {Unmapped}
         /\ b.inline \in BOOLEAN /\ b.styled \in BOOLEAN /\ b.rows \in Seq(RowsOfTables)
         /\ b.kind = "blank" => b.header = Unmapped /\ b.section = Unmapped /\ ~b.styled
         /\ b.kind = "heading" => b.header = Unmapped /\ b.section # Unmapped
         /\ b.kind = "table" => b.rows # <<>>
BY BlocksAssumption DEF Kinds

\* What a source is.
LEMMA SourceIsTyped ==
  ASSUME Blocked
  PROVE  /\ Len(source) \in Nat /\ DOMAIN source = 1..Len(source)
         /\ \A n \in DOMAIN source : source[n] \in Blocks /\ n \in Nat
<1>1. Len(source) \in Nat /\ DOMAIN source = 1..Len(source)
  BY DEF Blocked
<1>2. \A n \in 1..Len(source) : source[n] \in Blocks
  BY SequencesHold DEF Blocked
<1>3. QED
  BY <1>1, <1>2

\* The rows of a table are lines of it, in order.
LEMMA RowsAreLines ==
  ASSUME Blocked, NEW n \in DOMAIN source
  PROVE  /\ Rows(n) \in Seq(HeaderLines) /\ Rows(n) \in Seq(Places) /\ InOrder(Rows(n))
         /\ \A l \in ToSet(Rows(n)) : l \in Places /\ l[1] = n /\ l[2] # 0
<1>1. source[n] \in Blocks /\ n \in Nat
  BY SourceIsTyped
<1>2. source[n].rows \in Seq(RowsOfTables)
  BY <1>1, BlocksAreTyped
<1> DEFINE rows == source[n].rows
           N == Len(rows)
<1>3. N \in Nat /\ DOMAIN rows = 1..N /\ \A k \in 1..N : rows[k] \in RowsOfTables
  BY <1>2, SequencesHold
<1>4. ASSUME NEW k \in 1..N PROVE <<n, k>> \in HeaderLines
  <2>1. k \in Nat /\ k # 0 /\ rows[k].header \in HeaderKeys \cup {Unmapped}
    BY <1>3 DEF RowsOfTables
  <2>2. <<n, k>>[1] = n /\ <<n, k>>[2] = k
    OBVIOUS
  <2>3. HeaderOf(<<n, k>>) = rows[k].header
    BY <2>1, <2>2 DEF HeaderOf
  <2>4. <<n, k>> \in Places
    BY <1>1, <2>1 DEF Places
  <2>5. QED
    BY <2>1, <2>3, <2>4 DEF HeaderLines
<1>5. Rows(n) = [k \in 1..N |-> <<n, k>>]
  BY <1>3 DEF Rows
<1> HIDE DEF rows, N
<1>6. Rows(n) \in Seq(HeaderLines) /\ DOMAIN Rows(n) = 1..N /\ \A k \in 1..N : Rows(n)[k] = <<n, k>>
  BY <1>3, <1>4, <1>5
<1>7. Rows(n) \in Seq(Places)
  <2>1. \A k \in 1..N : <<n, k>> \in Places
    BY <1>4 DEF HeaderLines
  <2>2. QED
    BY <1>3, <1>5, <2>1
<1>8. InOrder(Rows(n))
  <2>1. ASSUME NEW i \in 1..N, NEW j \in 1..N, i < j PROVE Before(<<n, i>>, <<n, j>>)
    BY <2>1 DEF Before
  <2>2. QED
    BY <1>6, <2>1 DEF InOrder
<1>9. \A l \in ToSet(Rows(n)) : l \in Places /\ l[1] = n /\ l[2] # 0
  <2>1. ASSUME NEW k \in 1..N PROVE <<n, k>> \in Places /\ <<n, k>>[1] = n /\ <<n, k>>[2] # 0
    BY <1>1, <1>3 DEF Places
  <2>2. ASSUME NEW l \in ToSet(Rows(n)) PROVE l \in Places /\ l[1] = n /\ l[2] # 0
    <3>1. PICK k \in 1..N : l = Rows(n)[k]
      BY <1>6 DEF ToSet
    <3>2. l = <<n, k>>
      BY <1>6, <3>1
    <3>3. QED
      BY <2>1, <3>2
  <2>3. QED
    BY <2>2
<1>10. QED
  BY <1>6, <1>7, <1>8, <1>9

\* A paragraph is a line.
LEMMA ParagraphIsLine ==
  ASSUME Blocked, NEW n \in DOMAIN source
  PROVE  /\ <<n, 0>> \in HeaderLines /\ <<n, 0>> \in Places
         /\ HeaderOf(<<n, 0>>) = source[n].header
         /\ <<n, 0>>[1] = n /\ <<n, 0>>[2] = 0
<1>1. source[n] \in Blocks /\ n \in Nat
  BY SourceIsTyped
<1>2. source[n].header \in HeaderKeys \cup {Unmapped}
  BY <1>1, BlocksAreTyped
<1>3. <<n, 0>>[1] = n /\ <<n, 0>>[2] = 0
  OBVIOUS
<1>4. HeaderOf(<<n, 0>>) = source[n].header
  BY <1>3 DEF HeaderOf
<1>5. <<n, 0>> \in Places
  BY <1>1 DEF Places
<1>6. QED
  BY <1>2, <1>3, <1>4, <1>5 DEF HeaderLines

\* The lines of a block are its own.
LEMMA LinesOfBlocks ==
  ASSUME Blocked, NEW n \in DOMAIN source
  PROVE  LinesOf(n) \subseteq HeaderLines /\ \A l \in LinesOf(n) : l \in Places /\ l[1] = n
<1>1. CASE source[n].kind = "table"
  <2>1. LinesOf(n) = ToSet(Rows(n))
    BY <1>1 DEF LinesOf
  <2>2. ToSet(Rows(n)) \subseteq HeaderLines
    BY RowsAreLines, SequencesHold DEF ToSet
  <2>3. QED
    BY <2>1, <2>2, RowsAreLines
<1>2. CASE source[n].kind # "table"
  <2>1. LinesOf(n) = {<<n, 0>>}
    BY <1>2 DEF LinesOf
  <2>2. QED
    BY <2>1, ParagraphIsLine
<1>3. QED
  BY <1>1, <1>2

\* _capture_migrate_header_field: a line that names a field is captured just
\* when it is the first of those read that does.
LEMMA HeaderIsRead ==
  ASSUME NEW read \in SourceReadings, NEW L \in SUBSET Places, NEW line \in HeaderLines,
         \A l \in L : Before(l, line), HeadersHold(read.headers, L)
  PROVE  /\ ReadsOn(CaptureHeader(read, line), read)
         /\ HeadersHold(CaptureHeader(read, line).headers, L \cup {line})
         /\ CaptureHeader(read, line) # read <=>
              /\ HeaderOf(line) # Unmapped
              /\ IsFirst(line, NamingIn(HeaderOf(line), L \cup {line}))
<1> DEFINE key == HeaderOf(line)
           more == L \cup {line}
           c == CaptureHeader(read, line)
<1>1. /\ line \in Places /\ key \in HeaderKeys \cup {Unmapped} /\ Unmapped \notin HeaderKeys
      /\ read.headers \in [HeaderKeys -> Places \cup {NoLine}]
      /\ read.parts \in [SectionKeys -> Seq(Places)] /\ read.current \in SectionKeys \cup {Unmapped}
  BY KeysAreApart DEF HeaderLines, SourceReadings
<1>2. \A other \in HeaderKeys : other # key => NamingIn(other, more) = NamingIn(other, L)
  BY DEF NamingIn
<1>3. key \in HeaderKeys => NamingIn(key, more) = NamingIn(key, L) \cup {line}
  BY DEF NamingIn
<1> HIDE DEF more, key
<1>4. CASE key = Unmapped
  <2>1. c = read
    BY <1>4 DEF CaptureHeader, key
  <2>2. HeadersHold(read.headers, more)
    BY <1>1, <1>2, <1>4 DEF HeadersHold
  <2>3. QED
    BY <1>4, <2>1, <2>2 DEF ReadsOn, more, key
<1>5. CASE key # Unmapped /\ read.headers[key] # NoLine
  <2>1. c = read /\ key \in HeaderKeys
    BY <1>1, <1>5 DEF CaptureHeader, key, NoLine
  <2>2. IsFirst(read.headers[key], NamingIn(key, L))
    BY <1>5, <2>1 DEF HeadersHold
  <2>3. read.headers[key] \in L /\ Before(read.headers[key], line)
    BY <2>2 DEF IsFirst, NamingIn
  <2>4. IsFirst(read.headers[key], NamingIn(key, more)) /\ NamingIn(key, more) # {}
    BY <1>3, <2>1, <2>2, <2>3 DEF IsFirst
  <2>5. ~IsFirst(line, NamingIn(key, more))
    <3>1. read.headers[key] # line
      BY <1>1, <2>3, PlacesAreOrdered
    <3>2. ~Before(line, read.headers[key])
      BY <1>1, <2>3, PlacesAreOrdered
    <3>3. QED
      BY <2>4, <3>1, <3>2 DEF IsFirst
  <2>6. HeadersHold(read.headers, more)
    <3>1. ASSUME NEW other \in HeaderKeys
          PROVE  IF NamingIn(other, more) = {} THEN read.headers[other] = NoLine
                 ELSE IsFirst(read.headers[other], NamingIn(other, more))
      <4>1. CASE other = key
        BY <2>4, <4>1
      <4>2. CASE other # key
        BY <1>2, <4>2 DEF HeadersHold
      <4>3. QED
        BY <4>1, <4>2
    <3>2. QED
      BY <3>1 DEF HeadersHold
  <2>7. QED
    BY <2>1, <2>5, <2>6 DEF ReadsOn, more, key
<1>6. CASE key # Unmapped /\ read.headers[key] = NoLine
  <2>1. key \in HeaderKeys /\ c = [read EXCEPT !.headers[key] = line]
    BY <1>1, <1>6 DEF CaptureHeader, key, NoLine
  <2>2. /\ c.headers = [read.headers EXCEPT ![key] = line]
        /\ c.parts = read.parts /\ c.current = read.current /\ c \in SourceReadings
    BY <1>1, <2>1 DEF SourceReadings
  <2>3. NamingIn(key, L) = {}
    <3>1. NamingIn(key, L) # {} => NoLine \in L
      BY <1>6, <2>1 DEF HeadersHold, IsFirst, NamingIn
    <3>2. QED
      BY <3>1, NoLineIsNoPlace
  <2>4. IsFirst(line, NamingIn(key, more)) /\ NamingIn(key, more) # {}
    BY <1>3, <2>1, <2>3 DEF IsFirst
  <2>5. /\ c.headers[key] = line
        /\ \A other \in HeaderKeys : other # key => c.headers[other] = read.headers[other]
    BY <1>1, <2>1, <2>2
  <2>6. HeadersHold(c.headers, more)
    <3>1. ASSUME NEW other \in HeaderKeys
          PROVE  IF NamingIn(other, more) = {} THEN c.headers[other] = NoLine
                 ELSE IsFirst(c.headers[other], NamingIn(other, more))
      <4>1. CASE other = key
        BY <2>4, <2>5, <4>1
      <4>2. CASE other # key
        <5>1. c.headers[other] = read.headers[other]
          BY <2>5, <4>2
        <5>2. IF NamingIn(other, L) = {} THEN read.headers[other] = NoLine
              ELSE IsFirst(read.headers[other], NamingIn(other, L))
          BY DEF HeadersHold
        <5>3. NamingIn(other, more) = NamingIn(other, L)
          BY <1>2, <4>2
        <5> HIDE DEF c
        <5>4. QED
          BY <5>1, <5>2, <5>3
      <4>3. QED
        BY <4>1, <4>2
    <3>2. QED
      BY <3>1 DEF HeadersHold
  <2>7. c # read
    BY <1>1, <1>6, <2>5, NoLineIsNoPlace
  <2>8. QED
    BY <1>6, <2>2, <2>4, <2>6, <2>7 DEF ReadsOn, more, key
<1>7. QED
  BY <1>4, <1>5, <1>6

\* What is read stays a reading.
LEMMA CaptureStays ==
  ASSUME NEW read \in SourceReadings, NEW line \in HeaderLines
  PROVE  CaptureHeader(read, line) \in SourceReadings
<1>1. /\ line \in Places /\ HeaderOf(line) \in HeaderKeys \cup {Unmapped}
      /\ read.headers \in [HeaderKeys -> Places \cup {NoLine}]
      /\ read.parts \in [SectionKeys -> Seq(Places)] /\ read.current \in SectionKeys \cup {Unmapped}
  BY DEF HeaderLines, SourceReadings
<1>2. CASE HeaderOf(line) \in HeaderKeys
  <2>1. [read EXCEPT !.headers[HeaderOf(line)] = line] \in SourceReadings
    BY <1>1, <1>2 DEF SourceReadings
  <2>2. QED
    BY <2>1 DEF CaptureHeader
<1>3. CASE HeaderOf(line) = Unmapped
  BY <1>3 DEF CaptureHeader
<1>4. QED
  BY <1>1, <1>2, <1>3

\* The rows of a table are captured one after the other.
LEMMA RowsFolded ==
  ASSUME NEW read \in SourceReadings, NEW lines \in Seq(HeaderLines)
  PROVE  \E h : /\ h[0] = read /\ CaptureHeaders(read, lines) = h[Len(lines)]
                /\ \A n \in 0..Len(lines) : h[n] \in SourceReadings
                /\ \A n \in 1..Len(lines) : h[n] = CaptureHeader(h[n - 1], lines[n])
<1> DEFINE N == Len(lines)
           places == lines
           Unfolds(g) == g = [s \in SUBSET (DOMAIN places) |->
                                IF s = {} THEN read
                                ELSE CaptureHeader(g[s \ {Max(s)}], places[Max(s)])]
           it == CHOOSE g : Unfolds(g)
           F == [x \in SourceReadings \X (1..N) |-> CaptureHeader(x[1], places[x[2]])]
<1>1. CaptureHeaders(read, lines) = it[DOMAIN places]
  BY Zenon DEF CaptureHeaders, FoldLeft, MapThenFoldSet
<1>2. N \in Nat /\ DOMAIN places = 1..N /\ \A n \in 1..N : places[n] \in HeaderLines
  BY SequencesHold
<1>3. read \in SourceReadings
  BY DEF SourceReadings
<1>4. F \in [SourceReadings \X (1..N) -> SourceReadings]
  BY <1>2, CaptureStays
<1> HIDE DEF N, places, F
<1>5. PICK g : IsFold(g, SourceReadings, read, N, F)
  BY <1>2, <1>3, <1>4, FoldExists
<1>6. Unfolds(g)
  <2>1. ASSUME NEW s \in SUBSET (1..N), s # {}
        PROVE  g[s] = CaptureHeader(g[s \ {Max(s)}], places[Max(s)])
    <3>1. Max(s) \in s
      BY <1>2, <2>1, GreatestExists
    <3>2. Max(s) \in 1..N /\ <<g[s \ {Max(s)}], Max(s)>> \in SourceReadings \X (1..N)
      BY <1>2, <1>5, <3>1 DEF IsFold
    <3>3. QED
      BY <1>5, <2>1, <3>2 DEF F, IsFold
  <2>2. QED
    BY <1>2, <1>5, <2>1 DEF IsFold
<1>7. Unfolds(it)
  <2> HIDE DEF Unfolds
  <2>1. QED
    BY <1>6
<1> HIDE DEF it
<1>8. it[{}] = read
  BY <1>7
<1>9. Iterates(it, SourceReadings, read, N, F)
  <2>1. ASSUME NEW n \in 1..N, it[1..(n - 1)] \in SourceReadings
        PROVE  it[1..n] = F[<<it[1..(n - 1)], n>>]
    <3>1. 1..n \in SUBSET (DOMAIN places) /\ n \in Nat \ {0}
      BY <1>2
    <3>2. Max(1..n) = n /\ (1..n) \ {n} = 1..(n - 1) /\ 1..n # {}
      BY <1>2, <3>1, MaxOfPrefix
    <3>3. it[1..n] = CaptureHeader(it[(1..n) \ {Max(1..n)}], places[Max(1..n)])
      BY <1>7, <3>1, <3>2
    <3>4. <<it[1..(n - 1)], n>> \in SourceReadings \X (1..N)
      BY <2>1
    <3>5. QED
      BY <3>2, <3>3, <3>4 DEF F
  <2>2. QED
    BY <1>8, <2>1 DEF Iterates
<1>10. PICK h : IsPrefixFold(h, SourceReadings, read, N, F) /\ h[N] = it[1..N]
  <2>1. FoldsTo(it, SourceReadings, read, N, F)
    BY <1>2, <1>3, <1>4, <1>9, PrefixesFold
  <2>2. QED
    BY <2>1 DEF FoldsTo
<1>11. ASSUME NEW n \in 1..N PROVE h[n] = CaptureHeader(h[n - 1], places[n])
  <2>1. n - 1 \in 0..N
    BY <1>2
  <2>2. <<h[n - 1], n>> \in SourceReadings \X (1..N)
    BY <1>10, <2>1 DEF IsPrefixFold
  <2>3. QED
    BY <1>10, <2>2 DEF IsPrefixFold, F
<1>12. QED
  BY <1>1, <1>2, <1>10, <1>11 DEF N, places, IsPrefixFold

\* What capturing lines changes, the headers only; and the first n of some
\* lines.
HeadersReadOn(c, read, L) == ReadsOn(c, read) /\ HeadersHold(c.headers, L)
LinesTo(lines, n) == {lines[k] : k \in 1..n}

\* The first n + 1 lines.
LEMMA LinesToGrow ==
  ASSUME NEW lines, NEW n \in Nat
  PROVE  LinesTo(lines, 0) = {} /\ LinesTo(lines, n + 1) = LinesTo(lines, n) \cup {lines[n + 1]}
<1>1. 1..(n + 1) = (1..n) \cup {n + 1} /\ 1..0 = {}
  OBVIOUS
<1>2. QED
  BY <1>1 DEF LinesTo

\* After the rows of a table, each header is given by the first line that names
\* it.
LEMMA RowsAreRead ==
  ASSUME NEW read \in SourceReadings, NEW lines \in Seq(HeaderLines), NEW L \in SUBSET Places,
         InOrder(lines), \A l \in L, m \in ToSet(lines) : Before(l, m),
         HeadersHold(read.headers, L)
  PROVE  HeadersReadOn(CaptureHeaders(read, lines), read, L \cup ToSet(lines))
<1> DEFINE N == Len(lines)
           UpToRow(k) == L \cup LinesTo(lines, k)
<1>1. /\ N \in Nat /\ DOMAIN lines = 1..N
      /\ \A k \in 1..N : lines[k] \in HeaderLines /\ lines[k] \in Places
  BY SequencesHold DEF HeaderLines
<1>2. PICK h : /\ h[0] = read /\ CaptureHeaders(read, lines) = h[N]
               /\ \A n \in 0..N : h[n] \in SourceReadings
               /\ \A n \in 1..N : h[n] = CaptureHeader(h[n - 1], lines[n])
  BY RowsFolded
<1> HIDE DEF N
<1> DEFINE S == {k \in 0..N : HeadersReadOn(h[k], read, UpToRow(k))}
<1>3. 0 \in S
  <2>1. UpToRow(0) = L
    BY LinesToGrow
  <2> HIDE DEF UpToRow
  <2>2. QED
    BY <1>1, <1>2, <2>1 DEF HeadersReadOn, ReadsOn
<1>4. ASSUME NEW n \in 1..N, n - 1 \in S PROVE n \in S
  <2>1. n - 1 \in Nat /\ (n - 1) + 1 = n /\ n \in 0..N /\ n - 1 \in 0..N
    BY <1>1
  <2>2. UpToRow(n) = UpToRow(n - 1) \cup {lines[n]}
    <3>1. LinesTo(lines, (n - 1) + 1) = LinesTo(lines, n - 1) \cup {lines[(n - 1) + 1]}
      BY <2>1, LinesToGrow
    <3>2. LinesTo(lines, n) = LinesTo(lines, n - 1) \cup {lines[n]}
      BY <2>1, <3>1
    <3>3. QED
      BY <3>2
  <2>3. UpToRow(n - 1) \in SUBSET Places /\ \A l \in UpToRow(n - 1) : Before(l, lines[n])
    <3>1. \A k \in 1..(n - 1) : k \in 1..N /\ k < n
      BY <1>1
    <3>2. \A l \in L : Before(l, lines[n])
      BY <1>1 DEF ToSet
    <3>3. \A k \in 1..(n - 1) : Before(lines[k], lines[n])
      BY <1>1, <3>1 DEF InOrder
    <3>4. QED
      BY <1>1, <3>1, <3>2, <3>3 DEF LinesTo
  <2> HIDE DEF UpToRow
  <2>4. /\ h[n] = CaptureHeader(h[n - 1], lines[n])
        /\ h[n - 1] \in SourceReadings /\ lines[n] \in HeaderLines
    BY <1>1, <1>2, <2>1
  <2>5. HeadersReadOn(h[n - 1], read, UpToRow(n - 1))
    BY <1>4
  <2>6. /\ ReadsOn(h[n], h[n - 1])
        /\ HeadersHold(h[n].headers, UpToRow(n))
    <3>1. HeadersHold(h[n - 1].headers, UpToRow(n - 1))
      BY <2>5 DEF HeadersReadOn
    <3>2. /\ ReadsOn(CaptureHeader(h[n - 1], lines[n]), h[n - 1])
          /\ HeadersHold(CaptureHeader(h[n - 1], lines[n]).headers, UpToRow(n - 1) \cup {lines[n]})
      BY <2>3, <2>4, <3>1, HeaderIsRead
    <3>3. QED
      BY <2>2, <2>4, <3>2
  <2>7. QED
    BY <2>1, <2>5, <2>6 DEF HeadersReadOn, ReadsOn
<1>5. N \in S
  <2> HIDE DEF S
  <2>1. 0..N \subseteq S
    BY <1>1, <1>3, <1>4, UpTo
  <2>2. QED
    BY <1>1, <2>1
<1>6. UpToRow(N) = L \cup ToSet(lines)
  BY <1>1 DEF ToSet, LinesTo
<1> HIDE DEF UpToRow
<1>7. QED
  BY <1>2, <1>5, <1>6

-----------------------------------------------------------------------------
\* The lines of the first n blocks; those that stay under the headings of s,
\* but for the blank ones at the end; and what has been read of the first n
\* blocks.
LinesUpTo(n) == UNION {LinesOf(m) : m \in 1..n}
Stay(s) ==
  {l \in LinesUnder(s) : ~IsBlank(l) \/ (s # History /\ \E m \in TextUnder(s) : Before(m, l))}
PartsHold(parts, L) ==
  \A s \in SectionKeys : InOrder(parts[s]) /\ ToSet(parts[s]) = Stay(s) \cap L
BlocksRead(read, n) ==
  /\ read \in SourceReadings /\ read.current = LastOpened(n)
  /\ HeadersHold(read.headers, LinesUpTo(n)) /\ PartsHold(read.parts, LinesUpTo(n))

\* The lines of a block come after those of the blocks before it, and before
\* the others.
LEMMA LinesComeAfter ==
  ASSUME Blocked, NEW n \in DOMAIN source
  PROVE  /\ n - 1 \in Nat /\ LinesUpTo(n) = LinesUpTo(n - 1) \cup LinesOf(n)
         /\ LinesUpTo(n - 1) \in SUBSET Places /\ LinesOf(n) \subseteq SourceLines
         /\ \A l \in LinesUpTo(n - 1), m \in LinesOf(n) : Before(l, m)
         /\ \A l \in SourceLines : l \in LinesUpTo(n) \/ \A m \in LinesOf(n) : Before(m, l)
<1>1. Len(source) \in Nat /\ DOMAIN source = 1..Len(source) /\ n \in 1..Len(source)
  BY SourceIsTyped
<1>2. \A k \in 1..Len(source) : \A l \in LinesOf(k) : l \in Places /\ l[1] = k
  BY <1>1, LinesOfBlocks
<1>3. n - 1 \in Nat /\ 1..n = (1..(n - 1)) \cup {n}
  BY <1>1
<1>4. LinesUpTo(n) = LinesUpTo(n - 1) \cup LinesOf(n)
  BY <1>3 DEF LinesUpTo
<1>5. LinesOf(n) \subseteq SourceLines
  BY DEF SourceLines
<1>6. \A k \in 1..(n - 1) : k \in 1..Len(source) /\ k < n
  BY <1>1
<1>7. LinesUpTo(n - 1) \in SUBSET Places
  BY <1>2, <1>6 DEF LinesUpTo
<1>8. \A l \in LinesUpTo(n - 1), m \in LinesOf(n) : Before(l, m)
  BY <1>1, <1>2, <1>6 DEF LinesUpTo, Before
<1>9. ASSUME NEW l \in SourceLines PROVE l \in LinesUpTo(n) \/ \A m \in LinesOf(n) : Before(m, l)
  <2>1. PICK k \in 1..Len(source) : l \in LinesOf(k)
    BY <1>1 DEF SourceLines
  <2>2. CASE k <= n
    <3>1. k \in 1..n
      BY <1>1, <2>2
    <3>2. QED
      BY <2>1, <3>1 DEF LinesUpTo
  <2>3. CASE n < k
    BY <1>1, <1>2, <2>1, <2>3 DEF Before
  <2>4. QED
    BY <1>1, <2>2, <2>3
<1>10. QED
  BY <1>3, <1>4, <1>5, <1>7, <1>8, <1>9

\* All blocks have all lines.
LEMMA AllLines ==
  ASSUME Blocked
  PROVE  /\ LinesUpTo(Len(source)) = SourceLines /\ LinesUpTo(0) = {}
         /\ SourceLines \in SUBSET Places
         /\ \A l \in SourceLines : l[1] \in DOMAIN source
<1>1. Len(source) \in Nat /\ DOMAIN source = 1..Len(source)
  BY SourceIsTyped
<1>2. LinesUpTo(Len(source)) = SourceLines
  BY <1>1 DEF LinesUpTo, SourceLines
<1>3. LinesUpTo(0) = {}
  <2>1. 1..0 = {}
    OBVIOUS
  <2>2. QED
    BY <2>1 DEF LinesUpTo
<1>4. \A k \in DOMAIN source : \A l \in LinesOf(k) : l \in Places /\ l[1] = k
  BY LinesOfBlocks
<1>5. QED
  BY <1>2, <1>3, <1>4 DEF SourceLines

\* The last heading at or before a block is the block itself, or that of the
\* block before.
LEMMA LastOpenedIs ==
  ASSUME Blocked, NEW n \in DOMAIN source
  PROVE  /\ LastOpened(0) = Unmapped
         /\ LastOpened(n) = IF Opens(n) THEN source[n].section ELSE LastOpened(n - 1)
<1>1. n \in Nat /\ n >= 1
  BY SourceIsTyped
<1> DEFINE Opened(k) == {m \in 1..k : Opens(m)}
<1>2. Opened(0) = {}
  OBVIOUS
<1>3. CASE Opens(n)
  <2>1. n \in Opened(n) /\ Opened(n) \subseteq Int /\ \A y \in Opened(n) : y <= n
    BY <1>1, <1>3
  <2>2. Max(Opened(n)) = n
    <3> HIDE DEF Opened
    <3>1. QED
      BY <2>1, GreatestIs
  <2>3. QED
    BY <1>2, <1>3, <2>1, <2>2 DEF LastOpened
<1>4. CASE ~Opens(n)
  <2>1. Opened(n) = Opened(n - 1)
    <3>1. 1..n = (1..(n - 1)) \cup {n}
      BY <1>1
    <3>2. QED
      BY <1>4, <3>1
  <2> HIDE DEF Opened
  <2>2. \A k : LastOpened(k) = IF Opened(k) = {} THEN Unmapped ELSE source[Max(Opened(k))].section
    BY DEF LastOpened, Opened
  <2>3. QED
    BY <1>2, <1>4, <2>1, <2>2
<1>5. QED
  BY <1>3, <1>4

\* Whether a paragraph gives a header field can be told from the lines before
\* it.
LEMMA HeaderIsGiven ==
  ASSUME Blocked, NEW n \in DOMAIN source, source[n].kind # "table"
  PROVE  GivesHeader(<<n, 0>>) <=>
           /\ HeaderOf(<<n, 0>>) # Unmapped
           /\ IsFirst(<<n, 0>>, NamingIn(HeaderOf(<<n, 0>>), LinesUpTo(n - 1) \cup {<<n, 0>>}))
<1> DEFINE line == <<n, 0>>
           near == NamingIn(HeaderOf(line), LinesUpTo(n - 1) \cup {line})
           all == Naming(HeaderOf(line))
<1>1. LinesOf(n) = {line} /\ line[2] = 0
  BY DEF LinesOf
<1>2. line \in near /\ near \subseteq all
  <2>1. LinesUpTo(n - 1) \subseteq SourceLines
    <3>1. 1..(n - 1) \subseteq DOMAIN source
      BY SourceIsTyped
    <3>2. QED
      BY <3>1 DEF LinesUpTo, SourceLines
  <2>2. line \in SourceLines
    BY <1>1, LinesComeAfter
  <2> HIDE DEF line
  <2>3. QED
    BY <2>1, <2>2 DEF NamingIn, Naming
<1>3. \A l \in all : l \in near \/ Before(line, l)
  <2>1. \A l \in SourceLines : l \in LinesUpTo(n - 1) \cup {line} \/ Before(line, l)
    BY <1>1, LinesComeAfter
  <2> HIDE DEF line
  <2>2. QED
    BY <2>1 DEF NamingIn, Naming
<1> HIDE DEF near, all
<1>4. IsFirst(line, near) <=> IsFirst(line, all)
  <2> HIDE DEF line
  <2>1. QED
    BY <1>2, <1>3 DEF IsFirst
<1>5. GivesHeader(line) <=> HeaderOf(line) # Unmapped /\ IsFirst(line, all)
  BY <1>1 DEF GivesHeader, all
<1>6. QED
  BY <1>4, <1>5 DEF near

\* Which sections a line of a block stays under.
LEMMA StaysUnder ==
  ASSUME Blocked, NEW n \in DOMAIN source, NEW l \in LinesOf(n), NEW s \in SectionKeys
  PROVE  l \in Stay(s) <=>
           /\ LastOpened(n) = s /\ ~GivesHeader(l) /\ (Opens(n) => source[n].inline)
           /\ source[n].kind # "blank" \/ (s # History /\ \E m \in TextUnder(s) : Before(m, l))
<1>1. l \in SourceLines /\ l[1] = n
  BY LinesComeAfter, LinesOfBlocks
<1>2. l \in LinesUnder(s) <=>
        LastOpened(n) = s /\ ~GivesHeader(l) /\ (Opens(n) => source[n].inline)
  BY <1>1 DEF LinesUnder
<1>3. IsBlank(l) <=> source[n].kind = "blank"
  BY <1>1 DEF IsBlank
<1>4. QED
  BY <1>2, <1>3 DEF Stay

\* What adding lines to a section changes.
LEMMA LinesAreAdded ==
  ASSUME NEW read \in SourceReadings, NEW s \in SectionKeys, NEW added \in Seq(Places)
  PROVE  /\ AddLines(read, s, added) \in SourceReadings
         /\ AddLines(read, s, added).headers = read.headers
         /\ AddLines(read, s, added).current = read.current
         /\ AddLines(read, s, added).parts = [read.parts EXCEPT ![s] = read.parts[s] \o added]
<1>1. /\ read.headers \in [HeaderKeys -> Places \cup {NoLine}]
      /\ read.parts \in [SectionKeys -> Seq(Places)] /\ read.current \in SectionKeys \cup {Unmapped}
  BY DEF SourceReadings
<1>2. read.parts[s] \o added \in Seq(Places)
  <2>1. read.parts[s] \in Seq(Places)
    BY <1>1
  <2>2. QED
    BY <2>1
<1> DEFINE longer == read.parts[s] \o added
<1>3. AddLines(read, s, added) = [read EXCEPT !.parts[s] = longer]
  BY DEF AddLines
<1> HIDE DEF longer
<1>4. longer \in Seq(Places)
  BY <1>2 DEF longer
<1>5. QED
  <2>1. [read EXCEPT !.parts[s] = longer] =
          [read EXCEPT !.parts = [read.parts EXCEPT ![s] = longer]]
    BY DEF SourceReadings
  <2>2. [read.parts EXCEPT ![s] = longer] \in [SectionKeys -> Seq(Places)]
    BY <1>1, <1>4
  <2>3. QED
    BY <1>1, <1>3, <2>1, <2>2 DEF SourceReadings, longer

\* No line of a block belongs to a section.
LEMMA PartsStay ==
  ASSUME NEW parts, NEW L, NEW M, PartsHold(parts, L), \A s \in SectionKeys : Stay(s) \cap M = {}
  PROVE  PartsHold(parts, L \cup M)
BY DEF PartsHold

\* The lines of a block are added to the section they belong to.
LEMMA PartsGrow ==
  ASSUME NEW parts \in [SectionKeys -> Seq(Places)], NEW L, NEW M,
         \A l \in L, m \in M : Before(l, m), PartsHold(parts, L),
         NEW s \in SectionKeys, NEW added \in Seq(Places), InOrder(added),
         ToSet(added) = Stay(s) \cap M, \A t \in SectionKeys : t # s => Stay(t) \cap M = {}
  PROVE  PartsHold([parts EXCEPT ![s] = parts[s] \o added], L \cup M)
<1> DEFINE longer == parts[s] \o added
           more == [parts EXCEPT ![s] = longer]
<1>1. parts[s] \in Seq(Places) /\ InOrder(parts[s]) /\ ToSet(parts[s]) = Stay(s) \cap L
  BY DEF PartsHold
<1>2. \A x \in ToSet(parts[s]), y \in ToSet(added) : Before(x, y)
  BY <1>1
<1>3. InOrder(longer) /\ ToSet(longer) = Stay(s) \cap (L \cup M)
  <2>1. InOrder(longer) /\ ToSet(longer) = ToSet(parts[s]) \cup ToSet(added)
    BY <1>1, <1>2, PlacesJoin
  <2> HIDE DEF longer
  <2>2. QED
    BY <1>1, <2>1
<1> HIDE DEF longer
<1>4. more[s] = longer /\ \A t \in SectionKeys : t # s => more[t] = parts[t]
  OBVIOUS
<1> HIDE DEF more
<1>5. ASSUME NEW t \in SectionKeys
      PROVE  InOrder(more[t]) /\ ToSet(more[t]) = Stay(t) \cap (L \cup M)
  <2>1. CASE t = s
    BY <1>3, <1>4, <2>1
  <2>2. CASE t # s
    <3>1. more[t] = parts[t] /\ Stay(t) \cap M = {}
      BY <1>4, <2>2
    <3>2. InOrder(parts[t]) /\ ToSet(parts[t]) = Stay(t) \cap L
      BY DEF PartsHold
    <3>3. QED
      BY <3>1, <3>2
  <2>3. QED
    BY <2>1, <2>2
<1>6. QED
  BY <1>5 DEF more, longer, PartsHold

-----------------------------------------------------------------------------
\* A paragraph as lines.
OneLine(n) == <<<<n, 0>>>>

\* A paragraph is in order.
LEMMA OneLineIs ==
  ASSUME Blocked, NEW n \in DOMAIN source
  PROVE  OneLine(n) \in Seq(Places) /\ InOrder(OneLine(n)) /\ ToSet(OneLine(n)) = {<<n, 0>>}
<1> DEFINE line == <<n, 0>>
<1>1. line \in Places
  BY ParagraphIsLine
<1> HIDE DEF line
<1>2. <<line>> \in Seq(Places) /\ DOMAIN <<line>> = {1} /\ <<line>>[1] = line
  BY <1>1
<1>3. InOrder(<<line>>) /\ ToSet(<<line>>) = {line}
  BY <1>2 DEF InOrder, ToSet
<1>4. QED
  BY <1>2, <1>3 DEF OneLine, line

\* A blank line is kept after text of a section that is no revision history.
KeepsBlanks(read) == read.current \notin {Unmapped, History} /\ read.parts[read.current] # <<>>
OpenedAt(read, n) == [read EXCEPT !.current = source[n].section]
Captured(read, n) == CaptureHeader(read, <<n, 0>>)
CapturedRows(read, n) == CaptureHeaders(read, Rows(n))

\* The branches of the loop over the paragraphs.
LEMMA ParagraphsAreMapped ==
  ASSUME NEW read, NEW n, source[n].kind # "table",
         source[n].kind = "heading" => Captured(read, n) = read
  PROVE  /\ source[n].kind = "blank" =>
              MapBlock(read, n) = IF KeepsBlanks(read) THEN AddLines(read, read.current, OneLine(n))
                                  ELSE read
         /\ source[n].kind # "blank" /\ Captured(read, n) # read =>
              MapBlock(read, n) = Captured(read, n)
         /\ source[n].kind = "heading" =>
              MapBlock(read, n) =
                IF source[n].inline THEN AddLines(OpenedAt(read, n), source[n].section, OneLine(n))
                ELSE OpenedAt(read, n)
         /\ source[n].kind \notin {"blank", "heading"} /\ Captured(read, n) = read =>
              MapBlock(read, n) = IF read.current = Unmapped THEN read
                                  ELSE AddLines(read, read.current, OneLine(n))
<1>1. MapBlock(read, n) = MapParagraph(read, n)
  BY DEF MapBlock
<1>2. CASE source[n].kind = "blank"
  <2>1. MapParagraph(read, n) = IF KeepsBlanks(read) THEN AddLines(read, read.current, OneLine(n))
                                ELSE read
    BY <1>2, Zenon DEF MapParagraph, KeepsBlanks, OneLine
  <2>2. QED
    BY <1>1, <1>2, <2>1
<1>3. CASE source[n].kind # "blank" /\ Captured(read, n) # read
  <2>1. MapParagraph(read, n) = Captured(read, n)
    BY <1>3, Zenon DEF MapParagraph, Captured
  <2>2. QED
    BY <1>1, <1>3, <2>1
<1>4. CASE source[n].kind = "heading"
  <2>1. source[n].kind # "blank" /\ Captured(read, n) = read
    BY <1>4
  <2>2. MapParagraph(read, n) =
          IF source[n].inline THEN AddLines(OpenedAt(read, n), source[n].section, OneLine(n))
          ELSE OpenedAt(read, n)
    BY <1>4, <2>1, Zenon DEF MapParagraph, Captured, OpenedAt, OneLine
  <2>3. QED
    BY <1>1, <1>4, <2>1, <2>2
<1>5. CASE source[n].kind \notin {"blank", "heading"} /\ Captured(read, n) = read
  <2>1. source[n].kind # "blank" /\ source[n].kind # "heading"
    BY <1>5
  <2>2. MapParagraph(read, n) = IF read.current = Unmapped THEN read
                                ELSE AddLines(read, read.current, OneLine(n))
    BY <1>5, <2>1, Zenon DEF MapParagraph, Captured, OneLine
  <2>3. QED
    BY <1>1, <1>5, <2>1, <2>2
<1>6. QED
  BY <1>2, <1>3, <1>4, <1>5

\* The branch of the loop for tables.
LEMMA TableIsMapped ==
  ASSUME NEW read, NEW n, source[n].kind = "table"
  PROVE  MapBlock(read, n) = IF read.current = Unmapped THEN CapturedRows(read, n)
                             ELSE AddLines(CapturedRows(read, n), read.current, Rows(n))
BY DEF MapBlock, MapTable, CapturedRows

\* A heading gives no header field, and opens a section.
LEMMA HeadingGivesNothing ==
  ASSUME Blocked, NEW read \in SourceReadings, NEW n \in DOMAIN source, source[n].kind = "heading"
  PROVE  /\ Captured(read, n) = read /\ source[n].section \in SectionKeys
         /\ OpenedAt(read, n) \in SourceReadings
         /\ OpenedAt(read, n).headers = read.headers /\ OpenedAt(read, n).parts = read.parts
         /\ OpenedAt(read, n).current = source[n].section
<1>1. source[n] \in Blocks
  BY SourceIsTyped
<1>2. source[n].header = Unmapped /\ source[n].section \in SectionKeys
  BY <1>1, BlocksAreTyped
<1>3. HeaderOf(<<n, 0>>) = Unmapped
  BY <1>2, ParagraphIsLine
<1>4. Captured(read, n) = read
  BY <1>3 DEF Captured, CaptureHeader
<1>5. QED
  BY <1>2, <1>4 DEF OpenedAt, SourceReadings

\* What is captured of a paragraph is a reading.
LEMMA CapturedIs ==
  ASSUME Blocked, NEW read \in SourceReadings, NEW n \in DOMAIN source
  PROVE  Captured(read, n) \in SourceReadings
<1>1. <<n, 0>> \in HeaderLines
  BY ParagraphIsLine
<1>2. QED
  BY <1>1, CaptureStays DEF Captured

\* What is captured of a table is a reading.
LEMMA CapturedRowsAre ==
  ASSUME Blocked, NEW read \in SourceReadings, NEW n \in DOMAIN source
  PROVE  CapturedRows(read, n) \in SourceReadings
<1>1. Rows(n) \in Seq(HeaderLines)
  BY RowsAreLines
<1>2. PICK h : /\ h[0] = read /\ CaptureHeaders(read, Rows(n)) = h[Len(Rows(n))]
               /\ \A k \in 0..Len(Rows(n)) : h[k] \in SourceReadings
  BY <1>1, RowsFolded
<1>3. Len(Rows(n)) \in 0..Len(Rows(n))
  BY <1>1, SequencesHold
<1>4. QED
  BY <1>2, <1>3 DEF CapturedRows

\* What is read of a source stays a reading.
LEMMA SourceStaysReading ==
  ASSUME Blocked, NEW read \in SourceReadings, NEW n \in DOMAIN source
  PROVE  MapBlock(read, n) \in SourceReadings
<1>1. /\ source[n] \in Blocks /\ OneLine(n) \in Seq(Places)
      /\ read.current \in SectionKeys \cup {Unmapped}
  BY SourceIsTyped, OneLineIs DEF SourceReadings
<1>2. source[n].kind \in Kinds
  BY <1>1, BlocksAreTyped
<1>3. CASE source[n].kind = "table"
  <2>1. CapturedRows(read, n) \in SourceReadings /\ Rows(n) \in Seq(Places)
    BY CapturedRowsAre, RowsAreLines
  <2>2. read.current # Unmapped =>
          AddLines(CapturedRows(read, n), read.current, Rows(n)) \in SourceReadings
    BY <1>1, <2>1, LinesAreAdded
  <2>3. QED
    BY <1>3, <2>1, <2>2, TableIsMapped
<1>4. CASE source[n].kind # "table"
  <2>1. source[n].kind = "heading" => Captured(read, n) = read
    BY HeadingGivesNothing
  <2>2. CASE source[n].kind = "blank"
    <3>1. MapBlock(read, n) = IF KeepsBlanks(read) THEN AddLines(read, read.current, OneLine(n))
                              ELSE read
      BY <1>4, <2>1, <2>2, ParagraphsAreMapped
    <3>2. KeepsBlanks(read) => read.current \in SectionKeys
      BY <1>1 DEF KeepsBlanks
    <3>3. KeepsBlanks(read) => AddLines(read, read.current, OneLine(n)) \in SourceReadings
      BY <1>1, <3>2, LinesAreAdded
    <3>4. QED
      BY <3>1, <3>3
  <2>3. CASE source[n].kind = "heading"
    <3>1. MapBlock(read, n) =
            IF source[n].inline THEN AddLines(OpenedAt(read, n), source[n].section, OneLine(n))
            ELSE OpenedAt(read, n)
      BY <1>4, <2>1, <2>3, ParagraphsAreMapped
    <3>2. OpenedAt(read, n) \in SourceReadings /\ source[n].section \in SectionKeys
      BY <2>3, HeadingGivesNothing
    <3>3. AddLines(OpenedAt(read, n), source[n].section, OneLine(n)) \in SourceReadings
      BY <1>1, <3>2, LinesAreAdded
    <3>4. QED
      BY <3>1, <3>2, <3>3
  <2>4. CASE source[n].kind \notin {"blank", "heading"}
    <3>1. MapBlock(read, n) \in {Captured(read, n), read, AddLines(read, read.current, OneLine(n))}
      BY <1>4, <2>1, <2>4, ParagraphsAreMapped
    <3>2. read.current # Unmapped => AddLines(read, read.current, OneLine(n)) \in SourceReadings
      BY <1>1, LinesAreAdded
    <3>3. Captured(read, n) \in SourceReadings
      BY CapturedIs
    <3>4. QED
      BY <1>4, <2>1, <2>4, <3>2, <3>3, ParagraphsAreMapped
  <2>5. QED
    BY <2>2, <2>3, <2>4
<1>5. QED
  BY <1>3, <1>4

\* _map_migrate_source reads the blocks one after the other.
LEMMA SourceFolded ==
  ASSUME Blocked
  PROVE  \E h : /\ h[0] = NothingMapped /\ SourceRead = h[Len(source)]
                /\ \A n \in 0..Len(source) : h[n] \in SourceReadings
                /\ \A n \in 1..Len(source) : h[n] = MapBlock(h[n - 1], n)
<1> DEFINE N == Len(source)
           places == [i \in DOMAIN source |-> i]
           Unfolds(g) == g = [s \in SUBSET (DOMAIN places) |->
                                IF s = {} THEN NothingMapped
                                ELSE MapBlock(g[s \ {Max(s)}], places[Max(s)])]
           it == CHOOSE g : Unfolds(g)
           F == [x \in SourceReadings \X (1..N) |-> MapBlock(x[1], x[2])]
<1>1. SourceRead = it[DOMAIN places]
  BY Zenon DEF SourceRead, FoldLeftDomain, FoldLeft, MapThenFoldSet
<1>2. N \in Nat /\ DOMAIN places = 1..N /\ \A n \in 1..N : places[n] = n
  BY SourceIsTyped
<1>3. NothingMapped \in SourceReadings
  BY KeysAreApart DEF NothingMapped, SourceReadings, NoLine
<1>4. F \in [SourceReadings \X (1..N) -> SourceReadings]
  BY SourceStaysReading, SourceIsTyped
<1> HIDE DEF N, places, F
<1>5. PICK g : IsFold(g, SourceReadings, NothingMapped, N, F)
  BY <1>2, <1>3, <1>4, FoldExists
<1>6. Unfolds(g)
  <2>1. ASSUME NEW s \in SUBSET (1..N), s # {}
        PROVE  g[s] = MapBlock(g[s \ {Max(s)}], places[Max(s)])
    <3>1. Max(s) \in s
      BY <1>2, <2>1, GreatestExists
    <3>2. places[Max(s)] = Max(s) /\ <<g[s \ {Max(s)}], Max(s)>> \in SourceReadings \X (1..N)
      BY <1>2, <1>5, <3>1 DEF IsFold
    <3>3. QED
      BY <1>5, <2>1, <3>2 DEF F, IsFold
  <2>2. QED
    BY <1>2, <1>5, <2>1 DEF IsFold
<1>7. Unfolds(it)
  <2> HIDE DEF Unfolds
  <2>1. QED
    BY <1>6
<1> HIDE DEF it
<1>8. it[{}] = NothingMapped
  BY <1>7
<1>9. Iterates(it, SourceReadings, NothingMapped, N, F)
  <2>1. ASSUME NEW n \in 1..N, it[1..(n - 1)] \in SourceReadings
        PROVE  it[1..n] = F[<<it[1..(n - 1)], n>>]
    <3>1. 1..n \in SUBSET (DOMAIN places) /\ n \in Nat \ {0}
      BY <1>2
    <3>2. Max(1..n) = n /\ (1..n) \ {n} = 1..(n - 1) /\ 1..n # {} /\ places[n] = n
      BY <1>2, <3>1, MaxOfPrefix
    <3>3. it[1..n] = MapBlock(it[(1..n) \ {Max(1..n)}], places[Max(1..n)])
      BY <1>7, <3>1, <3>2
    <3>4. <<it[1..(n - 1)], n>> \in SourceReadings \X (1..N)
      BY <2>1
    <3>5. QED
      BY <3>2, <3>3, <3>4 DEF F
  <2>2. QED
    BY <1>8, <2>1 DEF Iterates
<1>10. PICK h : IsPrefixFold(h, SourceReadings, NothingMapped, N, F) /\ h[N] = it[1..N]
  <2>1. FoldsTo(it, SourceReadings, NothingMapped, N, F)
    BY <1>2, <1>3, <1>4, <1>9, PrefixesFold
  <2>2. QED
    BY <2>1 DEF FoldsTo
<1>11. ASSUME NEW n \in 1..N PROVE h[n] = MapBlock(h[n - 1], n)
  <2>1. n - 1 \in 0..N
    BY <1>2
  <2>2. <<h[n - 1], n>> \in SourceReadings \X (1..N)
    BY <1>10, <2>1 DEF IsPrefixFold
  <2>3. QED
    BY <1>10, <2>2 DEF IsPrefixFold, F
<1>12. QED
  BY <1>1, <1>2, <1>10, <1>11 DEF N, IsPrefixFold

\* A section has lines just when some text of it has been read.
LEMMA TextComesBefore ==
  ASSUME Blocked, NEW n \in DOMAIN source, source[n].kind # "table",
         NEW s \in SectionKeys, s # History,
         NEW parts \in [SectionKeys -> Seq(Places)], PartsHold(parts, LinesUpTo(n - 1))
  PROVE  parts[s] # <<>> <=> \E m \in TextUnder(s) : Before(m, <<n, 0>>)
<1> DEFINE line == <<n, 0>>
<1>1. LinesOf(n) = {line}
  BY DEF LinesOf
<1>2. /\ line \in Places /\ SourceLines \in SUBSET Places
      /\ LinesUpTo(n) = LinesUpTo(n - 1) \cup {line}
      /\ \A l \in LinesUpTo(n - 1) : Before(l, line)
      /\ \A l \in SourceLines : l \in LinesUpTo(n) \/ Before(line, l)
  BY <1>1, LinesComeAfter, ParagraphIsLine, AllLines
<1> HIDE DEF line
<1>3. parts[s] \in Seq(Places) /\ ToSet(parts[s]) = Stay(s) \cap LinesUpTo(n - 1)
  BY DEF PartsHold
<1>4. TextUnder(s) \subseteq LinesUnder(s) /\ LinesUnder(s) \subseteq SourceLines
  BY DEF TextUnder, LinesUnder
<1>5. ASSUME parts[s] # <<>> PROVE \E m \in TextUnder(s) : Before(m, line)
  <2>1. parts[s][1] \in ToSet(parts[s])
    BY <1>3, <1>5 DEF ToSet
  <2>2. PICK l : l \in Stay(s) /\ l \in LinesUpTo(n - 1)
    BY <1>3, <2>1
  <2>3. l \in LinesUnder(s) /\ Before(l, line) /\ l \in Places
    BY <1>2, <1>4, <2>2 DEF Stay
  <2>4. CASE ~IsBlank(l)
    BY <2>3, <2>4 DEF TextUnder
  <2>5. CASE IsBlank(l)
    <3>1. PICK m \in TextUnder(s) : Before(m, l)
      BY <2>2, <2>5 DEF Stay
    <3>2. m \in Places
      BY <1>2, <1>4
    <3>3. Before(m, line)
      BY <1>2, <2>3, <3>1, <3>2, OrderCarries
    <3>4. QED
      BY <3>3
  <2>6. QED
    BY <2>4, <2>5
<1>6. ASSUME NEW m \in TextUnder(s), Before(m, line) PROVE parts[s] # <<>>
  <2>1. m \in Places /\ ~Before(line, m) /\ m # line /\ m \in SourceLines
    BY <1>2, <1>4, <1>6, PlacesAreOrdered
  <2>2. m \in LinesUpTo(n - 1)
    BY <1>2, <2>1
  <2>3. m \in Stay(s)
    BY DEF Stay, TextUnder
  <2>4. m \in ToSet(parts[s])
    BY <1>3, <2>2, <2>3
  <2>5. QED
    <3>1. ToSet(<<>>) = {}
      BY DEF ToSet
    <3>2. QED
      BY <2>4, <3>1
<1>7. QED
  BY <1>5, <1>6 DEF line

-----------------------------------------------------------------------------
\* The lines of a block that stay under the headings of s.
StaysOf(n, s) == Stay(s) \cap LinesOf(n)

\* A paragraph is captured just when it gives a header field.
LEMMA ParagraphIsRead ==
  ASSUME Blocked, NEW n \in DOMAIN source, source[n].kind # "table",
         NEW read, BlocksRead(read, n - 1)
  PROVE  /\ ReadsOn(Captured(read, n), read)
         /\ HeadersHold(Captured(read, n).headers, LinesUpTo(n))
         /\ Captured(read, n) # read <=> GivesHeader(<<n, 0>>)
<1> DEFINE line == <<n, 0>>
           L == LinesUpTo(n - 1)
<1>1. LinesOf(n) = {line}
  BY DEF LinesOf
<1>2. /\ line \in HeaderLines /\ L \in SUBSET Places /\ LinesUpTo(n) = L \cup {line}
      /\ \A l \in L : Before(l, line)
  BY <1>1, ParagraphIsLine, LinesComeAfter
<1>3. read \in SourceReadings /\ HeadersHold(read.headers, L)
  BY DEF BlocksRead
<1>4. GivesHeader(line) <=>
        HeaderOf(line) # Unmapped /\ IsFirst(line, NamingIn(HeaderOf(line), L \cup {line}))
  BY HeaderIsGiven
<1> HIDE DEF line, L
<1>5. /\ ReadsOn(CaptureHeader(read, line), read)
      /\ HeadersHold(CaptureHeader(read, line).headers, L \cup {line})
      /\ CaptureHeader(read, line) # read <=>
           HeaderOf(line) # Unmapped /\ IsFirst(line, NamingIn(HeaderOf(line), L \cup {line}))
  BY <1>2, <1>3, HeaderIsRead
<1>6. Captured(read, n) = CaptureHeader(read, line)
  BY DEF Captured, line
<1>7. QED
  BY <1>2, <1>4, <1>5, <1>6 DEF line

\* A block that adds to no section.
LEMMA NothingIsAdded ==
  ASSUME Blocked, NEW n \in DOMAIN source, NEW read, BlocksRead(read, n - 1),
         \A s \in SectionKeys : StaysOf(n, s) = {}
  PROVE  PartsHold(read.parts, LinesUpTo(n))
<1>1. PartsHold(read.parts, LinesUpTo(n - 1)) /\ LinesUpTo(n) = LinesUpTo(n - 1) \cup LinesOf(n)
  BY LinesComeAfter DEF BlocksRead
<1>2. QED
  BY <1>1, PartsStay DEF StaysOf

\* A block that adds to one section.
LEMMA BlockIsAddedTo ==
  ASSUME Blocked, NEW n \in DOMAIN source, NEW read, BlocksRead(read, n - 1),
         NEW on \in SourceReadings, on.parts = read.parts,
         NEW s \in SectionKeys, NEW added \in Seq(Places), InOrder(added),
         ToSet(added) = StaysOf(n, s), \A t \in SectionKeys : t # s => StaysOf(n, t) = {}
  PROVE  PartsHold(AddLines(on, s, added).parts, LinesUpTo(n))
<1>1. /\ PartsHold(read.parts, LinesUpTo(n - 1)) /\ LinesUpTo(n) = LinesUpTo(n - 1) \cup LinesOf(n)
      /\ \A l \in LinesUpTo(n - 1), m \in LinesOf(n) : Before(l, m)
      /\ read.parts \in [SectionKeys -> Seq(Places)]
  BY LinesComeAfter DEF BlocksRead, SourceReadings
<1>2. PartsHold([read.parts EXCEPT ![s] = read.parts[s] \o added], LinesUpTo(n - 1) \cup LinesOf(n))
  BY <1>1, PartsGrow DEF StaysOf
<1>3. AddLines(on, s, added).parts = [read.parts EXCEPT ![s] = read.parts[s] \o added]
  <2>1. AddLines(on, s, added).parts = [on.parts EXCEPT ![s] = on.parts[s] \o added]
    BY LinesAreAdded
  <2>2. QED
    BY <2>1
<1>4. QED
  BY <1>1, <1>2, <1>3

\* A block belongs to the section that is open only.
LEMMA OnlyUnderOne ==
  ASSUME Blocked, NEW n \in DOMAIN source, NEW s \in SectionKeys, s # LastOpened(n)
  PROVE  StaysOf(n, s) = {}
BY StaysUnder DEF StaysOf

\* A blank line goes to the section that is open, after text only.
LEMMA BlankIsRead ==
  ASSUME Blocked, NEW n \in DOMAIN source, source[n].kind = "blank",
         NEW read, BlocksRead(read, n - 1)
  PROVE  BlocksRead(MapBlock(read, n), n)
<1>1. read \in SourceReadings /\ source[n] \in Blocks
  BY SourceIsTyped DEF BlocksRead
<1>2. source[n].kind # "table" /\ ~Opens(n) /\ source[n].header = Unmapped
  BY <1>1, BlocksAreTyped DEF Opens
<1>3. HeaderOf(<<n, 0>>) = Unmapped
  BY <1>2, ParagraphIsLine
<1>4. ~GivesHeader(<<n, 0>>)
  BY <1>3 DEF GivesHeader
<1>5. Captured(read, n) = read /\ HeadersHold(read.headers, LinesUpTo(n))
  BY <1>2, <1>4, ParagraphIsRead
<1>6. /\ read.current = LastOpened(n) /\ read.current \in SectionKeys \cup {Unmapped}
      /\ read.parts \in [SectionKeys -> Seq(Places)]
      /\ PartsHold(read.parts, LinesUpTo(n - 1))
  BY <1>1, <1>2, LastOpenedIs DEF BlocksRead, SourceReadings
<1>7. LinesOf(n) = {<<n, 0>>}
  BY <1>2 DEF LinesOf
<1>8. MapBlock(read, n) = IF KeepsBlanks(read) THEN AddLines(read, read.current, OneLine(n))
                          ELSE read
  BY <1>2, ParagraphsAreMapped
<1>9. OneLine(n) \in Seq(Places) /\ InOrder(OneLine(n)) /\ ToSet(OneLine(n)) = {<<n, 0>>}
  BY OneLineIs
<1>10. ASSUME NEW s \in SectionKeys
       PROVE  StaysOf(n, s) = IF s = read.current /\ KeepsBlanks(read) THEN {<<n, 0>>} ELSE {}
  <2>1. <<n, 0>> \in Stay(s) <=>
          /\ LastOpened(n) = s
          /\ s # History /\ \E m \in TextUnder(s) : Before(m, <<n, 0>>)
    BY <1>2, <1>4, <1>7, StaysUnder
  <2>2. s # History => (read.parts[s] # <<>> <=> \E m \in TextUnder(s) : Before(m, <<n, 0>>))
    BY <1>2, <1>6, TextComesBefore
  <2>3. s = read.current => (KeepsBlanks(read) <=> s # History /\ read.parts[s] # <<>>)
    BY <1>6, KeysAreApart DEF KeepsBlanks
  <2>4. <<n, 0>> \in Stay(s) <=> s = read.current /\ KeepsBlanks(read)
    BY <1>6, <2>1, <2>2, <2>3
  <2> HIDE DEF KeepsBlanks
  <2>5. QED
    BY <1>7, <2>4 DEF StaysOf
<1>11. CASE KeepsBlanks(read)
  <2>1. read.current \in SectionKeys
    BY <1>6, <1>11 DEF KeepsBlanks
  <2>2. ToSet(OneLine(n)) = StaysOf(n, read.current)
    BY <1>9, <1>10, <1>11, <2>1
  <2>3. \A t \in SectionKeys : t # read.current => StaysOf(n, t) = {}
    BY <1>10
  <2>4. PartsHold(AddLines(read, read.current, OneLine(n)).parts, LinesUpTo(n))
    BY <1>1, <1>9, <2>1, <2>2, <2>3, BlockIsAddedTo
  <2>5. /\ AddLines(read, read.current, OneLine(n)) \in SourceReadings
        /\ AddLines(read, read.current, OneLine(n)).headers = read.headers
        /\ AddLines(read, read.current, OneLine(n)).current = read.current
    BY <1>1, <1>9, <2>1, LinesAreAdded
  <2>6. MapBlock(read, n) = AddLines(read, read.current, OneLine(n))
    BY <1>8, <1>11
  <2>7. QED
    BY <1>5, <1>6, <2>4, <2>5, <2>6 DEF BlocksRead
<1>12. CASE ~KeepsBlanks(read)
  <2>1. \A t \in SectionKeys : StaysOf(n, t) = {}
    BY <1>10, <1>12
  <2>2. PartsHold(read.parts, LinesUpTo(n))
    BY <2>1, NothingIsAdded
  <2>3. MapBlock(read, n) = read
    BY <1>8, <1>12
  <2>4. QED
    BY <1>1, <1>5, <1>6, <2>2, <2>3 DEF BlocksRead
<1>13. QED
  BY <1>11, <1>12

\* A paragraph that gives a header field goes to no section.
LEMMA HeaderIsTaken ==
  ASSUME Blocked, NEW n \in DOMAIN source, source[n].kind \notin {"blank", "table"},
         NEW read, BlocksRead(read, n - 1), Captured(read, n) # read
  PROVE  BlocksRead(MapBlock(read, n), n)
<1>1. read \in SourceReadings /\ source[n].kind # "table" /\ source[n].kind # "blank"
  BY DEF BlocksRead
<1>2. source[n].kind # "heading" /\ ~Opens(n)
  BY <1>1, HeadingGivesNothing DEF Opens
<1>3. /\ ReadsOn(Captured(read, n), read) /\ GivesHeader(<<n, 0>>)
      /\ HeadersHold(Captured(read, n).headers, LinesUpTo(n))
  BY <1>1, ParagraphIsRead
<1>4. LinesOf(n) = {<<n, 0>>}
  BY <1>1 DEF LinesOf
<1>5. \A s \in SectionKeys : StaysOf(n, s) = {}
  BY <1>3, <1>4, StaysUnder DEF StaysOf
<1>6. PartsHold(read.parts, LinesUpTo(n))
  BY <1>5, NothingIsAdded
<1>7. MapBlock(read, n) = Captured(read, n)
  BY <1>1, <1>2, ParagraphsAreMapped
<1>8. read.current = LastOpened(n)
  BY <1>2, LastOpenedIs DEF BlocksRead
<1>9. QED
  BY <1>3, <1>6, <1>7, <1>8 DEF BlocksRead, ReadsOn

\* A heading opens its section, with the text on its line.
LEMMA SectionIsOpened ==
  ASSUME Blocked, NEW n \in DOMAIN source, source[n].kind = "heading",
         NEW read, BlocksRead(read, n - 1)
  PROVE  BlocksRead(MapBlock(read, n), n)
<1> DEFINE s == source[n].section
           on == OpenedAt(read, n)
<1>1. read \in SourceReadings /\ source[n].kind # "table" /\ source[n].kind # "blank" /\ Opens(n)
  BY DEF BlocksRead, Opens
<1>2. /\ Captured(read, n) = read /\ s \in SectionKeys /\ on \in SourceReadings
      /\ on.headers = read.headers /\ on.parts = read.parts /\ on.current = s
  BY <1>1, HeadingGivesNothing
<1>3. ~GivesHeader(<<n, 0>>) /\ HeadersHold(read.headers, LinesUpTo(n))
  BY <1>1, <1>2, ParagraphIsRead
<1>4. LinesOf(n) = {<<n, 0>>} /\ LastOpened(n) = s
  BY <1>1, LastOpenedIs DEF LinesOf
<1>5. MapBlock(read, n) = IF source[n].inline THEN AddLines(on, s, OneLine(n)) ELSE on
  BY <1>1, <1>2, ParagraphsAreMapped
<1>6. OneLine(n) \in Seq(Places) /\ InOrder(OneLine(n)) /\ ToSet(OneLine(n)) = {<<n, 0>>}
  BY OneLineIs
<1>7. StaysOf(n, s) = IF source[n].inline THEN {<<n, 0>>} ELSE {}
  <2>1. <<n, 0>> \in Stay(s) <=> source[n].inline
    BY <1>1, <1>2, <1>3, <1>4, StaysUnder
  <2>2. QED
    BY <1>4, <2>1 DEF StaysOf
<1>8. \A t \in SectionKeys : t # s => StaysOf(n, t) = {}
  BY <1>4, OnlyUnderOne
<1> HIDE DEF s, on
<1>9. CASE source[n].inline
  <2>1. PartsHold(AddLines(on, s, OneLine(n)).parts, LinesUpTo(n))
    BY <1>2, <1>6, <1>7, <1>8, <1>9, BlockIsAddedTo
  <2>2. /\ AddLines(on, s, OneLine(n)) \in SourceReadings
        /\ AddLines(on, s, OneLine(n)).headers = on.headers
        /\ AddLines(on, s, OneLine(n)).current = on.current
    BY <1>2, <1>6, LinesAreAdded
  <2>3. QED
    BY <1>2, <1>3, <1>4, <1>5, <1>9, <2>1, <2>2 DEF BlocksRead
<1>10. CASE ~source[n].inline
  <2>1. PartsHold(read.parts, LinesUpTo(n))
    <3>1. \A t \in SectionKeys : StaysOf(n, t) = {}
      BY <1>7, <1>8, <1>10
    <3>2. QED
      BY <3>1, NothingIsAdded
  <2>2. QED
    BY <1>2, <1>3, <1>4, <1>5, <1>10, <2>1 DEF BlocksRead
<1>11. QED
  BY <1>9, <1>10

\* Any other paragraph goes to the section that is open.
LEMMA TextIsRead ==
  ASSUME Blocked, NEW n \in DOMAIN source, source[n].kind \notin {"blank", "heading", "table"},
         NEW read, BlocksRead(read, n - 1), Captured(read, n) = read
  PROVE  BlocksRead(MapBlock(read, n), n)
<1>1. /\ read \in SourceReadings /\ source[n].kind # "table" /\ source[n].kind # "blank"
      /\ source[n].kind # "heading" /\ ~Opens(n)
  BY DEF BlocksRead, Opens
<1>2. ~GivesHeader(<<n, 0>>) /\ HeadersHold(read.headers, LinesUpTo(n))
  BY <1>1, ParagraphIsRead
<1>3. read.current = LastOpened(n) /\ read.current \in SectionKeys \cup {Unmapped}
  BY <1>1, LastOpenedIs DEF BlocksRead, SourceReadings
<1>4. LinesOf(n) = {<<n, 0>>}
  BY <1>1 DEF LinesOf
<1>5. MapBlock(read, n) = IF read.current = Unmapped THEN read
                          ELSE AddLines(read, read.current, OneLine(n))
  BY <1>1, ParagraphsAreMapped
<1>6. OneLine(n) \in Seq(Places) /\ InOrder(OneLine(n)) /\ ToSet(OneLine(n)) = {<<n, 0>>}
  BY OneLineIs
<1>7. \A t \in SectionKeys : t # read.current => StaysOf(n, t) = {}
  BY <1>3, OnlyUnderOne
<1>8. CASE read.current # Unmapped
  <2>1. read.current \in SectionKeys
    BY <1>3, <1>8
  <2>2. <<n, 0>> \in Stay(read.current)
    BY <1>1, <1>2, <1>3, <1>4, <2>1, StaysUnder
  <2>3. ToSet(OneLine(n)) = StaysOf(n, read.current)
    BY <1>4, <1>6, <2>2 DEF StaysOf
  <2>4. PartsHold(AddLines(read, read.current, OneLine(n)).parts, LinesUpTo(n))
    BY <1>1, <1>6, <1>7, <2>1, <2>3, BlockIsAddedTo
  <2>5. /\ AddLines(read, read.current, OneLine(n)) \in SourceReadings
        /\ AddLines(read, read.current, OneLine(n)).headers = read.headers
        /\ AddLines(read, read.current, OneLine(n)).current = read.current
    BY <1>1, <1>6, <2>1, LinesAreAdded
  <2>6. QED
    BY <1>2, <1>3, <1>5, <1>8, <2>4, <2>5 DEF BlocksRead
<1>9. CASE read.current = Unmapped
  <2>1. PartsHold(read.parts, LinesUpTo(n))
    <3>1. \A t \in SectionKeys : StaysOf(n, t) = {}
      BY <1>7, <1>9, KeysAreApart
    <3>2. QED
      BY <3>1, NothingIsAdded
  <2>2. QED
    BY <1>1, <1>2, <1>3, <1>5, <1>9, <2>1 DEF BlocksRead
<1>10. QED
  BY <1>8, <1>9

\* A table gives header fields, and goes to the section that is open.
LEMMA TableIsRead ==
  ASSUME Blocked, NEW n \in DOMAIN source, source[n].kind = "table",
         NEW read, BlocksRead(read, n - 1)
  PROVE  BlocksRead(MapBlock(read, n), n)
<1> DEFINE on == CapturedRows(read, n)
<1>1. read \in SourceReadings /\ source[n].kind # "blank" /\ ~Opens(n)
  BY DEF BlocksRead, Opens
<1>2. /\ Rows(n) \in Seq(HeaderLines) /\ Rows(n) \in Seq(Places) /\ InOrder(Rows(n))
      /\ \A l \in ToSet(Rows(n)) : l \in Places /\ l[1] = n /\ l[2] # 0
  BY RowsAreLines
<1>3. LinesOf(n) = ToSet(Rows(n))
  BY DEF LinesOf
<1>4. on \in SourceReadings /\ on.parts = read.parts /\ on.current = read.current
      /\ HeadersHold(on.headers, LinesUpTo(n))
  <2>1. /\ LinesUpTo(n) = LinesUpTo(n - 1) \cup ToSet(Rows(n)) /\ LinesUpTo(n - 1) \in SUBSET Places
        /\ \A l \in LinesUpTo(n - 1), m \in ToSet(Rows(n)) : Before(l, m)
        /\ HeadersHold(read.headers, LinesUpTo(n - 1))
    BY <1>3, LinesComeAfter DEF BlocksRead
  <2>2. HeadersReadOn(CaptureHeaders(read, Rows(n)), read, LinesUpTo(n - 1) \cup ToSet(Rows(n)))
    BY <1>1, <1>2, <2>1, RowsAreRead
  <2>3. QED
    BY <2>1, <2>2 DEF HeadersReadOn, ReadsOn, CapturedRows
<1>5. read.current = LastOpened(n) /\ read.current \in SectionKeys \cup {Unmapped}
  BY <1>1, LastOpenedIs DEF BlocksRead, SourceReadings
<1>6. MapBlock(read, n) = IF read.current = Unmapped THEN on
                          ELSE AddLines(on, read.current, Rows(n))
  BY TableIsMapped
<1>7. \A t \in SectionKeys : t # read.current => StaysOf(n, t) = {}
  BY <1>5, OnlyUnderOne
<1> HIDE DEF on
<1>8. CASE read.current # Unmapped
  <2>1. read.current \in SectionKeys
    BY <1>5, <1>8
  <2>2. \A l \in LinesOf(n) : l \in Stay(read.current)
    <3>1. ASSUME NEW l \in LinesOf(n) PROVE l \in Stay(read.current)
      <4>1. ~GivesHeader(l)
        BY <1>2, <1>3 DEF GivesHeader
      <4>2. QED
        BY <1>1, <1>5, <2>1, <4>1, StaysUnder
    <3>2. QED
      BY <3>1
  <2>3. ToSet(Rows(n)) = StaysOf(n, read.current)
    BY <1>3, <2>2 DEF StaysOf
  <2>4. PartsHold(AddLines(on, read.current, Rows(n)).parts, LinesUpTo(n))
    BY <1>2, <1>4, <1>7, <2>1, <2>3, BlockIsAddedTo
  <2>5. /\ AddLines(on, read.current, Rows(n)) \in SourceReadings
        /\ AddLines(on, read.current, Rows(n)).headers = on.headers
        /\ AddLines(on, read.current, Rows(n)).current = on.current
    BY <1>2, <1>4, <2>1, LinesAreAdded
  <2>6. QED
    BY <1>4, <1>5, <1>6, <1>8, <2>4, <2>5 DEF BlocksRead
<1>9. CASE read.current = Unmapped
  <2>1. PartsHold(read.parts, LinesUpTo(n))
    <3>1. \A t \in SectionKeys : StaysOf(n, t) = {}
      BY <1>7, <1>9, KeysAreApart
    <3>2. QED
      BY <3>1, NothingIsAdded
  <2>2. QED
    BY <1>4, <1>5, <1>6, <1>9, <2>1 DEF BlocksRead
<1>10. QED
  BY <1>8, <1>9

\* After all blocks, all of the source has been read.
LEMMA BlocksAreMapped == Blocked => BlocksRead(SourceRead, Len(source))
<1> SUFFICES ASSUME Blocked PROVE BlocksRead(SourceRead, Len(source))
  OBVIOUS
<1> DEFINE N == Len(source)
<1>1. N \in Nat /\ DOMAIN source = 1..N
  BY SourceIsTyped
<1>2. PICK h : /\ h[0] = NothingMapped /\ SourceRead = h[N]
               /\ \A n \in 0..N : h[n] \in SourceReadings
               /\ \A n \in 1..N : h[n] = MapBlock(h[n - 1], n)
  BY SourceFolded
<1> HIDE DEF N
<1> DEFINE S == {n \in 0..N : BlocksRead(h[n], n)}
<1>3. 0 \in S
  <2>1. 0 \in 0..N /\ h[0] \in SourceReadings
    BY <1>1, <1>2
  <2>2. LinesUpTo(0) = {} /\ LastOpened(0) = Unmapped
    <3>1. LinesUpTo(0) = {}
      BY AllLines
    <3>2. {m \in 1..0 : Opens(m)} = {}
      OBVIOUS
    <3>3. QED
      BY <3>1, <3>2, Zenon DEF LastOpened
  <2>3. h[0].current = Unmapped /\ \A key \in HeaderKeys : h[0].headers[key] = NoLine
    BY <1>2 DEF NothingMapped, NoLine
  <2>4. \A s \in SectionKeys : h[0].parts[s] = <<>>
    BY <1>2 DEF NothingMapped
  <2>5. HeadersHold(h[0].headers, LinesUpTo(0))
    BY <2>2, <2>3 DEF HeadersHold, NamingIn
  <2>6. InOrder(<<>>) /\ ToSet(<<>>) = {}
    BY DEF InOrder, ToSet
  <2>7. PartsHold(h[0].parts, LinesUpTo(0))
    BY <2>2, <2>4, <2>6 DEF PartsHold
  <2>8. QED
    BY <2>1, <2>2, <2>3, <2>5, <2>7 DEF BlocksRead
<1>4. ASSUME NEW n \in 1..N, n - 1 \in S PROVE n \in S
  <2>1. /\ BlocksRead(h[n - 1], n - 1) /\ h[n] = MapBlock(h[n - 1], n)
        /\ n \in DOMAIN source /\ n \in 0..N
    BY <1>1, <1>2, <1>4
  <2>2. source[n].kind \in Kinds
    BY <2>1, SourceIsTyped, BlocksAreTyped
  <2>3. BlocksRead(MapBlock(h[n - 1], n), n)
    <3>1. CASE source[n].kind = "blank"
      BY <2>1, <3>1, BlankIsRead
    <3>2. CASE source[n].kind = "table"
      BY <2>1, <3>2, TableIsRead
    <3>3. CASE source[n].kind = "heading"
      BY <2>1, <3>3, SectionIsOpened
    <3>4. CASE /\ source[n].kind \notin {"blank", "heading", "table"}
               /\ Captured(h[n - 1], n) = h[n - 1]
      BY <2>1, <3>4, TextIsRead
    <3>5. CASE /\ source[n].kind \notin {"blank", "heading", "table"}
               /\ Captured(h[n - 1], n) # h[n - 1]
      <4>1. source[n].kind \notin {"blank", "table"}
        BY <3>5
      <4>2. QED
        BY <2>1, <3>5, <4>1, HeaderIsTaken
    <3>6. QED
      BY <3>1, <3>2, <3>3, <3>4, <3>5
  <2>4. QED
    BY <2>1, <2>3
<1>5. QED
  <2> HIDE DEF S
  <2>1. 0..N \subseteq S
    BY <1>1, <1>3, <1>4, UpTo
  <2>2. N \in S
    BY <1>1, <2>1
  <2>3. QED
    BY <1>2, <2>2 DEF S, N

-----------------------------------------------------------------------------
\* Min is a member that exceeds none.
LEMMA LeastExists ==
  ASSUME NEW S \in SUBSET Nat, S # {}
  PROVE  Min(S) \in S /\ \A k \in S : Min(S) <= k
<1>1. \E m \in S : \A k \in S : m <= k
  BY SetsHaveLeast
<1>2. QED
  BY <1>1 DEF Min

\* _join_verbatim_content leaves the text of a section, and the blank lines
\* between.
LEMMA BodyIsJoined ==
  ASSUME Blocked, NEW s \in SectionKeys, s # History,
         NEW lines \in Seq(Places), InOrder(lines), ToSet(lines) = Stay(s)
  PROVE  InOrder(Joined(lines)) /\ ToSet(Joined(lines)) = BodyOf(s)
<1> DEFINE full == {k \in DOMAIN lines : ~IsBlank(lines[k])}
           N == Len(lines)
<1>1. N \in Nat /\ DOMAIN lines = 1..N /\ \A k \in 1..N : lines[k] \in Places
  BY SequencesHold
<1>2. Joined(lines) = IF full = {} THEN <<>> ELSE SubSeq(lines, Min(full), Max(full))
  BY DEF Joined
<1>3. /\ SourceLines \in SUBSET Places
      /\ TextUnder(s) \subseteq SourceLines /\ LinesUnder(s) \subseteq SourceLines
  BY AllLines DEF TextUnder, LinesUnder
<1>4. \A l \in LinesUnder(s) : ~IsBlank(l) <=> l \in TextUnder(s)
  BY DEF TextUnder
<1>5. TextUnder(s) \subseteq Stay(s) /\ Stay(s) \subseteq LinesUnder(s)
  BY DEF TextUnder, Stay
<1>6. \A k \in 1..N : lines[k] \in Stay(s)
  BY <1>1 DEF ToSet
<1>7. \A l \in Stay(s) : \E k \in 1..N : l = lines[k]
  BY <1>1 DEF ToSet
<1>8. \A k \in 1..N : k \in full <=> lines[k] \in TextUnder(s)
  BY <1>1, <1>4, <1>5, <1>6
<1>9. BodyOf(s) = {l \in Stay(s) : l \in TextUnder(s) \/ \E m \in TextUnder(s) : Before(l, m)}
  <2>1. \A l \in LinesUnder(s) :
          l \in Stay(s) <=> (l \in TextUnder(s) \/ \E m \in TextUnder(s) : Before(m, l))
    BY <1>4 DEF Stay
  <2>2. QED
    BY <1>5, <2>1 DEF BodyOf
<1>10. full \subseteq 1..N
  BY <1>1
<1> HIDE DEF full, N
<1>11. CASE full = {}
  <2>1. TextUnder(s) = {}
    BY <1>5, <1>7, <1>8, <1>11
  <2>2. BodyOf(s) = {}
    BY <1>9, <2>1
  <2>3. InOrder(<<>>) /\ ToSet(<<>>) = {}
    BY DEF InOrder, ToSet
  <2>4. Joined(lines) = <<>>
    BY <1>2, <1>11
  <2>5. QED
    BY <2>2, <2>3, <2>4
<1>12. CASE full # {}
  <2> DEFINE i == Min(full)
             j == Max(full)
  <2>1. i \in full /\ \A k \in full : i <= k
    <3>1. full \in SUBSET Nat
      BY <1>1, <1>10
    <3>2. QED
      BY <1>12, <3>1, LeastExists
  <2>2. j \in full /\ \A k \in full : k <= j
    BY <1>1, <1>10, <1>12, GreatestExists
  <2> HIDE DEF i, j
  <2>3. i \in 1..N /\ j \in 1..N /\ i <= j /\ i \in Nat /\ j \in Nat
    BY <1>1, <1>10, <2>1, <2>2
  <2>4. Joined(lines) = SubSeq(lines, i, j)
    BY <1>2, <1>12 DEF i, j
  <2>5. InOrder(Joined(lines)) /\ ToSet(Joined(lines)) = {lines[k] : k \in i..j}
    BY <1>1, <2>3, <2>4, PlacesAreCut
  <2>6. ASSUME NEW k \in i..j PROVE lines[k] \in BodyOf(s)
    <3>1. k \in 1..N /\ k <= j
      BY <1>1, <2>3
    <3>2. lines[j] \in TextUnder(s)
      BY <1>8, <2>2, <2>3
    <3>3. CASE k = j
      BY <1>6, <1>9, <3>1, <3>2, <3>3
    <3>4. CASE k # j
      <4>1. k < j
        BY <1>1, <2>3, <3>1, <3>4
      <4>2. Before(lines[k], lines[j])
        BY <1>1, <2>3, <3>1, <4>1 DEF InOrder
      <4>3. QED
        BY <1>6, <1>9, <3>1, <3>2, <4>2
    <3>5. QED
      BY <3>3, <3>4
  <2>7. ASSUME NEW l \in BodyOf(s) PROVE l \in {lines[k] : k \in i..j}
    <3>1. l \in Stay(s) /\ (l \in TextUnder(s) \/ \E m \in TextUnder(s) : Before(l, m))
      BY <1>9
    <3>2. l \in TextUnder(s) \/ \E m \in TextUnder(s) : Before(m, l)
      BY <1>4, <1>5, <3>1 DEF Stay
    <3>3. PICK k \in 1..N : l = lines[k]
      BY <1>7, <3>1
    <3>4. ASSUME NEW m \in TextUnder(s), Before(l, m) PROVE k <= j
      <4>1. PICK x \in 1..N : m = lines[x]
        BY <1>5, <1>7
      <4>2. x \in full /\ x <= j
        BY <1>8, <2>2, <4>1
      <4>3. ~(x <= k)
        <5>1. ~Before(m, l) /\ m # l
          BY <1>1, <3>3, <3>4, <4>1, PlacesAreOrdered
        <5>2. x < k => Before(m, l)
          BY <1>1, <3>3, <4>1 DEF InOrder
        <5>3. QED
          BY <1>1, <3>3, <4>1, <5>1, <5>2
      <4>4. QED
        BY <1>1, <2>3, <4>2, <4>3
    <3>5. ASSUME NEW m \in TextUnder(s), Before(m, l) PROVE i <= k
      <4>1. PICK x \in 1..N : m = lines[x]
        BY <1>5, <1>7
      <4>2. x \in full /\ i <= x
        BY <1>8, <2>1, <4>1
      <4>3. ~(k <= x)
        <5>1. ~Before(l, m) /\ m # l
          BY <1>1, <3>3, <3>5, <4>1, PlacesAreOrdered
        <5>2. k < x => Before(l, m)
          BY <1>1, <3>3, <4>1 DEF InOrder
        <5>3. QED
          BY <1>1, <3>3, <4>1, <5>1, <5>2
      <4>4. QED
        BY <1>1, <2>3, <4>2, <4>3
    <3>6. l \in TextUnder(s) => i <= k /\ k <= j
      BY <1>8, <2>1, <2>2, <3>3
    <3>7. i <= k /\ k <= j
      BY <3>1, <3>2, <3>4, <3>5, <3>6
    <3>8. k \in i..j
      BY <1>1, <2>3, <3>7
    <3>9. QED
      BY <3>3, <3>8
  <2>8. QED
    BY <2>5, <2>6, <2>7
<1>13. QED
  BY <1>11, <1>12

\* _build_revision_history leaves out column titles in the first row only.
LEMMA RevisionsAreKept ==
  ASSUME Blocked, NEW lines \in Seq(Places), InOrder(lines), ToSet(lines) = Stay(History)
  PROVE  InOrder(Revisions(lines)) /\ ToSet(Revisions(lines)) = RevisionsUnder
<1>1. Stay(History) = TextUnder(History) /\ Stay(History) \in SUBSET Places
  BY AllLines DEF Stay, TextUnder, LinesUnder
<1>2. CASE lines = <<>>
  <2>1. Revisions(lines) = lines /\ ToSet(lines) = {}
    BY <1>2 DEF Revisions, ToSet
  <2>2. RevisionsUnder = {}
    BY <1>1, <2>1 DEF RevisionsUnder
  <2>3. QED
    BY <2>1, <2>2
<1>3. CASE lines # <<>>
  <2>1. /\ InOrder(Tail(lines)) /\ ToSet(Tail(lines)) = ToSet(lines) \ {lines[1]}
        /\ lines[1] \in ToSet(lines) /\ IsFirst(lines[1], ToSet(lines))
    BY <1>3, TailIsCut
  <2>2. \A l : IsFirst(l, TextUnder(History)) <=> l = lines[1]
    BY <1>1, <2>1, FirstIsOne
  <2>3. Revisions(lines) = IF ColumnTitles(lines[1]) THEN Tail(lines) ELSE lines
    BY <1>3 DEF Revisions
  <2>4. RevisionsUnder = IF ColumnTitles(lines[1]) THEN ToSet(lines) \ {lines[1]} ELSE ToSet(lines)
    <3>1. RevisionsUnder = {l \in ToSet(lines) : ColumnTitles(l) => l # lines[1]}
      BY <1>1, <2>2 DEF RevisionsUnder
    <3>2. QED
      BY <3>1
  <2>5. QED
    BY <2>1, <2>3, <2>4
<1>4. QED
  BY <1>2, <1>3

\* For a source of any blocks, what is mapped is what it says.
LEMMA SourceHolds == Blocked => SourceIsMapped
<1> SUFFICES ASSUME Blocked PROVE SourceIsMapped
  OBVIOUS
<1>1. BlocksRead(SourceRead, Len(source)) /\ LinesUpTo(Len(source)) = SourceLines
  BY BlocksAreMapped, AllLines
<1>2. /\ SourceRead \in SourceReadings /\ HeadersHold(SourceRead.headers, SourceLines)
      /\ PartsHold(SourceRead.parts, SourceLines)
  BY <1>1 DEF BlocksRead
<1>3. \A s \in SectionKeys : /\ SourceRead.parts[s] \in Seq(Places)
                             /\ InOrder(SourceRead.parts[s]) /\ ToSet(SourceRead.parts[s]) = Stay(s)
  <2>1. \A s \in SectionKeys : Stay(s) \cap SourceLines = Stay(s)
    BY DEF Stay, LinesUnder
  <2>2. QED
    BY <1>2, <2>1 DEF PartsHold, SourceReadings
<1>4. ASSUME NEW key \in HeaderKeys
      PROVE  IF Naming(key) = {} THEN MapSource.headers[key] = <<>>
             ELSE IsFirst(MapSource.headers[key], Naming(key))
  <2>1. MapSource.headers = SourceRead.headers /\ Naming(key) = NamingIn(key, SourceLines)
    BY DEF MapSource, Naming, NamingIn
  <2>2. QED
    BY <1>2, <2>1 DEF HeadersHold, NoLine
<1>5. ASSUME NEW s \in SectionKeys
      PROVE  /\ InOrder(MapSource.sections[s])
             /\ ToSet(MapSource.sections[s]) = IF s = History THEN RevisionsUnder ELSE BodyOf(s)
  <2>1. MapSource.sections[s] = IF s = History THEN Revisions(SourceRead.parts[s])
                                ELSE Joined(SourceRead.parts[s])
    BY DEF MapSource
  <2>2. CASE s = History
    BY <1>3, <2>1, <2>2, RevisionsAreKept
  <2>3. CASE s # History
    BY <1>3, <2>1, <2>3, BodyIsJoined
  <2>4. QED
    BY <2>2, <2>3
<1>6. QED
  BY <1>4, <1>5 DEF SourceIsMapped

-----------------------------------------------------------------------------
(***************************************************************************)
(* The template of a migration (TemplateMapping).                          *)
(***************************************************************************)
\* What is read of a template: fields are lines of F and headings lines of S.
NoOutputs == <<>>
SectionOutputs == {<<s>> : s \in SectionKeys \cup {Unmapped}}
HeadingOutputs == SectionOutputs \cup Places
HeadingEntries == [line : Places, output : HeadingOutputs]
TemplateReadings ==
  [fields : Seq(Places), sections : Seq(HeadingEntries), tables : Seq(Nat)]
TemplateLines == {l \in HeaderLines : SectionOf(l) \in SectionKeys \cup {Unmapped}}
FieldLines == {l \in Places : HeaderOf(l) # Unmapped}
EntryLines(sections) == [k \in DOMAIN sections |-> sections[k].line]
EntryOutputs(sections) == {sections[k].output : k \in DOMAIN sections}
OutputOf(line) == IF IsCanonical(line) THEN <<SectionOf(line)>> ELSE line
EntryOf(line) == [line |-> line, output |-> OutputOf(line)]

TemplateHolds(map, F, S) ==
  /\ map \in TemplateReadings
  /\ InOrder(map.fields) /\ ToSet(map.fields) \subseteq F
  /\ InOrder(EntryLines(map.sections)) /\ ToSet(EntryLines(map.sections)) \subseteq S
\* More is read, and nothing is lost of what the sections are.
ReadsMore(on, map, F, S) ==
  TemplateHolds(on, F, S) /\ EntryOutputs(map.sections) \subseteq EntryOutputs(on.sections)

\* The headings of a template, with one more.
LEMMA EntriesGrow ==
  ASSUME NEW sections \in Seq(HeadingEntries), NEW entry \in HeadingEntries
  PROVE  /\ EntryLines(sections) \in Seq(Places)
         /\ EntryLines(Append(sections, entry)) = Append(EntryLines(sections), entry.line)
         /\ EntryOutputs(Append(sections, entry)) = EntryOutputs(sections) \cup {entry.output}
<1> DEFINE N == Len(sections)
           more == Append(sections, entry)
<1>1. /\ N \in Nat /\ DOMAIN sections = 1..N /\ \A n \in 1..N : sections[n] \in HeadingEntries
      /\ DOMAIN more = 1..(N + 1) /\ \A n \in 1..N : more[n] = sections[n]
      /\ more[N + 1] = entry
  BY SequencesHold, SequencesGrow
<1> HIDE DEF more, N
<1>2. \A s \in HeadingEntries : s.line \in Places
  BY DEF HeadingEntries
<1>3. EntryLines(sections) = [n \in 1..N |-> sections[n].line]
  BY <1>1 DEF EntryLines
<1>4. EntryLines(sections) \in [1..N -> Places]
  BY <1>1, <1>2, <1>3
<1>5. EntryLines(sections) \in Seq(Places) /\ Len(EntryLines(sections)) = N
  BY <1>1, <1>3, <1>4
<1>6. EntryLines(more) = [n \in 1..(N + 1) |-> more[n].line]
  BY <1>1 DEF EntryLines
<1> DEFINE longer == Append(EntryLines(sections), entry.line)
<1>7. /\ longer \in Seq(Places) /\ DOMAIN longer = 1..(N + 1)
      /\ \A n \in 1..N : longer[n] = EntryLines(sections)[n]
      /\ longer[N + 1] = entry.line
  BY <1>2, <1>5, SequencesGrow
<1>8. longer = [n \in 1..(N + 1) |-> longer[n]]
  <2>1. longer \in Seq(Places) /\ Len(longer) = N + 1
    BY <1>2, <1>5, SequencesGrow
  <2> HIDE DEF longer
  <2>2. longer = [n \in 1..Len(longer) |-> longer[n]]
    BY <2>1
  <2>3. QED
    BY <2>1, <2>2
<1> HIDE DEF longer
<1>9. \A n \in 1..(N + 1) : n \in 1..N \/ n = N + 1
  BY <1>1
<1>10. \A n \in 1..(N + 1) : longer[n] = more[n].line
  BY <1>1, <1>3, <1>7, <1>9
<1>11. longer = EntryLines(more)
  BY <1>6, <1>8, <1>10
<1>12. EntryOutputs(more) = EntryOutputs(sections) \cup {entry.output}
  <2>1. 1..(N + 1) = (1..N) \cup {N + 1}
    BY <1>1
  <2>2. \A n \in 1..N : more[n].output = sections[n].output
    BY <1>1
  <2>3. {more[n].output : n \in 1..(N + 1)} =
          {more[n].output : n \in 1..N} \cup {more[N + 1].output}
    BY <2>1
  <2>4. QED
    BY <1>1, <2>2, <2>3 DEF EntryOutputs
<1>13. QED
  BY <1>5, <1>11, <1>12 DEF more, longer

\* What a line is as a heading.
LEMMA EntriesAreTyped ==
  ASSUME NEW line \in TemplateLines
  PROVE  /\ EntryOf(line) \in HeadingEntries /\ EntryOf(line).line = line
         /\ EntryOf(line).output = OutputOf(line) /\ line \in Places
<1>1. SectionOf(line) \in SectionKeys \cup {Unmapped} /\ line \in Places
  BY DEF TemplateLines, HeaderLines
<1>2. OutputOf(line) \in HeadingOutputs
  BY <1>1 DEF OutputOf, HeadingOutputs, SectionOutputs
<1>3. QED
  BY <1>1, <1>2 DEF EntryOf, HeadingEntries

\* _append_template_heading.
LEMMA HeadingIsAdded ==
  ASSUME NEW map \in TemplateReadings, NEW line \in TemplateLines
  PROVE  /\ AddHeading(map, line) \in TemplateReadings
         /\ AddHeading(map, line).fields = map.fields
         /\ AddHeading(map, line).sections = Append(map.sections, EntryOf(line))
<1>1. /\ map.fields \in Seq(Places) /\ map.sections \in Seq(HeadingEntries)
      /\ map.tables \in Seq(Nat)
      /\ EntryOf(line) \in HeadingEntries
  BY EntriesAreTyped DEF TemplateReadings
<1>2. Append(map.sections, EntryOf(line)) \in Seq(HeadingEntries)
  BY <1>1, SequencesGrow
<1> DEFINE longer == Append(map.sections, EntryOf(line))
<1>3. AddHeading(map, line) = [map EXCEPT !.sections = longer]
  BY DEF AddHeading, EntryOf, OutputOf
<1> HIDE DEF longer
<1>4. longer \in Seq(HeadingEntries)
  BY <1>2 DEF longer
<1>5. QED
  BY <1>1, <1>3, <1>4 DEF TemplateReadings, longer

\* _append_template_header_field.
LEMMA FieldIsAdded ==
  ASSUME NEW map \in TemplateReadings, NEW line \in TemplateLines
  PROVE  /\ AddField(map, line) \in TemplateReadings
         /\ AddField(map, line).sections = map.sections
         /\ AddField(map, line).fields =
              IF line \in FieldLines THEN Append(map.fields, line) ELSE map.fields
<1>1. /\ map.fields \in Seq(Places) /\ map.sections \in Seq(HeadingEntries)
      /\ map.tables \in Seq(Nat)
      /\ line \in Places
  BY EntriesAreTyped DEF TemplateReadings
<1> DEFINE longer == Append(map.fields, line)
<1>2. longer \in Seq(Places)
  BY <1>1, SequencesGrow
<1>3. AddField(map, line) = IF line \in FieldLines THEN [map EXCEPT !.fields = longer] ELSE map
  BY <1>1 DEF AddField, FieldLines
<1> HIDE DEF longer
<1>4. [map EXCEPT !.fields = longer] \in TemplateReadings
  BY <1>1, <1>2 DEF TemplateReadings
<1>5. QED
  BY <1>1, <1>3, <1>4 DEF TemplateReadings, longer

\* A table is listed.
LEMMA TableIsAdded ==
  ASSUME NEW map \in TemplateReadings, NEW n \in Nat
  PROVE  /\ AddTable(map, n) \in TemplateReadings
         /\ AddTable(map, n).sections = map.sections /\ AddTable(map, n).fields = map.fields
<1>1. /\ map.fields \in Seq(Places) /\ map.sections \in Seq(HeadingEntries)
      /\ map.tables \in Seq(Nat)
  BY DEF TemplateReadings
<1> DEFINE longer == Append(map.tables, n)
<1>2. longer \in Seq(Nat)
  BY <1>1, SequencesGrow
<1>3. AddTable(map, n) = [map EXCEPT !.tables = longer]
  BY DEF AddTable
<1> HIDE DEF longer
<1>4. QED
  BY <1>1, <1>2, <1>3 DEF TemplateReadings

\* Fields and headings of fewer lines.
LEMMA MoreIsAllowed ==
  ASSUME NEW map, NEW on, NEW F, NEW S, NEW G, NEW T, ReadsMore(on, map, F, S),
         F \subseteq G, S \subseteq T
  PROVE  ReadsMore(on, map, G, T)
BY DEF ReadsMore, TemplateHolds

\* One more heading, after all the others.
LEMMA HeadingReadsMore ==
  ASSUME NEW map, NEW F, NEW S, TemplateHolds(map, F, S), NEW line \in TemplateLines,
         \A l \in S : Before(l, line)
  PROVE  ReadsMore(AddHeading(map, line), map, F, S \cup {line})
         /\ OutputOf(line) \in EntryOutputs(AddHeading(map, line).sections)
<1> DEFINE on == AddHeading(map, line)
<1>1. map \in TemplateReadings /\ map.sections \in Seq(HeadingEntries)
  BY DEF TemplateHolds, TemplateReadings
<1>2. /\ on \in TemplateReadings /\ on.fields = map.fields
      /\ on.sections = Append(map.sections, EntryOf(line))
  BY <1>1, HeadingIsAdded
<1>3. EntryOf(line) \in HeadingEntries /\ EntryOf(line).line = line /\ line \in Places
      /\ EntryOf(line).output = OutputOf(line)
  BY EntriesAreTyped
<1> HIDE DEF on
<1>4. /\ EntryLines(map.sections) \in Seq(Places)
      /\ EntryLines(on.sections) = Append(EntryLines(map.sections), line)
      /\ EntryOutputs(on.sections) = EntryOutputs(map.sections) \cup {OutputOf(line)}
  BY <1>1, <1>2, <1>3, EntriesGrow
<1>5. /\ InOrder(map.fields) /\ ToSet(map.fields) \subseteq F
      /\ InOrder(EntryLines(map.sections)) /\ ToSet(EntryLines(map.sections)) \subseteq S
  BY DEF TemplateHolds
<1>6. /\ InOrder(EntryLines(on.sections))
      /\ ToSet(EntryLines(on.sections)) = ToSet(EntryLines(map.sections)) \cup {line}
  BY <1>3, <1>4, <1>5, PlaceIsAdded
<1>7. TemplateHolds(on, F, S \cup {line})
  BY <1>2, <1>5, <1>6 DEF TemplateHolds
<1>8. QED
  BY <1>4, <1>7 DEF ReadsMore, on

\* One more field, after all the others.
LEMMA FieldReadsMore ==
  ASSUME NEW map, NEW F, NEW S, TemplateHolds(map, F, S), NEW line \in TemplateLines,
         \A l \in F : Before(l, line)
  PROVE  /\ ReadsMore(AddField(map, line), map, F \cup ({line} \cap FieldLines), S)
         /\ AddField(map, line).sections = map.sections
<1> DEFINE on == AddField(map, line)
<1>1. map \in TemplateReadings /\ map.fields \in Seq(Places) /\ line \in Places
  BY EntriesAreTyped DEF TemplateHolds, TemplateReadings
<1>2. /\ on \in TemplateReadings /\ on.sections = map.sections
      /\ on.fields = IF line \in FieldLines THEN Append(map.fields, line) ELSE map.fields
  BY <1>1, FieldIsAdded
<1> HIDE DEF on
<1>3. /\ InOrder(map.fields) /\ ToSet(map.fields) \subseteq F
      /\ InOrder(EntryLines(map.sections)) /\ ToSet(EntryLines(map.sections)) \subseteq S
  BY DEF TemplateHolds
<1>4. \A x \in ToSet(map.fields) : Before(x, line)
  BY <1>3
<1>5. /\ InOrder(Append(map.fields, line))
      /\ ToSet(Append(map.fields, line)) = ToSet(map.fields) \cup {line}
  BY <1>1, <1>3, <1>4, PlaceIsAdded
<1>6. InOrder(on.fields) /\ ToSet(on.fields) \subseteq F \cup ({line} \cap FieldLines)
  BY <1>2, <1>3, <1>5
<1>7. TemplateHolds(on, F \cup ({line} \cap FieldLines), S)
  BY <1>2, <1>3, <1>6 DEF TemplateHolds
<1>8. QED
  BY <1>2, <1>7 DEF ReadsMore, on

\* What is read of a template stays a reading.
LEMMA RowStays ==
  ASSUME NEW map \in TemplateReadings, NEW line \in TemplateLines
  PROVE  AddRow(map, line) \in TemplateReadings /\ AddField(map, line) \in TemplateReadings
BY HeadingIsAdded, FieldIsAdded DEF AddRow

\* The rows of a table are read for fields one after the other.
LEMMA FieldsFolded ==
  ASSUME NEW map \in TemplateReadings, NEW lines \in Seq(TemplateLines)
  PROVE  \E h : /\ h[0] = map /\ AddFields(map, lines) = h[Len(lines)]
                /\ \A n \in 0..Len(lines) : h[n] \in TemplateReadings
                /\ \A n \in 1..Len(lines) : h[n] = AddField(h[n - 1], lines[n])
<1> DEFINE N == Len(lines)
           places == lines
           Unfolds(g) == g = [s \in SUBSET (DOMAIN places) |->
                                IF s = {} THEN map
                                ELSE AddField(g[s \ {Max(s)}], places[Max(s)])]
           it == CHOOSE g : Unfolds(g)
           F == [x \in TemplateReadings \X (1..N) |-> AddField(x[1], places[x[2]])]
<1>1. AddFields(map, lines) = it[DOMAIN places]
  BY Zenon DEF AddFields, FoldLeft, MapThenFoldSet
<1>2. N \in Nat /\ DOMAIN places = 1..N /\ \A n \in 1..N : places[n] \in TemplateLines
  BY SequencesHold
<1>3. map \in TemplateReadings
  BY DEF TemplateReadings
<1>4. F \in [TemplateReadings \X (1..N) -> TemplateReadings]
  BY <1>2, RowStays
<1> HIDE DEF N, places, F
<1>5. PICK g : IsFold(g, TemplateReadings, map, N, F)
  BY <1>2, <1>3, <1>4, FoldExists
<1>6. Unfolds(g)
  <2>1. ASSUME NEW s \in SUBSET (1..N), s # {}
        PROVE  g[s] = AddField(g[s \ {Max(s)}], places[Max(s)])
    <3>1. Max(s) \in s
      BY <1>2, <2>1, GreatestExists
    <3>2. Max(s) \in 1..N /\ <<g[s \ {Max(s)}], Max(s)>> \in TemplateReadings \X (1..N)
      BY <1>2, <1>5, <3>1 DEF IsFold
    <3>3. QED
      BY <1>5, <2>1, <3>2 DEF F, IsFold
  <2>2. QED
    BY <1>2, <1>5, <2>1 DEF IsFold
<1>7. Unfolds(it)
  <2> HIDE DEF Unfolds
  <2>1. QED
    BY <1>6
<1> HIDE DEF it
<1>8. it[{}] = map
  BY <1>7
<1>9. Iterates(it, TemplateReadings, map, N, F)
  <2>1. ASSUME NEW n \in 1..N, it[1..(n - 1)] \in TemplateReadings
        PROVE  it[1..n] = F[<<it[1..(n - 1)], n>>]
    <3>1. 1..n \in SUBSET (DOMAIN places) /\ n \in Nat \ {0}
      BY <1>2
    <3>2. Max(1..n) = n /\ (1..n) \ {n} = 1..(n - 1) /\ 1..n # {}
      BY <1>2, <3>1, MaxOfPrefix
    <3>3. it[1..n] = AddField(it[(1..n) \ {Max(1..n)}], places[Max(1..n)])
      BY <1>7, <3>1, <3>2
    <3>4. <<it[1..(n - 1)], n>> \in TemplateReadings \X (1..N)
      BY <2>1
    <3>5. QED
      BY <3>2, <3>3, <3>4 DEF F
  <2>2. QED
    BY <1>8, <2>1 DEF Iterates
<1>10. PICK h : IsPrefixFold(h, TemplateReadings, map, N, F) /\ h[N] = it[1..N]
  <2>1. FoldsTo(it, TemplateReadings, map, N, F)
    BY <1>2, <1>3, <1>4, <1>9, PrefixesFold
  <2>2. QED
    BY <2>1 DEF FoldsTo
<1>11. ASSUME NEW n \in 1..N PROVE h[n] = AddField(h[n - 1], places[n])
  <2>1. n - 1 \in 0..N
    BY <1>2
  <2>2. <<h[n - 1], n>> \in TemplateReadings \X (1..N)
    BY <1>10, <2>1 DEF IsPrefixFold
  <2>3. QED
    BY <1>10, <2>2 DEF IsPrefixFold, F
<1>12. QED
  BY <1>1, <1>2, <1>10, <1>11 DEF N, places, IsPrefixFold

\* The rows of a table are read for sections one after the other.
LEMMA HeadingsFolded ==
  ASSUME NEW map \in TemplateReadings, NEW lines \in Seq(TemplateLines)
  PROVE  \E h : /\ h[0] = map /\ AddRows(map, lines) = h[Len(lines)]
                /\ \A n \in 0..Len(lines) : h[n] \in TemplateReadings
                /\ \A n \in 1..Len(lines) : h[n] = AddRow(h[n - 1], lines[n])
<1> DEFINE N == Len(lines)
           places == lines
           Unfolds(g) == g = [s \in SUBSET (DOMAIN places) |->
                                IF s = {} THEN map
                                ELSE AddRow(g[s \ {Max(s)}], places[Max(s)])]
           it == CHOOSE g : Unfolds(g)
           F == [x \in TemplateReadings \X (1..N) |-> AddRow(x[1], places[x[2]])]
<1>1. AddRows(map, lines) = it[DOMAIN places]
  BY Zenon DEF AddRows, FoldLeft, MapThenFoldSet
<1>2. N \in Nat /\ DOMAIN places = 1..N /\ \A n \in 1..N : places[n] \in TemplateLines
  BY SequencesHold
<1>3. map \in TemplateReadings
  BY DEF TemplateReadings
<1>4. F \in [TemplateReadings \X (1..N) -> TemplateReadings]
  BY <1>2, RowStays
<1> HIDE DEF N, places, F
<1>5. PICK g : IsFold(g, TemplateReadings, map, N, F)
  BY <1>2, <1>3, <1>4, FoldExists
<1>6. Unfolds(g)
  <2>1. ASSUME NEW s \in SUBSET (1..N), s # {}
        PROVE  g[s] = AddRow(g[s \ {Max(s)}], places[Max(s)])
    <3>1. Max(s) \in s
      BY <1>2, <2>1, GreatestExists
    <3>2. Max(s) \in 1..N /\ <<g[s \ {Max(s)}], Max(s)>> \in TemplateReadings \X (1..N)
      BY <1>2, <1>5, <3>1 DEF IsFold
    <3>3. QED
      BY <1>5, <2>1, <3>2 DEF F, IsFold
  <2>2. QED
    BY <1>2, <1>5, <2>1 DEF IsFold
<1>7. Unfolds(it)
  <2> HIDE DEF Unfolds
  <2>1. QED
    BY <1>6
<1> HIDE DEF it
<1>8. it[{}] = map
  BY <1>7
<1>9. Iterates(it, TemplateReadings, map, N, F)
  <2>1. ASSUME NEW n \in 1..N, it[1..(n - 1)] \in TemplateReadings
        PROVE  it[1..n] = F[<<it[1..(n - 1)], n>>]
    <3>1. 1..n \in SUBSET (DOMAIN places) /\ n \in Nat \ {0}
      BY <1>2
    <3>2. Max(1..n) = n /\ (1..n) \ {n} = 1..(n - 1) /\ 1..n # {}
      BY <1>2, <3>1, MaxOfPrefix
    <3>3. it[1..n] = AddRow(it[(1..n) \ {Max(1..n)}], places[Max(1..n)])
      BY <1>7, <3>1, <3>2
    <3>4. <<it[1..(n - 1)], n>> \in TemplateReadings \X (1..N)
      BY <2>1
    <3>5. QED
      BY <3>2, <3>3, <3>4 DEF F
  <2>2. QED
    BY <1>8, <2>1 DEF Iterates
<1>10. PICK h : IsPrefixFold(h, TemplateReadings, map, N, F) /\ h[N] = it[1..N]
  <2>1. FoldsTo(it, TemplateReadings, map, N, F)
    BY <1>2, <1>3, <1>4, <1>9, PrefixesFold
  <2>2. QED
    BY <2>1 DEF FoldsTo
<1>11. ASSUME NEW n \in 1..N PROVE h[n] = AddRow(h[n - 1], places[n])
  <2>1. n - 1 \in 0..N
    BY <1>2
  <2>2. <<h[n - 1], n>> \in TemplateReadings \X (1..N)
    BY <1>10, <2>1 DEF IsPrefixFold
  <2>3. QED
    BY <1>10, <2>2 DEF IsPrefixFold, F
<1>12. QED
  BY <1>1, <1>2, <1>10, <1>11 DEF N, places, IsPrefixFold

\* The fields of a table, after all the others.
LEMMA FieldsReadMore ==
  ASSUME NEW map, NEW F, NEW S, TemplateHolds(map, F, S), NEW lines \in Seq(TemplateLines),
         InOrder(lines), \A l \in F, m \in ToSet(lines) : Before(l, m)
  PROVE  ReadsMore(AddFields(map, lines), map, F \cup (ToSet(lines) \cap FieldLines), S)
<1> DEFINE N == Len(lines)
           FieldsTo(k) == F \cup (LinesTo(lines, k) \cap FieldLines)
           TextsTo(k) == S
<1>1. N \in Nat /\ DOMAIN lines = 1..N /\ \A k \in 1..N : lines[k] \in TemplateLines
  BY SequencesHold
<1>2. PICK h : /\ h[0] = map /\ AddFields(map, lines) = h[N]
               /\ \A n \in 0..N : h[n] \in TemplateReadings
               /\ \A n \in 1..N : h[n] = AddField(h[n - 1], lines[n])
  BY FieldsFolded DEF TemplateHolds
<1> HIDE DEF N
<1> DEFINE Done == {k \in 0..N : ReadsMore(h[k], map, FieldsTo(k), TextsTo(k))}
<1>3. 0 \in Done
  <2>1. FieldsTo(0) = F /\ TextsTo(0) = S
    BY LinesToGrow
  <2> HIDE DEF FieldsTo, TextsTo
  <2>2. QED
    BY <1>1, <1>2, <2>1 DEF ReadsMore
<1>4. ASSUME NEW n \in 1..N, n - 1 \in Done PROVE n \in Done
  <2>1. n - 1 \in Nat /\ (n - 1) + 1 = n /\ n \in 0..N /\ n - 1 \in 0..N
    BY <1>1
  <2>2. LinesTo(lines, n) = LinesTo(lines, n - 1) \cup {lines[n]}
    <3>1. LinesTo(lines, (n - 1) + 1) = LinesTo(lines, n - 1) \cup {lines[(n - 1) + 1]}
      BY <2>1, LinesToGrow
    <3>2. QED
      BY <2>1, <3>1
  <2>3. \A l \in FieldsTo(n - 1) : Before(l, lines[n])
    <3>1. \A k \in 1..(n - 1) : k \in 1..N /\ k < n
      BY <1>1
    <3>2. \A l \in F : Before(l, lines[n])
      BY <1>1 DEF ToSet
    <3>3. \A k \in 1..(n - 1) : Before(lines[k], lines[n])
      BY <1>1, <3>1 DEF InOrder
    <3>4. QED
      BY <3>2, <3>3 DEF LinesTo
  <2>4. h[n] = AddField(h[n - 1], lines[n]) /\ lines[n] \in TemplateLines
    BY <1>1, <1>2, <2>1
  <2>5. /\ TemplateHolds(h[n - 1], FieldsTo(n - 1), TextsTo(n - 1))
        /\ EntryOutputs(map.sections) \subseteq EntryOutputs(h[n - 1].sections)
    BY <1>4 DEF ReadsMore
  <2>6. /\ FieldsTo(n) = FieldsTo(n - 1) \cup ({lines[n]} \cap FieldLines)
        /\ TextsTo(n) = TextsTo(n - 1)
    BY <2>2
  <2> HIDE DEF FieldsTo, TextsTo
  <2>7. ReadsMore(AddField(h[n - 1], lines[n]), h[n - 1],
                  FieldsTo(n - 1) \cup ({lines[n]} \cap FieldLines), TextsTo(n - 1))
    BY <2>3, <2>4, <2>5, FieldReadsMore
  <2>8. ReadsMore(h[n], h[n - 1], FieldsTo(n), TextsTo(n))
    BY <2>4, <2>6, <2>7
  <2>9. QED
    BY <2>1, <2>5, <2>8 DEF ReadsMore
<1>5. N \in Done
  <2> HIDE DEF Done
  <2>1. 0..N \subseteq Done
    BY <1>1, <1>3, <1>4, UpTo
  <2>2. QED
    BY <1>1, <2>1
<1>6. LinesTo(lines, N) = ToSet(lines)
  BY <1>1 DEF ToSet, LinesTo
<1>7. QED
  BY <1>2, <1>5, <1>6

\* The sections of a table, after all the others.
LEMMA RowsReadMore ==
  ASSUME NEW map, NEW F, NEW S, TemplateHolds(map, F, S), NEW lines \in Seq(TemplateLines),
         InOrder(lines), \A l \in S, m \in ToSet(lines) : Before(l, m)
  PROVE  ReadsMore(AddRows(map, lines), map, F, S \cup ToSet(lines))
<1> DEFINE N == Len(lines)
           FieldsTo(k) == F
           TextsTo(k) == S \cup LinesTo(lines, k)
<1>1. N \in Nat /\ DOMAIN lines = 1..N /\ \A k \in 1..N : lines[k] \in TemplateLines
  BY SequencesHold
<1>2. PICK h : /\ h[0] = map /\ AddRows(map, lines) = h[N]
               /\ \A n \in 0..N : h[n] \in TemplateReadings
               /\ \A n \in 1..N : h[n] = AddRow(h[n - 1], lines[n])
  BY HeadingsFolded DEF TemplateHolds
<1> HIDE DEF N
<1> DEFINE Done == {k \in 0..N : ReadsMore(h[k], map, FieldsTo(k), TextsTo(k))}
<1>3. 0 \in Done
  <2>1. FieldsTo(0) = F /\ TextsTo(0) = S
    BY LinesToGrow
  <2> HIDE DEF FieldsTo, TextsTo
  <2>2. QED
    BY <1>1, <1>2, <2>1 DEF ReadsMore
<1>4. ASSUME NEW n \in 1..N, n - 1 \in Done PROVE n \in Done
  <2>1. n - 1 \in Nat /\ (n - 1) + 1 = n /\ n \in 0..N /\ n - 1 \in 0..N
    BY <1>1
  <2>2. LinesTo(lines, n) = LinesTo(lines, n - 1) \cup {lines[n]}
    <3>1. LinesTo(lines, (n - 1) + 1) = LinesTo(lines, n - 1) \cup {lines[(n - 1) + 1]}
      BY <2>1, LinesToGrow
    <3>2. QED
      BY <2>1, <3>1
  <2>3. \A l \in TextsTo(n - 1) : Before(l, lines[n])
    <3>1. \A k \in 1..(n - 1) : k \in 1..N /\ k < n
      BY <1>1
    <3>2. \A l \in S : Before(l, lines[n])
      BY <1>1 DEF ToSet
    <3>3. \A k \in 1..(n - 1) : Before(lines[k], lines[n])
      BY <1>1, <3>1 DEF InOrder
    <3>4. QED
      BY <3>2, <3>3 DEF LinesTo
  <2>4. h[n] = AddRow(h[n - 1], lines[n]) /\ lines[n] \in TemplateLines
    BY <1>1, <1>2, <2>1
  <2>5. /\ TemplateHolds(h[n - 1], FieldsTo(n - 1), TextsTo(n - 1))
        /\ EntryOutputs(map.sections) \subseteq EntryOutputs(h[n - 1].sections)
    BY <1>4 DEF ReadsMore
  <2>6. TextsTo(n) = TextsTo(n - 1) \cup {lines[n]} /\ FieldsTo(n) = FieldsTo(n - 1)
    BY <2>2
  <2> HIDE DEF FieldsTo, TextsTo
  <2>7. /\ IsCanonical(lines[n]) =>
             ReadsMore(AddHeading(h[n - 1], lines[n]), h[n - 1],
                       FieldsTo(n - 1), TextsTo(n - 1) \cup {lines[n]})
        /\ ReadsMore(h[n - 1], h[n - 1], FieldsTo(n - 1), TextsTo(n - 1) \cup {lines[n]})
    <3>1. ReadsMore(AddHeading(h[n - 1], lines[n]), h[n - 1],
                    FieldsTo(n - 1), TextsTo(n - 1) \cup {lines[n]})
      BY <2>3, <2>4, <2>5, HeadingReadsMore
    <3>2. ReadsMore(h[n - 1], h[n - 1], FieldsTo(n - 1), TextsTo(n - 1))
      BY <2>5 DEF ReadsMore
    <3>3. QED
      BY <3>1, <3>2, MoreIsAllowed
  <2>8. ReadsMore(h[n], h[n - 1], FieldsTo(n), TextsTo(n))
    BY <2>4, <2>6, <2>7 DEF AddRow
  <2>9. QED
    BY <2>1, <2>5, <2>8 DEF ReadsMore
<1>5. N \in Done
  <2> HIDE DEF Done
  <2>1. 0..N \subseteq Done
    BY <1>1, <1>3, <1>4, UpTo
  <2>2. QED
    BY <1>1, <2>1
<1>6. LinesTo(lines, N) = ToSet(lines)
  BY <1>1 DEF ToSet, LinesTo
<1>7. QED
  BY <1>2, <1>5, <1>6

-----------------------------------------------------------------------------
\* The lines of the first n blocks that name a field, and the others; and the
\* sections among them that must be asked for.
FieldsUpTo(n) == LinesUpTo(n) \cap FieldLines
TextsUpTo(n) == LinesUpTo(n) \ FieldLines
TemplateRead(map, n) == TemplateHolds(map, FieldsUpTo(n), TextsUpTo(n))
AsksFor(map, n) ==
  \A m \in 1..n :
    Opens(m) /\ ~source[m].inline => <<source[m].section>> \in EntryOutputs(map.sections)

\* The lines of a template may be read as headings.
LEMMA TemplateHasLines ==
  ASSUME Blocked, NEW n \in DOMAIN source
  PROVE  <<n, 0>> \in TemplateLines /\ Rows(n) \in Seq(TemplateLines)
<1>1. source[n] \in Blocks /\ n \in Nat
  BY SourceIsTyped
<1>2. source[n].section \in SectionKeys \cup {Unmapped} /\ source[n].rows \in Seq(RowsOfTables)
  BY <1>1, BlocksAreTyped
<1>3. <<n, 0>> \in TemplateLines
  <2>1. <<n, 0>> \in HeaderLines /\ <<n, 0>>[1] = n /\ <<n, 0>>[2] = 0
    BY ParagraphIsLine
  <2>2. SectionOf(<<n, 0>>) = source[n].section
    BY <2>1 DEF SectionOf
  <2>3. QED
    BY <1>2, <2>1, <2>2 DEF TemplateLines
<1> DEFINE rows == source[n].rows
           N == Len(rows)
<1>4. N \in Nat /\ DOMAIN rows = 1..N /\ \A k \in 1..N : rows[k] \in RowsOfTables
  BY <1>2, SequencesHold
<1>5. Rows(n) = [k \in 1..N |-> <<n, k>>]
  BY <1>4 DEF Rows
<1>6. ASSUME NEW k \in 1..N PROVE <<n, k>> \in TemplateLines
  <2>1. k \in Nat /\ k # 0 /\ rows[k].section \in SectionKeys \cup {Unmapped}
    BY <1>4 DEF RowsOfTables
  <2>2. <<n, k>>[1] = n /\ <<n, k>>[2] = k
    OBVIOUS
  <2>3. SectionOf(<<n, k>>) = rows[k].section
    BY <2>1, <2>2 DEF SectionOf
  <2>4. <<n, k>> \in HeaderLines
    <3>1. Rows(n) \in Seq(HeaderLines)
      BY RowsAreLines
    <3> HIDE DEF rows, N
    <3>2. DOMAIN Rows(n) = 1..N /\ Rows(n)[k] = <<n, k>> /\ Len(Rows(n)) = N
      BY <1>4, <1>5, <3>1
    <3>3. QED
      BY <3>1, <3>2, SequencesHold
  <2>5. QED
    BY <2>1, <2>3, <2>4 DEF TemplateLines
<1> HIDE DEF rows, N
<1>7. Rows(n) \in Seq(TemplateLines)
  BY <1>4, <1>5, <1>6
<1>8. QED
  BY <1>3, <1>7

\* What is read of a table stays a reading.
LEMMA RowsStay ==
  ASSUME NEW map \in TemplateReadings, NEW lines \in Seq(TemplateLines)
  PROVE  AddFields(map, lines) \in TemplateReadings /\ AddRows(map, lines) \in TemplateReadings
<1>1. Len(lines) \in 0..Len(lines)
  BY SequencesHold
<1>2. PICK h : /\ h[0] = map /\ AddFields(map, lines) = h[Len(lines)]
               /\ \A n \in 0..Len(lines) : h[n] \in TemplateReadings
  BY FieldsFolded
<1>3. PICK g : /\ g[0] = map /\ AddRows(map, lines) = g[Len(lines)]
               /\ \A n \in 0..Len(lines) : g[n] \in TemplateReadings
  BY HeadingsFolded
<1>4. QED
  BY <1>1, <1>2, <1>3

\* What looks like a heading in a template.
Titles(line) == Styled(line) \/ IsCanonical(line)

\* The branches for a paragraph of a .docx.
LEMMA ParagraphsAsk ==
  ASSUME NEW map, NEW line
  PROVE  ReadParagraph(map, line) = IF HeaderOf(line) # Unmapped THEN AddField(map, line)
                                    ELSE IF Titles(line) THEN AddHeading(map, line) ELSE map
<1>1. CASE HeaderOf(line) # Unmapped
  BY <1>1, Zenon DEF ReadParagraph
<1>2. CASE HeaderOf(line) = Unmapped /\ Titles(line)
  BY <1>2, Zenon DEF ReadParagraph, Titles
<1>3. CASE HeaderOf(line) = Unmapped /\ ~Titles(line)
  BY <1>3, Zenon DEF ReadParagraph, Titles
<1>4. QED
  BY <1>1, <1>2, <1>3

\* The branches for a line of a text.
LEMMA TextsAsk ==
  ASSUME NEW map, NEW n
  PROVE  ReadLineOfText(map, n) =
           IF source[n].kind = "table" THEN map
           ELSE IF HeaderOf(<<n, 0>>) # Unmapped THEN AddField(map, <<n, 0>>)
           ELSE IF Styled(<<n, 0>>) \/ SectionOf(<<n, 0>>) # Unmapped THEN AddHeading(map, <<n, 0>>)
           ELSE map
<1>1. CASE source[n].kind = "table"
  BY <1>1, Zenon DEF ReadLineOfText
<1>2. CASE source[n].kind # "table" /\ HeaderOf(<<n, 0>>) # Unmapped
  BY <1>2, Zenon DEF ReadLineOfText
<1>3. CASE source[n].kind # "table" /\ HeaderOf(<<n, 0>>) = Unmapped
  BY <1>3, Zenon DEF ReadLineOfText
<1>4. QED
  BY <1>1, <1>2, <1>3

\* What is read of a template stays a reading.
LEMMA TemplateStaysReading ==
  ASSUME Blocked, NEW map \in TemplateReadings, NEW n \in DOMAIN source
  PROVE  /\ ReadTemplateBlock(map, n) \in TemplateReadings
         /\ ReadLineOfText(map, n) \in TemplateReadings
<1>1. <<n, 0>> \in TemplateLines /\ Rows(n) \in Seq(TemplateLines) /\ n \in Nat
  BY TemplateHasLines, SourceIsTyped
<1>2. AddField(map, <<n, 0>>) \in TemplateReadings /\ AddHeading(map, <<n, 0>>) \in TemplateReadings
  BY <1>1, FieldIsAdded, HeadingIsAdded
<1>3. ReadParagraph(map, <<n, 0>>) \in TemplateReadings
  BY <1>2, ParagraphsAsk
<1>4. ReadTable(map, n) \in TemplateReadings
  <2>1. AddFields(map, Rows(n)) \in TemplateReadings /\ AddRows(map, Rows(n)) \in TemplateReadings
    BY <1>1, RowsStay
  <2>2. AddTable(AddRows(map, Rows(n)), n) \in TemplateReadings
    BY <1>1, <2>1, TableIsAdded
  <2>3. QED
    BY <2>1, <2>2 DEF ReadTable
<1>5. ReadLineOfText(map, n) \in TemplateReadings
  BY <1>2, TextsAsk
<1>6. QED
  BY <1>3, <1>4, <1>5 DEF ReadTemplateBlock

\* A .docx is read block by block.
LEMMA DocxFolded ==
  ASSUME Blocked
  PROVE  \E h : /\ h[0] = NoTemplate /\ ReadDocx = h[Len(source)]
                /\ \A n \in 0..Len(source) : h[n] \in TemplateReadings
                /\ \A n \in 1..Len(source) : h[n] = ReadTemplateBlock(h[n - 1], n)
<1> DEFINE N == Len(source)
           places == [i \in DOMAIN source |-> i]
           Unfolds(g) == g = [s \in SUBSET (DOMAIN places) |->
                                IF s = {} THEN NoTemplate
                                ELSE ReadTemplateBlock(g[s \ {Max(s)}], places[Max(s)])]
           it == CHOOSE g : Unfolds(g)
           F == [x \in TemplateReadings \X (1..N) |-> ReadTemplateBlock(x[1], x[2])]
<1>1. ReadDocx = it[DOMAIN places]
  BY Zenon DEF ReadDocx, FoldLeftDomain, FoldLeft, MapThenFoldSet
<1>2. N \in Nat /\ DOMAIN places = 1..N /\ \A n \in 1..N : places[n] = n
  BY SourceIsTyped
<1>3. NoTemplate \in TemplateReadings
  BY DEF NoTemplate, TemplateReadings
<1>4. F \in [TemplateReadings \X (1..N) -> TemplateReadings]
  BY TemplateStaysReading, SourceIsTyped
<1> HIDE DEF N, places, F
<1>5. PICK g : IsFold(g, TemplateReadings, NoTemplate, N, F)
  BY <1>2, <1>3, <1>4, FoldExists
<1>6. Unfolds(g)
  <2>1. ASSUME NEW s \in SUBSET (1..N), s # {}
        PROVE  g[s] = ReadTemplateBlock(g[s \ {Max(s)}], places[Max(s)])
    <3>1. Max(s) \in s
      BY <1>2, <2>1, GreatestExists
    <3>2. places[Max(s)] = Max(s) /\ <<g[s \ {Max(s)}], Max(s)>> \in TemplateReadings \X (1..N)
      BY <1>2, <1>5, <3>1 DEF IsFold
    <3>3. QED
      BY <1>5, <2>1, <3>2 DEF F, IsFold
  <2>2. QED
    BY <1>2, <1>5, <2>1 DEF IsFold
<1>7. Unfolds(it)
  <2> HIDE DEF Unfolds
  <2>1. QED
    BY <1>6
<1> HIDE DEF it
<1>8. it[{}] = NoTemplate
  BY <1>7
<1>9. Iterates(it, TemplateReadings, NoTemplate, N, F)
  <2>1. ASSUME NEW n \in 1..N, it[1..(n - 1)] \in TemplateReadings
        PROVE  it[1..n] = F[<<it[1..(n - 1)], n>>]
    <3>1. 1..n \in SUBSET (DOMAIN places) /\ n \in Nat \ {0}
      BY <1>2
    <3>2. Max(1..n) = n /\ (1..n) \ {n} = 1..(n - 1) /\ 1..n # {} /\ places[n] = n
      BY <1>2, <3>1, MaxOfPrefix
    <3>3. it[1..n] = ReadTemplateBlock(it[(1..n) \ {Max(1..n)}], places[Max(1..n)])
      BY <1>7, <3>1, <3>2
    <3>4. <<it[1..(n - 1)], n>> \in TemplateReadings \X (1..N)
      BY <2>1
    <3>5. QED
      BY <3>2, <3>3, <3>4 DEF F
  <2>2. QED
    BY <1>8, <2>1 DEF Iterates
<1>10. PICK h : IsPrefixFold(h, TemplateReadings, NoTemplate, N, F) /\ h[N] = it[1..N]
  <2>1. FoldsTo(it, TemplateReadings, NoTemplate, N, F)
    BY <1>2, <1>3, <1>4, <1>9, PrefixesFold
  <2>2. QED
    BY <2>1 DEF FoldsTo
<1>11. ASSUME NEW n \in 1..N PROVE h[n] = ReadTemplateBlock(h[n - 1], n)
  <2>1. n - 1 \in 0..N
    BY <1>2
  <2>2. <<h[n - 1], n>> \in TemplateReadings \X (1..N)
    BY <1>10, <2>1 DEF IsPrefixFold
  <2>3. QED
    BY <1>10, <2>2 DEF IsPrefixFold, F
<1>12. QED
  BY <1>1, <1>2, <1>10, <1>11 DEF N, IsPrefixFold

\* A text is read line by line.
LEMMA TextFolded ==
  ASSUME Blocked
  PROVE  \E h : /\ h[0] = NoTemplate /\ ReadText = h[Len(source)]
                /\ \A n \in 0..Len(source) : h[n] \in TemplateReadings
                /\ \A n \in 1..Len(source) : h[n] = ReadLineOfText(h[n - 1], n)
<1> DEFINE N == Len(source)
           places == [i \in DOMAIN source |-> i]
           Unfolds(g) == g = [s \in SUBSET (DOMAIN places) |->
                                IF s = {} THEN NoTemplate
                                ELSE ReadLineOfText(g[s \ {Max(s)}], places[Max(s)])]
           it == CHOOSE g : Unfolds(g)
           F == [x \in TemplateReadings \X (1..N) |-> ReadLineOfText(x[1], x[2])]
<1>1. ReadText = it[DOMAIN places]
  BY Zenon DEF ReadText, FoldLeftDomain, FoldLeft, MapThenFoldSet
<1>2. N \in Nat /\ DOMAIN places = 1..N /\ \A n \in 1..N : places[n] = n
  BY SourceIsTyped
<1>3. NoTemplate \in TemplateReadings
  BY DEF NoTemplate, TemplateReadings
<1>4. F \in [TemplateReadings \X (1..N) -> TemplateReadings]
  BY TemplateStaysReading, SourceIsTyped
<1> HIDE DEF N, places, F
<1>5. PICK g : IsFold(g, TemplateReadings, NoTemplate, N, F)
  BY <1>2, <1>3, <1>4, FoldExists
<1>6. Unfolds(g)
  <2>1. ASSUME NEW s \in SUBSET (1..N), s # {}
        PROVE  g[s] = ReadLineOfText(g[s \ {Max(s)}], places[Max(s)])
    <3>1. Max(s) \in s
      BY <1>2, <2>1, GreatestExists
    <3>2. places[Max(s)] = Max(s) /\ <<g[s \ {Max(s)}], Max(s)>> \in TemplateReadings \X (1..N)
      BY <1>2, <1>5, <3>1 DEF IsFold
    <3>3. QED
      BY <1>5, <2>1, <3>2 DEF F, IsFold
  <2>2. QED
    BY <1>2, <1>5, <2>1 DEF IsFold
<1>7. Unfolds(it)
  <2> HIDE DEF Unfolds
  <2>1. QED
    BY <1>6
<1> HIDE DEF it
<1>8. it[{}] = NoTemplate
  BY <1>7
<1>9. Iterates(it, TemplateReadings, NoTemplate, N, F)
  <2>1. ASSUME NEW n \in 1..N, it[1..(n - 1)] \in TemplateReadings
        PROVE  it[1..n] = F[<<it[1..(n - 1)], n>>]
    <3>1. 1..n \in SUBSET (DOMAIN places) /\ n \in Nat \ {0}
      BY <1>2
    <3>2. Max(1..n) = n /\ (1..n) \ {n} = 1..(n - 1) /\ 1..n # {} /\ places[n] = n
      BY <1>2, <3>1, MaxOfPrefix
    <3>3. it[1..n] = ReadLineOfText(it[(1..n) \ {Max(1..n)}], places[Max(1..n)])
      BY <1>7, <3>1, <3>2
    <3>4. <<it[1..(n - 1)], n>> \in TemplateReadings \X (1..N)
      BY <2>1
    <3>5. QED
      BY <3>2, <3>3, <3>4 DEF F
  <2>2. QED
    BY <1>8, <2>1 DEF Iterates
<1>10. PICK h : IsPrefixFold(h, TemplateReadings, NoTemplate, N, F) /\ h[N] = it[1..N]
  <2>1. FoldsTo(it, TemplateReadings, NoTemplate, N, F)
    BY <1>2, <1>3, <1>4, <1>9, PrefixesFold
  <2>2. QED
    BY <2>1 DEF FoldsTo
<1>11. ASSUME NEW n \in 1..N PROVE h[n] = ReadLineOfText(h[n - 1], n)
  <2>1. n - 1 \in 0..N
    BY <1>2
  <2>2. <<h[n - 1], n>> \in TemplateReadings \X (1..N)
    BY <1>10, <2>1 DEF IsPrefixFold
  <2>3. QED
    BY <1>10, <2>2 DEF IsPrefixFold, F
<1>12. QED
  BY <1>1, <1>2, <1>10, <1>11 DEF N, IsPrefixFold

\* What has been read after block n.
BlockAsks(on, map, n) ==
  ReadsMore(on, map, FieldsUpTo(n), TextsUpTo(n))

\* Every line names a field, or does not.
LEMMA LinesAreEither ==
  ASSUME Blocked, NEW n \in DOMAIN source
  PROVE  /\ FieldsUpTo(n) = FieldsUpTo(n - 1) \cup (LinesOf(n) \cap FieldLines)
         /\ TextsUpTo(n) = TextsUpTo(n - 1) \cup (LinesOf(n) \ FieldLines)
         /\ \A l \in FieldsUpTo(n - 1) \cup TextsUpTo(n - 1), m \in LinesOf(n) : Before(l, m)
BY LinesComeAfter DEF FieldsUpTo, TextsUpTo

\* A block that is neither a field nor a section.
LEMMA NothingIsAsked ==
  ASSUME Blocked, NEW n \in DOMAIN source, NEW map, TemplateRead(map, n - 1)
  PROVE  BlockAsks(map, map, n)
<1>1. ReadsMore(map, map, FieldsUpTo(n - 1), TextsUpTo(n - 1))
  BY DEF ReadsMore, TemplateRead
<1>2. FieldsUpTo(n - 1) \subseteq FieldsUpTo(n) /\ TextsUpTo(n - 1) \subseteq TextsUpTo(n)
  BY LinesAreEither
<1>3. QED
  BY <1>1, <1>2, MoreIsAllowed DEF BlockAsks

\* A paragraph that is a field, or a section.
LEMMA LineIsAsked ==
  ASSUME Blocked, NEW n \in DOMAIN source, source[n].kind # "table",
         NEW map, TemplateRead(map, n - 1)
  PROVE  /\ HeaderOf(<<n, 0>>) # Unmapped => BlockAsks(AddField(map, <<n, 0>>), map, n)
         /\ HeaderOf(<<n, 0>>) = Unmapped => BlockAsks(AddHeading(map, <<n, 0>>), map, n)
         /\ OutputOf(<<n, 0>>) \in EntryOutputs(AddHeading(map, <<n, 0>>).sections)
<1> DEFINE line == <<n, 0>>
           F == FieldsUpTo(n - 1)
           S == TextsUpTo(n - 1)
<1>1. line \in TemplateLines /\ line \in Places /\ LinesOf(n) = {line}
  BY TemplateHasLines, ParagraphIsLine DEF LinesOf
<1>2. /\ FieldsUpTo(n) = F \cup ({line} \cap FieldLines)
      /\ TextsUpTo(n) = S \cup ({line} \ FieldLines)
      /\ \A l \in F \cup S : Before(l, line)
  BY <1>1, LinesAreEither
<1>3. line \in FieldLines <=> HeaderOf(line) # Unmapped
  BY <1>1 DEF FieldLines
<1>4. TemplateHolds(map, F, S)
  BY DEF TemplateRead
<1> HIDE DEF line, F, S
<1>5. ReadsMore(AddField(map, line), map, F \cup ({line} \cap FieldLines), S)
  BY <1>1, <1>2, <1>4, FieldReadsMore
<1>6. /\ ReadsMore(AddHeading(map, line), map, F, S \cup {line})
      /\ OutputOf(line) \in EntryOutputs(AddHeading(map, line).sections)
  BY <1>1, <1>2, <1>4, HeadingReadsMore
<1>7. BlockAsks(AddField(map, line), map, n)
  <2>1. F \cup ({line} \cap FieldLines) \subseteq FieldsUpTo(n) /\ S \subseteq TextsUpTo(n)
    BY <1>2
  <2>2. QED
    BY <1>5, <2>1, MoreIsAllowed DEF BlockAsks
<1>8. ASSUME HeaderOf(line) = Unmapped PROVE BlockAsks(AddHeading(map, line), map, n)
  <2>1. F \subseteq FieldsUpTo(n) /\ S \cup {line} \subseteq TextsUpTo(n)
    BY <1>2, <1>3, <1>8
  <2>2. QED
    BY <1>6, <2>1, MoreIsAllowed DEF BlockAsks
<1>9. QED
  BY <1>6, <1>7, <1>8 DEF line

\* A table gives fields, or sections.
LEMMA TableIsAsked ==
  ASSUME Blocked, NEW n \in DOMAIN source, source[n].kind = "table",
         NEW map, TemplateRead(map, n - 1)
  PROVE  BlockAsks(ReadTable(map, n), map, n)
<1> DEFINE lines == Rows(n)
           F == FieldsUpTo(n - 1)
           S == TextsUpTo(n - 1)
<1>1. lines \in Seq(TemplateLines) /\ InOrder(lines) /\ LinesOf(n) = ToSet(lines) /\ n \in Nat
  BY TemplateHasLines, RowsAreLines, SourceIsTyped DEF LinesOf
<1>2. /\ FieldsUpTo(n) = F \cup (ToSet(lines) \cap FieldLines)
      /\ TextsUpTo(n) = S \cup (ToSet(lines) \ FieldLines)
      /\ \A l \in F, m \in ToSet(lines) : Before(l, m)
      /\ \A l \in S, m \in ToSet(lines) : Before(l, m)
  BY <1>1, LinesAreEither
<1>3. TemplateHolds(map, F, S)
  BY DEF TemplateRead
<1>4. ReadTable(map, n) =
        IF \E line \in ToSet(lines) : HeaderOf(line) # Unmapped
        THEN AddFields(map, lines) ELSE AddTable(AddRows(map, lines), n)
  BY DEF ReadTable
<1> HIDE DEF lines, F, S
<1>5. CASE \E line \in ToSet(lines) : HeaderOf(line) # Unmapped
  <2>1. ReadsMore(AddFields(map, lines), map, F \cup (ToSet(lines) \cap FieldLines), S)
    BY <1>1, <1>2, <1>3, FieldsReadMore
  <2>2. S \subseteq TextsUpTo(n) /\ F \cup (ToSet(lines) \cap FieldLines) \subseteq FieldsUpTo(n)
    BY <1>2
  <2>3. BlockAsks(AddFields(map, lines), map, n)
    BY <2>1, <2>2, MoreIsAllowed DEF BlockAsks
  <2>4. QED
    BY <1>4, <1>5, <2>3
<1>6. CASE ~\E line \in ToSet(lines) : HeaderOf(line) # Unmapped
  <2> DEFINE on == AddRows(map, lines)
  <2>1. ReadsMore(on, map, F, S \cup ToSet(lines))
    BY <1>1, <1>2, <1>3, RowsReadMore
  <2>2. F \subseteq FieldsUpTo(n) /\ S \cup ToSet(lines) \subseteq TextsUpTo(n)
    BY <1>2, <1>6 DEF FieldLines
  <2>3. BlockAsks(on, map, n)
    BY <2>1, <2>2, MoreIsAllowed DEF BlockAsks
  <2> HIDE DEF on
  <2>4. on \in TemplateReadings
    BY <2>3 DEF BlockAsks, ReadsMore, TemplateHolds
  <2>5. /\ AddTable(on, n) \in TemplateReadings
        /\ AddTable(on, n).sections = on.sections /\ AddTable(on, n).fields = on.fields
    BY <1>1, <2>4, TableIsAdded
  <2>6. BlockAsks(AddTable(on, n), map, n)
    BY <2>3, <2>5 DEF BlockAsks, ReadsMore, TemplateHolds
  <2>7. QED
    BY <1>4, <1>6, <2>6 DEF on
<1>7. QED
  BY <1>5, <1>6

\* A block of a .docx, and a heading of a section alone on its line is asked
\* for.
LEMMA DocxBlockIsAsked ==
  ASSUME Blocked, NEW n \in DOMAIN source, NEW map, TemplateRead(map, n - 1), AsksFor(map, n - 1)
  PROVE  TemplateRead(ReadTemplateBlock(map, n), n) /\ AsksFor(ReadTemplateBlock(map, n), n)
<1> DEFINE on == ReadTemplateBlock(map, n)
<1>1. source[n] \in Blocks /\ n \in Nat /\ n >= 1 /\ <<n, 0>>[1] = n /\ <<n, 0>>[2] = 0
  BY SourceIsTyped
<1>2. on = IF source[n].kind = "table" THEN ReadTable(map, n) ELSE ReadParagraph(map, <<n, 0>>)
  BY DEF ReadTemplateBlock
<1>3. /\ BlockAsks(on, map, n)
      /\ Opens(n) /\ ~source[n].inline => <<source[n].section>> \in EntryOutputs(on.sections)
  <2>1. CASE source[n].kind = "table"
    BY <1>2, <2>1, TableIsAsked DEF Opens
  <2>2. CASE source[n].kind # "table"
    <3>1. on = IF HeaderOf(<<n, 0>>) # Unmapped THEN AddField(map, <<n, 0>>)
               ELSE IF Titles(<<n, 0>>) THEN AddHeading(map, <<n, 0>>) ELSE map
      BY <1>2, <2>2, ParagraphsAsk
    <3> HIDE DEF on
    <3>2. BlockAsks(on, map, n)
      BY <2>2, <3>1, LineIsAsked, NothingIsAsked
    <3>3. ASSUME Opens(n), ~source[n].inline
          PROVE  <<source[n].section>> \in EntryOutputs(on.sections)
      <4>1. source[n].header = Unmapped /\ source[n].section # Unmapped
        BY <1>1, <3>3, BlocksAreTyped DEF Opens
      <4>2. HeaderOf(<<n, 0>>) = Unmapped /\ SectionOf(<<n, 0>>) = source[n].section
        BY <1>1, <4>1, ParagraphIsLine DEF SectionOf
      <4>3. IsCanonical(<<n, 0>>)
        BY <1>1, <3>3, <4>1, <4>2 DEF IsCanonical
      <4>4. OutputOf(<<n, 0>>) = <<source[n].section>> /\ Titles(<<n, 0>>)
        BY <4>2, <4>3 DEF OutputOf, Titles
      <4>5. OutputOf(<<n, 0>>) \in EntryOutputs(AddHeading(map, <<n, 0>>).sections)
        BY <2>2, LineIsAsked
      <4>6. on = AddHeading(map, <<n, 0>>)
        BY <3>1, <4>2, <4>4
      <4>7. QED
        BY <4>4, <4>5, <4>6
    <3>4. QED
      BY <3>2, <3>3
  <2>3. QED
    BY <2>1, <2>2
<1> HIDE DEF on
<1>4. TemplateRead(on, n) /\ EntryOutputs(map.sections) \subseteq EntryOutputs(on.sections)
  BY <1>3 DEF BlockAsks, ReadsMore, TemplateRead
<1>5. AsksFor(on, n)
  <2>1. ASSUME NEW m \in 1..n, Opens(m), ~source[m].inline
        PROVE  <<source[m].section>> \in EntryOutputs(on.sections)
    <3>1. m = n \/ m \in 1..(n - 1)
      BY <1>1
    <3>2. QED
      BY <1>3, <1>4, <2>1, <3>1 DEF AsksFor
  <2>2. QED
    BY <2>1 DEF AsksFor
<1>6. QED
  BY <1>4, <1>5 DEF on

\* A line of a text.
LEMMA TextLineIsAsked ==
  ASSUME Blocked, NEW n \in DOMAIN source, NEW map, TemplateRead(map, n - 1)
  PROVE  TemplateRead(ReadLineOfText(map, n), n)
<1>1. BlockAsks(ReadLineOfText(map, n), map, n)
  <2>1. CASE source[n].kind = "table"
    BY <2>1, TextsAsk, NothingIsAsked
  <2>2. CASE source[n].kind # "table"
    BY <2>2, TextsAsk, NothingIsAsked, LineIsAsked
  <2>3. QED
    BY <2>1, <2>2
<1>2. QED
  BY <1>1 DEF BlockAsks, ReadsMore, TemplateRead

\* Nothing has been read.
LEMMA NoTemplateHolds ==
  ASSUME NEW F, NEW S
  PROVE  TemplateHolds(NoTemplate, F, S)
<1>1. NoTemplate \in TemplateReadings /\ NoTemplate.fields = <<>> /\ NoTemplate.sections = <<>>
  BY DEF NoTemplate, TemplateReadings
<1>2. InOrder(<<>>) /\ ToSet(<<>>) = {} /\ EntryLines(<<>>) = <<>>
  BY DEF InOrder, ToSet, EntryLines
<1>3. QED
  BY <1>1, <1>2 DEF TemplateHolds

\* After all blocks of a .docx.
LEMMA DocxIsRead ==
  ASSUME Blocked
  PROVE  TemplateRead(ReadDocx, Len(source)) /\ AsksFor(ReadDocx, Len(source))
<1> DEFINE N == Len(source)
<1>1. N \in Nat /\ DOMAIN source = 1..N
  BY SourceIsTyped
<1>2. PICK h : /\ h[0] = NoTemplate /\ ReadDocx = h[N]
               /\ \A n \in 0..N : h[n] \in TemplateReadings
               /\ \A n \in 1..N : h[n] = ReadTemplateBlock(h[n - 1], n)
  BY DocxFolded
<1> HIDE DEF N
<1> DEFINE S == {n \in 0..N : TemplateRead(h[n], n) /\ AsksFor(h[n], n)}
<1>3. 0 \in S
  <2>1. TemplateRead(h[0], 0)
    BY <1>2, NoTemplateHolds DEF TemplateRead
  <2>2. AsksFor(h[0], 0)
    <3>1. 1..0 = {}
      OBVIOUS
    <3>2. QED
      BY <3>1 DEF AsksFor
  <2>3. QED
    BY <1>1, <2>1, <2>2
<1>4. ASSUME NEW n \in 1..N, n - 1 \in S PROVE n \in S
  <2>1. n \in DOMAIN source /\ n \in 0..N /\ h[n] = ReadTemplateBlock(h[n - 1], n)
    BY <1>1, <1>2
  <2>2. QED
    BY <1>4, <2>1, DocxBlockIsAsked
<1>5. QED
  <2> HIDE DEF S
  <2>1. 0..N \subseteq S
    BY <1>1, <1>3, <1>4, UpTo
  <2>2. N \in S
    BY <1>1, <2>1
  <2>3. QED
    BY <1>2, <2>2 DEF S, N

\* After all lines of a text.
LEMMA LinesOfTextAreRead ==
  ASSUME Blocked
  PROVE  TemplateRead(ReadText, Len(source))
<1> DEFINE N == Len(source)
<1>1. N \in Nat /\ DOMAIN source = 1..N
  BY SourceIsTyped
<1>2. PICK h : /\ h[0] = NoTemplate /\ ReadText = h[N]
               /\ \A n \in 0..N : h[n] \in TemplateReadings
               /\ \A n \in 1..N : h[n] = ReadLineOfText(h[n - 1], n)
  BY TextFolded
<1> HIDE DEF N
<1> DEFINE S == {n \in 0..N : TemplateRead(h[n], n)}
<1>3. 0 \in S
  <2>1. TemplateRead(h[0], 0)
    BY <1>2, NoTemplateHolds DEF TemplateRead
  <2>2. QED
    BY <1>1, <2>1
<1>4. ASSUME NEW n \in 1..N, n - 1 \in S PROVE n \in S
  <2>1. n \in DOMAIN source /\ n \in 0..N /\ h[n] = ReadLineOfText(h[n - 1], n)
    BY <1>1, <1>2
  <2>2. QED
    BY <1>4, <2>1, TextLineIsAsked
<1>5. QED
  <2> HIDE DEF S
  <2>1. 0..N \subseteq S
    BY <1>1, <1>3, <1>4, UpTo
  <2>2. N \in S
    BY <1>1, <2>1
  <2>3. QED
    BY <1>2, <2>2 DEF S, N

\* A sheet, but for its first row, gives sections.
LEMMA SheetIsRead ==
  ASSUME Blocked, NEW n \in DOMAIN source, source[n].kind = "table"
  PROVE  TemplateHolds(ReadSheet(n), {}, ToSet(Tail(Rows(n))))
<1> DEFINE lines == Rows(n)
<1>1. source[n] \in Blocks /\ n \in Nat
  BY SourceIsTyped
<1>2. lines \in Seq(TemplateLines) /\ lines \in Seq(Places) /\ InOrder(lines)
  BY TemplateHasLines, RowsAreLines
<1>3. lines # <<>>
  <2>1. source[n].rows # <<>> /\ source[n].rows \in Seq(RowsOfTables)
    BY <1>1, BlocksAreTyped
  <2>2. DOMAIN source[n].rows # {}
    <3> DEFINE rows == source[n].rows
    <3>1. rows # <<>> /\ rows \in Seq(RowsOfTables)
      BY <2>1
    <3> HIDE DEF rows
    <3>2. Len(rows) \in Nat /\ Len(rows) >= 1 /\ DOMAIN rows = 1..Len(rows)
      BY <3>1
    <3>3. 1 \in DOMAIN rows
      BY <3>2
    <3>4. QED
      BY <3>3 DEF rows
  <2>3. DOMAIN lines # {} /\ DOMAIN <<>> = {}
    BY <2>2 DEF Rows
  <2>4. QED
    BY <2>3
<1> HIDE DEF lines
<1>4. InOrder(Tail(lines)) /\ Tail(lines) \in Seq(TemplateLines)
  <2>1. InOrder(Tail(lines))
    BY <1>2, <1>3, TailIsCut
  <2>2. Tail(lines) \in Seq(TemplateLines)
    BY <1>2, <1>3
  <2>3. QED
    BY <2>1, <2>2
<1> DEFINE rest == Tail(lines)
           on == AddRows(NoTemplate, rest)
<1> HIDE DEF rest
<1>5. ReadsMore(on, NoTemplate, {}, {} \cup ToSet(rest))
  <2>1. TemplateHolds(NoTemplate, {}, {})
    BY NoTemplateHolds
  <2>2. QED
    BY <1>4, <2>1, RowsReadMore DEF rest
<1> HIDE DEF on
<1>6. TemplateHolds(on, {}, ToSet(rest)) /\ on \in TemplateReadings
  <2>1. {} \cup ToSet(rest) = ToSet(rest)
    OBVIOUS
  <2>2. QED
    BY <1>5, <2>1 DEF ReadsMore, TemplateHolds
<1>7. /\ AddTable(on, n) \in TemplateReadings
      /\ AddTable(on, n).sections = on.sections /\ AddTable(on, n).fields = on.fields
  BY <1>1, <1>6, TableIsAdded
<1>8. TemplateHolds(AddTable(on, n), {}, ToSet(rest))
  BY <1>6, <1>7 DEF TemplateHolds
<1>9. ReadSheet(n) = AddTable(on, n)
  BY DEF ReadSheet, on, rest, lines
<1>10. QED
  BY <1>8, <1>9 DEF rest, lines

-----------------------------------------------------------------------------
\* The lines of the headings.
LEMMA EntryLinesAre ==
  ASSUME NEW map \in TemplateReadings
  PROVE  /\ Len(map.sections) \in Nat /\ DOMAIN map.sections = 1..Len(map.sections)
         /\ DOMAIN EntryLines(map.sections) = 1..Len(map.sections)
         /\ EntryLines(map.sections) \in Seq(Places)
         /\ \A k \in 1..Len(map.sections) :
              /\ EntryLines(map.sections)[k] = map.sections[k].line
              /\ map.sections[k] \in HeadingEntries /\ map.sections[k].line \in Places
              /\ map.sections[k].output \in HeadingOutputs
<1> DEFINE sections == map.sections
           N == Len(sections)
<1>1. sections \in Seq(HeadingEntries)
  BY DEF TemplateReadings
<1>2. N \in Nat /\ DOMAIN sections = 1..N /\ \A k \in 1..N : sections[k] \in HeadingEntries
  BY <1>1, SequencesHold
<1> HIDE DEF sections, N
<1>3. \A k \in 1..N : sections[k].line \in Places /\ sections[k].output \in HeadingOutputs
  BY <1>2 DEF HeadingEntries
<1>4. EntryLines(sections) = [k \in 1..N |-> sections[k].line]
  BY <1>2 DEF EntryLines
<1>5. EntryLines(sections) \in Seq(Places)
  BY <1>2, <1>3, <1>4
<1>6. QED
  BY <1>2, <1>3, <1>4, <1>5 DEF sections, N

\* Lines in order are there once.
LEMMA InOrderIsOnce ==
  ASSUME NEW lines \in Seq(Places), InOrder(lines)
  PROVE  IsInjective(lines)
<1>1. /\ DOMAIN lines = 1..Len(lines) /\ Len(lines) \in Nat
      /\ \A k \in 1..Len(lines) : lines[k] \in Places
  BY SequencesHold
<1>2. ASSUME NEW i \in DOMAIN lines, NEW j \in DOMAIN lines, lines[i] = lines[j] PROVE i = j
  <2>1. ~Before(lines[i], lines[j]) /\ ~Before(lines[j], lines[i])
    BY <1>1, <1>2, PlacesAreOrdered
  <2>2. ~(i < j) /\ ~(j < i)
    BY <2>1 DEF InOrder
  <2>3. QED
    BY <1>1, <2>2
<1>3. QED
  BY <1>2 DEF IsInjective

\* No line is both a section and a field, nor either of them twice.
LEMMA TakenOnce ==
  ASSUME NEW map, NEW F, NEW S, TemplateHolds(map, F, S), F \cap S = {}
  PROVE  IsInjective(Taken(map))
<1> DEFINE heads == EntryLines(map.sections)
           more == Taken(map)
           N == Len(heads)
           M == Len(map.fields)
<1>1. /\ map \in TemplateReadings /\ map.fields \in Seq(Places)
      /\ InOrder(map.fields) /\ ToSet(map.fields) \subseteq F
      /\ InOrder(heads) /\ ToSet(heads) \subseteq S
  BY DEF TemplateHolds, TemplateReadings
<1>2. heads \in Seq(Places) /\ more = heads \o map.fields
  BY <1>1, EntryLinesAre DEF Taken, EntryLines
<1>3. IsInjective(heads) /\ IsInjective(map.fields)
  BY <1>1, <1>2, InOrderIsOnce
<1> HIDE DEF heads, more
<1>4. /\ DOMAIN more = 1..(N + M)
      /\ \A k \in 1..N : more[k] = heads[k]
      /\ \A k \in (N + 1)..(N + M) : more[k] = map.fields[k - N]
      /\ N \in Nat /\ DOMAIN heads = 1..N /\ M \in Nat /\ DOMAIN map.fields = 1..M
  BY <1>1, <1>2
<1> HIDE DEF N, M
<1>5. \A k \in 1..N : more[k] \in S
  BY <1>1, <1>4 DEF ToSet
<1>6. \A k \in (N + 1)..(N + M) : k - N \in 1..M
  BY <1>4
<1>7. \A k \in (N + 1)..(N + M) : more[k] \in F
  BY <1>1, <1>4, <1>6 DEF ToSet
<1>8. \A k \in 1..(N + M) : k \in 1..N \/ k \in (N + 1)..(N + M)
  BY <1>4
<1>9. ASSUME NEW i \in 1..(N + M), NEW j \in 1..(N + M), more[i] = more[j] PROVE i = j
  <2>1. CASE i \in 1..N /\ j \in 1..N
    BY <1>3, <1>4, <1>9, <2>1 DEF IsInjective
  <2>2. CASE i \in (N + 1)..(N + M) /\ j \in (N + 1)..(N + M)
    <3>1. i - N \in 1..M /\ j - N \in 1..M
      BY <1>6, <2>2
    <3>2. map.fields[i - N] = map.fields[j - N]
      BY <1>4, <1>9, <2>2
    <3>3. i - N = j - N
      BY <1>3, <1>4, <3>1, <3>2 DEF IsInjective
    <3>4. QED
      BY <1>4, <3>3
  <2>3. CASE i \in 1..N /\ j \in (N + 1)..(N + M)
    BY <1>5, <1>7, <1>9, <2>3
  <2>4. CASE j \in 1..N /\ i \in (N + 1)..(N + M)
    BY <1>5, <1>7, <1>9, <2>4
  <2>5. QED
    BY <1>8, <2>1, <2>2, <2>3, <2>4
<1>10. QED
  BY <1>4, <1>9 DEF IsInjective, more

\* Where an output is first.
FirstAt(map, output, k) ==
  /\ k \in 1..Len(map.sections) /\ map.sections[k].output = output
  /\ \A i \in 1..(k - 1) : map.sections[i].output # output

\* FirstOf finds it there.
LEMMA FirstIsThere ==
  ASSUME NEW map \in TemplateReadings, NEW output, NEW k, FirstAt(map, output, k)
  PROVE  FirstOf(map, output) = k
<1> DEFINE I == {i \in 1..Len(map.sections) : map.sections[i].output = output}
<1>1. Len(map.sections) \in Nat /\ k \in Nat /\ k \in I
  BY EntryLinesAre DEF FirstAt
<1>2. \A i \in I : k <= i
  <2>1. ASSUME NEW i \in I, ~(k <= i) PROVE FALSE
    <3>1. i \in 1..(k - 1)
      BY <1>1, <2>1
    <3>2. QED
      BY <3>1 DEF FirstAt
  <2>2. QED
    BY <2>1
<1>3. FirstOf(map, output) = IF I # {} THEN Min(I) ELSE 0
  BY Zenon DEF FirstOf, SelectInSeq
<1>4. I \subseteq Int
  BY <1>1
<1> HIDE DEF I
<1>5. Min(I) = k
  <2>1. \A x \in I : (\A y \in I : x <= y) => x = k
    BY <1>1, <1>2, <1>4
  <2>2. QED
    BY <1>1, <1>2, <2>1 DEF Min
<1>6. QED
  BY <1>1, <1>3, <1>5

\* What the first n headings ask for; and what the order is after them.
OutputsTo(map, n) == {map.sections[k].output : k \in 1..n}
OrderHolds(order, map, n) ==
  /\ order \in Seq(HeadingOutputs)
  /\ ToSet(order) = OutputsTo(map, n)
  /\ \A j \in DOMAIN order : \E k \in 1..n : FirstAt(map, order[j], k)
  /\ \A i, j \in DOMAIN order : i < j => FirstOf(map, order[i]) < FirstOf(map, order[j])

\* The order stays one of outputs.
LEMMA OutputsStay ==
  ASSUME NEW order \in Seq(HeadingOutputs), NEW s \in HeadingEntries
  PROVE  KeepFirst(order, s) \in Seq(HeadingOutputs)
<1>1. s.output \in HeadingOutputs
  BY DEF HeadingEntries
<1>2. QED
  BY <1>1, SequencesGrow DEF KeepFirst

\* _finalize_template_section_map goes over the headings one after the other.
LEMMA OrderFolded ==
  ASSUME NEW map \in TemplateReadings
  PROVE  \E h : /\ h[0] = NoOutputs /\ SectionOrder(map) = h[Len(map.sections)]
                /\ \A n \in 0..Len(map.sections) : h[n] \in Seq(HeadingOutputs)
                /\ \A n \in 1..Len(map.sections) : h[n] = KeepFirst(h[n - 1], map.sections[n])
<1> DEFINE N == Len(map.sections)
           places == map.sections
           Unfolds(g) == g = [s \in SUBSET (DOMAIN places) |->
                                IF s = {} THEN NoOutputs
                                ELSE KeepFirst(g[s \ {Max(s)}], places[Max(s)])]
           it == CHOOSE g : Unfolds(g)
           F == [x \in Seq(HeadingOutputs) \X (1..N) |-> KeepFirst(x[1], places[x[2]])]
<1>1. SectionOrder(map) = it[DOMAIN places]
  BY Zenon DEF SectionOrder, NoOutputs, FoldLeft, MapThenFoldSet
<1>2. N \in Nat /\ DOMAIN places = 1..N /\ \A n \in 1..N : places[n] \in HeadingEntries
  BY EntryLinesAre
<1>3. NoOutputs \in Seq(HeadingOutputs)
  BY DEF NoOutputs
<1>4. F \in [Seq(HeadingOutputs) \X (1..N) -> Seq(HeadingOutputs)]
  BY <1>2, OutputsStay
<1> HIDE DEF N, places, F
<1>5. PICK g : IsFold(g, Seq(HeadingOutputs), NoOutputs, N, F)
  BY <1>2, <1>3, <1>4, FoldExists
<1>6. Unfolds(g)
  <2>1. ASSUME NEW s \in SUBSET (1..N), s # {}
        PROVE  g[s] = KeepFirst(g[s \ {Max(s)}], places[Max(s)])
    <3>1. Max(s) \in s
      BY <1>2, <2>1, GreatestExists
    <3>2. Max(s) \in 1..N /\ <<g[s \ {Max(s)}], Max(s)>> \in Seq(HeadingOutputs) \X (1..N)
      BY <1>2, <1>5, <3>1 DEF IsFold
    <3>3. QED
      BY <1>5, <2>1, <3>2 DEF F, IsFold
  <2>2. QED
    BY <1>2, <1>5, <2>1 DEF IsFold
<1>7. Unfolds(it)
  <2> HIDE DEF Unfolds
  <2>1. QED
    BY <1>6
<1> HIDE DEF it
<1>8. it[{}] = NoOutputs
  BY <1>7
<1>9. Iterates(it, Seq(HeadingOutputs), NoOutputs, N, F)
  <2>1. ASSUME NEW n \in 1..N, it[1..(n - 1)] \in Seq(HeadingOutputs)
        PROVE  it[1..n] = F[<<it[1..(n - 1)], n>>]
    <3>1. 1..n \in SUBSET (DOMAIN places) /\ n \in Nat \ {0}
      BY <1>2
    <3>2. Max(1..n) = n /\ (1..n) \ {n} = 1..(n - 1) /\ 1..n # {}
      BY <1>2, <3>1, MaxOfPrefix
    <3>3. it[1..n] = KeepFirst(it[(1..n) \ {Max(1..n)}], places[Max(1..n)])
      BY <1>7, <3>1, <3>2
    <3>4. <<it[1..(n - 1)], n>> \in Seq(HeadingOutputs) \X (1..N)
      BY <2>1
    <3>5. QED
      BY <3>2, <3>3, <3>4 DEF F
  <2>2. QED
    BY <1>8, <2>1 DEF Iterates
<1>10. PICK h : IsPrefixFold(h, Seq(HeadingOutputs), NoOutputs, N, F) /\ h[N] = it[1..N]
  <2>1. FoldsTo(it, Seq(HeadingOutputs), NoOutputs, N, F)
    BY <1>2, <1>3, <1>4, <1>9, PrefixesFold
  <2>2. QED
    BY <2>1 DEF FoldsTo
<1>11. ASSUME NEW n \in 1..N PROVE h[n] = KeepFirst(h[n - 1], places[n])
  <2>1. n - 1 \in 0..N
    BY <1>2
  <2>2. <<h[n - 1], n>> \in Seq(HeadingOutputs) \X (1..N)
    BY <1>10, <2>1 DEF IsPrefixFold
  <2>3. QED
    BY <1>10, <2>2 DEF IsPrefixFold, F
<1>12. QED
  BY <1>1, <1>2, <1>10, <1>11 DEF N, places, IsPrefixFold

\* An output that is new comes after all the others.
LEMMA OutputIsKept ==
  ASSUME NEW map \in TemplateReadings, NEW n \in 1..Len(map.sections),
         NEW order, OrderHolds(order, map, n - 1)
  PROVE  OrderHolds(KeepFirst(order, map.sections[n]), map, n)
<1> DEFINE output == map.sections[n].output
           N == Len(order)
           more == Append(order, output)
<1>1. /\ Len(map.sections) \in Nat /\ n \in Nat /\ n >= 1 /\ output \in HeadingOutputs
  BY EntryLinesAre
<1>2. OutputsTo(map, n) = OutputsTo(map, n - 1) \cup {output}
  <2>1. 1..n = (1..(n - 1)) \cup {n}
    BY <1>1
  <2>2. QED
    BY <2>1 DEF OutputsTo
<1>3. /\ order \in Seq(HeadingOutputs) /\ N \in Nat /\ DOMAIN order = 1..N
      /\ ToSet(order) = OutputsTo(map, n - 1)
      /\ \A j \in 1..N : \E k \in 1..(n - 1) : FirstAt(map, order[j], k)
      /\ \A i, j \in 1..N : i < j => FirstOf(map, order[i]) < FirstOf(map, order[j])
  BY DEF OrderHolds
<1>4. \A k \in 1..(n - 1) : k \in 1..n /\ k < n
  BY <1>1
<1>5. Contains(order, output) <=> output \in OutputsTo(map, n - 1)
  BY <1>3 DEF Contains, ToSet
<1>6. KeepFirst(order, map.sections[n]) = IF Contains(order, output) THEN order ELSE more
  BY DEF KeepFirst
<1>7. /\ more \in Seq(HeadingOutputs) /\ DOMAIN more = 1..(N + 1)
      /\ \A j \in 1..N : more[j] = order[j]
      /\ more[N + 1] = output
  BY <1>1, <1>3, SequencesGrow
<1> HIDE DEF more, N, output
<1>8. CASE Contains(order, output)
  <2>1. ToSet(order) = OutputsTo(map, n)
    BY <1>2, <1>3, <1>5, <1>8
  <2>2. \A j \in DOMAIN order : \E k \in 1..n : FirstAt(map, order[j], k)
    BY <1>3, <1>4
  <2>3. OrderHolds(order, map, n)
    BY <1>3, <2>1, <2>2 DEF OrderHolds
  <2>4. QED
    BY <1>6, <1>8, <2>3
<1>9. CASE ~Contains(order, output)
  <2>1. FirstAt(map, output, n)
    BY <1>5, <1>9 DEF FirstAt, OutputsTo, output
  <2>2. FirstOf(map, output) = n
    BY <2>1, FirstIsThere
  <2>3. \A j \in 1..N : FirstOf(map, order[j]) < n
    <3>1. ASSUME NEW j \in 1..N PROVE FirstOf(map, order[j]) < n
      <4>1. PICK k \in 1..(n - 1) : FirstAt(map, order[j], k)
        BY <1>3
      <4>2. FirstOf(map, order[j]) = k
        BY <4>1, FirstIsThere
      <4>3. QED
        BY <1>4, <4>2
    <3>2. QED
      BY <3>1
  <2>4. \A j \in 1..(N + 1) : j \in 1..N \/ j = N + 1
    BY <1>3
  <2>5. ToSet(more) = OutputsTo(map, n)
    <3>1. ToSet(more) = ToSet(order) \cup {output}
      <4>1. \A j \in 1..N : j \in 1..(N + 1)
        BY <1>3
      <4>2. N + 1 \in 1..(N + 1)
        BY <1>3
      <4>3. ToSet(more) \subseteq ToSet(order) \cup {output}
        BY <1>3, <1>7, <2>4 DEF ToSet
      <4>4. ToSet(order) \subseteq ToSet(more) /\ output \in ToSet(more)
        BY <1>3, <1>7, <4>1, <4>2 DEF ToSet
      <4>5. QED
        BY <4>3, <4>4
    <3>2. QED
      BY <1>2, <1>3, <3>1
  <2>6. \A j \in 1..(N + 1) : \E k \in 1..n : FirstAt(map, more[j], k)
    <3>1. n \in 1..n
      BY <1>1
    <3>2. QED
      BY <1>3, <1>4, <1>7, <2>1, <2>4, <3>1
  <2>7. ASSUME NEW i \in 1..(N + 1), NEW j \in 1..(N + 1), i < j
        PROVE  FirstOf(map, more[i]) < FirstOf(map, more[j])
    <3>1. i \in 1..N
      BY <1>3, <2>7
    <3>2. CASE j \in 1..N
      BY <1>3, <1>7, <2>7, <3>1, <3>2
    <3>3. CASE j = N + 1
      <4>1. more[i] = order[i] /\ more[j] = output
        BY <1>7, <3>1, <3>3
      <4>2. QED
        BY <2>2, <2>3, <3>1, <4>1
    <3>4. QED
      BY <2>4, <3>2, <3>3
  <2>8. OrderHolds(more, map, n)
    BY <1>7, <2>5, <2>6, <2>7 DEF OrderHolds
  <2>9. QED
    BY <1>6, <1>9, <2>8
<1>10. QED
  BY <1>8, <1>9

\* After all headings.
LEMMA OrderIsKept ==
  ASSUME NEW map \in TemplateReadings
  PROVE  OrderHolds(SectionOrder(map), map, Len(map.sections))
<1> DEFINE N == Len(map.sections)
<1>1. N \in Nat
  BY EntryLinesAre
<1>2. PICK h : /\ h[0] = NoOutputs /\ SectionOrder(map) = h[N]
               /\ \A n \in 0..N : h[n] \in Seq(HeadingOutputs)
               /\ \A n \in 1..N : h[n] = KeepFirst(h[n - 1], map.sections[n])
  BY OrderFolded
<1> HIDE DEF N
<1> DEFINE S == {n \in 0..N : OrderHolds(h[n], map, n)}
<1>3. 0 \in S
  <2>1. OutputsTo(map, 0) = {}
    <3>1. 1..0 = {}
      OBVIOUS
    <3>2. QED
      BY <3>1 DEF OutputsTo
  <2>2. NoOutputs \in Seq(HeadingOutputs) /\ DOMAIN NoOutputs = {} /\ ToSet(NoOutputs) = {}
    BY DEF NoOutputs, ToSet
  <2>3. OrderHolds(NoOutputs, map, 0)
    BY <2>1, <2>2 DEF OrderHolds
  <2>4. QED
    BY <1>1, <1>2, <2>3
<1>4. ASSUME NEW n \in 1..N, n - 1 \in S PROVE n \in S
  <2>1. n \in 0..N /\ n \in 1..Len(map.sections) /\ h[n] = KeepFirst(h[n - 1], map.sections[n])
    BY <1>1, <1>2 DEF N
  <2>2. QED
    BY <1>4, <2>1, OutputIsKept
<1>5. QED
  <2> HIDE DEF S
  <2>1. 0..N \subseteq S
    BY <1>1, <1>3, <1>4, UpTo
  <2>2. N \in S
    BY <1>1, <2>1
  <2>3. QED
    BY <1>2, <2>2 DEF S, N

\* What is asked for is asked for in the order of the lines.
LEMMA OrderIsThatOfLines ==
  ASSUME NEW map, NEW F, NEW S, TemplateHolds(map, F, S)
  PROVE  AsksInOrder(map)
<1> DEFINE order == SectionOrder(map)
           N == Len(map.sections)
<1>1. map \in TemplateReadings /\ InOrder(EntryLines(map.sections))
  BY DEF TemplateHolds
<1>2. OrderHolds(order, map, N)
  BY <1>1, OrderIsKept
<1>3. /\ DOMAIN EntryLines(map.sections) = 1..N
      /\ \A k \in 1..N : EntryLines(map.sections)[k] = map.sections[k].line
  BY <1>1, EntryLinesAre
<1> HIDE DEF order, N
<1>4. order \in Seq(HeadingOutputs) /\ DOMAIN order = 1..Len(order) /\ Len(order) \in Nat
  BY <1>2 DEF OrderHolds
<1>5. ASSUME NEW j \in DOMAIN order PROVE FirstOf(map, order[j]) \in 1..N
  <2>1. PICK k \in 1..N : FirstAt(map, order[j], k)
    BY <1>2 DEF OrderHolds
  <2>2. QED
    BY <1>1, <2>1, FirstIsThere
<1>6. ASSUME NEW j \in DOMAIN order, NEW i \in 1..(j - 1)
      PROVE  Before(map.sections[FirstOf(map, order[i])].line,
                    map.sections[FirstOf(map, order[j])].line)
  <2>1. i \in DOMAIN order /\ i < j
    BY <1>4
  <2>2. /\ FirstOf(map, order[i]) < FirstOf(map, order[j])
        /\ FirstOf(map, order[i]) \in 1..N /\ FirstOf(map, order[j]) \in 1..N
    BY <1>2, <1>5, <2>1 DEF OrderHolds
  <2>3. QED
    BY <1>1, <1>3, <2>2 DEF InOrder
<1>7. QED
  BY <1>6 DEF AsksInOrder, order

\* For a template of any blocks, what is asked for is what it gives as a
\* source.
LEMMA TemplateHoldsAll == Blocked => TemplateAsksForSource
<1> SUFFICES ASSUME Blocked PROVE TemplateAsksForSource
  OBVIOUS
<1>1. /\ TemplateRead(ReadDocx, Len(source)) /\ AsksFor(ReadDocx, Len(source))
      /\ TemplateRead(ReadText, Len(source))
      /\ DOMAIN source = 1..Len(source)
  BY DocxIsRead, LinesOfTextAreRead, SourceIsTyped
<1>2. FieldsUpTo(Len(source)) \cap TextsUpTo(Len(source)) = {}
  BY DEF FieldsUpTo, TextsUpTo
<1>3. ASSUME NEW map \in TemplateMaps PROVE AsksInOrder(map) /\ IsInjective(Taken(map))
  <2>1. CASE map \in {ReadDocx, ReadText}
    <3>1. TemplateHolds(map, FieldsUpTo(Len(source)), TextsUpTo(Len(source)))
      BY <1>1, <2>1 DEF TemplateRead
    <3>2. QED
      BY <1>2, <3>1, OrderIsThatOfLines, TakenOnce
  <2>2. CASE map \notin {ReadDocx, ReadText}
    <3>1. PICK n \in DOMAIN source : source[n].kind = "table" /\ map = ReadSheet(n)
      BY <2>2 DEF TemplateMaps
    <3>2. TemplateHolds(map, {}, ToSet(Tail(Rows(n))))
      BY <3>1, SheetIsRead
    <3>3. {} \cap ToSet(Tail(Rows(n))) = {}
      OBVIOUS
    <3>4. QED
      BY <3>2, <3>3, OrderIsThatOfLines, TakenOnce
  <2>3. QED
    BY <2>1, <2>2
<1>4. GivesAll(SectionOrder(ReadDocx))
  <2> DEFINE order == SectionOrder(ReadDocx)
  <2>1. ReadDocx \in TemplateReadings
    BY <1>1 DEF TemplateRead, TemplateHolds
  <2>2. OrderHolds(order, ReadDocx, Len(ReadDocx.sections))
    BY <2>1, OrderIsKept
  <2> HIDE DEF order
  <2>3. ToSet(order) = EntryOutputs(ReadDocx.sections) /\ DOMAIN order = 1..Len(order)
    <3>1. DOMAIN ReadDocx.sections = 1..Len(ReadDocx.sections)
      BY <2>1, EntryLinesAre
    <3>2. QED
      BY <2>2, <3>1 DEF OrderHolds, OutputsTo, EntryOutputs
  <2>4. ASSUME NEW s \in SectionKeys, Named(s) PROVE Contains(order, <<s>>)
    <3>1. PICK n \in DOMAIN source : Opens(n) /\ ~source[n].inline /\ source[n].section = s
      BY <2>4 DEF Named
    <3>2. <<s>> \in ToSet(order)
      BY <1>1, <2>3, <3>1 DEF AsksFor
    <3>3. QED
      BY <2>3, <3>2 DEF Contains, ToSet
  <2>5. QED
    BY <2>4 DEF GivesAll, order
<1>5. QED
  BY <1>3, <1>4 DEF TemplateAsksForSource

(***************************************************************************)
(* routes.py, for a document of any blocks: each header field is that of   *)
(* the first line naming it, each section has the lines under its headings *)
(* and no other, in order, and the same document as a template asks for    *)
(* the sections it would give, in their order.                             *)
(***************************************************************************)
THEOREM MigrationIsMappedAlways == MigrationSpec => []MigrationIsMapped
<1>1. MigrationInit => Blocked
  BY DEF MigrationInit, Blocked
<1>2. Blocked /\ [MigrationNext]_migrationVars => Blocked'
  <2> SUFFICES ASSUME Blocked, [MigrationNext]_migrationVars PROVE Blocked'
    OBVIOUS
  <2>1. CASE source' = source
    BY <2>1 DEF Blocked
  <2>2. ASSUME NEW b \in Blocks, AddBlock(b) PROVE Blocked'
    <3>1. source' = Append(source, b)
      BY <2>2 DEF AddBlock
    <3>2. QED
      BY <3>1, SequencesGrow DEF Blocked
  <2>3. ASSUME NEW r \in Replies, Preview(r) PROVE Blocked'
    BY <2>1, <2>3 DEF Preview
  <2>4. CASE Generate
    BY <2>1, <2>4 DEF Generate
  <2>5. CASE UNCHANGED migrationVars
    BY <2>1, <2>5 DEF migrationVars
  <2>6. QED
    BY <2>2, <2>3, <2>4, <2>5 DEF MigrationNext
<1>3. Blocked => MigrationIsMapped
  BY SourceHolds, TemplateHoldsAll DEF MigrationIsMapped
<1>4. QED
  BY <1>1, <1>2, <1>3, PTL DEF MigrationSpec
=============================================================================
