------------------------ MODULE PipelineStartupProofs ------------------------
(***************************************************************************)
(* What holds of the start of any application: of providers, methods,       *)
(* decorators and entries of any number.                                    *)
(***************************************************************************)
EXTENDS PipelineStartup, FiniteSetTheorems, SequenceTheorems, WellFoundedInduction,
        TLAPS

(* Lists of lists *)

\* Every set of naturals that is not empty has a least element.
LEMMA LeastNatural ==
  ASSUME NEW T \in SUBSET Nat, T # {}
  PROVE  \E m \in T : \A k \in T : m <= k
<1> DEFINE R == {pair \in Nat \X Nat : pair[1] < pair[2]}
<1>1. OpToRel(<, Nat) = R
  BY DEF OpToRel
<1>2. IsWellFoundedOn(R, Nat)
  BY <1>1, NatLessThanWellFounded
<1>3. PICK m \in T : \A y \in T : <<y, m>> \notin R
  BY <1>2, WFMin
<1>4. \A k \in T : k < m => <<k, m>> \in R
  OBVIOUS
<1>5. \A k \in T : ~ (k < m)
  BY <1>3, <1>4
<1>6. \A k \in T : m <= k
  BY <1>5
<1> QED
  BY <1>6

LEMMA MinIsLeast ==
  ASSUME NEW T \in SUBSET Nat, T # {}
  PROVE  Min(T) \in T /\ \A k \in T : Min(T) <= k
BY LeastNatural DEF Min

\* The elements of a list, and the lists in which each element comes before
\* the later ones as a relation says.
Elems(list) == {list[i] : i \in 1..Len(list)}

Sorted(order, list) ==
  \A i, j \in 1..Len(list) : i < j => <<list[i], list[j]>> \in order

\* Everything in the one list comes before everything in the other.
Precedes(order, s, t) == \A x \in Elems(s), y \in Elems(t) : <<x, y>> \in order

LEMMA Joined ==
  ASSUME NEW S, NEW order, NEW s \in Seq(S), NEW t \in Seq(S),
         Sorted(order, s), Sorted(order, t), Precedes(order, s, t)
  PROVE  /\ s \o t \in Seq(S)
         /\ Elems(s \o t) = Elems(s) \cup Elems(t)
         /\ Sorted(order, s \o t)
<1>1. /\ Len(s) \in Nat /\ Len(t) \in Nat /\ Len(s \o t) = Len(s) + Len(t)
      /\ s \o t \in Seq(S)
  OBVIOUS
<1>2. \A i \in 1..Len(s) : (s \o t)[i] = s[i]
  OBVIOUS
<1>3. \A i \in 1..Len(t) : (s \o t)[Len(s) + i] = t[i]
  OBVIOUS
<1>4. \A i \in 1..(Len(s) + Len(t)) :
        \/ i \in 1..Len(s)
        \/ i - Len(s) \in 1..Len(t) /\ i = Len(s) + (i - Len(s)) /\ i > Len(s)
  BY <1>1
<1> DEFINE both == s \o t
<1> HIDE DEF both
<1>5. Elems(both) = Elems(s) \cup Elems(t)
  <2>1. ASSUME NEW i \in 1..Len(both)
        PROVE  both[i] \in Elems(s) \cup Elems(t)
    <3>1. CASE i \in 1..Len(s)
      BY <1>2, <3>1 DEF both, Elems
    <3>2. CASE i - Len(s) \in 1..Len(t) /\ i = Len(s) + (i - Len(s))
      BY <1>3, <3>2 DEF both, Elems
    <3> QED
      BY <1>1, <1>4, <3>1, <3>2 DEF both
  <2>2. ASSUME NEW i \in 1..Len(s)
        PROVE  s[i] \in Elems(both)
    BY <1>1, <1>2 DEF both, Elems
  <2>3. ASSUME NEW i \in 1..Len(t)
        PROVE  t[i] \in Elems(both)
    <3>1. Len(s) + i \in 1..Len(both)
      BY <1>1 DEF both
    <3> QED
      BY <1>3, <3>1 DEF both, Elems
  <2> QED
    BY <2>1, <2>2, <2>3 DEF Elems
<1>6. ASSUME NEW i \in 1..Len(both), NEW j \in 1..Len(both), i < j
      PROVE  <<both[i], both[j]>> \in order
  <2>1. CASE i \in 1..Len(s) /\ j \in 1..Len(s)
    BY <1>2, <1>6, <2>1 DEF both, Sorted
  <2>2. CASE i \in 1..Len(s) /\ j - Len(s) \in 1..Len(t) /\ j = Len(s) + (j - Len(s))
    BY <1>2, <1>3, <2>2 DEF both, Precedes, Elems
  <2>3. CASE /\ i - Len(s) \in 1..Len(t) /\ i = Len(s) + (i - Len(s))
             /\ j - Len(s) \in 1..Len(t) /\ j = Len(s) + (j - Len(s))
    <3>1. i - Len(s) < j - Len(s)
      BY <1>1, <1>6
    <3>2. <<t[i - Len(s)], t[j - Len(s)]>> \in order
      BY <2>3, <3>1 DEF Sorted
    <3>3. both[i] = t[i - Len(s)] /\ both[j] = t[j - Len(s)]
      BY <1>3, <2>3 DEF both
    <3> QED
      BY <3>2, <3>3
  <2>4. /\ i \in 1..(Len(s) + Len(t)) /\ j \in 1..(Len(s) + Len(t))
        /\ i \in Nat /\ j \in Nat
    BY <1>1 DEF both
  <2>5. /\ i \in 1..Len(s) \/ (i - Len(s) \in 1..Len(t) /\ i = Len(s) + (i - Len(s)))
        /\ j \in 1..Len(s) \/ (j - Len(s) \in 1..Len(t) /\ j = Len(s) + (j - Len(s)))
        /\ j \in 1..Len(s) => i \in 1..Len(s)
    BY <1>1, <1>6, <2>4
  <2> QED
    BY <2>1, <2>2, <2>3, <2>5
<1> QED
  BY <1>1, <1>5, <1>6 DEF both, Sorted

\* FlattenSeq is defined by a recursive function on the places of the lists.
Flattened(lists, g, i) == IF i = 1 THEN lists[i] ELSE g[i - 1] \o lists[i]

Flat(lists) ==
  CHOOSE g : g = [i \in 1..Len(lists) |-> Flattened(lists, g, i)]

LEMMA FlatExists ==
  ASSUME NEW lists, Len(lists) \in Nat
  PROVE  Flat(lists) = [i \in 1..Len(lists) |-> Flattened(lists, Flat(lists), i)]
<1> DEFINE partial(k) == \E g : g = [i \in 1..k |-> Flattened(lists, g, i)]
           missing == {k \in Nat : ~ partial(k)}
<1>1. missing = {}
  <2> SUFFICES ASSUME missing # {} PROVE FALSE
    OBVIOUS
  <2>1. PICK m \in missing : \A k \in missing : m <= k
    BY LeastNatural
  <2>2. m \in Nat /\ ~ partial(m)
    BY <2>1
  <2>3. CASE m = 0
    <3> DEFINE g == [i \in 1..0 |-> lists[i]]
    <3>1. g = [i \in 1..0 |-> Flattened(lists, g, i)]
      OBVIOUS
    <3> QED
      BY <2>2, <2>3, <3>1
  <2>4. CASE m # 0
    <3>1. m - 1 \in Nat /\ ~ (m <= m - 1)
      BY <2>2, <2>4
    <3>2. partial(m - 1)
      <4>1. m - 1 \notin missing
        <5> HIDE DEF missing
        <5> QED
          BY <2>1, <3>1
      <4> QED
        BY <3>1, <4>1
    <3>3. PICK g : g = [i \in 1..(m - 1) |-> Flattened(lists, g, i)]
      BY <3>2
    <3> DEFINE h == [i \in 1..m |-> Flattened(lists, g, i)]
    <3>4. \A i \in 1..(m - 1) : h[i] = g[i]
      BY <2>2, <3>3
    <3>5. \A i \in 1..m : Flattened(lists, g, i) = Flattened(lists, h, i)
      <4> HIDE DEF h
      <4>1. \A i \in 1..m : i # 1 => i - 1 \in 1..(m - 1)
        BY <2>2
      <4>2. \A i \in 1..m : i # 1 => g[i - 1] = h[i - 1]
        BY <3>4, <4>1
      <4> QED
        BY <4>2 DEF Flattened
    <3>6. h = [i \in 1..m |-> Flattened(lists, h, i)]
      BY <3>5
    <3> QED
      BY <2>2, <3>6
  <2> QED
    BY <2>3, <2>4
<1>2. partial(Len(lists))
  BY <1>1
<1> QED
  BY <1>2 DEF Flat

\* What is flattened has the elements of all the lists; and where each list is
\* sorted and comes before the later ones, it is sorted.
LEMMA FlattenContent ==
  ASSUME NEW S, NEW order, NEW lists \in Seq(Seq(S)),
         \A i \in 1..Len(lists) : Sorted(order, lists[i]),
         \A i, j \in 1..Len(lists) : i < j => Precedes(order, lists[i], lists[j])
  PROVE  /\ FlattenSeq(lists) \in Seq(S)
         /\ Elems(FlattenSeq(lists)) = UNION {Elems(lists[i]) : i \in 1..Len(lists)}
         /\ Sorted(order, FlattenSeq(lists))
<1> DEFINE n == Len(lists)
           F == Flat(lists)
           content(k) == UNION {Elems(lists[i]) : i \in 1..k}
           good(k) == /\ F[k] \in Seq(S)
                      /\ Elems(F[k]) = content(k)
                      /\ Sorted(order, F[k])
           bad == {k \in 1..n : ~ good(k)}
<1>1. n \in Nat /\ \A i \in 1..n : lists[i] \in Seq(S)
  OBVIOUS
<1>2. CASE n = 0
  <2>1. FlattenSeq(lists) = lists /\ lists = <<>>
    BY <1>2 DEF FlattenSeq
  <2> QED
    BY <2>1 DEF Elems, Sorted
<1>3. CASE n # 0
  <2>1. FlattenSeq(lists) = F[n]
    BY <1>3 DEF FlattenSeq, Flat, Flattened
  <2>2. \A k \in 1..n : F[k] = IF k = 1 THEN lists[k] ELSE F[k - 1] \o lists[k]
    <3>1. F = [k \in 1..n |-> Flattened(lists, F, k)]
      BY <1>1, FlatExists
    <3> HIDE DEF F
    <3> QED
      BY <3>1 DEF Flattened
  <2> HIDE DEF F
  <2>3. bad = {}
    <3> SUFFICES ASSUME bad # {} PROVE FALSE
      OBVIOUS
    <3>1. bad \in SUBSET Nat
      BY <1>1
    <3>2. PICK m \in bad : \A k \in bad : m <= k
      BY <3>1, LeastNatural
    <3>3. m \in 1..n /\ ~ good(m)
      BY <3>2
    <3>4. CASE m = 1
      <4>1. F[1] = lists[1] /\ content(1) = Elems(lists[1])
        BY <2>2, <3>3, <3>4
      <4> QED
        BY <1>1, <3>3, <3>4, <4>1
    <3>5. CASE m # 1
      <4>1. m - 1 \in 1..n /\ ~ (m <= m - 1) /\ m \in Nat
        <5>1. n \in Nat /\ m \in 1..n
          BY <1>1, <3>3
        <5> HIDE DEF n, content, good, bad
        <5> QED
          BY <5>1, <3>5
      <4>2. good(m - 1)
        <5>1. m - 1 \notin bad
          <6> HIDE DEF bad
          <6> QED
            BY <3>2, <4>1
        <5> QED
          BY <4>1, <5>1
      <4>3. F[m] = F[m - 1] \o lists[m]
        BY <2>2, <3>3, <3>5
      <4>4. Precedes(order, F[m - 1], lists[m])
        <5> SUFFICES ASSUME NEW x \in content(m - 1), NEW y \in Elems(lists[m])
                     PROVE  <<x, y>> \in order
          BY <4>2 DEF Precedes
        <5>1. PICK i \in 1..(m - 1) : x \in Elems(lists[i])
          OBVIOUS
        <5>2. i \in 1..n /\ m \in 1..n /\ i < m
          <6>1. n \in Nat /\ m \in 1..n /\ i \in 1..(m - 1)
            BY <1>1, <3>3, <5>1
          <6> HIDE DEF n, content, good, bad
          <6> QED
            BY <6>1
        <5> QED
          BY <5>1, <5>2 DEF Precedes
      <4>5. /\ F[m] \in Seq(S) /\ Sorted(order, F[m])
            /\ Elems(F[m]) = Elems(F[m - 1]) \cup Elems(lists[m])
        <5>1. lists[m] \in Seq(S) /\ Sorted(order, lists[m])
          BY <1>1, <3>3
        <5>2. F[m - 1] \in Seq(S) /\ Sorted(order, F[m - 1])
          BY <4>2
        <5> QED
          BY <4>3, <4>4, <5>1, <5>2, Joined
      <4>6. content(m) = content(m - 1) \cup Elems(lists[m])
        <5>1. /\ \A i \in 1..m : i \in 1..(m - 1) \/ i = m
              /\ m \in 1..m
              /\ \A i \in 1..(m - 1) : i \in 1..m
          <6> HIDE DEF n, content, good, bad
          <6> QED
            BY <4>1
        <5> QED
          BY <5>1
      <4> QED
        BY <3>3, <4>2, <4>5, <4>6
    <3> QED
      BY <3>4, <3>5
  <2>4. good(n)
    <3>1. n \in 1..n
      BY <1>1, <1>3
    <3> QED
      BY <2>3, <3>1
  <2> QED
    BY <2>1, <2>4
<1> QED
  BY <1>2, <1>3

(* The entries that decorators have stored *)

\* What the fold in Stored makes of the decorators at some places, from what it
\* makes of fewer.
Step(list, g, s) ==
  IF s = {} THEN <<>> ELSE PrependEntries(list[Min(s)], g[s \ {Min(s)}])

\* The recursive function the fold is defined by.
Fold(list) ==
  CHOOSE g : g = [s \in SUBSET DOMAIN list |-> Step(list, g, s)]

LEMMA StoredIsFold ==
  ASSUME NEW list
  PROVE  Stored(list) = Fold(list)[DOMAIN list]
BY DEF Stored, FoldRight, MapThenFoldSet, Fold, Step, Min

LEMMA FoldExists ==
  ASSUME NEW S, NEW list \in Seq(S)
  PROVE  Fold(list) = [s \in SUBSET DOMAIN list |-> Step(list, Fold(list), s)]
<1> DEFINE D == DOMAIN list
           upTo(k) == {s \in SUBSET D : Cardinality(s) <= k}
           partial(k) == \E g : g = [s \in upTo(k) |-> Step(list, g, s)]
           missing == {k \in Nat : ~ partial(k)}
<1>1. /\ D = 1..Len(list) /\ Len(list) \in Nat
      /\ IsFiniteSet(D) /\ Cardinality(D) = Len(list)
  <2>1. Len(list) \in Nat /\ D = 1..Len(list)
    OBVIOUS
  <2> QED
    BY <2>1, FS_Interval
<1>2. \A s \in SUBSET D : /\ s \in SUBSET Nat /\ IsFiniteSet(s)
                          /\ Cardinality(s) \in Nat
                          /\ Cardinality(s) <= Len(list)
  BY <1>1, FS_Subset, FS_CardinalityType
<1>3. ASSUME NEW s \in SUBSET D, s # {}
      PROVE  /\ s \ {Min(s)} \in SUBSET D
             /\ Cardinality(s \ {Min(s)}) = Cardinality(s) - 1
  BY <1>2, <1>3, MinIsLeast, FS_RemoveElement
<1>4. missing = {}
  <2> SUFFICES ASSUME missing # {} PROVE FALSE
    OBVIOUS
  <2>1. PICK m \in missing : \A k \in missing : m <= k
    BY LeastNatural
  <2>2. CASE m = 0
    <3>1. \A s \in upTo(0) : s = {}
      BY <1>2, FS_EmptySet
    <3> DEFINE g == [s \in upTo(0) |-> <<>>]
    <3>2. g = [s \in upTo(0) |-> Step(list, g, s)]
      BY <3>1 DEF Step
    <3> QED
      BY <2>1, <2>2, <3>2
  <2>3. CASE m # 0
    <3>1. m - 1 \in Nat /\ m - 1 \notin missing
      <4>1. m \in Nat
        BY <2>1
      <4>2. m - 1 \in Nat /\ ~ (m <= m - 1)
        BY <2>3, <4>1
      <4> HIDE DEF missing
      <4> QED
        BY <2>1, <4>2
    <3>2. PICK g : g = [s \in upTo(m - 1) |-> Step(list, g, s)]
      BY <3>1
    <3> DEFINE h == [s \in upTo(m) |-> Step(list, g, s)]
    <3>3. \A u \in upTo(m - 1) : u \in upTo(m) /\ h[u] = g[u]
      BY <1>2, <2>1, <3>1, <3>2
    <3>4. \A s \in upTo(m) : Step(list, g, s) = Step(list, h, s)
      <4> SUFFICES ASSUME NEW s \in upTo(m), s # {}
                   PROVE  g[s \ {Min(s)}] = h[s \ {Min(s)}]
        BY DEF Step
      <4>1. s \ {Min(s)} \in upTo(m - 1)
        <5>1. m \in Nat
          BY <2>1
        <5>2. s \in SUBSET D /\ Cardinality(s) \in Nat /\ Cardinality(s) <= m
          BY <1>2
        <5>3. /\ s \ {Min(s)} \in SUBSET D
              /\ Cardinality(s \ {Min(s)}) = Cardinality(s) - 1
          BY <1>3, <5>2
        <5>4. Cardinality(s) - 1 <= m - 1
          BY <5>1, <5>2
        <5> QED
          BY <5>3, <5>4
      <4> QED
        BY <3>3, <4>1
    <3>5. h = [s \in upTo(m) |-> Step(list, h, s)]
      BY <3>4
    <3> QED
      BY <2>1, <3>5
  <2> QED
    BY <2>2, <2>3
<1>5. upTo(Len(list)) = SUBSET D
  BY <1>2
<1>6. \E g : g = [s \in SUBSET D |-> Step(list, g, s)]
  <2>1. Len(list) \notin missing
    BY <1>4
  <2>2. partial(Len(list))
    BY <1>1, <2>1
  <2> HIDE DEF upTo
  <2> QED
    BY <1>5, <2>2
<1> QED
  BY <1>6 DEF Fold

\* What is stored when the decorators from place i on have been applied.
Suffix(list, i) == Fold(list)[i..Len(list)]

\* The top-most decorator is applied last, in front of all that is stored.
LEMMA StoredLinks ==
  ASSUME NEW S, NEW list \in Seq(S)
  PROVE  /\ Stored(list) = Suffix(list, 1)
         /\ \A i \in 1..Len(list) :
              Suffix(list, i) = PrependEntries(list[i], Suffix(list, i + 1))
         /\ Suffix(list, Len(list) + 1) = <<>>
<1>1. Len(list) \in Nat /\ DOMAIN list = 1..Len(list)
  OBVIOUS
<1>2. \A s \in SUBSET (1..Len(list)) : Fold(list)[s] = Step(list, Fold(list), s)
  <2> DEFINE G == Fold(list)
  <2>1. G = [s \in SUBSET DOMAIN list |-> Step(list, G, s)]
    BY FoldExists
  <2> HIDE DEF G
  <2>2. \A s \in SUBSET (1..Len(list)) : G[s] = Step(list, G, s)
    BY <1>1, <2>1
  <2> QED
    BY <2>2 DEF G
<1>3. Stored(list) = Suffix(list, 1)
  BY <1>1, StoredIsFold DEF Suffix
<1>4. ASSUME NEW i \in 1..Len(list)
      PROVE  Suffix(list, i) = PrependEntries(list[i], Suffix(list, i + 1))
  <2>1. /\ i..Len(list) \in SUBSET (1..Len(list)) /\ i..Len(list) # {}
        /\ i..Len(list) \in SUBSET Nat
    BY <1>1
  <2>2. Min(i..Len(list)) = i
    <3>1. /\ Min(i..Len(list)) \in i..Len(list)
          /\ \A k \in i..Len(list) : Min(i..Len(list)) <= k
      BY <2>1, MinIsLeast
    <3>2. i \in i..Len(list)
      BY <1>1
    <3> QED
      BY <1>1, <3>1, <3>2
  <2>3. (i..Len(list)) \ {i} = (i + 1)..Len(list)
    BY <1>1
  <2> QED
    BY <1>2, <2>1, <2>2, <2>3 DEF Suffix, Step
<1>5. Suffix(list, Len(list) + 1) = <<>>
  <2>1. (Len(list) + 1)..Len(list) = {}
    BY <1>1
  <2> QED
    BY <1>2, <2>1 DEF Suffix, Step
<1> QED
  BY <1>3, <1>4, <1>5

LEMMA FromHereOn ==
  ASSUME NEW n \in Nat, NEW i \in 1..n
  PROVE  /\ i \in i..n
         /\ \A j \in i..n : j = i \/ j \in (i + 1)..n
         /\ \A j \in (i + 1)..n : j \in i..n /\ j \in 1..n /\ i < j
OBVIOUS

\* What is stored has the entries of all decorators; and where each decorator's
\* are sorted and come before those of the decorators below, it is sorted.
LEMMA StoredContent ==
  ASSUME NEW S, NEW order, NEW lists \in Seq(Seq(S)),
         \A i \in 1..Len(lists) : Sorted(order, lists[i]),
         \A i, j \in 1..Len(lists) : i < j => Precedes(order, lists[i], lists[j])
  PROVE  /\ Stored(lists) \in Seq(S)
         /\ Elems(Stored(lists)) = UNION {Elems(lists[i]) : i \in 1..Len(lists)}
         /\ Sorted(order, Stored(lists))
<1> DEFINE n == Len(lists)
           F(i) == Suffix(lists, i)
           content(i) == UNION {Elems(lists[j]) : j \in i..n}
           good(i) == /\ F(i) \in Seq(S)
                      /\ Elems(F(i)) = content(i)
                      /\ Sorted(order, F(i))
           bad == {k \in 0..n : ~ good(n + 1 - k)}
<1>1. n \in Nat /\ \A i \in 1..n : lists[i] \in Seq(S)
  OBVIOUS
<1>2. /\ Stored(lists) = F(1) /\ F(n + 1) = <<>>
      /\ \A i \in 1..n : F(i) = lists[i] \o F(i + 1)
  BY StoredLinks DEF PrependEntries
<1> HIDE DEF F
<1>3. bad = {}
  <2> SUFFICES ASSUME bad # {} PROVE FALSE
    OBVIOUS
  <2>1. bad \in SUBSET Nat
    BY <1>1
  <2>2. PICK k \in bad : \A l \in bad : k <= l
    BY <2>1, LeastNatural
  <2>3. k \in 0..n /\ k \in Nat /\ ~ good(n + 1 - k)
    BY <1>1, <2>2
  <2>4. CASE k = 0
    <3>1. (n + 1)..n = {}
      BY <1>1
    <3>2. content(n + 1) = {}
      BY <3>1
    <3>3. good(n + 1)
      <4>1. <<>> \in Seq(S) /\ Elems(<<>>) = {} /\ Sorted(order, <<>>)
        BY DEF Elems, Sorted
      <4> HIDE DEF content
      <4> QED
        BY <1>2, <3>2, <4>1
    <3>4. n + 1 - k = n + 1
      BY <1>1, <2>4
    <3> QED
      BY <2>3, <3>3, <3>4
  <2>5. CASE k # 0
    <3>1. k - 1 \in 0..n /\ ~ (k <= k - 1)
      <4>1. n \in Nat /\ k \in 0..n
        BY <1>1, <2>3
      <4> HIDE DEF n, content, good, bad
      <4> QED
        BY <4>1, <2>5
    <3>2. good(n + 1 - (k - 1))
      <4>1. k - 1 \notin bad
        <5> HIDE DEF bad
        <5> QED
          BY <2>2, <3>1
      <4> QED
        BY <3>1, <4>1
    <3>3. PICK i : i = n + 1 - k
      OBVIOUS
    <3>4. ~ good(i)
      BY <2>3, <3>3
    <3>5. i \in 1..n /\ i \in Nat /\ n + 1 - (k - 1) = i + 1
      <4> HIDE DEF good
      <4> QED
        BY <1>1, <2>3, <2>5, <3>3
    <3>6. good(i + 1)
      BY <3>2, <3>5
    <3>7. F(i) = lists[i] \o F(i + 1)
      BY <1>2, <3>5
    <3>8. Precedes(order, lists[i], F(i + 1))
      <4> SUFFICES ASSUME NEW x \in Elems(lists[i]), NEW y \in content(i + 1)
                   PROVE  <<x, y>> \in order
        BY <3>6 DEF Precedes
      <4>1. PICK j \in (i + 1)..n : y \in Elems(lists[j])
        OBVIOUS
      <4>2. j \in 1..n /\ i \in 1..n /\ i < j
        BY <1>1, <3>5, FromHereOn
      <4> QED
        BY <4>1, <4>2 DEF Precedes
    <3>9. /\ F(i) \in Seq(S) /\ Sorted(order, F(i))
          /\ Elems(F(i)) = Elems(lists[i]) \cup Elems(F(i + 1))
      <4>1. lists[i] \in Seq(S) /\ Sorted(order, lists[i])
        BY <1>1, <3>5
      <4>2. F(i + 1) \in Seq(S) /\ Sorted(order, F(i + 1))
        BY <3>6
      <4> QED
        BY <3>7, <3>8, <4>1, <4>2, Joined
    <3>10. content(i) = Elems(lists[i]) \cup content(i + 1)
      <4>1. i \in i..n /\ \A j \in i..n : j = i \/ j \in (i + 1)..n
        BY <1>1, <3>5, FromHereOn
      <4>2. \A j \in (i + 1)..n : j \in i..n
        BY <1>1, <3>5, FromHereOn
      <4> QED
        BY <4>1, <4>2
    <3> QED
      BY <3>4, <3>6, <3>9, <3>10
  <2> QED
    BY <2>4, <2>5
<1>4. good(1)
  <2>1. n \in 0..n /\ n + 1 - n = 1
    BY <1>1
  <2>2. good(n + 1 - n)
    BY <1>3, <2>1
  <2> QED
    BY <2>1, <2>2
<1> QED
  BY <1>2, <1>4

-----------------------------------------------------------------------------
(* Reading order *)

\* The entries in reading order.
Order == {pair \in Entry \X Entry : Before(pair[1].place, pair[2].place)}

LEMMA PlacesCompared ==
  ASSUME NEW s \in Nat, NEW l \in Nat, NEW d \in Nat, NEW k \in Nat,
         NEW t \in Nat, NEW m \in Nat, NEW f \in Nat, NEW n \in Nat,
         \/ s < t
         \/ s = t /\ l < m
         \/ s = t /\ l = m /\ d < f
         \/ s = t /\ l = m /\ d = f /\ k < n
  PROVE  Before(<<s, l, d, k>>, <<t, m, f, n>>)
<1> DEFINE a == <<s, l, d, k>>
           b == <<t, m, f, n>>
<1>1. /\ Len(a) = 4 /\ a[1] = s /\ a[2] = l /\ a[3] = d /\ a[4] = k
      /\ b[1] = t /\ b[2] = m /\ b[3] = f /\ b[4] = n
  OBVIOUS
<1> HIDE DEF a, b
<1>2. CASE s < t
  <2>1. 1 \in 1..Len(a) /\ a[1] < b[1] /\ \A j \in 1..(1 - 1) : a[j] = b[j]
    BY <1>1, <1>2
  <2> QED
    BY <2>1 DEF Before, a, b
<1>3. CASE s = t /\ l < m
  <2>1. 2 \in 1..Len(a) /\ a[2] < b[2] /\ \A j \in 1..(2 - 1) : a[j] = b[j]
    BY <1>1, <1>3
  <2> QED
    BY <2>1 DEF Before, a, b
<1>4. CASE s = t /\ l = m /\ d < f
  <2>1. 3 \in 1..Len(a) /\ a[3] < b[3] /\ \A j \in 1..(3 - 1) : a[j] = b[j]
    BY <1>1, <1>4
  <2> QED
    BY <2>1 DEF Before, a, b
<1>5. CASE s = t /\ l = m /\ d = f /\ k < n
  <2>1. 4 \in 1..Len(a) /\ a[4] < b[4] /\ \A j \in 1..(4 - 1) : a[j] = b[j]
    BY <1>1, <1>5
  <2> QED
    BY <2>1 DEF Before, a, b
<1> QED
  BY <1>2, <1>3, <1>4, <1>5

\* An entry of scope s, level l, decorator d and index k.
Placed(x, s, l, d, k) == x \in Entry /\ x.place = <<s, l, d, k>>

LEMMA PlacedInOrder ==
  ASSUME NEW x, NEW y,
         NEW s \in Nat, NEW l \in Nat, NEW d \in Nat, NEW k \in Nat,
         NEW t \in Nat, NEW m \in Nat, NEW f \in Nat, NEW n \in Nat,
         Placed(x, s, l, d, k), Placed(y, t, m, f, n),
         \/ s < t
         \/ s = t /\ l < m
         \/ s = t /\ l = m /\ d < f
         \/ s = t /\ l = m /\ d = f /\ k < n
  PROVE  <<x, y>> \in Order
<1>1. Before(<<s, l, d, k>>, <<t, m, f, n>>)
  BY PlacesCompared
<1>2. /\ x \in Entry /\ x.place = <<s, l, d, k>>
      /\ y \in Entry /\ y.place = <<t, m, f, n>>
  BY DEF Placed
<1> QED
  BY <1>1, <1>2 DEF Order

\* Entries of scope s.
InScope(list, s) ==
  \A x \in Elems(list) :
    \E l \in Nat, d \in Nat, k \in Nat : Placed(x, s, l, d, k)

\* What the decorators of one thing, at one level, have stored.
LEMMA LevelContent ==
  ASSUME NEW s \in Nat, NEW l \in Nat, NEW decorators \in Seq(Seq(Entry)),
         \A d \in 1..Len(decorators) : \A k \in 1..Len(decorators[d]) :
           decorators[d][k].place = <<s, l, d, k>>
  PROVE  /\ Stored(decorators) \in Seq(Entry)
         /\ Elems(Stored(decorators))
              = UNION {Elems(decorators[d]) : d \in 1..Len(decorators)}
         /\ Sorted(Order, Stored(decorators))
         /\ \A x \in Elems(Stored(decorators)) :
              \E d \in Nat, k \in Nat : Placed(x, s, l, d, k)
<1>1. \A d \in 1..Len(decorators) :
        d \in Nat /\ decorators[d] \in Seq(Entry) /\ Len(decorators[d]) \in Nat
  OBVIOUS
<1>2. ASSUME NEW d \in 1..Len(decorators), NEW k \in 1..Len(decorators[d])
      PROVE  k \in Nat /\ Placed(decorators[d][k], s, l, d, k)
  BY <1>1 DEF Placed
<1>3. ASSUME NEW d \in 1..Len(decorators)
      PROVE  Sorted(Order, decorators[d])
  BY <1>1, <1>2, PlacedInOrder DEF Sorted
<1>4. ASSUME NEW d \in 1..Len(decorators), NEW f \in 1..Len(decorators), d < f
      PROVE  Precedes(Order, decorators[d], decorators[f])
  <2> SUFFICES ASSUME NEW x \in Elems(decorators[d]), NEW y \in Elems(decorators[f])
               PROVE  <<x, y>> \in Order
    BY DEF Precedes
  <2>1. PICK k \in 1..Len(decorators[d]) : x = decorators[d][k]
    BY DEF Elems
  <2>2. PICK n \in 1..Len(decorators[f]) : y = decorators[f][n]
    BY DEF Elems
  <2>3. k \in Nat /\ Placed(x, s, l, d, k) /\ n \in Nat /\ Placed(y, s, l, f, n)
    BY <1>2, <2>1, <2>2
  <2> QED
    BY <1>1, <1>4, <2>3, PlacedInOrder
<1>5. /\ Stored(decorators) \in Seq(Entry)
      /\ Elems(Stored(decorators))
           = UNION {Elems(decorators[d]) : d \in 1..Len(decorators)}
      /\ Sorted(Order, Stored(decorators))
  BY <1>3, <1>4, StoredContent
<1>6. ASSUME NEW x \in Elems(Stored(decorators))
      PROVE  \E d \in Nat, k \in Nat : Placed(x, s, l, d, k)
  <2>1. PICK d \in 1..Len(decorators) : x \in Elems(decorators[d])
    BY <1>5
  <2>2. PICK k \in 1..Len(decorators[d]) : x = decorators[d][k]
    BY <2>1 DEF Elems
  <2> QED
    BY <1>1, <1>2, <2>2
<1> QED
  BY <1>5, <1>6

\* baseFirstChain: all entries of a lineage, in reading order.
LEMMA LineageContent ==
  ASSUME NEW s \in Nat, NEW lineage, LineageOf(lineage, s)
  PROVE  /\ BaseFirst(lineage) \in Seq(Entry)
         /\ Elems(BaseFirst(lineage)) = Declared(lineage)
         /\ Sorted(Order, BaseFirst(lineage))
         /\ InScope(BaseFirst(lineage), s)
<1> DEFINE n == Len(lineage)
           levels == [i \in 1..n |-> Stored(lineage[n + 1 - i])]
           declared(i) == UNION {Elems(lineage[i][d]) : d \in 1..Len(lineage[i])}
<1>1. /\ n \in Nat /\ lineage \in Seq(Seq(Seq(Entry)))
      /\ \A i \in 1..n : lineage[i] \in Seq(Seq(Entry))
  BY DEF LineageOf
<1>2. \A i \in 1..n : n + 1 - i \in 1..n /\ n + 1 - (n + 1 - i) = i /\ i \in Nat
  BY <1>1
<1>3. ASSUME NEW i \in 1..n
      PROVE  /\ Stored(lineage[i]) \in Seq(Entry)
             /\ Elems(Stored(lineage[i])) = declared(i)
             /\ Sorted(Order, Stored(lineage[i]))
             /\ \A x \in Elems(Stored(lineage[i])) :
                  \E d \in Nat, k \in Nat : Placed(x, s, n + 1 - i, d, k)
  <2> DEFINE l == n + 1 - i
  <2>1. l \in Nat
    BY <1>2
  <2>2. \A d \in 1..Len(lineage[i]) : \A k \in 1..Len(lineage[i][d]) :
          lineage[i][d][k].place = <<s, l, d, k>>
    BY DEF LineageOf
  <2> HIDE DEF l
  <2>3. /\ Stored(lineage[i]) \in Seq(Entry)
        /\ Elems(Stored(lineage[i])) = declared(i)
        /\ Sorted(Order, Stored(lineage[i]))
        /\ \A x \in Elems(Stored(lineage[i])) :
             \E d \in Nat, k \in Nat : Placed(x, s, l, d, k)
    BY <1>1, <2>1, <2>2, LevelContent
  <2> QED
    BY <2>3 DEF l
<1> HIDE DEF declared
<1>4. /\ levels \in Seq(Seq(Entry)) /\ Len(levels) = n
      /\ \A i \in 1..n : levels[i] = Stored(lineage[n + 1 - i])
  BY <1>1, <1>2, <1>3
<1> HIDE DEF levels
<1>5. \A i \in 1..n : /\ Elems(levels[i]) = declared(n + 1 - i)
                     /\ Sorted(Order, levels[i])
  BY <1>2, <1>3, <1>4
<1>6. ASSUME NEW i \in 1..n, NEW x \in Elems(levels[i])
      PROVE  \E d \in Nat, k \in Nat : Placed(x, s, i, d, k)
  <2>1. PICK j \in 1..n : j = n + 1 - i /\ n + 1 - j = i
    BY <1>2
  <2>2. x \in Elems(Stored(lineage[j]))
    BY <1>4, <2>1
  <2>3. \E d \in Nat, k \in Nat : Placed(x, s, n + 1 - j, d, k)
    BY <1>3, <2>2
  <2> QED
    BY <2>1, <2>3
<1>7. ASSUME NEW i \in 1..n, NEW j \in 1..n, i < j
      PROVE  Precedes(Order, levels[i], levels[j])
  <2> SUFFICES ASSUME NEW x \in Elems(levels[i]), NEW y \in Elems(levels[j])
               PROVE  <<x, y>> \in Order
    BY DEF Precedes
  <2>1. PICK d \in Nat, k \in Nat : Placed(x, s, i, d, k)
    BY <1>6
  <2>2. PICK f \in Nat, m \in Nat : Placed(y, s, j, f, m)
    BY <1>6
  <2> QED
    BY <1>2, <1>7, <2>1, <2>2, PlacedInOrder
<1>8. BaseFirst(lineage) = FlattenSeq(levels)
  BY DEF BaseFirst, levels
<1>9. /\ FlattenSeq(levels) \in Seq(Entry)
      /\ Elems(FlattenSeq(levels)) = UNION {Elems(levels[i]) : i \in 1..n}
      /\ Sorted(Order, FlattenSeq(levels))
  BY <1>4, <1>5, <1>7, FlattenContent
<1>10. UNION {Elems(levels[i]) : i \in 1..n} = UNION {declared(i) : i \in 1..n}
  <2>1. \A i \in 1..n : Elems(levels[i]) = declared(n + 1 - i)
    BY <1>5
  <2>2. \A i \in 1..n : declared(i) = Elems(levels[n + 1 - i])
    BY <1>2, <1>5
  <2> QED
    BY <1>2, <2>1, <2>2
<1>11. Declared(lineage) = UNION {declared(i) : i \in 1..n}
  BY DEF Declared, declared, Elems
<1>12. InScope(FlattenSeq(levels), s)
  <2> SUFFICES ASSUME NEW x \in Elems(FlattenSeq(levels))
               PROVE  \E l \in Nat, d \in Nat, k \in Nat : Placed(x, s, l, d, k)
    BY DEF InScope
  <2>1. PICK i \in 1..n : x \in Elems(levels[i])
    BY <1>9
  <2> QED
    BY <1>2, <1>6, <2>1
<1> QED
  BY <1>8, <1>9, <1>10, <1>11, <1>12

\* The four scopes one after the other.
LEMMA EntriesContent ==
  ASSUME app \in Applications, NEW host \in DOMAIN app.modules,
         NEW class \in DOMAIN app.classes, NEW method \in DOMAIN app.methods[class]
  PROVE  /\ Entries(host, class, method) \in Seq(Entry)
         /\ Elems(Entries(host, class, method))
              = {app.global[i] : i \in 1..Len(app.global)}
                \cup Declared(app.modules[host])
                \cup Declared(app.classes[class].lineage)
                \cup Declared(app.methods[class][method].lineage)
         /\ Sorted(Order, Entries(host, class, method))
<1> DEFINE G == app.global
           M == BaseFirst(app.modules[host])
           C == BaseFirst(app.classes[class].lineage)
           P == BaseFirst(app.methods[class][method].lineage)
<1>1. /\ G \in Seq(Entry)
      /\ \A k \in 1..Len(G) : G[k].place = <<1, 1, 1, k>>
      /\ host # Absent /\ LineageOf(app.modules[host], 2)
      /\ class # Absent /\ LineageOf(app.classes[class].lineage, 3)
      /\ method # Absent /\ LineageOf(app.methods[class][method].lineage, 4)
  BY ApplicationsDeclared DEF ClassDeclared
<1>2. Entries(host, class, method) = ((G \o M) \o C) \o P
  BY <1>1 DEF Entries
<1>3. /\ Sorted(Order, G) /\ InScope(G, 1)
  <2>1. ASSUME NEW k \in 1..Len(G)
        PROVE  k \in Nat /\ Placed(G[k], 1, 1, 1, k)
    BY <1>1 DEF Placed
  <2>2. PICK one \in Nat : one = 1
    OBVIOUS
  <2>3. \A k \in 1..Len(G) : k \in Nat /\ Placed(G[k], one, one, one, k)
    BY <2>1, <2>2
  <2>4. ASSUME NEW i \in 1..Len(G), NEW j \in 1..Len(G), i < j
        PROVE  <<G[i], G[j]>> \in Order
    <3>1. Placed(G[i], one, one, one, i) /\ Placed(G[j], one, one, one, j)
      BY <2>3
    <3>2. i \in Nat /\ j \in Nat
      BY <2>3
    <3> QED
      BY <2>4, <3>1, <3>2, PlacedInOrder
  <2>5. InScope(G, one)
    BY <2>3 DEF InScope, Elems
  <2> QED
    BY <2>2, <2>4, <2>5 DEF Sorted
<1>4. /\ M \in Seq(Entry) /\ Elems(M) = Declared(app.modules[host])
      /\ Sorted(Order, M) /\ InScope(M, 2)
  BY <1>1, LineageContent
<1>5. /\ C \in Seq(Entry) /\ Elems(C) = Declared(app.classes[class].lineage)
      /\ Sorted(Order, C) /\ InScope(C, 3)
  BY <1>1, LineageContent
<1>6. /\ P \in Seq(Entry) /\ Elems(P) = Declared(app.methods[class][method].lineage)
      /\ Sorted(Order, P) /\ InScope(P, 4)
  BY <1>1, LineageContent
<1>7. ASSUME NEW s, NEW t, NEW a \in Nat, NEW b \in Nat,
             InScope(s, a), InScope(t, b), a < b
      PROVE  Precedes(Order, s, t)
  <2> SUFFICES ASSUME NEW x \in Elems(s), NEW y \in Elems(t)
               PROVE  <<x, y>> \in Order
    BY DEF Precedes
  <2>1. PICK l \in Nat, d \in Nat, k \in Nat : Placed(x, a, l, d, k)
    BY <1>7 DEF InScope
  <2>2. PICK m \in Nat, f \in Nat, n \in Nat : Placed(y, b, m, f, n)
    BY <1>7 DEF InScope
  <2> QED
    BY <1>7, <2>1, <2>2, PlacedInOrder
<1> HIDE DEF G, M, C, P
<1>8. /\ Precedes(Order, G, M) /\ Precedes(Order, G, C) /\ Precedes(Order, G, P)
      /\ Precedes(Order, M, C) /\ Precedes(Order, M, P) /\ Precedes(Order, C, P)
  <2>1. 1 \in Nat /\ 2 \in Nat /\ 3 \in Nat /\ 4 \in Nat
        /\ 1 < 2 /\ 1 < 3 /\ 1 < 4 /\ 2 < 3 /\ 2 < 4 /\ 3 < 4
    OBVIOUS
  <2> QED
    BY <1>3, <1>4, <1>5, <1>6, <1>7, <2>1
<1>9. /\ G \o M \in Seq(Entry) /\ Elems(G \o M) = Elems(G) \cup Elems(M)
      /\ Sorted(Order, G \o M)
  BY <1>1, <1>3, <1>4, <1>8, Joined DEF G
<1>10. Precedes(Order, G \o M, C) /\ Precedes(Order, G \o M, P)
  BY <1>8, <1>9 DEF Precedes
<1>11. /\ (G \o M) \o C \in Seq(Entry)
       /\ Elems((G \o M) \o C) = Elems(G) \cup Elems(M) \cup Elems(C)
       /\ Sorted(Order, (G \o M) \o C)
  <2>1. PICK both : both = G \o M
    OBVIOUS
  <2>2. /\ both \in Seq(Entry) /\ Sorted(Order, both) /\ Precedes(Order, both, C)
        /\ C \in Seq(Entry) /\ Sorted(Order, C)
    BY <1>5, <1>9, <1>10, <2>1
  <2>3. /\ both \o C \in Seq(Entry) /\ Elems(both \o C) = Elems(both) \cup Elems(C)
        /\ Sorted(Order, both \o C)
    BY <2>2, Joined
  <2> QED
    BY <1>9, <2>1, <2>3
<1>12. Precedes(Order, (G \o M) \o C, P)
  BY <1>8, <1>10, <1>11 DEF Precedes
<1>13. /\ ((G \o M) \o C) \o P \in Seq(Entry)
       /\ Elems(((G \o M) \o C) \o P)
            = Elems(G) \cup Elems(M) \cup Elems(C) \cup Elems(P)
       /\ Sorted(Order, ((G \o M) \o C) \o P)
  <2>1. PICK three : three = (G \o M) \o C
    OBVIOUS
  <2>2. /\ three \in Seq(Entry) /\ Sorted(Order, three) /\ Precedes(Order, three, P)
        /\ P \in Seq(Entry) /\ Sorted(Order, P)
    BY <1>6, <1>11, <1>12, <2>1
  <2>3. /\ three \o P \in Seq(Entry) /\ Elems(three \o P) = Elems(three) \cup Elems(P)
        /\ Sorted(Order, three \o P)
    BY <2>2, Joined
  <2> QED
    BY <1>11, <2>1, <2>3
<1>14. Elems(G) = {app.global[i] : i \in 1..Len(app.global)}
  BY DEF Elems, G
<1> QED
  BY <1>2, <1>4, <1>5, <1>6, <1>13, <1>14

LEMMA MarkedMethodsListed ==
  ASSUME app \in Applications, NEW class \in DOMAIN app.classes
  PROVE  MarkedMethods(class) \in Seq(DOMAIN app.methods[class])
<1> DEFINE names == app.classes[class].methods
           N == DOMAIN app.methods[class]
           kept == [i \in 1..Len(names) |->
                      IF Marked(app.methods[class][names[i]].lineage)
                      THEN <<names[i]>> ELSE <<>>]
<1>1. names \in Seq(N)
  BY ApplicationsDeclared DEF ClassDeclared
<1>2. MarkedMethods(class) = FlattenSeq(kept)
  BY DEF MarkedMethods
<1> HIDE DEF names, N
<1>3. kept \in Seq(Seq(N)) /\ Len(kept) = Len(names)
  BY <1>1
<1> HIDE DEF kept
<1>4. \A i \in 1..Len(kept) : Elems(kept[i]) \subseteq N
  BY <1>3 DEF Elems
<1>5. \A i \in 1..Len(kept) : Sorted(N \X N, kept[i])
  BY <1>3 DEF Sorted
<1>6. \A i, j \in 1..Len(kept) : i < j => Precedes(N \X N, kept[i], kept[j])
  BY <1>4 DEF Precedes
<1> QED
  BY <1>2, <1>3, <1>5, <1>6, FlattenContent DEF N

-----------------------------------------------------------------------------
(* The start *)

Layer == [place : Nat \X Nat \X Nat \X Nat, copy : Nat]

EntriesFor(p, method) == Entries(app.providers[p].host, Class(p), method)

Key(p, method) == <<Instance(p), method>>

MarkedIn(p) == Elems(MarkedMethods(Class(p)))

\* No earlier provider has the instance of p.
First(p) == \A q \in Examined : Instance(q) = Instance(p) => p <= q

\* A middleware that stands for an entry.
StandsFor(layer, entry) ==
  /\ entry.kind \in {"instance", "singleton", "transient"}
  /\ layer.place = entry.place
  /\ layer.copy = 0 <=> entry.kind # "transient"

Around(list, entries) ==
  /\ Len(list) = Len(entries)
  /\ \A i \in 1..Len(list) : StandsFor(list[i], entries[i])

Phases == {"controllers", "providers", "methods", "wrapping", "started", "failed"}

Typed ==
  /\ app \in Applications
  /\ phase \in Phases
  /\ provider \in 1..(Len(app.providers) + 1)
  /\ made \in Nat
  /\ \A key \in DOMAIN wrapped : wrapped[key] \in Seq(Layer)
  /\ phase = "started" => provider > Len(app.providers)
  /\ phase \in {"methods", "wrapping"} => provider \in Examined

ControllersPassed ==
  phase \notin {"controllers", "failed"} =>
    \A i \in 1..Len(app.controllers) :
      /\ ~ IsClassMarked(app.controllers[i])
      /\ MarkedMethods(app.controllers[i]) = <<>>

Passes(p) ==
  /\ IsClassMarked(Class(p)) => MarkedMethods(Class(p)) # <<>>
  /\ MarkedMethods(Class(p)) # <<>> => app.providers[p].scope = "singleton"

\* Every provider before the current one is in order and its marked methods are
\* wrapped, by itself or by one with the same instance.
ProvidersPassed ==
  /\ phase = "controllers" => provider = 1
  /\ \A p \in Examined :
       p < provider =>
         Passes(p) /\ \A method \in MarkedIn(p) : Key(p, method) \in DOMAIN wrapped

\* Of the current one, those before the current method.
MethodsPassed ==
  phase \in {"methods", "wrapping"} =>
    /\ Passes(provider)
    /\ \E k \in 0..Len(MarkedMethods(Class(provider))) :
         /\ methods = SubSeq(MarkedMethods(Class(provider)), k + 1,
                             Len(MarkedMethods(Class(provider))))
         /\ \A i \in 1..k :
              Key(provider, MarkedMethods(Class(provider))[i]) \in DOMAIN wrapped

\* What is wrapped is a marked method of the first provider with its instance,
\* in middlewares for its entries.
WrappedBy(key, p, method) ==
  /\ p <= provider /\ First(p) /\ method \in MarkedIn(p) /\ key = Key(p, method)
  /\ ~ app.methods[Class(p)][method].transport
  /\ Around(wrapped[key], EntriesFor(p, method))

WrappedMarked ==
  \A key \in DOMAIN wrapped :
    \E p \in Examined : \E method \in MarkedIn(p) : WrappedBy(key, p, method)

\* Of the method that is being wrapped, the entries before the pending ones have
\* their middlewares.
EntriesPassed ==
  phase = "wrapping" =>
    /\ methods # <<>> /\ Key(provider, Method) \notin DOMAIN wrapped
    /\ ~ app.methods[Class(provider)][Method].transport
    /\ layers \in Seq(Layer)
    /\ \E k \in 0..Len(EntriesFor(provider, Method)) :
         /\ pending = SubSeq(EntriesFor(provider, Method), k + 1,
                             Len(EntriesFor(provider, Method)))
         /\ Around(layers, SubSeq(EntriesFor(provider, Method), 1, k))

\* The copies that were made are numbered, and none is used twice.
CopiesNumbered ==
  /\ \A key \in DOMAIN wrapped : \A i \in 1..Len(wrapped[key]) :
       wrapped[key][i].copy <= made
  /\ phase = "wrapping" =>
       /\ \A i \in 1..Len(layers) : layers[i].copy <= made
       /\ \A i, j \in 1..Len(layers) :
            layers[i].copy # 0 /\ layers[i].copy = layers[j].copy => i = j
       /\ \A key \in DOMAIN wrapped :
            \A i \in 1..Len(wrapped[key]) : \A j \in 1..Len(layers) :
              layers[j].copy # 0 => wrapped[key][i].copy # layers[j].copy

\* What was resolved is what the entries give.
ResolvedFits ==
  resolved.outcome # "not asked" =>
    /\ phase = "started"
    /\ LET asked == resolved.asked
           entries == Entries(asked[1], asked[2], asked[3])
       IN  IF \A i \in 1..Len(entries) : Gettable(entries[i].kind)
           THEN /\ resolved.outcome = "resolved"
                /\ resolved.layers = [i \in 1..Len(entries) |->
                                        [place |-> entries[i].place, copy |-> 0]]
           ELSE resolved.outcome = "thrown"

IInv ==
  /\ Typed /\ ControllersPassed /\ ProvidersPassed /\ MethodsPassed
  /\ WrappedMarked /\ EntriesPassed /\ CopiesNumbered /\ TransientsApart
  /\ ResolvedFits /\ (phase = "failed" => Misconfigured)

-----------------------------------------------------------------------------

\* What an application declares does not change.
LEMMA SameApplication ==
  ASSUME app' = app
  PROVE  /\ Examined' = Examined
         /\ \A c : MarkedMethods(c)' = MarkedMethods(c)
         /\ \A c : IsClassMarked(c)' = IsClassMarked(c)
         /\ \A p : Class(p)' = Class(p)
         /\ \A p : Instance(p)' = Instance(p)
         /\ \A p : MarkedIn(p)' = MarkedIn(p)
         /\ \A p : Passes(p)' = Passes(p)
         /\ \A p : First(p)' = First(p)
         /\ \A p, m : Key(p, m)' = Key(p, m)
         /\ \A p, m : EntriesFor(p, m)' = EntriesFor(p, m)
<1>1. Examined' = Examined
  BY DEF Examined
<1>2. \A c : MarkedMethods(c)' = MarkedMethods(c)
  BY DEF MarkedMethods, Marked
<1>3. \A c : IsClassMarked(c)' = IsClassMarked(c)
  BY DEF IsClassMarked, Marked
<1>4. \A p : Class(p)' = Class(p)
  BY DEF Class
<1>5. \A p : Instance(p)' = Instance(p)
  BY DEF Instance
<1>6. \A p, m : EntriesFor(p, m)' = EntriesFor(p, m)
  BY DEF EntriesFor, Entries, Class
<1>7. \A p : MarkedIn(p)' = MarkedIn(p)
  BY <1>2 DEF MarkedIn, Elems, Class
<1>8. \A p : Passes(p)' = Passes(p)
  BY <1>2, <1>3 DEF Passes, Class
<1>9. \A p : First(p)' = First(p)
  BY <1>1 DEF First, Instance
<1>10. \A p, m : Key(p, m)' = Key(p, m)
  BY DEF Key, Instance
<1> QED
  BY <1>1, <1>2, <1>3, <1>4, <1>5, <1>6, <1>7, <1>8, <1>9, <1>10

\* Taking the head of what is left of a list leaves what is after it.
LEMMA RestOfList ==
  ASSUME NEW S, NEW list \in Seq(S), NEW k \in 0..Len(list),
         NEW rest, rest = SubSeq(list, k + 1, Len(list))
  PROVE  /\ rest = <<>> => k = Len(list)
         /\ rest # <<>> => /\ k + 1 \in 1..Len(list) /\ k + 1 \in 0..Len(list)
                          /\ Head(rest) = list[k + 1]
                          /\ Tail(rest) = SubSeq(list, (k + 1) + 1, Len(list))
<1>1. Len(list) \in Nat /\ k \in Nat
  OBVIOUS
<1>2. CASE k = Len(list)
  BY <1>1, <1>2
<1>3. CASE k # Len(list)
  <2>1. k + 1 \in 1..Len(list) /\ k + 1 \in 0..Len(list)
    BY <1>1, <1>3
  <2>2. rest # <<>>
    <3>1. rest \in Seq(S) /\ Len(rest) = Len(list) - k
      BY <1>1, <2>1
    <3>2. Len(rest) # 0
      BY <1>1, <1>3, <3>1
    <3>3. Len(<<>>) = 0
      OBVIOUS
    <3> QED
      BY <3>2, <3>3, Zenon
  <2> QED
    BY <1>1, <2>1, <2>2, HeadTailOfSubSeq
<1> QED
  BY <1>2, <1>3

LEMMA MisconfiguredStays ==
  ASSUME app' = app, Misconfigured
  PROVE  Misconfigured'
<1>1. /\ Examined' = Examined
      /\ \A c : MarkedMethods(c)' = MarkedMethods(c)
      /\ \A c : IsClassMarked(c)' = IsClassMarked(c)
      /\ \A p : Class(p)' = Class(p)
      /\ \A p : Instance(p)' = Instance(p)
  BY SameApplication
<1>2. ToWrap' = ToWrap
  BY <1>1 DEF ToWrap
<1>3. \A p, m : DeclaredFor(p, m)' = DeclaredFor(p, m)
  BY DEF DeclaredFor, Class
<1> QED
  BY <1>1, <1>2, <1>3 DEF Misconfigured

LEMMA ProvidersCounted ==
  ASSUME Typed
  PROVE  /\ Len(app.providers) \in Nat /\ provider \in Nat
         /\ \A p \in Examined : p \in Nat /\ p \in 1..Len(app.providers)
BY ApplicationsDeclared DEF Typed, Examined

\* What is wrapped stays as it was declared.
LEMMA WrappedStays ==
  ASSUME IInv, UNCHANGED <<app, wrapped>>, provider <= provider', provider' \in Nat
  PROVE  WrappedMarked' /\ TransientsApart'
<1>1. WrappedMarked'
  <2> SUFFICES ASSUME NEW key \in DOMAIN wrapped
               PROVE  \E p \in Examined' : \E method \in MarkedIn(p)' :
                        WrappedBy(key, p, method)'
    BY DEF WrappedMarked
  <2>1. PICK p \in Examined : \E method \in MarkedIn(p) : WrappedBy(key, p, method)
    BY DEF IInv, WrappedMarked
  <2>2. PICK method \in MarkedIn(p) : WrappedBy(key, p, method)
    BY <2>1
  <2>3. p <= provider'
    BY <2>2, ProvidersCounted DEF IInv, WrappedBy
  <2>4. WrappedBy(key, p, method)'
    BY <2>2, <2>3, SameApplication DEF WrappedBy, Class
  <2>5. p \in Examined' /\ method \in MarkedIn(p)'
    BY <2>2, SameApplication
  <2> QED
    BY <2>4, <2>5
<1>2. TransientsApart'
  BY DEF IInv, TransientsApart
<1> QED
  BY <1>1, <1>2

\* A step that wraps and makes nothing, and is at no entry after it.
LEMMA NothingWrapped ==
  ASSUME IInv, UNCHANGED <<app, wrapped, made>>,
         provider <= provider', provider' \in Nat, phase' # "wrapping"
  PROVE  WrappedMarked' /\ CopiesNumbered' /\ TransientsApart' /\ EntriesPassed'
<1>1. WrappedMarked' /\ TransientsApart'
  BY WrappedStays
<1>2. CopiesNumbered'
  BY DEF IInv, CopiesNumbered
<1>3. EntriesPassed'
  BY DEF EntriesPassed
<1> QED
  BY <1>1, <1>2, <1>3

\* Before the application has started nobody has asked for a pipeline.
LEMMA NobodyAsked ==
  ASSUME IInv, phase # "started", UNCHANGED resolved
  PROVE  ResolvedFits'
BY DEF IInv, ResolvedFits

LEMMA RejectInv ==
  ASSUME IInv, Reject, Misconfigured, phase # "started"
  PROVE  IInv'
<1>1. /\ phase' = "failed"
      /\ UNCHANGED <<app, provider, methods, pending, layers, wrapped, made, resolved>>
  BY DEF Reject
<1>2. Typed /\ provider \in Nat
  BY ProvidersCounted DEF IInv
<1>3. WrappedMarked' /\ CopiesNumbered' /\ TransientsApart' /\ EntriesPassed'
  BY <1>1, <1>2, NothingWrapped
<1>4. Typed'
  BY <1>1, <1>2 DEF Typed, Phases
<1>5. ControllersPassed' /\ MethodsPassed'
  BY <1>1 DEF ControllersPassed, MethodsPassed
<1>6. ProvidersPassed'
  BY <1>1, SameApplication DEF IInv, ProvidersPassed
<1>7. ResolvedFits'
  BY <1>1, NobodyAsked
<1>8. Misconfigured'
  BY <1>1, MisconfiguredStays
<1> QED
  BY <1>3, <1>4, <1>5, <1>6, <1>7, <1>8 DEF IInv

LEMMA ExamineControllersInv ==
  ASSUME IInv, ExamineControllers
  PROVE  IInv'
<1>1. phase = "controllers" /\ Typed /\ provider \in Nat
  BY ProvidersCounted DEF ExamineControllers, IInv
<1>2. CASE \E i \in 1..Len(app.controllers) :
             \/ IsClassMarked(app.controllers[i])
             \/ MarkedMethods(app.controllers[i]) # <<>>
  <2>1. Misconfigured
    BY <1>2 DEF Misconfigured
  <2> QED
    BY <1>1, <1>2, <2>1, RejectInv DEF ExamineControllers
<1>3. CASE ~ \E i \in 1..Len(app.controllers) :
               \/ IsClassMarked(app.controllers[i])
               \/ MarkedMethods(app.controllers[i]) # <<>>
  <2>1. /\ phase' = "providers"
        /\ UNCHANGED <<app, provider, methods, pending, layers, wrapped, made, resolved>>
    BY <1>3 DEF ExamineControllers
  <2>2. WrappedMarked' /\ CopiesNumbered' /\ TransientsApart' /\ EntriesPassed'
    BY <1>1, <2>1, NothingWrapped
  <2>3. Typed'
    BY <1>1, <2>1 DEF Typed, Phases
  <2>4. ControllersPassed'
    BY <1>3, <2>1, SameApplication DEF ControllersPassed
  <2>5. ProvidersPassed'
    BY <1>1, <2>1, SameApplication DEF IInv, ProvidersPassed
  <2>6. MethodsPassed'
    BY <2>1 DEF MethodsPassed
  <2>7. ResolvedFits'
    BY <1>1, <2>1, NobodyAsked
  <2> QED
    BY <2>1, <2>2, <2>3, <2>4, <2>5, <2>6, <2>7 DEF IInv
<1> QED
  BY <1>2, <1>3

\* The explorer goes on to the next provider when this one is in order and its
\* marked methods are wrapped.
LEMMA PassedInv ==
  ASSUME IInv, phase \in {"providers", "methods"}, phase' = "providers",
         provider <= Len(app.providers), provider' = provider + 1,
         UNCHANGED <<app, pending, layers, wrapped, made, resolved>>,
         provider \in Examined =>
           /\ Passes(provider)
           /\ \A method \in MarkedIn(provider) : Key(provider, method) \in DOMAIN wrapped
  PROVE  IInv'
<1>1. Typed /\ provider \in Nat /\ Len(app.providers) \in Nat
  BY ProvidersCounted DEF IInv
<1>2. WrappedMarked' /\ CopiesNumbered' /\ TransientsApart' /\ EntriesPassed'
  <2>1. provider <= provider' /\ provider' \in Nat /\ phase' # "wrapping"
    BY <1>1
  <2> QED
    BY <2>1, NothingWrapped
<1>3. Typed'
  <2>1. provider' \in 1..(Len(app.providers) + 1)
    BY <1>1
  <2> QED
    BY <1>1, <2>1 DEF Typed, Phases
<1>4. ControllersPassed'
  BY SameApplication DEF IInv, ControllersPassed
<1>5. ProvidersPassed'
  <2> SUFFICES ASSUME NEW p \in Examined, p < provider + 1
               PROVE  /\ Passes(p)
                      /\ \A method \in MarkedIn(p) : Key(p, method) \in DOMAIN wrapped
    BY SameApplication DEF ProvidersPassed
  <2>1. p < provider \/ p = provider
    BY <1>1, ProvidersCounted
  <2> QED
    BY <2>1 DEF IInv, ProvidersPassed
<1>6. MethodsPassed'
  BY DEF MethodsPassed
<1>7. ResolvedFits'
  BY NobodyAsked
<1> QED
  BY <1>2, <1>3, <1>4, <1>5, <1>6, <1>7 DEF IInv

\* The marked methods of an examined provider are its class's.
LEMMA MarkedHere ==
  ASSUME Typed, NEW p \in Examined
  PROVE  /\ Class(p) \in DOMAIN app.classes
         /\ app.providers[p].host \in DOMAIN app.modules
         /\ MarkedMethods(Class(p)) \in Seq(DOMAIN app.methods[Class(p)])
         /\ Len(MarkedMethods(Class(p))) \in Nat
         /\ MarkedIn(p) \subseteq DOMAIN app.methods[Class(p)]
<1>1. app \in Applications /\ p \in 1..Len(app.providers) /\ ~ app.providers[p].passedOver
  BY DEF Typed, Examined
<1>2. /\ Class(p) \in DOMAIN app.classes
      /\ app.providers[p].host \in DOMAIN app.modules
  BY <1>1, ApplicationsDeclared DEF Class
<1>3. MarkedMethods(Class(p)) \in Seq(DOMAIN app.methods[Class(p)])
  BY <1>1, <1>2, MarkedMethodsListed
<1>4. /\ Len(MarkedMethods(Class(p))) \in Nat
      /\ \A i \in 1..Len(MarkedMethods(Class(p))) :
           MarkedMethods(Class(p))[i] \in DOMAIN app.methods[Class(p)]
  BY <1>3
<1> QED
  BY <1>2, <1>3, <1>4 DEF MarkedIn, Elems

LEMMA ExamineProviderInv ==
  ASSUME IInv, ExamineProvider
  PROVE  IInv'
<1>1. /\ phase = "providers" /\ provider <= Len(app.providers) /\ Typed
      /\ provider \in Nat /\ provider \in 1..Len(app.providers)
  BY ProvidersCounted DEF ExamineProvider, IInv, Typed
<1>2. CASE app.providers[provider].passedOver
  <2>1. Skip /\ provider \notin Examined
    BY <1>2 DEF ExamineProvider, Examined
  <2> QED
    BY <1>1, <2>1, PassedInv DEF Skip
<1>3. CASE ~ app.providers[provider].passedOver
  <2>1. provider \in Examined
    BY <1>1, <1>3 DEF Examined
  <2>2. CASE MarkedMethods(Class(provider)) = <<>> /\ IsClassMarked(Class(provider))
    <3>1. Misconfigured
      BY <2>1, <2>2 DEF Misconfigured
    <3> QED
      BY <1>1, <1>3, <2>2, <3>1, RejectInv DEF ExamineProvider
  <2>3. CASE MarkedMethods(Class(provider)) = <<>> /\ ~ IsClassMarked(Class(provider))
    <3>1. Skip
      BY <1>3, <2>3 DEF ExamineProvider
    <3>2. Passes(provider) /\ MarkedIn(provider) = {}
      BY <2>3 DEF Passes, MarkedIn, Elems
    <3> QED
      BY <1>1, <3>1, <3>2, PassedInv DEF Skip
  <2>4. CASE /\ MarkedMethods(Class(provider)) # <<>>
             /\ app.providers[provider].scope # "singleton"
    <3>1. Misconfigured
      BY <2>1, <2>4 DEF Misconfigured
    <3> QED
      BY <1>1, <1>3, <2>4, <3>1, RejectInv DEF ExamineProvider
  <2>5. CASE /\ MarkedMethods(Class(provider)) # <<>>
             /\ app.providers[provider].scope = "singleton"
    <3>1. /\ phase' = "methods" /\ methods' = MarkedMethods(Class(provider))
          /\ UNCHANGED <<app, provider, pending, layers, wrapped, made, resolved>>
      BY <1>3, <2>5 DEF ExamineProvider
    <3>2. WrappedMarked' /\ CopiesNumbered' /\ TransientsApart' /\ EntriesPassed'
      BY <1>1, <3>1, NothingWrapped
    <3>3. Typed'
      BY <1>1, <2>1, <3>1, SameApplication DEF Typed, Phases
    <3>4. ControllersPassed'
      BY <1>1, <3>1, SameApplication DEF IInv, ControllersPassed
    <3>5. ProvidersPassed'
      BY <1>1, <3>1, SameApplication DEF IInv, ProvidersPassed
    <3>6. MethodsPassed'
      <4> DEFINE list == MarkedMethods(Class(provider))
      <4>1. Passes(provider)
        BY <2>5 DEF Passes
      <4>2. list \in Seq(DOMAIN app.methods[Class(provider)]) /\ Len(list) \in Nat
        BY <1>1, <2>1, MarkedHere
      <4>3. /\ 0 \in 0..Len(list) /\ list = SubSeq(list, 0 + 1, Len(list))
            /\ \A i \in 1..0 : Key(provider, list[i]) \in DOMAIN wrapped
        BY <4>2, SubSeqFull
      <4>4. \E k \in 0..Len(list) :
              /\ list = SubSeq(list, k + 1, Len(list))
              /\ \A i \in 1..k : Key(provider, list[i]) \in DOMAIN wrapped
        BY <4>3
      <4> QED
        BY <3>1, <4>1, <4>4, SameApplication DEF MethodsPassed
    <3>7. ResolvedFits'
      BY <1>1, <3>1, NobodyAsked
    <3> QED
      BY <3>1, <3>2, <3>3, <3>4, <3>5, <3>6, <3>7 DEF IInv
  <2> QED
    BY <2>2, <2>3, <2>4, <2>5
<1> QED
  BY <1>2, <1>3

LEMMA NextProviderInv ==
  ASSUME IInv, NextProvider
  PROVE  IInv'
<1> DEFINE list == MarkedMethods(Class(provider))
<1>1. /\ phase = "methods" /\ methods = <<>> /\ Typed /\ provider \in Examined
      /\ provider <= Len(app.providers)
  BY ProvidersCounted DEF NextProvider, IInv, Typed
<1>2. list \in Seq(DOMAIN app.methods[Class(provider)]) /\ Len(list) \in Nat
  BY <1>1, MarkedHere
<1>3. PICK k \in 0..Len(list) :
        /\ methods = SubSeq(list, k + 1, Len(list))
        /\ \A i \in 1..k : Key(provider, list[i]) \in DOMAIN wrapped
  BY <1>1 DEF IInv, MethodsPassed
<1>4. k = Len(list)
  BY <1>1, <1>2, <1>3, RestOfList
<1>5. Passes(provider)
  BY <1>1 DEF IInv, MethodsPassed
<1>6. \A method \in MarkedIn(provider) : Key(provider, method) \in DOMAIN wrapped
  BY <1>3, <1>4 DEF MarkedIn, Elems
<1> QED
  BY <1>1, <1>5, <1>6, PassedInv DEF NextProvider

\* The current method, and what is before and after it.
LEMMA MethodAt ==
  ASSUME IInv, phase \in {"methods", "wrapping"}, methods # <<>>
  PROVE  \E k \in 1..Len(MarkedMethods(Class(provider))) :
           /\ k \in 0..Len(MarkedMethods(Class(provider)))
           /\ Method = MarkedMethods(Class(provider))[k]
           /\ Tail(methods) = SubSeq(MarkedMethods(Class(provider)), k + 1,
                                     Len(MarkedMethods(Class(provider))))
           /\ \A i \in 1..k :
                i # k => Key(provider, MarkedMethods(Class(provider))[i]) \in DOMAIN wrapped
<1> DEFINE list == MarkedMethods(Class(provider))
<1>1. Typed /\ provider \in Examined
  BY DEF IInv, Typed
<1>2. list \in Seq(DOMAIN app.methods[Class(provider)]) /\ Len(list) \in Nat
  BY <1>1, MarkedHere
<1>3. PICK k \in 0..Len(list) :
        /\ methods = SubSeq(list, k + 1, Len(list))
        /\ \A i \in 1..k : Key(provider, list[i]) \in DOMAIN wrapped
  BY DEF IInv, MethodsPassed
<1>4. /\ k + 1 \in 1..Len(list) /\ k + 1 \in 0..Len(list)
      /\ Method = list[k + 1]
      /\ Tail(methods) = SubSeq(list, (k + 1) + 1, Len(list))
  BY <1>2, <1>3, RestOfList DEF Method
<1>5. \A i \in 1..(k + 1) : i # k + 1 => i \in 1..k
  BY <1>2, <1>3
<1> HIDE DEF list
<1>6. \E j \in 1..Len(list) :
        /\ j \in 0..Len(list)
        /\ Method = list[j]
        /\ Tail(methods) = SubSeq(list, j + 1, Len(list))
        /\ \A i \in 1..j : i # j => Key(provider, list[i]) \in DOMAIN wrapped
  BY <1>3, <1>4, <1>5
<1> QED
  BY <1>6 DEF list

\* A method that is not wrapped yet is a marked one of the first provider with
\* its instance.
LEMMA FreshIsFirst ==
  ASSUME IInv, phase \in {"methods", "wrapping"}, methods # <<>>,
         Key(provider, Method) \notin DOMAIN wrapped
  PROVE  /\ First(provider) /\ Method \in MarkedIn(provider)
         /\ <<provider, Method>> \in ToWrap
<1>1. /\ Typed /\ provider \in Examined /\ provider \in Nat
      /\ \A q \in Examined : q \in Nat
  BY ProvidersCounted DEF IInv, Typed
<1>2. Method \in MarkedIn(provider)
  BY MethodAt DEF MarkedIn, Elems
<1>3. ASSUME NEW q \in Examined, Instance(q) = Instance(provider), q < provider
      PROVE  FALSE
  <2>1. Class(q) = Class(provider)
    BY <1>1, <1>3, InstancesHaveOneClass DEF Typed, Examined, Instance, Class
  <2>2. Method \in MarkedIn(q)
    BY <1>2, <2>1 DEF MarkedIn
  <2>3. Key(q, Method) \in DOMAIN wrapped
    BY <1>3, <2>2 DEF IInv, ProvidersPassed
  <2> QED
    BY <1>3, <2>3 DEF Key
<1>4. First(provider)
  BY <1>1, <1>3 DEF First
<1>5. <<provider, Method>> \in ToWrap
  BY <1>1, <1>2, <1>4 DEF ToWrap, First, MarkedIn, Elems
<1> QED
  BY <1>2, <1>4, <1>5

\* When the current method is wrapped the next one is its turn.
LEMMA MethodDone ==
  ASSUME IInv, phase \in {"methods", "wrapping"}, methods # <<>>,
         UNCHANGED <<app, provider>>, methods' = Tail(methods),
         DOMAIN wrapped \subseteq DOMAIN wrapped',
         Key(provider, Method) \in DOMAIN wrapped'
  PROVE  MethodsPassed'
<1> DEFINE list == MarkedMethods(Class(provider))
<1>1. Passes(provider)
  BY DEF IInv, MethodsPassed
<1>2. PICK k \in 1..Len(list) :
        /\ k \in 0..Len(list)
        /\ Method = list[k]
        /\ Tail(methods) = SubSeq(list, k + 1, Len(list))
        /\ \A i \in 1..k : i # k => Key(provider, list[i]) \in DOMAIN wrapped
  BY MethodAt
<1>3. \A i \in 1..k : Key(provider, list[i]) \in DOMAIN wrapped'
  BY <1>2
<1>4. /\ MarkedMethods(Class(provider))' = MarkedMethods(Class(provider))
      /\ Passes(provider)' = Passes(provider) /\ Instance(provider)' = Instance(provider)
  BY SameApplication
<1> HIDE DEF list
<1>5. \E j \in 0..Len(list) :
        /\ methods' = SubSeq(list, j + 1, Len(list))
        /\ \A i \in 1..j : <<Instance(provider), list[i]>> \in DOMAIN wrapped'
  BY <1>2, <1>3 DEF Key
<1> QED
  BY <1>1, <1>4, <1>5 DEF MethodsPassed, list, Key

\* The entries of a method that is being wrapped, and the ones its provider may
\* not have.
LEMMA EntriesHere ==
  ASSUME Typed, NEW p \in Examined, NEW method \in MarkedIn(p)
  PROVE  /\ EntriesFor(p, method) \in Seq(Entry)
         /\ Len(EntriesFor(p, method)) \in Nat
         /\ Elems(EntriesFor(p, method)) = DeclaredFor(p, method)
         /\ Sorted(Order, EntriesFor(p, method))
<1>1. /\ app \in Applications /\ app.providers[p].host \in DOMAIN app.modules
      /\ Class(p) \in DOMAIN app.classes /\ method \in DOMAIN app.methods[Class(p)]
  BY MarkedHere DEF Typed
<1>2. /\ EntriesFor(p, method) \in Seq(Entry)
      /\ Elems(EntriesFor(p, method)) = DeclaredFor(p, method)
      /\ Sorted(Order, EntriesFor(p, method))
  BY <1>1, EntriesContent DEF EntriesFor, DeclaredFor
<1> QED
  BY <1>2

LEMMA ExamineMethodInv ==
  ASSUME IInv, ExamineMethod
  PROVE  IInv'
<1>1. /\ phase = "methods" /\ methods # <<>> /\ Typed /\ provider \in Examined
      /\ provider \in Nat /\ provider <= provider
  BY ProvidersCounted DEF ExamineMethod, IInv, Typed
<1>2. CASE IsWrapped(Method)
  <2>1. /\ methods' = Tail(methods)
        /\ UNCHANGED <<app, phase, provider, pending, layers, wrapped, made, resolved>>
    BY <1>2 DEF ExamineMethod
  <2>2. WrappedMarked' /\ CopiesNumbered' /\ TransientsApart' /\ EntriesPassed'
    BY <1>1, <2>1, NothingWrapped
  <2>3. Typed'
    BY <1>1, <2>1, SameApplication DEF Typed
  <2>4. ControllersPassed'
    BY <2>1, SameApplication DEF IInv, ControllersPassed
  <2>5. ProvidersPassed'
    BY <2>1, SameApplication DEF IInv, ProvidersPassed
  <2>6. MethodsPassed'
    BY <1>1, <1>2, <2>1, MethodDone DEF IsWrapped, Key
  <2>7. ResolvedFits'
    BY <1>1, <2>1, NobodyAsked
  <2> QED
    BY <1>1, <2>1, <2>2, <2>3, <2>4, <2>5, <2>6, <2>7 DEF IInv
<1>3. CASE ~ IsWrapped(Method)
  <2>1. /\ First(provider) /\ Method \in MarkedIn(provider)
        /\ <<provider, Method>> \in ToWrap
    BY <1>1, <1>3, FreshIsFirst DEF IsWrapped, Key
  <2>2. CASE app.methods[Class(provider)][Method].transport
    <3>1. PICK pm \in ToWrap : pm = <<provider, Method>>
      BY <2>1
    <3>2. app.methods[Class(pm[1])][pm[2]].transport
      BY <2>2, <3>1
    <3>3. Misconfigured
      BY <3>2 DEF Misconfigured
    <3> QED
      BY <1>1, <1>3, <2>2, <3>3, RejectInv DEF ExamineMethod
  <2>3. CASE ~ app.methods[Class(provider)][Method].transport
    <3>1. /\ phase' = "wrapping" /\ layers' = <<>>
          /\ pending' = EntriesFor(provider, Method)
          /\ UNCHANGED <<app, provider, methods, wrapped, made, resolved>>
      BY <1>3, <2>3 DEF ExamineMethod, EntriesFor
    <3>2. WrappedMarked' /\ TransientsApart'
      BY <1>1, <3>1, WrappedStays
    <3>3. Typed'
      BY <1>1, <3>1, SameApplication DEF Typed, Phases
    <3>4. ControllersPassed'
      BY <1>1, <3>1, SameApplication DEF IInv, ControllersPassed
    <3>5. ProvidersPassed'
      BY <1>1, <3>1, SameApplication DEF IInv, ProvidersPassed
    <3>6. MethodsPassed'
      <4>1. MethodsPassed /\ phase \in {"methods", "wrapping"}
        BY <1>1 DEF IInv
      <4>2. /\ MarkedMethods(Class(provider))' = MarkedMethods(Class(provider))
            /\ Passes(provider)' = Passes(provider)
            /\ Instance(provider)' = Instance(provider)
        BY <3>1, SameApplication
      <4> QED
        BY <3>1, <4>1, <4>2 DEF MethodsPassed, Key
    <3>7. ResolvedFits'
      BY <1>1, <3>1, NobodyAsked
    <3>8. EntriesPassed'
      <4> DEFINE entries == EntriesFor(provider, Method)
      <4>1. entries \in Seq(Entry) /\ Len(entries) \in Nat
        BY <1>1, <2>1, EntriesHere
      <4>2. 0 \in 0..Len(entries) /\ entries = SubSeq(entries, 0 + 1, Len(entries))
        BY <4>1, SubSeqFull
      <4>3. Around(<<>>, SubSeq(entries, 1, 0))
        <5>1. Len(SubSeq(entries, 1, 0)) = 0
          BY <4>1
        <5> QED
          BY <5>1 DEF Around
      <4>4. /\ entries' = entries /\ Method' = Method
            /\ Instance(provider)' = Instance(provider)
            /\ Class(provider)' = Class(provider)
        BY <3>1 DEF Method, EntriesFor, Entries, Class, Instance
      <4>5. <<>> \in Seq(Layer)
        OBVIOUS
      <4> HIDE DEF entries
      <4>6. \E k \in 0..Len(entries) :
              /\ entries = SubSeq(entries, k + 1, Len(entries))
              /\ Around(<<>>, SubSeq(entries, 1, k))
        BY <4>2, <4>3
      <4>7. \E k \in 0..Len(entries') :
              /\ pending' = SubSeq(entries', k + 1, Len(entries'))
              /\ Around(layers, SubSeq(entries, 1, k))'
        BY <3>1, <4>4, <4>6 DEF entries, Around, StandsFor
      <4>8. /\ methods' # <<>> /\ Key(provider, Method)' \notin DOMAIN wrapped'
            /\ ~ app'.methods[Class(provider)'][Method'].transport
            /\ layers' \in Seq(Layer)
        BY <1>1, <1>3, <2>3, <3>1, <4>4, <4>5 DEF Key, IsWrapped
      <4> QED
        BY <4>7, <4>8 DEF EntriesPassed, entries
    <3>9. CopiesNumbered'
      BY <3>1 DEF IInv, CopiesNumbered
    <3> QED
      BY <3>1, <3>2, <3>3, <3>4, <3>5, <3>6, <3>7, <3>8, <3>9 DEF IInv
  <2> QED
    BY <2>2, <2>3
<1> QED
  BY <1>2, <1>3

\* One more middleware for one more entry.
LEMMA OneMoreAround ==
  ASSUME NEW list \in Seq(Layer), NEW entries \in Seq(Entry),
         NEW k \in 0..Len(entries), k + 1 \in 1..Len(entries),
         Around(list, SubSeq(entries, 1, k)),
         NEW layer \in Layer, StandsFor(layer, entries[k + 1])
  PROVE  /\ Append(list, layer) \in Seq(Layer)
         /\ Len(Append(list, layer)) = Len(list) + 1
         /\ \A i \in 1..Len(list) : Append(list, layer)[i] = list[i]
         /\ Append(list, layer)[Len(list) + 1] = layer
         /\ Around(Append(list, layer), SubSeq(entries, 1, k + 1))
<1>1. k \in Nat /\ Len(entries) \in Nat
  OBVIOUS
<1>2. /\ Len(SubSeq(entries, 1, k)) = k
      /\ \A i \in 1..k : SubSeq(entries, 1, k)[i] = entries[i]
  BY <1>1
<1>3. /\ Len(SubSeq(entries, 1, k + 1)) = k + 1
      /\ \A i \in 1..(k + 1) : SubSeq(entries, 1, k + 1)[i] = entries[i]
  BY <1>1
<1>4. Len(list) = k
  BY <1>2 DEF Around
<1>5. /\ Append(list, layer) \in Seq(Layer)
      /\ Len(Append(list, layer)) = Len(list) + 1
      /\ \A i \in 1..Len(list) : Append(list, layer)[i] = list[i]
      /\ Append(list, layer)[Len(list) + 1] = layer
  OBVIOUS
<1>6. ASSUME NEW i \in 1..(k + 1)
      PROVE  StandsFor(Append(list, layer)[i], SubSeq(entries, 1, k + 1)[i])
  <2>1. CASE i = k + 1
    BY <1>3, <1>4, <1>5, <2>1
  <2>2. CASE i # k + 1
    <3>1. i \in 1..k
      BY <1>1, <2>2
    <3>2. StandsFor(list[i], SubSeq(entries, 1, k)[i])
      BY <1>4, <3>1 DEF Around
    <3> QED
      BY <1>2, <1>3, <1>4, <1>5, <3>1, <3>2
  <2> QED
    BY <2>1, <2>2
<1> QED
  BY <1>3, <1>4, <1>5, <1>6 DEF Around

LEMMA InstantiateEntryInv ==
  ASSUME IInv, InstantiateEntry
  PROVE  IInv'
<1> DEFINE entries == EntriesFor(provider, Method)
           entry == Head(pending)
<1>1. /\ phase = "wrapping" /\ pending # <<>> /\ Typed /\ provider \in Examined
      /\ provider \in Nat /\ provider <= provider /\ made \in Nat
  BY ProvidersCounted DEF InstantiateEntry, IInv, Typed
<1>2. /\ methods # <<>> /\ Key(provider, Method) \notin DOMAIN wrapped
      /\ ~ app.methods[Class(provider)][Method].transport
      /\ layers \in Seq(Layer)
  BY <1>1 DEF IInv, EntriesPassed
<1>3. PICK k \in 0..Len(entries) :
        /\ pending = SubSeq(entries, k + 1, Len(entries))
        /\ Around(layers, SubSeq(entries, 1, k))
  BY <1>1 DEF IInv, EntriesPassed
<1>4. /\ First(provider) /\ Method \in MarkedIn(provider)
      /\ <<provider, Method>> \in ToWrap
  BY <1>1, <1>2, FreshIsFirst
<1>5. /\ entries \in Seq(Entry) /\ Len(entries) \in Nat
      /\ Elems(entries) = DeclaredFor(provider, Method)
  BY <1>1, <1>4, EntriesHere
<1>6. /\ k + 1 \in 1..Len(entries) /\ k + 1 \in 0..Len(entries)
      /\ entry = entries[k + 1]
      /\ Tail(pending) = SubSeq(entries, (k + 1) + 1, Len(entries))
  <2> HIDE DEF entries
  <2> QED
    BY <1>1, <1>3, <1>5, RestOfList
<1>7. entry \in Entry /\ entry \in DeclaredFor(provider, Method)
  <2> HIDE DEF entries, entry
  <2> QED
    BY <1>5, <1>6 DEF Elems
<1>8. CASE entry.kind \in {"unregistered", "request"}
  <2>1. PICK pm \in ToWrap : pm = <<provider, Method>>
    BY <1>4
  <2>2. entry \in DeclaredFor(pm[1], pm[2])
    BY <1>7, <2>1
  <2>3. Misconfigured
    BY <1>8, <2>2 DEF Misconfigured
  <2> QED
    BY <1>1, <1>8, <2>3, RejectInv DEF InstantiateEntry
<1>9. CASE entry.kind \notin {"unregistered", "request"}
  <2> DEFINE new == [place |-> entry.place, copy |-> Copy(entry.kind)]
             after == Append(layers, new)
  <2>1. /\ layers' = after /\ pending' = Tail(pending)
        /\ made' = IF entry.kind = "transient" THEN made + 1 ELSE made
        /\ UNCHANGED <<app, phase, provider, methods, wrapped, resolved>>
    BY <1>9 DEF InstantiateEntry
  <2>2. /\ new \in Layer /\ StandsFor(new, entry) /\ made' \in Nat /\ made <= made'
        /\ new.copy <= made' /\ (new.copy # 0 => new.copy = made + 1)
    <3> HIDE DEF entry
    <3> QED
      BY <1>1, <1>7, <1>9, <2>1 DEF Layer, StandsFor, Entry, Kind, Copy
  <2>3. /\ after \in Seq(Layer) /\ Len(after) = Len(layers) + 1
        /\ \A i \in 1..Len(layers) : after[i] = layers[i]
        /\ after[Len(layers) + 1] = new
        /\ Around(after, SubSeq(entries, 1, k + 1))
    <3> HIDE DEF entries, entry, new
    <3> QED
      BY <1>2, <1>3, <1>5, <1>6, <2>2, OneMoreAround
  <2>4. /\ Len(layers) \in Nat
        /\ \A i \in 1..Len(after) : i \in 1..Len(layers) \/ i = Len(layers) + 1
    <3> HIDE DEF after
    <3> QED
      BY <1>2, <2>3
  <2> HIDE DEF new, after, entry
  <2>5. WrappedMarked' /\ TransientsApart'
    BY <1>1, <2>1, WrappedStays
  <2>6. Typed'
    BY <1>1, <2>1, <2>2, SameApplication DEF Typed
  <2>7. ControllersPassed'
    BY <2>1, SameApplication DEF IInv, ControllersPassed
  <2>8. ProvidersPassed'
    BY <2>1, SameApplication DEF IInv, ProvidersPassed
  <2>9. MethodsPassed'
    <3>1. MethodsPassed
      BY DEF IInv
    <3>2. /\ MarkedMethods(Class(provider))' = MarkedMethods(Class(provider))
          /\ Passes(provider)' = Passes(provider)
          /\ Instance(provider)' = Instance(provider)
      BY <2>1, SameApplication
    <3> QED
      BY <2>1, <3>1, <3>2 DEF MethodsPassed, Key
  <2>10. ResolvedFits'
    BY <1>1, <2>1, NobodyAsked
  <2>11. EntriesPassed'
    <3>1. /\ entries' = entries /\ Method' = Method
          /\ Instance(provider)' = Instance(provider)
          /\ Class(provider)' = Class(provider)
      BY <2>1 DEF Method, EntriesFor, Entries, Class, Instance
    <3> HIDE DEF entries
    <3>2. \E j \in 0..Len(entries) :
            /\ pending' = SubSeq(entries, j + 1, Len(entries))
            /\ Around(after, SubSeq(entries, 1, j))
      BY <1>6, <2>1, <2>3
    <3>3. \E j \in 0..Len(entries') :
            /\ pending' = SubSeq(entries', j + 1, Len(entries'))
            /\ Around(layers', SubSeq(entries', 1, j))
      BY <2>1, <3>1, <3>2
    <3>4. /\ methods' # <<>> /\ Key(provider, Method)' \notin DOMAIN wrapped'
          /\ ~ app'.methods[Class(provider)'][Method'].transport
          /\ layers' \in Seq(Layer)
      BY <1>2, <2>1, <2>3, <3>1 DEF Key
    <3> QED
      BY <3>3, <3>4 DEF EntriesPassed, entries
  <2>12. CopiesNumbered'
    <3>1. /\ \A key \in DOMAIN wrapped : \A i \in 1..Len(wrapped[key]) :
               wrapped[key][i].copy <= made /\ wrapped[key][i].copy \in Nat
          /\ \A i \in 1..Len(layers) : layers[i].copy <= made /\ layers[i].copy \in Nat
      <4>1. ASSUME NEW key \in DOMAIN wrapped, NEW i \in 1..Len(wrapped[key])
            PROVE  wrapped[key][i].copy \in Nat
        <5>1. wrapped[key] \in Seq(Layer)
          BY <1>1 DEF Typed
        <5>2. wrapped[key][i] \in Layer
          BY <5>1
        <5> QED
          BY <5>2 DEF Layer
      <4>2. ASSUME NEW i \in 1..Len(layers)
            PROVE  layers[i].copy \in Nat
        <5>1. layers[i] \in Layer
          BY <1>2
        <5> QED
          BY <5>1 DEF Layer
      <4>3. /\ \A key \in DOMAIN wrapped : \A i \in 1..Len(wrapped[key]) :
                 wrapped[key][i].copy <= made
            /\ \A i \in 1..Len(layers) : layers[i].copy <= made
        BY <1>1 DEF IInv, CopiesNumbered
      <4> QED
        BY <4>1, <4>2, <4>3
    <3>2. \A key \in DOMAIN wrapped : \A i \in 1..Len(wrapped[key]) :
            wrapped[key][i].copy <= made'
      BY <1>1, <2>2, <3>1
    <3>3. \A i \in 1..Len(after) : after[i].copy <= made'
      BY <1>1, <2>2, <2>3, <2>4, <3>1
    <3>4. ASSUME NEW i \in 1..Len(after), NEW j \in 1..Len(after),
                 after[i].copy # 0, after[i].copy = after[j].copy
          PROVE  i = j
      <4>1. CASE i \in 1..Len(layers) /\ j \in 1..Len(layers)
        BY <1>1, <2>3, <3>4, <4>1 DEF IInv, CopiesNumbered
      <4>2. CASE i \in 1..Len(layers) /\ j = Len(layers) + 1
        BY <1>1, <2>2, <2>3, <3>1, <3>4, <4>2
      <4>3. CASE i = Len(layers) + 1 /\ j \in 1..Len(layers)
        BY <1>1, <2>2, <2>3, <3>1, <3>4, <4>3
      <4> QED
        BY <2>4, <4>1, <4>2, <4>3
    <3>5. ASSUME NEW key \in DOMAIN wrapped, NEW i \in 1..Len(wrapped[key]),
                 NEW j \in 1..Len(after), after[j].copy # 0
          PROVE  wrapped[key][i].copy # after[j].copy
      <4>1. CASE j \in 1..Len(layers)
        <5>1. after[j] = layers[j] /\ layers[j].copy # 0
          BY <2>3, <3>5, <4>1
        <5>2. wrapped[key][i].copy # layers[j].copy
          BY <1>1, <4>1, <5>1 DEF IInv, CopiesNumbered
        <5> QED
          BY <5>1, <5>2
      <4>2. CASE j = Len(layers) + 1
        BY <1>1, <2>2, <2>3, <3>1, <3>5, <4>2
      <4> QED
        BY <2>4, <4>1, <4>2
    <3> QED
      BY <2>1, <3>2, <3>3, <3>4, <3>5 DEF CopiesNumbered
  <2> QED
    BY <1>1, <2>1, <2>5, <2>6, <2>7, <2>8, <2>9, <2>10, <2>11, <2>12 DEF IInv
<1> QED
  BY <1>8, <1>9

LEMMA WrapInv ==
  ASSUME IInv, Wrap
  PROVE  IInv'
<1> DEFINE entries == EntriesFor(provider, Method)
<1>0. PICK new : new = Key(provider, Method)
  OBVIOUS
<1>1. /\ phase = "wrapping" /\ pending = <<>> /\ Typed /\ provider \in Examined
      /\ provider \in Nat /\ provider <= provider
  BY ProvidersCounted DEF Wrap, IInv, Typed
<1>2. /\ methods # <<>> /\ new \notin DOMAIN wrapped
      /\ ~ app.methods[Class(provider)][Method].transport
      /\ layers \in Seq(Layer)
  BY <1>0, <1>1 DEF IInv, EntriesPassed
<1>3. PICK k \in 0..Len(entries) :
        /\ pending = SubSeq(entries, k + 1, Len(entries))
        /\ Around(layers, SubSeq(entries, 1, k))
  BY <1>1 DEF IInv, EntriesPassed
<1>4. First(provider) /\ Method \in MarkedIn(provider)
  BY <1>0, <1>1, <1>2, FreshIsFirst
<1>5. entries \in Seq(Entry) /\ Len(entries) \in Nat
  BY <1>1, <1>4, EntriesHere
<1>6. Around(layers, entries)
  <2> HIDE DEF entries
  <2>1. k = Len(entries)
    BY <1>1, <1>3, <1>5, RestOfList
  <2>2. SubSeq(entries, 1, Len(entries)) = entries
    BY <1>5, SubSeqFull
  <2> QED
    BY <1>3, <2>1, <2>2
<1>7. /\ wrapped' = [key \in DOMAIN wrapped \cup {new} |->
                       IF key = new THEN layers ELSE wrapped[key]]
      /\ methods' = Tail(methods) /\ phase' = "methods"
      /\ UNCHANGED <<app, provider, pending, layers, made, resolved>>
  BY <1>0 DEF Wrap, Key
<1>8. /\ DOMAIN wrapped' = DOMAIN wrapped \cup {new} /\ wrapped'[new] = layers
      /\ \A key \in DOMAIN wrapped : key # new /\ wrapped'[key] = wrapped[key]
  BY <1>2, <1>7
<1>9. WrappedMarked'
  <2>1. ASSUME NEW key \in DOMAIN wrapped
        PROVE  \E p \in Examined' : \E method \in MarkedIn(p)' :
                 WrappedBy(key, p, method)'
    <3>1. PICK p \in Examined : \E method \in MarkedIn(p) : WrappedBy(key, p, method)
      BY DEF IInv, WrappedMarked
    <3>2. PICK method \in MarkedIn(p) : WrappedBy(key, p, method)
      BY <3>1
    <3>3. WrappedBy(key, p, method)'
      BY <1>7, <1>8, <3>2, SameApplication DEF WrappedBy, Class
    <3>4. p \in Examined' /\ method \in MarkedIn(p)'
      BY <1>7, <3>2, SameApplication
    <3> QED
      BY <3>3, <3>4
  <2>2. \E p \in Examined' : \E method \in MarkedIn(p)' : WrappedBy(new, p, method)'
    <3>1. PICK p \in Examined : p = provider
      BY <1>1
    <3>2. PICK method \in MarkedIn(p) : method = Method
      BY <1>4, <3>1
    <3>3. /\ p <= provider /\ First(p) /\ new = Key(p, method)
          /\ ~ app.methods[Class(p)][method].transport
          /\ Around(layers, EntriesFor(p, method))
      BY <1>0, <1>1, <1>2, <1>4, <1>6, <3>1, <3>2
    <3>4. /\ p <= provider' /\ First(p)' /\ new = Key(p, method)'
          /\ ~ app'.methods[Class(p)'][method].transport
          /\ Around(wrapped'[new], EntriesFor(p, method)')
      BY <1>7, <1>8, <3>3, SameApplication
    <3>5. p \in Examined' /\ method \in MarkedIn(p)'
      BY <1>7, <3>2, SameApplication
    <3> QED
      BY <3>4, <3>5 DEF WrappedBy
  <2> QED
    BY <1>8, <2>1, <2>2 DEF WrappedMarked
<1>10. Typed'
  BY <1>1, <1>2, <1>7, <1>8, SameApplication DEF Typed, Phases
<1>11. ControllersPassed'
  BY <1>1, <1>7, SameApplication DEF IInv, ControllersPassed
<1>12. ProvidersPassed'
  <2>1. \A p \in Examined :
          p < provider =>
            Passes(p) /\ \A method \in MarkedIn(p) : Key(p, method) \in DOMAIN wrapped'
    BY <1>8 DEF IInv, ProvidersPassed
  <2> QED
    BY <1>7, <2>1, SameApplication DEF ProvidersPassed
<1>13. MethodsPassed'
  BY <1>0, <1>1, <1>2, <1>7, <1>8, MethodDone
<1>14. ResolvedFits'
  BY <1>1, <1>7, NobodyAsked
<1>15. EntriesPassed'
  BY <1>7 DEF EntriesPassed
<1>16. /\ \A key \in DOMAIN wrapped : \A i \in 1..Len(wrapped[key]) :
            wrapped[key][i].copy <= made
       /\ \A i \in 1..Len(layers) : layers[i].copy <= made
       /\ \A i, j \in 1..Len(layers) :
            layers[i].copy # 0 /\ layers[i].copy = layers[j].copy => i = j
       /\ \A key \in DOMAIN wrapped :
            \A i \in 1..Len(wrapped[key]) : \A j \in 1..Len(layers) :
              layers[j].copy # 0 => wrapped[key][i].copy # layers[j].copy
  BY <1>1 DEF IInv, CopiesNumbered
<1>17. CopiesNumbered'
  BY <1>7, <1>8, <1>16 DEF CopiesNumbered
<1>18. TransientsApart'
  <2> SUFFICES ASSUME NEW key \in DOMAIN wrapped', NEW other \in DOMAIN wrapped',
                      NEW i \in 1..Len(wrapped'[key]),
                      NEW j \in 1..Len(wrapped'[other]),
                      wrapped'[key][i].copy # 0,
                      wrapped'[key][i].copy = wrapped'[other][j].copy
               PROVE  key = other /\ i = j
    BY DEF TransientsApart
  <2>1. CASE key = new /\ other = new
    BY <1>8, <1>16, <2>1
  <2>2. CASE key = new /\ other \in DOMAIN wrapped
    BY <1>8, <1>16, <2>2
  <2>3. CASE key \in DOMAIN wrapped /\ other = new
    BY <1>8, <1>16, <2>3
  <2>4. CASE key \in DOMAIN wrapped /\ other \in DOMAIN wrapped
    BY <1>8, <2>4 DEF IInv, TransientsApart
  <2> QED
    BY <1>8, <2>1, <2>2, <2>3, <2>4
<1> QED
  BY <1>7, <1>9, <1>10, <1>11, <1>12, <1>13, <1>14, <1>15, <1>17, <1>18 DEF IInv

LEMMA FinishInv ==
  ASSUME IInv, Finish
  PROVE  IInv'
<1>1. /\ phase = "providers" /\ provider > Len(app.providers) /\ Typed
      /\ provider \in Nat /\ provider <= provider /\ phase' = "started"
      /\ UNCHANGED <<app, provider, methods, pending, layers, wrapped, made, resolved>>
  BY ProvidersCounted DEF Finish, IInv
<1>2. WrappedMarked' /\ CopiesNumbered' /\ TransientsApart' /\ EntriesPassed'
  BY <1>1, NothingWrapped
<1>3. Typed'
  BY <1>1 DEF Typed, Phases
<1>4. ControllersPassed'
  BY <1>1, SameApplication DEF IInv, ControllersPassed
<1>5. ProvidersPassed'
  BY <1>1, SameApplication DEF IInv, ProvidersPassed
<1>6. MethodsPassed'
  BY <1>1 DEF MethodsPassed
<1>7. ResolvedFits'
  BY <1>1, NobodyAsked
<1> QED
  BY <1>1, <1>2, <1>3, <1>4, <1>5, <1>6, <1>7 DEF IInv

LEMMA ResolveInv ==
  ASSUME IInv, NEW host, NEW class, NEW method, Resolve(host, class, method)
  PROVE  IInv'
<1>1. /\ phase = "started" /\ Typed /\ provider \in Nat /\ provider <= provider
      /\ UNCHANGED <<app, phase, provider, methods, pending, layers, wrapped, made>>
  BY ProvidersCounted DEF Resolve, IInv
<1>2. WrappedMarked' /\ CopiesNumbered' /\ TransientsApart' /\ EntriesPassed'
  BY <1>1, NothingWrapped
<1>3. Typed'
  BY <1>1 DEF Typed
<1>4. ControllersPassed'
  BY <1>1, SameApplication DEF IInv, ControllersPassed
<1>5. ProvidersPassed'
  BY <1>1, SameApplication DEF IInv, ProvidersPassed
<1>6. MethodsPassed'
  BY <1>1 DEF MethodsPassed
<1>7. ResolvedFits'
  <2> DEFINE entries == Entries(host, class, method)
             got == \A i \in 1..Len(entries) : Gettable(entries[i].kind)
  <2>1. /\ resolved'.outcome = IF got THEN "resolved" ELSE "thrown"
        /\ resolved'.asked = <<host, class, method>>
        /\ got => resolved'.layers = [i \in 1..Len(entries) |->
                                       [place |-> entries[i].place, copy |-> 0]]
    BY DEF Resolve
  <2>2. Entries(resolved.asked[1], resolved.asked[2], resolved.asked[3])' = entries
    <3>1. resolved'.asked[1] = host /\ resolved'.asked[2] = class /\ resolved'.asked[3] = method
      BY <2>1
    <3> QED
      BY <1>1, <3>1 DEF Entries
  <2> HIDE DEF entries
  <2> QED
    BY <1>1, <2>1, <2>2 DEF ResolvedFits
<1> QED
  BY <1>1, <1>2, <1>3, <1>4, <1>5, <1>6, <1>7 DEF IInv

LEMMA InitInv == Init => IInv
<1> SUFFICES ASSUME Init PROVE IInv
  OBVIOUS
<1>1. /\ app \in Applications /\ phase = "controllers" /\ provider = 1 /\ made = 0
      /\ DOMAIN wrapped = {} /\ resolved.outcome = "not asked"
  BY DEF Init, NotResolved
<1>2. Typed
  <2>1. Len(app.providers) \in Nat
    BY <1>1, ApplicationsDeclared
  <2>2. PICK n \in Nat : n = Len(app.providers)
    BY <2>1
  <2>3. provider \in 1..(Len(app.providers) + 1)
    <3>1. 1 \in 1..(n + 1)
      OBVIOUS
    <3> QED
      BY <1>1, <2>2, <3>1
  <2> QED
    BY <1>1, <2>3 DEF Typed, Phases
<1>3. ProvidersPassed
  <2>1. \A p \in Examined : ~ (p < provider)
    <3> SUFFICES ASSUME NEW p \in Examined PROVE ~ (p < 1)
      BY <1>1
    <3>1. p \in 1..Len(app.providers)
      BY <1>2, ProvidersCounted
    <3> QED
      BY <3>1
  <2> QED
    BY <1>1, <2>1 DEF ProvidersPassed
<1>4. ControllersPassed /\ MethodsPassed /\ EntriesPassed
  BY <1>1 DEF ControllersPassed, MethodsPassed, EntriesPassed
<1>5. WrappedMarked /\ TransientsApart
  BY <1>1 DEF WrappedMarked, TransientsApart
<1>6. CopiesNumbered /\ ResolvedFits
  BY <1>1 DEF CopiesNumbered, ResolvedFits
<1> QED
  BY <1>1, <1>2, <1>3, <1>4, <1>5, <1>6 DEF IInv

LEMMA NextInv == IInv /\ [Next]_vars => IInv'
<1> SUFFICES ASSUME IInv, [Next]_vars PROVE IInv'
  OBVIOUS
<1>1. CASE ExamineControllers
  BY <1>1, ExamineControllersInv
<1>2. CASE ExamineProvider
  BY <1>2, ExamineProviderInv
<1>3. CASE NextProvider
  BY <1>3, NextProviderInv
<1>4. CASE ExamineMethod
  BY <1>4, ExamineMethodInv
<1>5. CASE InstantiateEntry
  BY <1>5, InstantiateEntryInv
<1>6. CASE Wrap
  BY <1>6, WrapInv
<1>7. CASE Finish
  BY <1>7, FinishInv
<1>8. CASE ResolveAny
  BY <1>8, ResolveInv DEF ResolveAny
<1>9. CASE UNCHANGED vars
  <2>1. UNCHANGED <<app, phase, provider, methods, pending, layers, wrapped, made, resolved>>
    BY <1>9 DEF vars
  <2>2. provider \in Nat /\ provider <= provider
    BY ProvidersCounted DEF IInv
  <2>3. WrappedMarked' /\ TransientsApart'
    BY <2>1, <2>2, WrappedStays
  <2>4. /\ \A p : Class(p)' = Class(p)
        /\ \A p : Instance(p)' = Instance(p)
        /\ \A p, m : EntriesFor(p, m)' = EntriesFor(p, m)
        /\ \A c : MarkedMethods(c)' = MarkedMethods(c)
        /\ \A p : Passes(p)' = Passes(p)
    BY <2>1, SameApplication
  <2>5. Typed' /\ ControllersPassed'
    BY <2>1, SameApplication DEF IInv, Typed, ControllersPassed
  <2>6. ProvidersPassed'
    BY <2>1, SameApplication DEF IInv, ProvidersPassed
  <2>7. MethodsPassed'
    BY <2>1, <2>4 DEF IInv, MethodsPassed, Key
  <2>8. EntriesPassed'
    <3>1. /\ EntriesFor(provider, Method)' = EntriesFor(provider, Method)
          /\ Key(provider, Method)' = Key(provider, Method)
          /\ Method' = Method /\ Class(provider)' = Class(provider)
      BY <2>1 DEF EntriesFor, Entries, Key, Method, Class, Instance
    <3>2. EntriesPassed
      BY DEF IInv
    <3> QED
      BY <2>1, <3>1, <3>2 DEF EntriesPassed
  <2>9. CopiesNumbered'
    BY <2>1 DEF IInv, CopiesNumbered
  <2>10. ResolvedFits'
    BY <2>1 DEF IInv, ResolvedFits, Entries
  <2>11. phase' = "failed" => Misconfigured'
    BY <2>1, MisconfiguredStays DEF IInv
  <2> QED
    BY <2>3, <2>5, <2>6, <2>7, <2>8, <2>9, <2>10, <2>11 DEF IInv
<1> QED
  BY <1>1, <1>2, <1>3, <1>4, <1>5, <1>6, <1>7, <1>8, <1>9 DEF Next, Start

\* The invariant holds of every start.
THEOREM Invariance == Spec => []IInv
BY InitInv, NextInv, PTL DEF Spec

-----------------------------------------------------------------------------
(* What follows *)

\* What an application that has started has around a marked method: the middlewares
\* of all its entries.
LEMMA StartedWraps ==
  ASSUME IInv, phase = "started", NEW pm \in ToWrap
  PROVE  /\ pm = <<pm[1], pm[2]>> /\ pm[1] \in Examined /\ pm[2] \in MarkedIn(pm[1])
         /\ Key(pm[1], pm[2]) \in DOMAIN wrapped
         /\ ~ app.methods[Class(pm[1])][pm[2]].transport
         /\ Around(wrapped[Key(pm[1], pm[2])], EntriesFor(pm[1], pm[2]))
<1>1. PICK p \in Examined : First(p) /\ \E m \in MarkedIn(p) : pm = <<p, m>>
  BY DEF ToWrap, First, MarkedIn, Elems
<1>2. PICK m \in MarkedIn(p) : pm = <<p, m>>
  BY <1>1
<1>3. p < provider
  BY ProvidersCounted DEF IInv, Typed
<1>4. Key(p, m) \in DOMAIN wrapped
  BY <1>3 DEF IInv, ProvidersPassed
<1>5. PICK q \in Examined : \E n \in MarkedIn(q) : WrappedBy(Key(p, m), q, n)
  BY <1>4 DEF IInv, WrappedMarked
<1>6. PICK n \in MarkedIn(q) : WrappedBy(Key(p, m), q, n)
  BY <1>5
<1>7. n = m /\ Instance(q) = Instance(p) /\ First(q)
  BY <1>6 DEF WrappedBy, Key
<1>8. p <= q /\ q <= p
  BY <1>1, <1>7 DEF First
<1>9. q = p
  BY <1>8, ProvidersCounted DEF IInv
<1> QED
  BY <1>2, <1>4, <1>6, <1>7, <1>9 DEF WrappedBy

\* The middlewares around a method, against what is declared for it.
LEMMA AroundDeclared ==
  ASSUME Typed, NEW p \in Examined, NEW m \in MarkedIn(p), NEW list,
         Around(list, EntriesFor(p, m))
  PROVE  /\ {list[i].place : i \in 1..Len(list)}
              = {entry.place : entry \in DeclaredFor(p, m)}
         /\ \A i, j \in 1..Len(list) : i < j => Before(list[i].place, list[j].place)
         /\ \A entry \in DeclaredFor(p, m) :
              entry.kind \in {"instance", "singleton", "transient"}
<1> DEFINE entries == EntriesFor(p, m)
<1>1. /\ entries \in Seq(Entry) /\ Len(entries) \in Nat
      /\ Elems(entries) = DeclaredFor(p, m) /\ Sorted(Order, entries)
  BY EntriesHere
<1> HIDE DEF entries
<1>2. /\ Len(list) = Len(entries)
      /\ \A i \in 1..Len(entries) :
           /\ entries[i].kind \in {"instance", "singleton", "transient"}
           /\ list[i].place = entries[i].place
  BY DEF Around, StandsFor, entries
<1>3. /\ \A entry \in DeclaredFor(p, m) : \E i \in 1..Len(entries) : entry = entries[i]
      /\ \A i \in 1..Len(entries) : entries[i] \in DeclaredFor(p, m)
  BY <1>1 DEF Elems
<1>4. {list[i].place : i \in 1..Len(list)} = {entry.place : entry \in DeclaredFor(p, m)}
  BY <1>2, <1>3
<1>5. \A i, j \in 1..Len(list) : i < j => Before(list[i].place, list[j].place)
  <2> SUFFICES ASSUME NEW i \in 1..Len(list), NEW j \in 1..Len(list), i < j
               PROVE  Before(list[i].place, list[j].place)
    OBVIOUS
  <2>1. Before(entries[i].place, entries[j].place)
    BY <1>1, <1>2 DEF Sorted, Order
  <2> QED
    BY <1>2, <2>1
<1> QED
  BY <1>2, <1>3, <1>4, <1>5

LEMMA InvWraps ==
  ASSUME IInv
  PROVE  WrappedAsDeclared
<1> SUFFICES ASSUME phase = "started" PROVE WrappedAsDeclared
  BY DEF WrappedAsDeclared
<1>1. ASSUME NEW pm \in ToWrap
      PROVE  <<Instance(pm[1]), pm[2]>> \in DOMAIN wrapped
  BY StartedWraps DEF Key
<1>2. ASSUME NEW key \in DOMAIN wrapped
      PROVE  \E pm \in ToWrap : key = <<Instance(pm[1]), pm[2]>>
  <2>1. PICK p \in Examined : \E m \in MarkedIn(p) : WrappedBy(key, p, m)
    BY DEF IInv, WrappedMarked
  <2>2. PICK m \in MarkedIn(p) : WrappedBy(key, p, m)
    BY <2>1
  <2>3. <<p, m>> \in ToWrap
    BY <2>2 DEF WrappedBy, ToWrap, First, MarkedIn, Elems
  <2>4. PICK pm \in ToWrap : pm = <<p, m>>
    BY <2>3
  <2> QED
    BY <2>2, <2>4 DEF WrappedBy, Key
<1>3. ASSUME NEW pm \in ToWrap
      PROVE  LET around == wrapped[<<Instance(pm[1]), pm[2]>>] IN
             /\ {around[i].place : i \in 1..Len(around)}
                  = {entry.place : entry \in DeclaredFor(pm[1], pm[2])}
             /\ \A i, j \in 1..Len(around) :
                  i < j => Before(around[i].place, around[j].place)
  <2>1. PICK around : around = wrapped[Key(pm[1], pm[2])]
    OBVIOUS
  <2>2. PICK p, m : p = pm[1] /\ m = pm[2]
    OBVIOUS
  <2>3. /\ Typed /\ p \in Examined /\ m \in MarkedIn(p)
        /\ Around(around, EntriesFor(p, m))
    BY <2>1, <2>2, StartedWraps DEF IInv
  <2>4. /\ {around[i].place : i \in 1..Len(around)}
              = {entry.place : entry \in DeclaredFor(p, m)}
        /\ \A i, j \in 1..Len(around) : i < j => Before(around[i].place, around[j].place)
    BY <2>3, AroundDeclared
  <2> QED
    BY <2>1, <2>2, <2>4 DEF Key
<1>4. DOMAIN wrapped = {<<Instance(pm[1]), pm[2]>> : pm \in ToWrap}
  BY <1>1, <1>2
<1> QED
  BY <1>3, <1>4 DEF WrappedAsDeclared

LEMMA InvJudges ==
  ASSUME IInv
  PROVE  StartJudged
<1> SUFFICES ASSUME phase = "started", Misconfigured PROVE FALSE
  BY DEF IInv, StartJudged
<1>1. CASE \E i \in 1..Len(app.controllers) :
             LET class == app.controllers[i] IN
             IsClassMarked(class) \/ MarkedMethods(class) # <<>>
  BY <1>1 DEF IInv, ControllersPassed
<1>2. CASE \E p \in Examined :
             LET class == Class(p) IN
             \/ IsClassMarked(class) /\ MarkedMethods(class) = <<>>
             \/ MarkedMethods(class) # <<>> /\ app.providers[p].scope # "singleton"
  <2>1. PICK p \in Examined : ~ Passes(p)
    BY <1>2 DEF Passes
  <2>2. p < provider
    BY ProvidersCounted DEF IInv, Typed
  <2> QED
    BY <2>1, <2>2 DEF IInv, ProvidersPassed
<1>3. CASE \E pm \in ToWrap :
             \/ app.methods[Class(pm[1])][pm[2]].transport
             \/ \E entry \in DeclaredFor(pm[1], pm[2]) :
                  entry.kind \in {"unregistered", "request"}
  <2>1. PICK pm \in ToWrap :
             \/ app.methods[Class(pm[1])][pm[2]].transport
             \/ \E entry \in DeclaredFor(pm[1], pm[2]) :
                  entry.kind \in {"unregistered", "request"}
    BY <1>3
  <2>2. PICK p, m : p = pm[1] /\ m = pm[2]
    OBVIOUS
  <2>3. PICK list : list = wrapped[Key(p, m)]
    OBVIOUS
  <2>4. /\ Typed /\ p \in Examined /\ m \in MarkedIn(p)
        /\ Around(list, EntriesFor(p, m))
        /\ ~ app.methods[Class(p)][m].transport
    BY <2>2, <2>3, StartedWraps DEF IInv
  <2>5. \A entry \in DeclaredFor(p, m) :
          entry.kind \in {"instance", "singleton", "transient"}
    BY <2>4, AroundDeclared
  <2> QED
    BY <2>1, <2>2, <2>4, <2>5
<1> QED
  BY <1>1, <1>2, <1>3 DEF Misconfigured

\* Without transient ones, the middlewares around a method are the ones there are.
LEMMA OnlyOnes ==
  ASSUME NEW list \in Seq(Layer), NEW entries \in Seq(Entry), Around(list, entries),
         \A i \in 1..Len(entries) : entries[i].kind # "transient"
  PROVE  /\ \A i \in 1..Len(entries) : Gettable(entries[i].kind)
         /\ list = [i \in 1..Len(entries) |-> [place |-> entries[i].place, copy |-> 0]]
<1>1. Len(list) = Len(entries) /\ Len(list) \in Nat
  BY DEF Around
<1>2. ASSUME NEW i \in 1..Len(list)
      PROVE  /\ Gettable(entries[i].kind)
             /\ list[i] = [place |-> entries[i].place, copy |-> 0]
  <2>1. StandsFor(list[i], entries[i]) /\ entries[i].kind # "transient"
    BY <1>1 DEF Around
  <2>2. list[i] \in Layer
    OBVIOUS
  <2>3. list[i].place = entries[i].place /\ list[i].copy = 0
    BY <2>1 DEF StandsFor
  <2>4. Gettable(entries[i].kind)
    BY <2>1 DEF StandsFor, Gettable
  <2> QED
    BY <2>2, <2>3, <2>4 DEF Layer
<1>3. list = [i \in 1..Len(list) |-> list[i]]
  OBVIOUS
<1> QED
  BY <1>1, <1>2, <1>3

LEMMA InvResolves ==
  ASSUME IInv
  PROVE  ResolvedAsWrapped
<1> SUFFICES ASSUME NEW pm \in ToWrap, resolved.outcome # "not asked",
                    resolved.asked = <<app.providers[pm[1]].host, Class(pm[1]), pm[2]>>
             PROVE  IF \E entry \in DeclaredFor(pm[1], pm[2]) : entry.kind = "transient"
                    THEN resolved.outcome = "thrown"
                    ELSE /\ resolved.outcome = "resolved"
                         /\ resolved.layers = wrapped[<<Instance(pm[1]), pm[2]>>]
  BY DEF ResolvedAsWrapped
<1>1. phase = "started" /\ Typed
  BY DEF IInv, ResolvedFits
<1>2. /\ pm[1] \in Examined /\ pm[2] \in MarkedIn(pm[1])
      /\ Key(pm[1], pm[2]) \in DOMAIN wrapped
      /\ Around(wrapped[Key(pm[1], pm[2])], EntriesFor(pm[1], pm[2]))
  BY <1>1, StartedWraps
<1> DEFINE p == pm[1]
           m == pm[2]
<1>0. resolved.asked = <<app.providers[p].host, Class(p), m>>
  OBVIOUS
<1> HIDE DEF p, m
<1>3. /\ EntriesFor(p, m) \in Seq(Entry) /\ Len(EntriesFor(p, m)) \in Nat
      /\ Elems(EntriesFor(p, m)) = DeclaredFor(p, m)
  BY <1>1, <1>2, EntriesHere DEF p, m
<1>4. Entries(resolved.asked[1], resolved.asked[2], resolved.asked[3]) = EntriesFor(p, m)
  <2>1. /\ resolved.asked[1] = app.providers[p].host
        /\ resolved.asked[2] = Class(p) /\ resolved.asked[3] = m
    <3>1. PICK a, b, c : a = app.providers[p].host /\ b = Class(p) /\ c = m
      OBVIOUS
    <3>2. PICK t : t = resolved.asked
      OBVIOUS
    <3>3. t = <<a, b, c>>
      BY <1>0, <3>1, <3>2, Zenon
    <3>4. t[1] = a /\ t[2] = b /\ t[3] = c
      BY <3>3
    <3> QED
      BY <3>1, <3>2, <3>4
  <2> QED
    BY <2>1, Zenon DEF EntriesFor
<1>5. PICK entries : entries = EntriesFor(p, m)
  OBVIOUS
<1>6. IF \A i \in 1..Len(entries) : Gettable(entries[i].kind)
      THEN /\ resolved.outcome = "resolved"
           /\ resolved.layers = [i \in 1..Len(entries) |->
                                   [place |-> entries[i].place, copy |-> 0]]
      ELSE resolved.outcome = "thrown"
  BY <1>4, <1>5 DEF IInv, ResolvedFits
<1>7. CASE \E entry \in DeclaredFor(p, m) : entry.kind = "transient"
  <2>1. PICK i \in 1..Len(entries) : entries[i].kind = "transient"
    BY <1>3, <1>5, <1>7 DEF Elems
  <2>2. ~ Gettable(entries[i].kind)
    BY <2>1 DEF Gettable
  <2> QED
    BY <1>6, <1>7, <2>2 DEF p, m
<1>8. CASE ~ \E entry \in DeclaredFor(p, m) : entry.kind = "transient"
  <2>1. \A i \in 1..Len(entries) : entries[i].kind # "transient"
    BY <1>3, <1>5, <1>8 DEF Elems
  <2>2. wrapped[Key(p, m)] \in Seq(Layer)
    BY <1>1, <1>2 DEF Typed, p, m
  <2>3. PICK list : list = wrapped[Key(p, m)]
    OBVIOUS
  <2>4. /\ \A i \in 1..Len(entries) : Gettable(entries[i].kind)
        /\ list = [i \in 1..Len(entries) |-> [place |-> entries[i].place, copy |-> 0]]
    <3>1. /\ list \in Seq(Layer) /\ entries \in Seq(Entry) /\ Around(list, entries)
      BY <1>2, <1>3, <1>5, <2>2, <2>3, Zenon DEF p, m
    <3> QED
      BY <2>1, <3>1, OnlyOnes
  <2> QED
    BY <1>6, <1>8, <2>3, <2>4 DEF Key, p, m
<1> QED
  BY <1>7, <1>8 DEF p, m

\* Of any application that starts, exactly the marked methods are wrapped, each in
\* all its entries in reading order.
THEOREM WrappedInOrder == Spec => []WrappedAsDeclared
BY Invariance, InvWraps, PTL

\* However many transient middlewares are declared, none serves two methods.
THEOREM TransientsAlone == Spec => []TransientsApart
<1>1. IInv => TransientsApart
  BY DEF IInv
<1> QED
  BY <1>1, Invariance, PTL

\* resolve gives what the explorer put around a method, or throws for a transient.
THEOREM ResolvedLikeWrapped == Spec => []ResolvedAsWrapped
BY Invariance, InvResolves, PTL

\* An application that started was not misconfigured, one that failed was.
THEOREM StartSound == Spec => []StartJudged
BY Invariance, InvJudges, PTL
=============================================================================
