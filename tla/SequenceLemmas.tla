--------------------------- MODULE SequenceLemmas ---------------------------
(***************************************************************************)
(* What the proofs of the other modules need to know of numbers and        *)
(* sequences.  The induction theorems of the library take the property to  *)
(* be proved as a parameter, which the provers here cannot instantiate; a  *)
(* set takes its place, and the induction is drawn from the theorem that   *)
(* strict inclusion of finite sets is well founded.                        *)
(***************************************************************************)
EXTENDS SequencesExt, Integers, TLAPS, FiniteSetTheorems, SequenceTheorems

-----------------------------------------------------------------------------
(* Numbers.                                                                *)

\* A set of natural numbers has a least element.
LEMMA Least ==
  ASSUME NEW S \in SUBSET Nat, S # {}
  PROVE  \E n \in S : \A k \in S : n <= k
  <1> DEFINE T == {1..n : n \in S}
  <1>1. T \subseteq FiniteSubsetsOf(Nat)
    BY FS_Interval DEF FiniteSubsetsOf
  <1>2. T # {} /\ IsWellFoundedOn(StrictSubsetOrdering(Nat), FiniteSubsetsOf(Nat))
    BY FS_StrictSubsetOrderingWellFounded
  <1> HIDE DEF T
  <1>3. PICK x \in T : \A y \in T : ~ (<<y, x>> \in StrictSubsetOrdering(Nat))
    BY <1>1, <1>2, WFMin
  <1> USE DEF T
  <1>4. PICK n \in S : x = 1..n
    OBVIOUS
  <1>5. ASSUME NEW k \in S, k < n PROVE FALSE
    <2>1. 1..k \subseteq 1..n /\ n \in 1..n /\ n \notin 1..k
      BY <1>5
    <2>2. <<1..k, 1..n>> \in StrictSubsetOrdering(Nat)
      BY <2>1 DEF StrictSubsetOrdering
    <2> QED
      BY <1>3, <1>4, <2>2
  <1> QED
    BY <1>5

\* A set of numbers with a bound has a greatest element.
LEMMA Greatest ==
  ASSUME NEW n \in Nat, NEW S \in SUBSET (0..n), S # {}
  PROVE  \E m \in S : \A k \in S : k <= m
  <1> DEFINE T == {n - k : k \in S}
  <1>1. \A k \in S : k \in Nat /\ n - k \in Nat
    OBVIOUS
  <1>2. T \in SUBSET Nat /\ T # {}
    BY <1>1
  <1>3. PICK x \in T : \A y \in T : x <= y
    BY <1>2, Least
  <1>4. PICK m \in S : x = n - m
    OBVIOUS
  <1>5. \A k \in S : n - m <= n - k
    BY <1>3, <1>4
  <1>6. \A k \in S : k <= m
    BY <1>1, <1>5
  <1> QED
    BY <1>6

\* Induction over the natural numbers, for the members of a set.
LEMMA Induction ==
  ASSUME NEW S, 0 \in S, \A n \in Nat : n \in S => n + 1 \in S
  PROVE  \A n \in Nat : n \in S
  <1> SUFFICES ASSUME NEW k \in Nat, k \notin S PROVE FALSE
    OBVIOUS
  <1> DEFINE T == {n \in Nat : n \notin S}
  <1>1. PICK n \in T : \A i \in T : n <= i
    BY Least
  <1>2. n # 0 /\ n - 1 \in Nat /\ n - 1 \notin T
    BY <1>1
  <1> QED
    BY <1>1, <1>2

-----------------------------------------------------------------------------
(* The elements of sequences.                                              *)

LEMMA ElementsOf ==
  ASSUME NEW X, NEW s \in Seq(X)
  PROVE  /\ DOMAIN s = 1..Len(s) /\ Len(s) \in Nat
         /\ ToSet(s) = {s[i] : i \in 1..Len(s)}
         /\ ToSet(s) \subseteq X
         /\ s = <<>> <=> ToSet(s) = {}
  <1>1. DOMAIN s = 1..Len(s) /\ Len(s) \in Nat
    OBVIOUS
  <1>2. ToSet(s) = {s[i] : i \in 1..Len(s)}
    BY <1>1 DEF ToSet
  <1>3. ToSet(s) \subseteq X
    BY <1>2
  <1>4. s = <<>> => ToSet(s) = {}
    BY <1>2
  <1>5. s # <<>> => s[1] \in ToSet(s)
    BY <1>2
  <1> QED
    BY <1>1, <1>2, <1>3, <1>4, <1>5

LEMMA ElementsOfConcat ==
  ASSUME NEW X, NEW s \in Seq(X), NEW t \in Seq(X)
  PROVE  /\ ToSet(s \o t) = ToSet(s) \cup ToSet(t)
         /\ IsInjective(s \o t) <=>
              IsInjective(s) /\ IsInjective(t) /\ ToSet(s) \cap ToSet(t) = {}
  <1> DEFINE u == s \o t
  <1>1. u \in Seq(X) /\ Len(u) = Len(s) + Len(t)
    BY ConcatProperties
  <1>2. \A i \in 1..Len(s) : u[i] = s[i]
    BY ConcatProperties
  <1>3. \A i \in 1..Len(t) : u[Len(s) + i] = t[i]
    BY ConcatProperties
  <1>4. \A i \in 1..Len(u) : i \in 1..Len(s) \/ \E j \in 1..Len(t) : i = Len(s) + j
    <2> TAKE i \in 1..Len(u)
    <2>1. Len(s) \in Nat /\ Len(t) \in Nat /\ i \in 1..(Len(s) + Len(t))
      BY <1>1
    <2>2. CASE i <= Len(s)
      BY <2>1, <2>2
    <2>3. CASE i > Len(s)
      <3>1. i - Len(s) \in 1..Len(t) /\ i = Len(s) + (i - Len(s))
        BY <2>1, <2>3
      <3> QED
        BY <3>1
    <2> QED
      BY <2>1, <2>2, <2>3
  <1> HIDE DEF u
  <1>5. ToSet(u) = ToSet(s) \cup ToSet(t)
    <2>1. DOMAIN s = 1..Len(s) /\ DOMAIN t = 1..Len(t) /\ DOMAIN u = 1..Len(u)
      BY <1>1
    <2>2. ASSUME NEW x \in ToSet(s) PROVE x \in ToSet(u)
      <3>1. PICK i \in 1..Len(s) : x = s[i]
        BY <2>1 DEF ToSet
      <3>2. i \in DOMAIN u
        BY <1>1
      <3> QED
        BY <3>1, <3>2, <1>2 DEF ToSet
    <2>3. ASSUME NEW x \in ToSet(t) PROVE x \in ToSet(u)
      <3>1. PICK i \in 1..Len(t) : x = t[i]
        BY <2>1 DEF ToSet
      <3>2. Len(s) + i \in DOMAIN u
        BY <1>1
      <3> QED
        BY <3>1, <3>2, <1>3 DEF ToSet
    <2>4. ASSUME NEW i \in 1..Len(u) PROVE u[i] \in ToSet(s) \cup ToSet(t)
      <3>1. CASE i \in 1..Len(s)
        BY <2>1, <3>1, <1>2 DEF ToSet
      <3>2. ASSUME NEW j \in 1..Len(t), i = Len(s) + j PROVE u[i] \in ToSet(t)
        BY <2>1, <3>2, <1>3 DEF ToSet
      <3> QED
        BY <3>1, <3>2, <1>4
    <2> QED
      BY <2>1, <2>2, <2>3, <2>4 DEF ToSet
  <1>6. ASSUME IsInjective(u)
        PROVE  IsInjective(s) /\ IsInjective(t) /\ ToSet(s) \cap ToSet(t) = {}
    <2>1. IsInjective(s)
      <3> SUFFICES ASSUME NEW i \in 1..Len(s), NEW j \in 1..Len(s), s[i] = s[j] PROVE i = j
        BY ElementsOf DEF IsInjective
      <3>1. i \in DOMAIN u /\ j \in DOMAIN u
        BY <1>1, ElementsOf
      <3> QED
        BY <3>1, <1>2, <1>6 DEF IsInjective
    <2>2. IsInjective(t)
      <3> SUFFICES ASSUME NEW i \in 1..Len(t), NEW j \in 1..Len(t), t[i] = t[j] PROVE i = j
        BY ElementsOf DEF IsInjective
      <3>1. Len(s) + i \in DOMAIN u /\ Len(s) + j \in DOMAIN u
        BY <1>1
      <3> QED
        BY <3>1, <1>3, <1>6 DEF IsInjective
    <2>3. ASSUME NEW i \in 1..Len(s), NEW j \in 1..Len(t), s[i] = t[j] PROVE FALSE
      <3>1. i \in DOMAIN u /\ Len(s) + j \in DOMAIN u /\ i # Len(s) + j
        BY <1>1, ElementsOf
      <3> QED
        BY <2>3, <3>1, <1>2, <1>3, <1>6 DEF IsInjective
    <2> QED
      BY <2>1, <2>2, <2>3, ElementsOf
  <1>7. ASSUME IsInjective(s), IsInjective(t), ToSet(s) \cap ToSet(t) = {}
        PROVE  IsInjective(u)
    <2> SUFFICES ASSUME NEW i \in 1..Len(u), NEW j \in 1..Len(u), u[i] = u[j] PROVE i = j
      BY <1>1 DEF IsInjective
    <2>1. CASE i \in 1..Len(s) /\ j \in 1..Len(s)
      BY <2>1, <1>2, <1>7 DEF IsInjective
    <2>2. CASE i \notin 1..Len(s) /\ j \notin 1..Len(s)
      <3>1. PICK k \in 1..Len(t), l \in 1..Len(t) : i = Len(s) + k /\ j = Len(s) + l
        BY <2>2, <1>4
      <3>2. t[k] = t[l]
        BY <3>1, <1>3
      <3> QED
        BY <3>1, <3>2, <1>7 DEF IsInjective
    <2>3. ASSUME NEW k \in 1..Len(s), NEW l \in 1..Len(t), s[k] = t[l] PROVE FALSE
      <3>1. s[k] \in ToSet(s) /\ t[l] \in ToSet(t)
        BY DEF ToSet
      <3> QED
        BY <2>3, <3>1, <1>7
    <2>4. CASE i \in 1..Len(s) /\ j \notin 1..Len(s)
      <3>1. PICK l \in 1..Len(t) : j = Len(s) + l
        BY <2>4, <1>4
      <3>2. s[i] = t[l]
        BY <2>4, <3>1, <1>2, <1>3
      <3> QED
        BY <2>3, <2>4, <3>2
    <2>5. CASE i \notin 1..Len(s) /\ j \in 1..Len(s)
      <3>1. PICK k \in 1..Len(t) : i = Len(s) + k
        BY <2>5, <1>4
      <3>2. s[j] = t[k]
        BY <2>5, <3>1, <1>2, <1>3
      <3> QED
        BY <2>3, <2>5, <3>2
    <2> QED
      BY <2>1, <2>2, <2>4, <2>5
  <1> QED
    BY <1>5, <1>6, <1>7 DEF u

LEMMA ElementsOfAppend ==
  ASSUME NEW X, NEW s \in Seq(X), NEW x \in X
  PROVE  /\ Append(s, x) \in Seq(X)
         /\ ToSet(Append(s, x)) = ToSet(s) \cup {x}
         /\ IsInjective(Append(s, x)) <=> IsInjective(s) /\ x \notin ToSet(s)
  <1>1. Append(s, x) = s \o <<x>> /\ <<x>> \in Seq(X) /\ Append(s, x) \in Seq(X)
    OBVIOUS
  <1>2. ToSet(<<x>>) = {x} /\ IsInjective(<<x>>)
    BY DEF ToSet, IsInjective
  <1>3. /\ ToSet(s \o <<x>>) = ToSet(s) \cup ToSet(<<x>>)
        /\ IsInjective(s \o <<x>>) <=>
             IsInjective(s) /\ IsInjective(<<x>>) /\ ToSet(s) \cap ToSet(<<x>>) = {}
    BY <1>1, ElementsOfConcat
  <1> QED
    BY <1>1, <1>2, <1>3

LEMMA ElementsOfTail ==
  ASSUME NEW X, NEW s \in Seq(X), s # <<>>
  PROVE  /\ Head(s) \in ToSet(s) /\ Tail(s) \in Seq(X)
         /\ ToSet(s) = {Head(s)} \cup ToSet(Tail(s))
         /\ IsInjective(s) <=> IsInjective(Tail(s)) /\ Head(s) \notin ToSet(Tail(s))
  <1>1. s = <<Head(s)>> \o Tail(s) /\ Head(s) \in X /\ Tail(s) \in Seq(X)
    OBVIOUS
  <1>2. ToSet(<<Head(s)>>) = {Head(s)} /\ IsInjective(<<Head(s)>>)
    BY DEF ToSet, IsInjective
  <1>3. <<Head(s)>> \in Seq(X)
    BY <1>1
  <1>4. /\ ToSet(<<Head(s)>> \o Tail(s)) = ToSet(<<Head(s)>>) \cup ToSet(Tail(s))
        /\ IsInjective(<<Head(s)>> \o Tail(s)) <=>
             /\ IsInjective(<<Head(s)>>) /\ IsInjective(Tail(s))
             /\ ToSet(<<Head(s)>>) \cap ToSet(Tail(s)) = {}
    BY <1>1, <1>3, ElementsOfConcat
  <1> QED
    BY <1>1, <1>2, <1>4

-----------------------------------------------------------------------------
(* Sequences of the elements of a set.                                     *)

LEMMA Enumerates ==
  ASSUME NEW S, IsFiniteSet(S), NEW s \in SetToSeqs(S)
  PROVE  s \in Seq(S) /\ ToSet(s) = S /\ IsInjective(s)
  <1>1. Cardinality(S) \in Nat
    BY FS_CardinalityType
  <1>2. s \in [1..Cardinality(S) -> S] /\ IsInjective(s)
    BY DEF SetToSeqs, IsInjective
  <1>3. s \in Seq(S) /\ DOMAIN s = 1..Cardinality(S)
    BY <1>1, <1>2
  <1>4. IsFiniteSet(1..Cardinality(S)) /\ Cardinality(1..Cardinality(S)) = Cardinality(S)
    BY <1>1, FS_Interval
  <1>5. s \in Injection(1..Cardinality(S), S)
    BY <1>2 DEF Injection
  <1>6. s \in Surjection(1..Cardinality(S), S)
    BY <1>4, <1>5, FS_Injection
  <1>7. ToSet(s) = S
    BY <1>2, <1>3, <1>6 DEF Surjection, ToSet
  <1> QED
    BY <1>2, <1>3, <1>7

\* Finitely many numbers can be put in order.
LEMMA Sorts ==
  ASSUME NEW S \in SUBSET Nat, IsFiniteSet(S)
  PROVE  \E s \in SetToSeqs(S) : \A i, j \in DOMAIN s : i < j => s[i] < s[j]
  <1> DEFINE c == Cardinality(S)
             upTo(x) == {y \in S : y <= x}
             rank == [x \in S |-> Cardinality(upTo(x))]
  <1>1. c \in Nat /\ IsFiniteSet(1..c) /\ Cardinality(1..c) = c
    BY FS_CardinalityType, FS_Interval
  <1>2. ASSUME NEW x \in S
        PROVE  IsFiniteSet(upTo(x)) /\ rank[x] \in 1..c
    <2>1. IsFiniteSet(upTo(x)) /\ Cardinality(upTo(x)) <= c
      BY FS_Subset
    <2>2. upTo(x) # {}
      BY x <= x
    <2>3. Cardinality(upTo(x)) \in Nat /\ Cardinality(upTo(x)) # 0
      BY <2>1, <2>2, FS_EmptySet, FS_CardinalityType
    <2> QED
      BY <2>1, <2>3, <1>1
  <1>3. ASSUME NEW x \in S, NEW y \in S, x < y
        PROVE  rank[x] < rank[y]
    <2>1. upTo(x) \subseteq upTo(y) /\ y \in upTo(y) /\ y \notin upTo(x)
      <3>1. x \in Nat /\ y \in Nat /\ x < y /\ S \subseteq Nat
        BY <1>3
      <3>2. \A z \in S : z \in Nat /\ (z <= x => z <= y)
        BY <3>1
      <3>3. y <= y /\ ~ (y <= x)
        BY <3>1
      <3> QED
        BY <3>2, <3>3
    <2>2. Cardinality(upTo(x)) <= Cardinality(upTo(y))
      BY <2>1, <1>2, FS_Subset
    <2>3. Cardinality(upTo(x)) # Cardinality(upTo(y))
      BY <2>1, <1>2, FS_Subset
    <2> QED
      BY <2>2, <2>3, <1>2
  <1> HIDE DEF rank
  <1>4. rank \in [S -> 1..c]
    BY <1>2 DEF rank
  <1>5. IsInjective(rank)
    <2> SUFFICES ASSUME NEW x \in S, NEW y \in S, rank[x] = rank[y] PROVE x = y
      BY <1>4 DEF IsInjective
    <2>1. x < y \/ y < x \/ x = y
      OBVIOUS
    <2> QED
      BY <2>1, <1>1, <1>3, <1>4
  <1>6. rank \in Injection(S, 1..c)
    BY <1>4, <1>5 DEF Injection
  <1>7. \A i \in 1..c : \E x \in S : rank[x] = i
    <2>1. rank \in Surjection(S, 1..c)
      BY <1>1, <1>6, FS_Injection
    <2> QED
      BY <2>1 DEF Surjection
  <1> DEFINE s == [i \in 1..c |-> CHOOSE x \in S : rank[x] = i]
  <1>8. \A i \in 1..c : s[i] \in S /\ rank[s[i]] = i
    BY <1>7
  <1> HIDE DEF s
  <1>9. s \in [1..c -> S]
    BY <1>8 DEF s
  <1>10. \A i, j \in 1..c : i < j => s[i] < s[j]
    <2> TAKE i, j \in 1..c
    <2> HAVE i < j
    <2>1. s[i] \in S /\ s[j] \in S /\ rank[s[i]] = i /\ rank[s[j]] = j
      BY <1>8
    <2>2. s[i] \in Nat /\ s[j] \in Nat
      BY <2>1
    <2>3. s[i] # s[j]
      BY <2>1
    <2>4. ~ (s[j] < s[i])
      <3>1. s[j] < s[i] => j < i
        BY <2>1, <1>3
      <3> QED
        BY <3>1, <1>1
    <2> QED
      BY <2>2, <2>3, <2>4
  <1>11. s \in SetToSeqs(S)
    BY <1>8, <1>9 DEF SetToSeqs
  <1> QED
    BY <1>9, <1>10, <1>11

-----------------------------------------------------------------------------
(* Sequences of sequences.                                                 *)

\* FlattenSeq satisfies its recursive definition.
LEMMA FlattenDef ==
  ASSUME NEW X, NEW seqs \in Seq(Seq(X)), seqs # <<>>
  PROVE  \E f \in [1..Len(seqs) -> Seq(X)] :
           /\ FlattenSeq(seqs) = f[Len(seqs)]
           /\ \A i \in 1..Len(seqs) :
                f[i] = IF i = 1 THEN seqs[i] ELSE f[i - 1] \o seqs[i]
  <1> DEFINE n == Len(seqs)
             IsPart(g, k) == \A i \in 1..k :
                               g[i] = IF i = 1 THEN seqs[i] ELSE g[i - 1] \o seqs[i]
             HasPart(k) == k <= n => \E g \in [1..k -> Seq(X)] : IsPart(g, k)
  <1>1. n \in Nat \ {0} /\ \A i \in 1..n : seqs[i] \in Seq(X)
    BY EmptySeq, ElementOfSeq
  <1> HIDE DEF n
  <1>2. HasPart(0)
    <2>1. IsPart([i \in 1..0 |-> <<>>], 0) /\ [i \in 1..0 |-> <<>>] \in [1..0 -> Seq(X)]
      OBVIOUS
    <2> QED
      BY <2>1
  <1>3. ASSUME NEW k \in Nat, HasPart(k) PROVE HasPart(k + 1)
    <2> SUFFICES ASSUME k + 1 <= n
                 PROVE  \E g \in [1..(k + 1) -> Seq(X)] : IsPart(g, k + 1)
      OBVIOUS
    <2>1. PICK g \in [1..k -> Seq(X)] : IsPart(g, k)
      <3>1. k <= n
        BY <1>1
      <3> HIDE DEF IsPart
      <3> QED
        BY <3>1, <1>3
    <2>2. seqs[k + 1] \in Seq(X)
      BY <1>1
    <2> DEFINE last == IF k = 0 THEN seqs[k + 1] ELSE g[k] \o seqs[k + 1]
               h == [i \in 1..(k + 1) |-> IF i = k + 1 THEN last ELSE g[i]]
    <2>3. last \in Seq(X)
      <3>1. CASE k = 0
        BY <3>1, <2>2
      <3>2. CASE k # 0
        <4>1. g[k] \in Seq(X)
          BY <3>2
        <4> QED
          BY <3>2, <4>1, <2>2, ConcatProperties
      <3> QED
        BY <3>1, <3>2
    <2> HIDE DEF last
    <2>4. h \in [1..(k + 1) -> Seq(X)]
      BY <2>3
    <2>5. ASSUME NEW i \in 1..(k + 1)
          PROVE  h[i] = IF i = 1 THEN seqs[i] ELSE h[i - 1] \o seqs[i]
      <3>1. CASE i = k + 1
        BY <3>1 DEF last
      <3>2. CASE i # k + 1
        <4>1. i \in 1..k /\ h[i] = g[i] /\ (i # 1 => h[i - 1] = g[i - 1])
          BY <3>2
        <4> QED
          BY <4>1, <2>1
      <3> QED
        BY <3>1, <3>2
    <2> QED
      BY <2>4, <2>5
  <1> HIDE DEF HasPart
  <1>4. \A k \in Nat : HasPart(k)
    <2> DEFINE T == {k \in Nat : HasPart(k)}
    <2>1. 0 \in T /\ \A k \in Nat : k \in T => k + 1 \in T
      BY <1>2, <1>3
    <2> HIDE DEF T
    <2>2. \A k \in Nat : k \in T
      BY <2>1, Induction
    <2> QED
      BY <2>2 DEF T
  <1>5. PICK g \in [1..n -> Seq(X)] : IsPart(g, n)
    <2>1. n \in Nat /\ n <= n
      BY <1>1
    <2> HIDE DEF IsPart
    <2> QED
      BY <2>1, <1>4 DEF HasPart
  <1> DEFINE Next(f) == [i \in 1..Len(seqs) |-> IF i = 1 THEN seqs[i] ELSE f[i - 1] \o seqs[i]]
             flatten == CHOOSE f : f = Next(f)
  <1>6. g = Next(g)
    BY <1>5 DEF n
  <1>7. flatten = Next(flatten)
    BY <1>6
  <1>8. FlattenSeq(seqs) = flatten[Len(seqs)]
    BY <1>1 DEF FlattenSeq, n
  <1> HIDE DEF flatten
  <1> DEFINE Typed(k) == k + 1 <= n => flatten[k + 1] \in Seq(X)
  <1>9. \A i \in 1..n : flatten[i] = IF i = 1 THEN seqs[i] ELSE flatten[i - 1] \o seqs[i]
    BY <1>7 DEF n
  <1>10. Typed(0)
    <2>1. 1 \in 1..n /\ 0 + 1 = 1
      BY <1>1
    <2>2. flatten[1] = seqs[1] /\ seqs[1] \in Seq(X)
      BY <2>1, <1>1, <1>9
    <2> QED
      BY <2>1, <2>2
  <1>11. ASSUME NEW k \in Nat, Typed(k) PROVE Typed(k + 1)
    <2> SUFFICES ASSUME (k + 1) + 1 <= n PROVE flatten[(k + 1) + 1] \in Seq(X)
      OBVIOUS
    <2>1. /\ (k + 1) + 1 \in 1..n /\ (k + 1) + 1 # 1
          /\ ((k + 1) + 1) - 1 = k + 1 /\ k + 1 <= n
      BY <1>1
    <2>2. /\ flatten[(k + 1) + 1] = flatten[k + 1] \o seqs[(k + 1) + 1]
          /\ seqs[(k + 1) + 1] \in Seq(X)
      BY <2>1, <1>1, <1>9
    <2>3. flatten[k + 1] \in Seq(X)
      BY <2>1, <1>11
    <2> QED
      BY <2>2, <2>3, ConcatProperties
  <1> HIDE DEF Typed
  <1>12. \A k \in Nat : Typed(k)
    <2> DEFINE T == {k \in Nat : Typed(k)}
    <2>1. 0 \in T /\ \A k \in Nat : k \in T => k + 1 \in T
      BY <1>10, <1>11
    <2> HIDE DEF T
    <2>2. \A k \in Nat : k \in T
      BY <2>1, Induction
    <2> QED
      BY <2>2 DEF T
  <1>13. \A i \in 1..n : flatten[i] \in Seq(X)
    <2> TAKE i \in 1..n
    <2>1. i - 1 \in Nat /\ (i - 1) + 1 = i /\ i <= n
      BY <1>1
    <2>2. Typed(i - 1)
      BY <1>12, <2>1
    <2> QED
      BY <2>1, <2>2 DEF Typed
  <1>14. flatten \in [1..n -> Seq(X)]
    BY <1>7, <1>13 DEF n
  <1> QED
    BY <1>8, <1>9, <1>14 DEF n

\* The elements of a flattened sequence are those of its parts, and it is without
\* repetition if the parts are and have nothing in common.
LEMMA Flattens ==
  ASSUME NEW X, NEW seqs \in Seq(Seq(X))
  PROVE  /\ FlattenSeq(seqs) \in Seq(X)
         /\ ToSet(FlattenSeq(seqs)) = UNION {ToSet(seqs[i]) : i \in 1..Len(seqs)}
         /\ (\A i \in 1..Len(seqs) : IsInjective(seqs[i]))
              /\ (\A i, j \in 1..Len(seqs) : i # j => ToSet(seqs[i]) \cap ToSet(seqs[j]) = {})
            => IsInjective(FlattenSeq(seqs))
  <1>1. CASE seqs = <<>>
    <2>1. FlattenSeq(seqs) = <<>> /\ 1..Len(seqs) = {}
      BY <1>1 DEF FlattenSeq
    <2>2. ToSet(<<>>) = {} /\ IsInjective(<<>>) /\ <<>> \in Seq(X)
      BY DEF ToSet, IsInjective
    <2> QED
      BY <2>1, <2>2
  <1>2. CASE seqs # <<>>
    <2> DEFINE n == Len(seqs)
               Elements(k) == UNION {ToSet(seqs[i]) : i \in 1..k}
               Apart == /\ \A i \in 1..n : IsInjective(seqs[i])
                        /\ \A i, j \in 1..n : i # j => ToSet(seqs[i]) \cap ToSet(seqs[j]) = {}
    <2>1. n \in Nat \ {0} /\ \A i \in 1..n : seqs[i] \in Seq(X)
      BY <1>2, EmptySeq, ElementOfSeq
    <2>2. PICK f \in [1..n -> Seq(X)] :
            /\ FlattenSeq(seqs) = f[n]
            /\ \A i \in 1..n : f[i] = IF i = 1 THEN seqs[i] ELSE f[i - 1] \o seqs[i]
      BY <1>2, FlattenDef
    <2> DEFINE Flat(k) == k + 1 <= n => /\ ToSet(f[k + 1]) = Elements(k + 1)
                                        /\ Apart => IsInjective(f[k + 1])
    <2> HIDE DEF n
    <2>3. Flat(0)
      <3>1. 1 \in 1..n /\ 1..1 = {1}
        BY <2>1
      <3>2. f[1] = seqs[1]
        BY <2>2, <3>1
      <3>3. ToSet(f[1]) = Elements(1)
        BY <3>1, <3>2
      <3> QED
        BY <3>1, <3>2, <3>3
    <2>4. ASSUME NEW k \in Nat, Flat(k) PROVE Flat(k + 1)
      <3> SUFFICES ASSUME (k + 1) + 1 <= n
                   PROVE  /\ ToSet(f[(k + 1) + 1]) = Elements((k + 1) + 1)
                          /\ Apart => IsInjective(f[(k + 1) + 1])
        BY DEF Flat
      <3>a. /\ k + 2 \in 1..n /\ (k + 1) + 1 = k + 2 /\ k + 2 # 1 /\ (k + 2) - 1 = k + 1
            /\ k + 1 \in 1..n /\ k + 1 <= n
        BY <2>1
      <3>1. f[k + 2] = f[k + 1] \o seqs[k + 2] /\ seqs[k + 2] \in Seq(X) /\ f[k + 1] \in Seq(X)
        BY <3>a, <2>1, <2>2
      <3>2. ToSet(f[k + 1]) = Elements(k + 1) /\ (Apart => IsInjective(f[k + 1]))
        BY <3>a, <2>4 DEF Flat
      <3>3. /\ ToSet(f[k + 2]) = ToSet(f[k + 1]) \cup ToSet(seqs[k + 2])
            /\ IsInjective(f[k + 2]) <=>
                 /\ IsInjective(f[k + 1]) /\ IsInjective(seqs[k + 2])
                 /\ ToSet(f[k + 1]) \cap ToSet(seqs[k + 2]) = {}
        BY <3>1, ElementsOfConcat
      <3>4. Elements(k + 2) = Elements(k + 1) \cup ToSet(seqs[k + 2])
        <4>1. 1..(k + 2) = 1..(k + 1) \cup {k + 2}
          OBVIOUS
        <4> QED
          BY <4>1
      <3>5. Apart => Elements(k + 1) \cap ToSet(seqs[k + 2]) = {} /\ IsInjective(seqs[k + 2])
        <4>1. \A i \in 1..(k + 1) : i \in 1..n /\ i # k + 2
          BY <2>1
        <4>2. k + 2 \in 1..n
          BY <2>1
        <4> QED
          BY <4>1, <4>2
      <3> HIDE DEF Elements, Apart
      <3> QED
        BY <3>a, <3>2, <3>3, <3>4, <3>5
    <2> HIDE DEF Flat
    <2>5. \A k \in Nat : Flat(k)
      <3> DEFINE T == {k \in Nat : Flat(k)}
      <3>1. 0 \in T /\ \A k \in Nat : k \in T => k + 1 \in T
        BY <2>3, <2>4
      <3> HIDE DEF T
      <3>2. \A k \in Nat : k \in T
        BY <3>1, Induction
      <3> QED
        BY <3>2 DEF T
    <2>6. Flat(n - 1) /\ (n - 1) + 1 = n /\ n \in 1..n
      BY <2>1, <2>5
    <2>7. ToSet(f[n]) = Elements(n) /\ (Apart => IsInjective(f[n]))
      <3> HIDE DEF Elements, Apart
      <3> QED
        BY <2>1, <2>6 DEF Flat
    <2>8. f[n] \in Seq(X)
      BY <2>1, <2>2
    <2> QED
      BY <2>2, <2>7, <2>8 DEF n
  <1> QED
    BY <1>1, <1>2

=============================================================================
