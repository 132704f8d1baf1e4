---------------------------- MODULE PromptProofs ----------------------------
(***************************************************************************)
(* Theorems about what is sent to the model: Conversation and              *)
(* RunPreparation, for any transcripts, sizes, windows, rules, attachments *)
(* and histories.                                                          *)
(*                                                                         *)
(* Both are programs over data.  What a sum over a finite set, a flattened *)
(* sequence of sequences or a greedy choice is follows by induction, which *)
(* here is the least element of a set of numbers (Induction): first that a *)
(* function with the rule of the definition exists, then what it gives.    *)
(*                                                                         *)
(* Conversation: the invariant is about the transcript, whose results      *)
(* stand directly behind the call they answer, and about the checkpoint,   *)
(* which ends where such a group ends.  A request is made of units that    *)
(* are flattened, so each of its messages is found at a place of its own.  *)
(*                                                                         *)
(* RunPreparation: items are ordered by rank and place, and the last item  *)
(* that a greedy choice takes is the one whose test bounds them all.       *)
(***************************************************************************)
EXTENDS Conversation, RunPreparation, FiniteSetTheorems, SequenceTheorems, WellFoundedInduction, TLAPS

-----------------------------------------------------------------------------
(* Numbers and finite sets *)

LEMMA LeastExists ==
    ASSUME NEW S \in SUBSET Nat, S # {}
    PROVE  \E n \in S : \A k \in S : n <= k
<1>1. PICK m \in S : \A y \in S : ~(<<y, m>> \in OpToRel(<, Nat))
  BY WFMin, NatLessThanWellFounded
<1>2. \A y \in S : ~(y < m)
  BY <1>1 DEF OpToRel
<1> QED BY <1>2

LEMMA Induction ==
    ASSUME NEW S, 0 \in S, \A n \in Nat : n \in S => n + 1 \in S
    PROVE  Nat \subseteq S
<1> DEFINE T == Nat \ S
<1>1. SUFFICES ASSUME T # {} PROVE FALSE
  OBVIOUS
<1>2. PICK x \in T : \A y \in T : x <= y
  BY <1>1, LeastExists
<1>4. x # 0 /\ x - 1 \in Nat /\ x - 1 \in S
  BY <1>2
<1>5. (x - 1) + 1 \in S
  BY <1>4
<1> QED BY <1>5

LEMMA FunctionSeq ==
    ASSUME NEW S, NEW n \in Nat, NEW f \in [1..n -> S]
    PROVE  f \in Seq(S) /\ Len(f) = n
  OBVIOUS

LEMMA MinOf ==
    ASSUME NEW S \in SUBSET Nat, S # {}
    PROVE  Min(S) \in S /\ \A x \in S : Min(S) <= x
<1>1. PICK m \in S : \A x \in S : m <= x
  BY LeastExists
<1> QED BY <1>1 DEF Min

LEMMA MaxOf ==
    ASSUME NEW n \in Nat, NEW S \in SUBSET (0..n), S # {}
    PROVE  Max(S) \in S /\ \A x \in S : x <= Max(S)
<1> DEFINE T == {n - x : x \in S}
<1>1. T \in SUBSET Nat /\ T # {}
  <2>1. \A x \in S : n - x \in Nat
    OBVIOUS
  <2> QED BY <2>1
<1>2. PICK m \in T : \A k \in T : m <= k
  <2> HIDE DEF T
  <2> QED BY <1>1, LeastExists
<1>3. PICK z \in S : m = n - z
  BY <1>2
<1>4. \A x \in S : z >= x
  <2> SUFFICES ASSUME NEW x \in S PROVE z >= x
    OBVIOUS
  <2>1. n - x \in T
    OBVIOUS
  <2>2. n - z <= n - x
    BY <1>2, <1>3, <2>1
  <2> QED BY <2>2
<1> QED BY <1>4 DEF Max

LEMMA Smaller ==
    ASSUME NEW S, IsFiniteSet(S), NEW T \in SUBSET S, NEW x \in S, x \notin T
    PROVE  Cardinality(T) \in Nat /\ Cardinality(S) \in Nat /\ Cardinality(T) < Cardinality(S) /\ IsFiniteSet(T)
<1>1. IsFiniteSet(T) /\ Cardinality(T) <= Cardinality(S) /\ Cardinality(S) # Cardinality(T)
  BY FS_Subset
<1> QED BY <1>1, FS_CardinalityType

\* Of n or more numbers exactly n have fewer than n before them.
LEMMA FirstOnes ==
    ASSUME NEW A \in SUBSET Nat, IsFiniteSet(A), NEW n \in Nat, n <= Cardinality(A)
    PROVE  Cardinality({i \in A : Cardinality({j \in A : j < i}) < n}) = n
<1> DEFINE Below(i) == {j \in A : j < i}
           Rank(i) == Cardinality(Below(i))
           L(m) == {i \in A : Rank(i) < m}
           K == {m \in Nat : m <= Cardinality(A) => Cardinality(L(m)) = m}
<1>1. \A i \in A : IsFiniteSet(Below(i)) /\ Rank(i) \in Nat
  <2> SUFFICES ASSUME NEW i \in A PROVE IsFiniteSet(Below(i)) /\ Rank(i) \in Nat
    OBVIOUS
  <2>1. Below(i) \in SUBSET A
    OBVIOUS
  <2> HIDE DEF Below
  <2>2. IsFiniteSet(Below(i))
    BY <2>1, FS_Subset
  <2> QED BY <2>2, FS_CardinalityType
<1>0. \A i \in A : Rank(i) \in Nat /\ ~(Rank(i) < 0)
  <2> HIDE DEF Rank
  <2>1. \A i \in A : Rank(i) \in Nat
    BY <1>1
  <2> QED BY <2>1
<1>2. \A i, j \in A : i < j => Rank(i) < Rank(j)
  <2> SUFFICES ASSUME NEW i \in A, NEW j \in A, i < j PROVE Rank(i) < Rank(j)
    OBVIOUS
  <2>0. i \in Nat /\ j \in Nat /\ \A k \in A : k \in Nat
    OBVIOUS
  <2>a. (\A k \in A : k < i => k < j) /\ ~(i < i)
    BY <2>0
  <2>b. \A k \in Below(i) : k \in Below(j)
    BY <2>a
  <2>1. Below(i) \in SUBSET Below(j) /\ i \in Below(j) /\ i \notin Below(i)
    BY <2>a, <2>b
  <2> HIDE DEF Below
  <2> QED BY <1>1, <2>1, Smaller
<1>3. 0 \in K
  <2>1. L(0) = {}
    <3> HIDE DEF Rank
    <3> QED BY <1>0
  <2> QED BY <2>1, FS_EmptySet
<1>4. ASSUME NEW m \in Nat, m \in K PROVE m + 1 \in K
  <2> SUFFICES ASSUME m + 1 <= Cardinality(A) PROVE Cardinality(L(m + 1)) = m + 1
    OBVIOUS
  <2>0. Cardinality(A) \in Nat
    BY FS_CardinalityType
  <2>1. Cardinality(L(m)) = m
    BY <1>4, <2>0
  <2>2. IsFiniteSet(L(m)) /\ L(m) \in SUBSET A
    BY FS_Subset
  <2>3. A \ L(m) # {}
    <3> SUFFICES ASSUME A \ L(m) = {} PROVE FALSE
      OBVIOUS
    <3>1. A = L(m)
      OBVIOUS
    <3>2. Cardinality(A) = m
      BY <2>1, <3>1
    <3> QED BY <2>0, <3>2
  <2>4. PICK a \in A \ L(m) : \A b \in A \ L(m) : a <= b
    <3>1. A \ L(m) \in SUBSET Nat
      OBVIOUS
    <3> HIDE DEF L
    <3> QED BY <2>3, <3>1, LeastExists
  <2>5. a \in A /\ a \in Nat /\ Rank(a) \in Nat /\ ~(Rank(a) < m)
    <3> HIDE DEF Rank
    <3> QED BY <1>1
  <2>6. Below(a) = L(m)
    <3>1. ASSUME NEW j \in Below(a) PROVE j \in L(m)
      <4>1. j \in A /\ j \in Nat /\ ~(a <= j)
        BY <2>5
      <4> HIDE DEF L, Below
      <4> QED BY <2>4, <4>1
    <3>2. ASSUME NEW j \in L(m) PROVE j \in Below(a)
      <4>1. j \in A /\ j \in Nat /\ Rank(j) < m /\ Rank(j) \in Nat
        <5> HIDE DEF Rank
        <5> QED BY <1>1
      <4>2. ~(a < j) /\ a # j
        <5>1. ASSUME a < j PROVE FALSE
          <6>1. Rank(a) < Rank(j)
            BY <1>2, <2>5, <4>1, <5>1
          <6> HIDE DEF Rank
          <6> QED BY <2>5, <4>1, <6>1
        <5>2. a # j
          <6> HIDE DEF Rank
          <6> QED BY <2>5, <4>1
        <5> QED BY <5>1, <5>2
      <4> QED BY <2>5, <4>1, <4>2
    <3> QED BY <3>1, <3>2
  <2>7. Rank(a) = m
    BY <2>1, <2>6
  <2>8. L(m + 1) = L(m) \cup {a}
    <3>1. ASSUME NEW x \in L(m + 1), x \notin L(m) PROVE x = a
      <4>1. x \in A /\ x \in Nat /\ Rank(x) < m + 1 /\ Rank(x) \in Nat /\ a <= x
        <5>1. x \in A
          OBVIOUS
        <5>2. a <= x
          <6> HIDE DEF L
          <6> QED BY <2>4, <3>1, <5>1
        <5> HIDE DEF Rank
        <5> QED BY <1>1, <5>1, <5>2
      <4>2. ASSUME a < x PROVE FALSE
        <5>1. m < Rank(x)
          <6>1. Rank(a) < Rank(x)
            BY <1>2, <2>5, <4>1, <4>2
          <6> HIDE DEF Rank
          <6> QED BY <2>7, <6>1
        <5> HIDE DEF Rank
        <5> QED BY <4>1, <5>1
      <4> QED BY <2>5, <4>1, <4>2
    <3>2. a \in L(m + 1)
      <4> HIDE DEF Rank
      <4> QED BY <2>5, <2>7
    <3>3. L(m) \in SUBSET L(m + 1)
      <4> SUFFICES ASSUME NEW x \in L(m) PROVE x \in L(m + 1)
        OBVIOUS
      <4>1. x \in A /\ Rank(x) < m
        OBVIOUS
      <4> HIDE DEF Rank
      <4>2. Rank(x) \in Nat
        BY <1>0, <4>1
      <4> QED BY <4>1, <4>2
    <3> HIDE DEF L
    <3> QED BY <3>1, <3>2, <3>3
  <2>9. a \notin L(m)
    OBVIOUS
  <2> HIDE DEF L
  <2>10. Cardinality(L(m) \cup {a}) = Cardinality(L(m)) + 1
    BY <2>2, <2>9, FS_AddElement
  <2> QED BY <2>1, <2>8, <2>10
<1>5. n \in K
  <2>1. Nat \subseteq K
    <3> HIDE DEF K
    <3> QED BY <1>3, <1>4, Induction
  <2> HIDE DEF K
  <2> QED BY <2>1
<1> QED BY <1>5

-----------------------------------------------------------------------------
(* Sums over finite sets *)

\* The rule that a sum over the subsets of S follows.
SumRule(f, S, g) ==
    g = [s \in SUBSET S |->
           IF s = {} THEN 0 ELSE f[CHOOSE x \in s : TRUE] + g[s \ {CHOOSE x \in s : TRUE}]]

LEMMA SumChoice == ASSUME NEW f, NEW S PROVE SumFunctionOnSet(f, S) = (CHOOSE g : SumRule(f, S, g))[S]
  BY DEF SumFunctionOnSet, FoldFunctionOnSet, MapThenFoldSet, SumRule

\* The subsets of S with at most k elements.
SumDomain(S, k) == {s \in SUBSET S : Cardinality(s) <= k}
SumPart(f, S, k, g) ==
    g = [s \in SumDomain(S, k) |->
           IF s = {} THEN 0 ELSE f[CHOOSE x \in s : TRUE] + g[s \ {CHOOSE x \in s : TRUE}]]

LEMMA SmallerSubset ==
    ASSUME NEW S, IsFiniteSet(S), NEW s \in SUBSET S, s # {}
    PROVE  LET x == CHOOSE x \in s : TRUE
           IN /\ x \in s /\ s \ {x} \in SUBSET S
              /\ Cardinality(s) \in Nat /\ Cardinality(s \ {x}) = Cardinality(s) - 1
<1> DEFINE x == CHOOSE x \in s : TRUE
<1>1. x \in s
  OBVIOUS
<1> HIDE DEF x
<1>2. IsFiniteSet(s)
  BY FS_Subset
<1>3. Cardinality(s) \in Nat /\ Cardinality(s \ {x}) = Cardinality(s) - 1
  BY <1>1, <1>2, FS_RemoveElement, FS_CardinalityType
<1> QED BY <1>1, <1>3 DEF x

LEMMA SumExists ==
    ASSUME NEW f, NEW S, IsFiniteSet(S)
    PROVE  \E g : SumRule(f, S, g)
<1> DEFINE K == {k \in Nat : \E g : SumPart(f, S, k, g)}
<1>1. 0 \in K
  <2> DEFINE g == [s \in SumDomain(S, 0) |-> 0]
  <2>1. \A s \in SumDomain(S, 0) : s = {}
    <3> SUFFICES ASSUME NEW s \in SumDomain(S, 0) PROVE s = {}
      OBVIOUS
    <3>1. IsFiniteSet(s) /\ Cardinality(s) <= 0
      BY FS_Subset DEF SumDomain
    <3> QED BY <3>1, FS_CardinalityType, FS_EmptySet
  <2>2. SumPart(f, S, 0, g)
    BY <2>1 DEF SumPart
  <2> QED BY <2>2
<1>2. ASSUME NEW k \in Nat, k \in K PROVE k + 1 \in K
  <2>1. PICK g : SumPart(f, S, k, g)
    BY <1>2
  <2> DEFINE c(s) == CHOOSE x \in s : TRUE
             h == [s \in SumDomain(S, k + 1) |-> IF Cardinality(s) <= k THEN g[s] ELSE f[c(s)] + g[s \ {c(s)}]]
             r == [s \in SumDomain(S, k + 1) |-> IF s = {} THEN 0 ELSE f[c(s)] + h[s \ {c(s)}]]
  <2>2. ASSUME NEW s \in SumDomain(S, k + 1) PROVE h[s] = r[s]
    <3>1. s \in SUBSET S /\ Cardinality(s) <= k + 1
      BY DEF SumDomain
    <3>2. CASE s = {}
      <4>1. Cardinality(s) = 0
        BY <3>2, FS_EmptySet
      <4>2. s \in SumDomain(S, k) /\ g[s] = 0
        BY <2>1, <3>1, <3>2, <4>1 DEF SumDomain, SumPart
      <4> QED BY <3>2, <4>1, <4>2
    <3>3. CASE s # {}
      <4>1. c(s) \in s /\ s \ {c(s)} \in SUBSET S /\ Cardinality(s) \in Nat
            /\ Cardinality(s \ {c(s)}) = Cardinality(s) - 1
        BY <3>1, <3>3, SmallerSubset
      <4> DEFINE t == s \ {c(s)}
      <4>2. t \in SumDomain(S, k) /\ t \in SumDomain(S, k + 1) /\ Cardinality(t) <= k
        BY <3>1, <4>1 DEF SumDomain
      <4>3. h[t] = g[t]
        BY <4>2
      <4>4. CASE Cardinality(s) <= k
        <5>1. s \in SumDomain(S, k)
          BY <3>1, <4>4 DEF SumDomain
        <5>2. g[s] = f[c(s)] + g[t]
          BY <2>1, <3>3, <5>1 DEF SumPart
        <5> QED BY <3>3, <4>3, <4>4, <5>2
      <4>5. CASE ~(Cardinality(s) <= k)
        BY <3>3, <4>3, <4>5
      <4> QED BY <4>4, <4>5
    <3> QED BY <3>2, <3>3
  <2>3. h = r
    BY <2>2
  <2>4. SumPart(f, S, k + 1, h)
    BY <2>3 DEF SumPart
  <2> QED BY <2>4
<1>3. Nat \subseteq K
  <2> HIDE DEF K
  <2> QED BY <1>1, <1>2, Induction
<1>4. Cardinality(S) \in Nat
  BY FS_CardinalityType
<1>5. PICK g : SumPart(f, S, Cardinality(S), g)
  BY <1>3, <1>4
<1>6. SumDomain(S, Cardinality(S)) = SUBSET S
  BY FS_Subset DEF SumDomain
<1> QED BY <1>5, <1>6 DEF SumPart, SumRule

LEMMA OneLess ==
    ASSUME NEW S, IsFiniteSet(S), NEW x \in S, NEW k \in Nat, Cardinality(S) = k + 1
    PROVE  Cardinality(S \ {x}) = k
<1>1. Cardinality(S \ {x}) = Cardinality(S) - 1
  BY FS_RemoveElement
<1> QED BY <1>1

LEMMA SumAgree ==
    ASSUME NEW f, NEW S, IsFiniteSet(S), NEW T \in SUBSET S, NEW g, NEW h, SumRule(f, S, g), SumRule(f, T, h)
    PROVE  g[T] = h[T]
<1> DEFINE K == {k \in Nat : \A s \in SUBSET T : Cardinality(s) <= k => g[s] = h[s]}
           c(s) == CHOOSE x \in s : TRUE
<1>1. 0 \in K
  <2> SUFFICES ASSUME NEW s \in SUBSET T, Cardinality(s) <= 0 PROVE g[s] = h[s]
    OBVIOUS
  <2>1. s = {}
    BY FS_Subset, FS_CardinalityType, FS_EmptySet
  <2> QED BY <2>1 DEF SumRule
<1>2. ASSUME NEW k \in Nat, k \in K PROVE k + 1 \in K
  <2> SUFFICES ASSUME NEW s \in SUBSET T, Cardinality(s) <= k + 1 PROVE g[s] = h[s]
    OBVIOUS
  <2>1. CASE s = {}
    BY <2>1 DEF SumRule
  <2>2. CASE s # {}
    <3>1. c(s) \in s /\ s \ {c(s)} \in SUBSET T /\ Cardinality(s) \in Nat
          /\ Cardinality(s \ {c(s)}) = Cardinality(s) - 1
      BY <2>2, FS_Subset, SmallerSubset
    <3>2. g[s \ {c(s)}] = h[s \ {c(s)}]
      BY <1>2, <3>1
    <3>3. g[s] = f[c(s)] + g[s \ {c(s)}]
      BY <2>2 DEF SumRule
    <3>4. h[s] = f[c(s)] + h[s \ {c(s)}]
      BY <2>2 DEF SumRule
    <3> QED BY <3>2, <3>3, <3>4
  <2> QED BY <2>1, <2>2
<1>3. Nat \subseteq K
  <2> HIDE DEF K
  <2> QED BY <1>1, <1>2, Induction
<1>4. Cardinality(T) \in Nat
  BY FS_Subset, FS_CardinalityType
<1> QED BY <1>3, <1>4

LEMMA SumEmpty == \A f : SumFunctionOnSet(f, {}) = 0
<1> SUFFICES ASSUME NEW f PROVE SumFunctionOnSet(f, {}) = 0
  OBVIOUS
<1> DEFINE g == CHOOSE z : SumRule(f, {}, z)
<1>1. SumRule(f, {}, g)
  BY SumExists, FS_EmptySet
<1>2. SumFunctionOnSet(f, {}) = g[{}]
  BY SumChoice
<1> QED BY <1>1, <1>2 DEF SumRule

LEMMA SumStep ==
    ASSUME NEW f, NEW S, IsFiniteSet(S), S # {}
    PROVE  \E x \in S : SumFunctionOnSet(f, S) = f[x] + SumFunctionOnSet(f, S \ {x})
<1> DEFINE x == CHOOSE x \in S : TRUE
           g == CHOOSE z : SumRule(f, S, z)
           h == CHOOSE z : SumRule(f, S \ {x}, z)
<1>1. x \in S
  OBVIOUS
<1>2. SumRule(f, S, g) /\ SumFunctionOnSet(f, S) = g[S]
  BY SumExists, SumChoice
<1>3. IsFiniteSet(S \ {x})
  BY FS_Subset
<1>4. SumRule(f, S \ {x}, h) /\ SumFunctionOnSet(f, S \ {x}) = h[S \ {x}]
  BY <1>3, SumExists, SumChoice
<1>5. g[S] = f[x] + g[S \ {x}]
  BY <1>2 DEF SumRule
<1>6. g[S \ {x}] = h[S \ {x}]
  <2> HIDE DEF g, h, x
  <2> QED BY <1>2, <1>4, SumAgree
<1> QED BY <1>1, <1>2, <1>4, <1>5, <1>6

LEMMA SumType ==
    ASSUME NEW f, NEW S, IsFiniteSet(S), \A x \in S : f[x] \in Nat
    PROVE  SumFunctionOnSet(f, S) \in Nat
<1> DEFINE K == {k \in Nat : \A s \in SUBSET S : Cardinality(s) = k => SumFunctionOnSet(f, s) \in Nat}
<1>1. 0 \in K
  BY FS_Subset, FS_EmptySet, SumEmpty
<1>2. ASSUME NEW k \in Nat, k \in K PROVE k + 1 \in K
  <2> SUFFICES ASSUME NEW s \in SUBSET S, Cardinality(s) = k + 1 PROVE SumFunctionOnSet(f, s) \in Nat
    OBVIOUS
  <2>1. IsFiniteSet(s) /\ s # {}
    BY FS_Subset, FS_EmptySet
  <2>2. PICK x \in s : SumFunctionOnSet(f, s) = f[x] + SumFunctionOnSet(f, s \ {x})
    BY <2>1, SumStep
  <2>3. Cardinality(s \ {x}) = k
    BY <2>1, OneLess
  <2>4. SumFunctionOnSet(f, s \ {x}) \in Nat
    BY <1>2, <2>3
  <2> QED BY <2>2, <2>4
<1>3. Nat \subseteq K
  <2> HIDE DEF K
  <2> QED BY <1>1, <1>2, Induction
<1> QED BY <1>3, FS_CardinalityType

LEMMA SumRemove ==
    ASSUME NEW f, NEW S, IsFiniteSet(S), \A x \in S : f[x] \in Nat, NEW a \in S
    PROVE  SumFunctionOnSet(f, S) = f[a] + SumFunctionOnSet(f, S \ {a})
<1> DEFINE K == {k \in Nat : \A s \in SUBSET S : Cardinality(s) = k =>
                   \A b \in s : SumFunctionOnSet(f, s) = f[b] + SumFunctionOnSet(f, s \ {b})}
<1>1. 0 \in K
  BY FS_Subset, FS_EmptySet
<1>2. ASSUME NEW k \in Nat, k \in K PROVE k + 1 \in K
  <2> SUFFICES ASSUME NEW s \in SUBSET S, Cardinality(s) = k + 1, NEW b \in s
               PROVE  SumFunctionOnSet(f, s) = f[b] + SumFunctionOnSet(f, s \ {b})
    OBVIOUS
  <2>1. IsFiniteSet(s)
    BY FS_Subset
  <2>2. PICK x \in s : SumFunctionOnSet(f, s) = f[x] + SumFunctionOnSet(f, s \ {x})
    BY <2>1, SumStep
  <2>3. CASE x # b
    <3>1. Cardinality(s \ {x}) = k /\ Cardinality(s \ {b}) = k
      BY <2>1, OneLess
    <3> DEFINE r == (s \ {x}) \ {b}
    <3>2. SumFunctionOnSet(f, s \ {x}) = f[b] + SumFunctionOnSet(f, r)
      BY <1>2, <2>3, <3>1
    <3>3. (s \ {b}) \ {x} = r
      OBVIOUS
    <3>4. SumFunctionOnSet(f, s \ {b}) = f[x] + SumFunctionOnSet(f, r)
      BY <1>2, <2>3, <3>1, <3>3
    <3>5. SumFunctionOnSet(f, r) \in Nat
      BY <2>1, FS_Subset, SumType
    <3> QED BY <2>2, <3>2, <3>4, <3>5
  <2> QED BY <2>2, <2>3
<1>3. Nat \subseteq K
  <2> HIDE DEF K
  <2> QED BY <1>1, <1>2, Induction
<1> QED BY <1>3, FS_CardinalityType

LEMMA SumAdd ==
    ASSUME NEW f, NEW S, IsFiniteSet(S), NEW a, a \notin S, \A x \in S \cup {a} : f[x] \in Nat
    PROVE  SumFunctionOnSet(f, S \cup {a}) = f[a] + SumFunctionOnSet(f, S)
<1>1. IsFiniteSet(S \cup {a}) /\ (S \cup {a}) \ {a} = S
  BY FS_AddElement
<1> QED BY <1>1, SumRemove

LEMMA SumUnion ==
    ASSUME NEW f, NEW S, IsFiniteSet(S), NEW T, IsFiniteSet(T), S \cap T = {}, \A x \in S \cup T : f[x] \in Nat
    PROVE  SumFunctionOnSet(f, S \cup T) = SumFunctionOnSet(f, S) + SumFunctionOnSet(f, T)
<1> DEFINE K == {k \in Nat : \A t \in SUBSET T : Cardinality(t) = k =>
                   SumFunctionOnSet(f, S \cup t) = SumFunctionOnSet(f, S) + SumFunctionOnSet(f, t)}
<1>0. SumFunctionOnSet(f, S) \in Nat
  BY SumType
<1>1. 0 \in K
  <2> SUFFICES ASSUME NEW t \in SUBSET T, Cardinality(t) = 0
               PROVE  SumFunctionOnSet(f, S \cup t) = SumFunctionOnSet(f, S) + SumFunctionOnSet(f, t)
    OBVIOUS
  <2>1. t = {} /\ S \cup t = S
    BY FS_Subset, FS_EmptySet
  <2> QED BY <1>0, <2>1, SumEmpty
<1>2. ASSUME NEW k \in Nat, k \in K PROVE k + 1 \in K
  <2> SUFFICES ASSUME NEW t \in SUBSET T, Cardinality(t) = k + 1
               PROVE  SumFunctionOnSet(f, S \cup t) = SumFunctionOnSet(f, S) + SumFunctionOnSet(f, t)
    OBVIOUS
  <2>1. IsFiniteSet(t) /\ t # {}
    BY FS_Subset, FS_EmptySet
  <2>2. PICK a \in t : TRUE
    BY <2>1
  <2> DEFINE r == t \ {a}
  <2>3. r \in SUBSET T /\ Cardinality(r) = k /\ IsFiniteSet(r)
    BY <2>1, OneLess, FS_Subset
  <2>4. SumFunctionOnSet(f, S \cup r) = SumFunctionOnSet(f, S) + SumFunctionOnSet(f, r)
    BY <1>2, <2>3
  <2>5. IsFiniteSet(S \cup r) /\ a \notin S \cup r /\ (S \cup r) \cup {a} = S \cup t
    BY <2>3, FS_Union
  <2>6. \A x \in (S \cup r) \cup {a} : f[x] \in Nat
    BY <2>5
  <2>7. SumFunctionOnSet(f, S \cup t) = f[a] + SumFunctionOnSet(f, S \cup r)
    BY <2>5, <2>6, SumAdd
  <2>8. SumFunctionOnSet(f, t) = f[a] + SumFunctionOnSet(f, r)
    BY <2>1, SumRemove
  <2>9. SumFunctionOnSet(f, r) \in Nat /\ f[a] \in Nat
    BY <2>3, SumType
  <2> QED BY <1>0, <2>4, <2>7, <2>8, <2>9
<1>3. Nat \subseteq K
  <2> HIDE DEF K
  <2> QED BY <1>1, <1>2, Induction
<1>4. Cardinality(T) \in Nat
  BY FS_CardinalityType
<1> QED BY <1>3, <1>4

LEMMA SumMonotone ==
    ASSUME NEW f, NEW S, IsFiniteSet(S), NEW T \in SUBSET S, \A x \in S : f[x] \in Nat
    PROVE  SumFunctionOnSet(f, T) <= SumFunctionOnSet(f, S)
<1>1. IsFiniteSet(T) /\ IsFiniteSet(S \ T) /\ T \cup (S \ T) = S
  BY FS_Subset
<1>2. SumFunctionOnSet(f, S) = SumFunctionOnSet(f, T) + SumFunctionOnSet(f, S \ T)
  BY <1>1, SumUnion
<1>3. SumFunctionOnSet(f, T) \in Nat /\ SumFunctionOnSet(f, S \ T) \in Nat
  BY <1>1, SumType
<1> QED BY <1>2, <1>3

LEMMA SumSame ==
    ASSUME NEW f, NEW g, NEW S, IsFiniteSet(S), \A x \in S : f[x] \in Nat /\ f[x] = g[x]
    PROVE  SumFunctionOnSet(f, S) = SumFunctionOnSet(g, S)
<1> DEFINE K == {k \in Nat : \A s \in SUBSET S : Cardinality(s) = k => SumFunctionOnSet(f, s) = SumFunctionOnSet(g, s)}
<1>1. 0 \in K
  BY FS_Subset, FS_EmptySet, SumEmpty
<1>2. ASSUME NEW k \in Nat, k \in K PROVE k + 1 \in K
  <2> SUFFICES ASSUME NEW s \in SUBSET S, Cardinality(s) = k + 1
               PROVE  SumFunctionOnSet(f, s) = SumFunctionOnSet(g, s)
    OBVIOUS
  <2>1. IsFiniteSet(s) /\ s # {}
    BY FS_Subset, FS_EmptySet
  <2>2. PICK a \in s : TRUE
    BY <2>1
  <2>3. Cardinality(s \ {a}) = k
    BY <2>1, OneLess
  <2>4. SumFunctionOnSet(f, s \ {a}) = SumFunctionOnSet(g, s \ {a})
    BY <1>2, <2>3
  <2> QED BY <2>1, <2>4, SumRemove
<1>3. Nat \subseteq K
  <2> HIDE DEF K
  <2> QED BY <1>1, <1>2, Induction
<1> QED BY <1>3, FS_CardinalityType

-----------------------------------------------------------------------------
(* Sequences of sequences *)

\* The rule of FlattenSeq.
FlatRule(ss, n, f) == f = [i \in 1..n |-> IF i = 1 THEN ss[i] ELSE f[i - 1] \o ss[i]]

LEMMA FlatExists ==
    ASSUME NEW ss, NEW n \in Nat
    PROVE  \E f : FlatRule(ss, n, f)
<1> DEFINE K == {k \in Nat : \E f : FlatRule(ss, k, f)}
<1>1. 0 \in K
  <2> DEFINE f == [i \in 1..0 |-> 0]
             r == [i \in 1..0 |-> IF i = 1 THEN ss[i] ELSE f[i - 1] \o ss[i]]
  <2>1. f = r
    OBVIOUS
  <2>2. FlatRule(ss, 0, f)
    BY <2>1 DEF FlatRule
  <2> QED BY <2>2
<1>2. ASSUME NEW k \in Nat, k \in K PROVE k + 1 \in K
  <2>1. PICK f : FlatRule(ss, k, f)
    BY <1>2
  <2> DEFINE h == [i \in 1..(k + 1) |-> IF i <= k THEN f[i] ELSE IF i = 1 THEN ss[i] ELSE f[i - 1] \o ss[i]]
             r == [i \in 1..(k + 1) |-> IF i = 1 THEN ss[i] ELSE h[i - 1] \o ss[i]]
  <2>2. ASSUME NEW i \in 1..(k + 1) PROVE h[i] = r[i]
    <3>1. CASE i = 1
      BY <2>1, <3>1 DEF FlatRule
    <3>2. CASE i # 1
      <4>1. i - 1 \in 1..(k + 1) /\ i - 1 <= k /\ h[i - 1] = f[i - 1]
        BY <3>2
      <4>2. r[i] = f[i - 1] \o ss[i]
        BY <3>2, <4>1
      <4>3. CASE i <= k
        <5> i \in 1..k
          BY <4>3
        <5>1. f[i] = f[i - 1] \o ss[i]
          <6> HIDE DEF h, r
          <6> QED BY <2>1, <3>2 DEF FlatRule
        <5> QED BY <4>2, <4>3, <5>1
      <4>4. CASE ~(i <= k)
        BY <3>2, <4>2, <4>4
      <4> QED BY <4>3, <4>4
    <3> QED BY <3>1, <3>2
  <2>3. h = r
    BY <2>2
  <2>4. FlatRule(ss, k + 1, h)
    BY <2>3 DEF FlatRule
  <2> QED BY <2>4
<1>3. Nat \subseteq K
  <2> HIDE DEF K
  <2> QED BY <1>1, <1>2, Induction
<1> QED BY <1>3

\* The members of s stand in q one after another from behind place p.
Block(q, s, p) == p \in Nat /\ p + Len(s) <= Len(q) /\ \A m \in 1..Len(s) : q[p + m] = s[m]

LEMMA BlockStays ==
    ASSUME NEW S, NEW q \in Seq(S), NEW r \in Seq(S), NEW s \in Seq(S), NEW p, Block(q, s, p)
    PROVE  Block(q \o r, s, p)
  BY ConcatProperties DEF Block

LEMMA BlockAdded ==
    ASSUME NEW S, NEW q \in Seq(S), NEW s \in Seq(S)
    PROVE  Block(q \o s, s, Len(q))
  BY ConcatProperties DEF Block

LEMMA BlockAlone ==
    ASSUME NEW S, NEW s \in Seq(S)
    PROVE  Block(s, s, 0)
  BY DEF Block

\* What FlattenSeq makes of sequences: each of them stands in it, and each place is in one.
LEMMA FlattenBlocks ==
    ASSUME NEW S, NEW ss \in Seq(Seq(S))
    PROVE  /\ FlattenSeq(ss) \in Seq(S)
           /\ \A k \in 1..Len(ss) : \E p \in Nat : Block(FlattenSeq(ss), ss[k], p)
           /\ \A i \in 1..Len(FlattenSeq(ss)) : \E k \in 1..Len(ss), p \in Nat :
                 Block(FlattenSeq(ss), ss[k], p) /\ p < i /\ i <= p + Len(ss[k])
<1>1. CASE Len(ss) = 0
  <2>1. ss = <<>> /\ FlattenSeq(ss) = <<>>
    BY <1>1, EmptySeq DEF FlattenSeq
  <2>2. <<>> \in Seq(S) /\ Len(<<>>) = 0
    BY EmptySeq
  <2>3. FlattenSeq(ss) \in Seq(S)
    BY <2>1, <2>2
  <2>4. Len(FlattenSeq(ss)) = 0
    BY <2>1, <2>2
  <2>5. \A i \in 1..0 : FALSE
    OBVIOUS
  <2> QED BY <1>1, <2>3, <2>4, <2>5
<1>2. CASE Len(ss) # 0
  <2> DEFINE n == Len(ss)
             f == CHOOSE z : FlatRule(ss, n, z)
             Holds(k) == /\ f[k] \in Seq(S)
                         /\ \A j \in 1..k : \E p \in Nat : Block(f[k], ss[j], p)
                         /\ \A i \in 1..Len(f[k]) : \E j \in 1..k, p \in Nat :
                               Block(f[k], ss[j], p) /\ p < i /\ i <= p + Len(ss[j])
             K == {k \in Nat : k + 1 <= n => Holds(k + 1)}
  <2>1. n \in Nat /\ n >= 1 /\ \A k \in 1..n : ss[k] \in Seq(S)
    BY <1>2, ElementOfSeq
  <2>2. FlatRule(ss, n, f)
    BY <2>1, FlatExists
  <2>3. FlattenSeq(ss) = f[n]
    BY <1>2 DEF FlattenSeq, FlatRule
  <2> HIDE DEF n, f
  <2>4. 0 \in K
    <3>1. f[1] = ss[1] /\ ss[1] \in Seq(S)
      BY <2>1, <2>2 DEF FlatRule
    <3>2. Block(f[1], ss[1], 0)
      BY <3>1, BlockAlone
    <3>3. 0 + Len(ss[1]) = Len(f[1])
      BY <3>1
    <3>4. Holds(1)
      BY <3>1, <3>2, <3>3
    <3> QED BY <3>4
  <2>5. ASSUME NEW k \in Nat, k \in K PROVE k + 1 \in K
    <3> SUFFICES ASSUME k + 2 <= n PROVE Holds(k + 2)
      OBVIOUS
    <3> DEFINE q == f[k + 1]
               s == ss[k + 2]
    <3>1. /\ q \in Seq(S)
          /\ \A j \in 1..(k + 1) : \E p \in Nat : Block(q, ss[j], p)
          /\ \A i \in 1..Len(q) : \E j \in 1..(k + 1), p \in Nat : Block(q, ss[j], p) /\ p < i /\ i <= p + Len(ss[j])
      <4>1. Holds(k + 1)
        BY <2>1, <2>5
      <4> QED BY <4>1
    <3>2. f[k + 2] = q \o s /\ s \in Seq(S) /\ q \in Seq(S)
      <4>1. k + 2 \in 1..n /\ k + 2 # 1 /\ (k + 2) - 1 = k + 1
        BY <2>1
      <4>2. f[k + 2] = f[(k + 2) - 1] \o ss[k + 2]
        BY <2>2, <4>1 DEF FlatRule
      <4> QED BY <2>1, <3>1, <4>1, <4>2
    <3> HIDE DEF q
    <3>3. q \o s \in Seq(S) /\ Len(q \o s) = Len(q) + Len(s) /\ Len(q) \in Nat /\ Len(s) \in Nat
      BY <3>2, ConcatProperties
    <3>4. ASSUME NEW j \in 1..(k + 2) PROVE \E p \in Nat : Block(q \o s, ss[j], p)
      <4>1. CASE j = k + 2
        BY <3>2, <3>3, <4>1, BlockAdded
      <4>2. CASE j # k + 2
        <5>1. j \in 1..(k + 1) /\ ss[j] \in Seq(S)
          BY <2>1, <4>2
        <5>2. PICK p \in Nat : Block(q, ss[j], p)
          BY <3>1, <5>1
        <5>3. Block(q \o s, ss[j], p)
          BY <3>2, <5>1, <5>2, BlockStays
        <5> QED BY <5>3
      <4> QED BY <4>1, <4>2
    <3>5. ASSUME NEW i \in 1..Len(q \o s)
          PROVE  \E j \in 1..(k + 2), p \in Nat : Block(q \o s, ss[j], p) /\ p < i /\ i <= p + Len(ss[j])
      <4>1. CASE i <= Len(q)
        <5>1. PICK j \in 1..(k + 1), p \in Nat : Block(q, ss[j], p) /\ p < i /\ i <= p + Len(ss[j])
          BY <3>1, <3>3, <4>1
        <5>2. ss[j] \in Seq(S) /\ j \in 1..(k + 2)
          BY <2>1
        <5>3. Block(q \o s, ss[j], p)
          BY <3>2, <5>1, <5>2, BlockStays
        <5> QED BY <5>1, <5>2, <5>3
      <4>2. CASE ~(i <= Len(q))
        <5>1. Block(q \o s, s, Len(q)) /\ Len(q) < i /\ i <= Len(q) + Len(s)
          <6> HIDE DEF s
          <6>1. Block(q \o s, s, Len(q))
            BY <3>2, BlockAdded
          <6> QED BY <3>3, <4>2, <6>1
        <5>2. k + 2 \in 1..(k + 2)
          OBVIOUS
        <5> QED BY <3>3, <5>1, <5>2
      <4> QED BY <4>1, <4>2
    <3> QED BY <3>2, <3>3, <3>4, <3>5
  <2>6. Nat \subseteq K
    <3> HIDE DEF K
    <3> QED BY <2>4, <2>5, Induction
  <2>7. Holds(n)
    <3>1. n - 1 \in K /\ (n - 1) + 1 = n
      <4> HIDE DEF K
      <4>1. n - 1 \in Nat /\ (n - 1) + 1 = n
        BY <2>1
      <4> QED BY <2>6, <4>1
    <3>2. n <= n
      BY <2>1
    <3> QED BY <3>1, <3>2
  <2> QED BY <2>3, <2>7 DEF n
<1> QED BY <1>1, <1>2

-----------------------------------------------------------------------------
(* The transcript and its checkpoint *)

\* What stands in the transcript: the results of a call directly behind the message that made it.
ConGroups ==
    \A i \in 1..Len(conMessages) :
        /\ conMessages[i].at = i /\ conMessages[i].role # "checkpoint" /\ conMessages[i].calls \in ConCalls
        /\ conMessages[i].role # "assistant" => conMessages[i].calls = <<>>
        /\ conMessages[i].role = "result" =>
              /\ conMessages[i].of \in 1..(i - 1) /\ i = conMessages[i].of + conMessages[i].k
              /\ conMessages[conMessages[i].of].role = "assistant"
              /\ conMessages[i].k \in 1..Len(conMessages[conMessages[i].of].calls)
              /\ \A j \in (conMessages[i].of + 1)..i : conMessages[j].role = "result"

\* The checkpoint stands for less than all, ends where a group does and names the latest of it.
ConCovered ==
    /\ conState.upTo < Len(conMessages) /\ conMessages[conState.upTo + 1].role # "result"
    /\ Len(conState.refs) = IF conState.upTo < ConMaxRefs THEN conState.upTo ELSE ConMaxRefs
    /\ \A j \in 1..Len(conState.refs) : conState.refs[j] = conState.upTo - Len(conState.refs) + j

ConAsking == conPhase = "tools" => conMessages[Len(conMessages)].role = "assistant"

ConInv == ConTypeOK /\ ConGroups /\ ConCovered /\ ConAsking /\ ConPaired /\ ConNothingBetween

LEMMA ConTokensType ==
    ASSUME NEW msgs \in Seq(ConMessage)
    PROVE  ConTokens(msgs) \in Nat
<1> DEFINE f == [i \in 1..Len(msgs) |-> msgs[i].size]
<1>1. IsFiniteSet(1..Len(msgs)) /\ DOMAIN f = 1..Len(msgs)
  BY FS_Interval, LenProperties
<1>2. \A x \in 1..Len(msgs) : f[x] \in Nat
  <2> SUFFICES ASSUME NEW x \in 1..Len(msgs) PROVE msgs[x].size \in Nat
    OBVIOUS
  <2>1. msgs[x] \in ConMessage
    BY ElementOfSeq
  <2> QED BY <2>1 DEF ConMessage
<1>3. SumFunctionOnSet(f, 1..Len(msgs)) \in Nat
  <2> HIDE DEF f
  <2> QED BY <1>1, <1>2, SumType
<1> QED BY <1>1, <1>3 DEF ConTokens, SumFunction

LEMMA ConBudgetLeast == ConBudget \in Int /\ (ConWindow * 45) \div 100 - ConReserved <= ConBudget
<1> DEFINE a == ConLeast
           b == (ConWindow * 45) \div 100 - ConReserved
<1>1. a \in Int /\ b \in Int
  BY ConAssumption
<1>2. Max({a, b}) \in Int /\ b <= Max({a, b})
  <2> HIDE DEF a, b
  <2>1. \E m \in {a, b} : \A y \in {a, b} : m >= y
    BY <1>1
  <2> QED BY <1>1, <2>1 DEF Max
<1> QED BY <1>2 DEF ConBudget

LEMMA ConFromPlace ==
    ASSUME conMessages \in Seq(ConMessage), NEW i \in 1..(Len(conMessages) + 1)
    PROVE  /\ ConFrom(i) \in Seq(ConMessage) /\ Len(ConFrom(i)) = Len(conMessages) - i + 1
           /\ \A j \in 1..(Len(conMessages) - i + 1) : ConFrom(i)[j] = conMessages[i + j - 1]
<1>1. Len(conMessages) \in (i - 1)..Len(conMessages)
  BY LenProperties
<1> QED BY <1>1, SubSeqProperties DEF ConFrom

LEMMA ConKept ==
    ASSUME conMessages \in Seq(ConMessage), NEW starts \in SUBSET (1..Len(conMessages)), Cardinality(starts) >= 2
    PROVE  /\ ConKeptFrom(starts) \in starts /\ Min(starts) < ConKeptFrom(starts)
           /\ \A s \in starts : s < ConKeptFrom(starts) => s = Min(starts) \/ ConTokens(ConFrom(s)) > ConBudget
<1>0. Len(conMessages) \in Nat
  BY LenProperties
<1>1. IsFiniteSet(starts) /\ starts \in SUBSET Nat /\ starts \in SUBSET (0..Len(conMessages))
  <2>1. IsFiniteSet(1..Len(conMessages))
    BY <1>0, FS_Interval
  <2>2. IsFiniteSet(starts)
    BY <2>1, FS_Subset
  <2>3. 1..Len(conMessages) \in SUBSET Nat /\ 1..Len(conMessages) \in SUBSET (0..Len(conMessages))
    BY <1>0
  <2> QED BY <2>2, <2>3
<1>2. starts # {}
  <2>1. CASE starts = {}
    <3>1. Cardinality(starts) = 0
      BY <2>1, FS_EmptySet
    <3> QED BY <3>1
  <2> QED BY <2>1
<1> DEFINE first == Min(starts)
           within == {s \in starts : ConTokens(ConFrom(s)) <= ConBudget} \cup {Max(starts)}
<1>3. first \in starts /\ \A s \in starts : first <= s
  BY <1>1, <1>2, MinOf
<1>4. starts \ {first} # {}
  <2>1. Cardinality(starts \ {first}) = Cardinality(starts) - 1 /\ Cardinality(starts) \in Nat
    BY <1>1, <1>3, FS_RemoveElement, FS_CardinalityType
  <2>2. Cardinality(starts \ {first}) # 0
    BY <2>1
  <2> QED BY <2>2, FS_EmptySet
<1>5. within \in SUBSET starts /\ within # {}
  BY <1>0, <1>1, <1>2, MaxOf
<1>6. ConKeptFrom(starts) = Min(IF Min(within) = first THEN starts \ {first} ELSE within)
  BY DEF ConKeptFrom
<1>7. \A s \in starts : s \notin within => ConTokens(ConFrom(s)) > ConBudget
  <2> SUFFICES ASSUME NEW s \in starts, s \notin within PROVE ConTokens(ConFrom(s)) > ConBudget
    OBVIOUS
  <2>1. s \in 1..(Len(conMessages) + 1)
    BY <1>1
  <2>2. ConTokens(ConFrom(s)) \in Nat
    BY <2>1, ConFromPlace, ConTokensType
  <2>3. ~(ConTokens(ConFrom(s)) <= ConBudget)
    OBVIOUS
  <2> QED BY <2>2, <2>3, ConBudgetLeast
<1> HIDE DEF first, within
<1>8. CASE Min(within) = first
  <2>1. starts \ {first} \in SUBSET Nat
    BY <1>1
  <2>2. ConKeptFrom(starts) \in starts \ {first} /\ \A s \in starts \ {first} : ConKeptFrom(starts) <= s
    <3>1. ConKeptFrom(starts) = Min(starts \ {first})
      BY <1>6, <1>8
    <3> QED BY <1>4, <2>1, <3>1, MinOf
  <2>3. first < ConKeptFrom(starts)
    <3>1. first \in Nat /\ ConKeptFrom(starts) \in Nat /\ first <= ConKeptFrom(starts) /\ ConKeptFrom(starts) # first
      BY <1>1, <1>3, <2>2
    <3> QED BY <3>1
  <2>4. \A s \in starts : s < ConKeptFrom(starts) => s = first
    <3> SUFFICES ASSUME NEW s \in starts, s < ConKeptFrom(starts), s # first PROVE FALSE
      OBVIOUS
    <3>1. s \in Nat /\ ConKeptFrom(starts) \in Nat /\ ConKeptFrom(starts) <= s
      BY <1>1, <2>2
    <3> QED BY <3>1
  <2> QED BY <2>2, <2>3, <2>4 DEF first
<1>9. CASE Min(within) # first
  <2>1. ConKeptFrom(starts) = Min(within) /\ within \in SUBSET Nat
    BY <1>1, <1>5, <1>6, <1>9
  <2>2. ConKeptFrom(starts) \in within /\ \A s \in within : ConKeptFrom(starts) <= s
    BY <1>5, <2>1, MinOf
  <2>3. \A s \in starts : s < ConKeptFrom(starts) => s \notin within
    <3> SUFFICES ASSUME NEW s \in starts, s < ConKeptFrom(starts), s \in within PROVE FALSE
      OBVIOUS
    <3>1. ConKeptFrom(starts) <= s /\ s \in Nat /\ ConKeptFrom(starts) \in Nat
      BY <1>1, <2>1, <2>2
    <3> QED BY <3>1
  <2>4. ConKeptFrom(starts) \in starts
    BY <1>5, <2>2
  <2>5. first < ConKeptFrom(starts)
    <3>1. first \in Nat /\ ConKeptFrom(starts) \in Nat /\ first <= ConKeptFrom(starts) /\ ConKeptFrom(starts) # first
      BY <1>1, <1>3, <1>9, <2>1, <2>4
    <3> QED BY <3>1
  <2> QED BY <1>7, <2>3, <2>4, <2>5 DEF first
<1> QED BY <1>8, <1>9

LEMMA ConLatest ==
    ASSUME NEW S, NEW refs \in Seq(S)
    PROVE  /\ ConLatestRefs(refs) \in Seq(S)
           /\ Len(ConLatestRefs(refs)) = IF Len(refs) < ConMaxRefs THEN Len(refs) ELSE ConMaxRefs
           /\ \A j \in 1..Len(ConLatestRefs(refs)) :
                 ConLatestRefs(refs)[j] = refs[Len(refs) - Len(ConLatestRefs(refs)) + j]
<1> DEFINE n == Len(refs)
           m == Max({1, n - ConMaxRefs + 1})
<1>1. n \in Nat /\ ConMaxRefs \in Nat
  BY LenProperties, ConAssumption
<1>2. m = IF n < ConMaxRefs THEN 1 ELSE n - ConMaxRefs + 1
  <2> HIDE DEF n
  <2> QED BY <1>1 DEF Max
<1> HIDE DEF m
<1>3. \A i \in m..n : refs[i] \in S
  BY <1>1, <1>2, ElementOfSeq
<1> DEFINE c == SubSeq(refs, m, n)
<1>4. /\ c \in Seq(S) /\ Len(c) = IF m <= n THEN n - m + 1 ELSE 0
      /\ \A i \in 1..(n - m + 1) : c[i] = refs[m + i - 1]
  <2> HIDE DEF n
  <2> QED BY <1>1, <1>2, <1>3, SubSeqProperties
<1>5. ConLatestRefs(refs) = c
  BY DEF ConLatestRefs, m
<1> HIDE DEF c, n
<1>6. Len(c) = IF n < ConMaxRefs THEN n ELSE ConMaxRefs
  BY <1>1, <1>2, <1>4
<1>7. \A j \in 1..Len(c) : c[j] = refs[n - Len(c) + j]
  <2> SUFFICES ASSUME NEW j \in 1..Len(c) PROVE c[j] = refs[n - Len(c) + j]
    OBVIOUS
  <2>1. j \in 1..(n - m + 1) /\ m + j - 1 = n - Len(c) + j
    BY <1>1, <1>2, <1>4
  <2> QED BY <1>4, <2>1
<1> QED BY <1>4, <1>5, <1>6, <1>7 DEF n

\* A compaction moves the checkpoint on, to the beginning of a group, and takes no more than it must.
LEMMA ConCompacts ==
    ASSUME ConTypeOK, ConGroups, ConCovered, ConCompacted # conState
    PROVE  /\ ConCompacted.upTo \in Nat /\ conState.upTo < ConCompacted.upTo /\ ConCompacted.upTo < Len(conMessages)
           /\ conMessages[ConCompacted.upTo + 1].role # "result"
           /\ ConCompacted = [upTo |-> ConCompacted.upTo, refs |-> ConCompacted.refs]
           /\ ConCompacted.refs \in Seq(1..ConMaxLen)
           /\ Len(ConCompacted.refs) = IF ConCompacted.upTo < ConMaxRefs THEN ConCompacted.upTo ELSE ConMaxRefs
           /\ \A j \in 1..Len(ConCompacted.refs) :
                 ConCompacted.refs[j] = ConCompacted.upTo - Len(ConCompacted.refs) + j
           /\ LET before == {i \in (conState.upTo + 1)..ConCompacted.upTo : conMessages[i].role # "result"}
              IN \/ Max(before) = conState.upTo + 1
                 \/ ConTokens(ConFrom(Max(before))) > (ConWindow * 45) \div 100 - ConReserved
<1> DEFINE old == conState.upTo
           starts == {i \in (conState.upTo + 1)..Len(conMessages) : ConStarts(i)}
           kept == ConKeptFrom(starts)
           upTo == kept - 1
           more == [i \in 1..(upTo - conState.upTo) |-> conState.upTo + i]
           refs == conState.refs \o more
<1>1. /\ conMessages \in Seq(ConMessage) /\ Len(conMessages) \in Nat /\ Len(conMessages) <= ConMaxLen
      /\ old \in Nat /\ old < Len(conMessages) /\ conState.refs \in Seq(1..ConMaxLen)
      /\ ConMaxLen \in Nat /\ ConMaxRefs \in Nat
  BY LenProperties, ConAssumption DEF ConTypeOK, ConCovered
<1>2. ConCompacted = [upTo |-> upTo, refs |-> ConLatestRefs(refs)] /\ Cardinality(starts) >= 2
  <2>1. Cardinality(starts) \in Nat
    <3>0. conState.upTo + 1 \in Int /\ Len(conMessages) \in Int
      BY <1>1
    <3>1. IsFiniteSet((conState.upTo + 1)..Len(conMessages))
      BY <3>0, FS_Interval
    <3>2. IsFiniteSet(starts)
      BY <3>1, FS_Subset
    <3> QED BY <3>2, FS_CardinalityType
  <2>2. ~(Cardinality(starts) < 2) /\ ConCompacted = [upTo |-> upTo, refs |-> ConLatestRefs(refs)]
    BY DEF ConCompacted
  <2> HIDE DEF starts
  <2> QED BY <2>1, <2>2
<1>3. starts \in SUBSET (1..Len(conMessages)) /\ old + 1 \in starts /\ \A s \in starts : old + 1 <= s
  BY <1>1 DEF ConStarts, ConCovered
<1>4. \A s \in starts : conMessages[s].role # "result"
  BY DEF ConStarts
<1>5. \A s \in (old + 1)..Len(conMessages) : conMessages[s].role # "result" => s \in starts
  BY DEF ConStarts
<1> HIDE DEF starts
<1>6. /\ kept \in starts /\ Min(starts) < kept
      /\ \A s \in starts : s < kept => s = Min(starts) \/ ConTokens(ConFrom(s)) > ConBudget
  BY <1>1, <1>2, <1>3, ConKept
<1>7. Min(starts) = old + 1
  <2>1. starts \in SUBSET Nat /\ starts # {}
    BY <1>1, <1>3
  <2>2. Min(starts) \in starts /\ \A s \in starts : Min(starts) <= s
    BY <2>1, MinOf
  <2>3. Min(starts) <= old + 1 /\ old + 1 <= Min(starts) /\ Min(starts) \in Nat
    BY <1>3, <2>1, <2>2
  <2> QED BY <1>1, <2>3
<1> HIDE DEF kept
<1>8. kept \in 1..Len(conMessages) /\ old + 1 < kept
  BY <1>3, <1>6, <1>7
<1>9. upTo \in Nat /\ old < upTo /\ upTo < Len(conMessages) /\ upTo + 1 = kept
  BY <1>1, <1>8
<1>10. conMessages[upTo + 1].role # "result"
  BY <1>4, <1>6, <1>9
<1> HIDE DEF upTo
<1>11. /\ refs \in Seq(1..ConMaxLen) /\ Len(refs) = Len(conState.refs) + (upTo - old)
       /\ \A j \in 1..Len(refs) : refs[j] = upTo - Len(refs) + j
  <2>1. more \in Seq(1..ConMaxLen) /\ Len(more) = upTo - old
    <3>1. \A i \in 1..(upTo - old) : old + i \in 1..ConMaxLen
      BY <1>1, <1>9
    <3>2. upTo - old \in Nat
      BY <1>1, <1>9
    <3>3. more \in [1..(upTo - old) -> 1..ConMaxLen]
      BY <3>1
    <3> HIDE DEF more
    <3> QED BY <3>2, <3>3, FunctionSeq
  <2>2. \A i \in 1..(upTo - old) : more[i] = old + i
    OBVIOUS
  <2> HIDE DEF more
  <2>3. /\ refs \in Seq(1..ConMaxLen) /\ Len(refs) = Len(conState.refs) + Len(more)
        /\ \A i \in 1..(Len(conState.refs) + Len(more)) :
              refs[i] = IF i <= Len(conState.refs) THEN conState.refs[i] ELSE more[i - Len(conState.refs)]
    BY <1>1, <2>1, ConcatProperties
  <2>4. Len(conState.refs) \in Nat
    BY <1>1, LenProperties
  <2>6. \A j \in 1..Len(conState.refs) : conState.refs[j] = old - Len(conState.refs) + j
    BY DEF ConCovered
  <2> HIDE DEF refs, old
  <2>5. ASSUME NEW j \in 1..Len(refs) PROVE refs[j] = upTo - Len(refs) + j
    <3>1. CASE j <= Len(conState.refs)
      <4>0. j \in Nat /\ j \in 1..Len(conState.refs) /\ j \in 1..(Len(conState.refs) + Len(more))
        BY <1>1, <1>9, <2>1, <2>3, <2>4, <3>1
      <4>1. refs[j] = conState.refs[j] /\ conState.refs[j] = old - Len(conState.refs) + j
        BY <2>3, <2>6, <3>1, <4>0
      <4>2. old - Len(conState.refs) + j = upTo - Len(refs) + j
        BY <1>1, <1>9, <2>1, <2>3, <2>4, <4>0
      <4> QED BY <4>1, <4>2
    <3>2. CASE ~(j <= Len(conState.refs))
      <4> DEFINE i == j - Len(conState.refs)
      <4>a. Len(conState.refs) \in Nat /\ Len(more) \in Nat /\ Len(more) = upTo - old
        BY <1>1, <1>9, <2>1, <2>4
      <4>b. j \in 1..(Len(conState.refs) + Len(more)) /\ j \in Nat
        BY <2>3, <4>a
      <4>c. i \in 1..Len(more)
        BY <3>2, <4>a, <4>b
      <4>0. j \in 1..(Len(conState.refs) + Len(more)) /\ i \in 1..(upTo - old) /\ j \in Nat
        BY <4>a, <4>b, <4>c
      <4>1. refs[j] = more[i]
        BY <2>3, <3>2, <4>0
      <4>2. more[i] = old + i
        BY <2>2, <4>0
      <4>3. old + i = upTo - Len(refs) + j
        BY <1>1, <1>9, <2>1, <2>3, <2>4, <4>0
      <4> QED BY <4>1, <4>2, <4>3
    <3> QED BY <3>1, <3>2
  <2> QED BY <2>1, <2>3, <2>5
<1>12. Len(conState.refs) = (IF old < ConMaxRefs THEN old ELSE ConMaxRefs) /\ Len(conState.refs) \in Nat
  BY <1>1, LenProperties DEF ConCovered
<1> HIDE DEF refs
<1> DEFINE last == ConLatestRefs(refs)
<1>13. /\ last \in Seq(1..ConMaxLen) /\ Len(last) = (IF Len(refs) < ConMaxRefs THEN Len(refs) ELSE ConMaxRefs)
       /\ \A j \in 1..Len(last) : last[j] = refs[Len(refs) - Len(last) + j]
  BY <1>11, ConLatest
<1> HIDE DEF last
<1>14. Len(last) = IF upTo < ConMaxRefs THEN upTo ELSE ConMaxRefs
  BY <1>1, <1>9, <1>11, <1>12, <1>13
<1>15. ASSUME NEW j \in 1..Len(last) PROVE last[j] = upTo - Len(last) + j
  <2> DEFINE i == Len(refs) - Len(last) + j
  <2>1. i \in 1..Len(refs)
    <3>1. Len(last) \in Nat /\ Len(refs) \in Nat /\ Len(last) <= Len(refs)
      BY <1>1, <1>9, <1>11, <1>12, <1>13
    <3> QED BY <3>1
  <2>2. last[j] = refs[i] /\ refs[i] = upTo - Len(refs) + i
    BY <1>11, <1>13, <2>1
  <2>3. Len(last) \in Nat /\ Len(refs) \in Nat /\ j \in Nat
    BY <1>1, <1>9, <1>11, <1>12, <1>13
  <2>4. upTo - Len(refs) + i = upTo - Len(last) + j
    BY <1>9, <2>3
  <2> QED BY <2>2, <2>4
<1> DEFINE before == {i \in (conState.upTo + 1)..upTo : conMessages[i].role # "result"}
<1>16. Max(before) = old + 1 \/ ConTokens(ConFrom(Max(before))) > (ConWindow * 45) \div 100 - ConReserved
  <2>1. before \in SUBSET (0..upTo) /\ old + 1 \in before
    BY <1>1, <1>3, <1>4, <1>9
  <2>2. before \in SUBSET starts /\ \A s \in before : s \in Nat /\ s < kept /\ s \in 1..(Len(conMessages) + 1)
    BY <1>1, <1>5, <1>9
  <2>3. Max(before) \in before
    <3> HIDE DEF before
    <3> QED BY <1>9, <2>1, MaxOf
  <2> HIDE DEF before
  <2>4. Max(before) = old + 1 \/ ConTokens(ConFrom(Max(before))) > ConBudget
    BY <1>6, <1>7, <2>2, <2>3
  <2>5. ConTokens(ConFrom(Max(before))) \in Nat
    BY <1>1, <2>2, <2>3, ConFromPlace, ConTokensType
  <2>6. (ConWindow * 45) \div 100 - ConReserved \in Int
    BY ConAssumption
  <2> QED BY <2>4, <2>5, <2>6, ConBudgetLeast
<1>17. ConCompacted.upTo = upTo /\ ConCompacted.refs = last
  BY <1>2 DEF last
<1> QED BY <1>2, <1>9, <1>10, <1>13, <1>14, <1>15, <1>16, <1>17 DEF last

-----------------------------------------------------------------------------
(* The request *)

\* The calls of tools that there are come first.
LEMMA ConKnownFirst ==
    ASSUME NEW msg \in ConMessage
    PROVE  \E n \in 0..2 : /\ ConKnown(msg) = 1..n /\ Cardinality(ConKnown(msg)) = n /\ n <= Len(msg.calls)
                           /\ \A k \in 1..Len(msg.calls) : k > n => msg.calls[k] = "unknown"
<1>1. msg.calls \in {<<>>, <<"unknown">>, <<"known", "unknown">>, <<"known", "known">>, <<"known">>}
  BY DEF ConMessage, ConCalls
<1>2. \E n \in 0..2 : /\ ConKnown(msg) = 1..n /\ n <= Len(msg.calls)
                      /\ \A k \in 1..Len(msg.calls) : k > n => msg.calls[k] = "unknown"
  <2>1. CASE msg.calls = <<>>
    <3>1. ConKnown(msg) = 1..0 /\ 0 <= Len(msg.calls) /\ \A k \in 1..Len(msg.calls) : FALSE
      BY <2>1 DEF ConKnown
    <3> QED BY <3>1
  <2>2. CASE msg.calls = <<"unknown">>
    <3>1. ConKnown(msg) = 1..0 /\ 0 <= Len(msg.calls)
      BY <2>2 DEF ConKnown
    <3>2. \A k \in 1..Len(msg.calls) : msg.calls[k] = "unknown"
      BY <2>2
    <3> QED BY <3>1, <3>2
  <2>3. CASE msg.calls = <<"known", "unknown">>
    <3>1. ConKnown(msg) = 1..1 /\ 1 <= Len(msg.calls)
      BY <2>3 DEF ConKnown
    <3>2. \A k \in 1..Len(msg.calls) : k > 1 => msg.calls[k] = "unknown"
      BY <2>3
    <3> QED BY <3>1, <3>2
  <2>4. CASE msg.calls = <<"known", "known">>
    <3>1. ConKnown(msg) = 1..2 /\ 2 <= Len(msg.calls)
      BY <2>4 DEF ConKnown
    <3>2. \A k \in 1..Len(msg.calls) : k > 2 => msg.calls[k] = "unknown"
      BY <2>4
    <3> QED BY <3>1, <3>2
  <2>5. CASE msg.calls = <<"known">>
    <3>1. ConKnown(msg) = 1..1 /\ 1 <= Len(msg.calls)
      BY <2>5 DEF ConKnown
    <3>2. \A k \in 1..Len(msg.calls) : k > 1 => msg.calls[k] = "unknown"
      BY <2>5
    <3> QED BY <3>1, <3>2
  <2> QED BY <1>1, <2>1, <2>2, <2>3, <2>4, <2>5
<1>3. \A n \in 0..2 : Cardinality(1..n) = n
  <2> SUFFICES ASSUME NEW n \in 0..2 PROVE Cardinality(1..n) = n
    OBVIOUS
  <2>1. n \in Int /\ 1 \in Int /\ (1 > n => n = 0) /\ n - 1 + 1 = n
    OBVIOUS
  <2>2. Cardinality(1..n) = IF 1 > n THEN 0 ELSE n - 1 + 1
    BY <2>1, FS_Interval
  <2> QED BY <2>1, <2>2
<1> QED BY <1>2, <1>3

LEMMA ConStrippedType ==
    ASSUME NEW msg \in ConMessage, NEW n \in 0..2, Cardinality(ConKnown(msg)) = n
    PROVE  /\ ConStripped(msg) \in ConMessage /\ Len(ConStripped(msg).calls) = n
           /\ ConStripped(msg).role = msg.role /\ ConStripped(msg).at = msg.at /\ ConStripped(msg).of = msg.of
           /\ ConStripped(msg).k = msg.k
<1> DEFINE c == [k \in 1..n |-> "known"]
<1>1. c \in {<<>>, <<"known">>, <<"known", "known">>} /\ Len(c) = n
  <2>1. CASE n = 0
    BY <2>1
  <2>2. CASE n = 1
    BY <2>2
  <2>3. CASE n = 2
    BY <2>3
  <2> QED BY <2>1, <2>2, <2>3
<1>2. ConStripped(msg) = [msg EXCEPT !.calls = c]
  BY DEF ConStripped
<1> HIDE DEF c
<1> QED BY <1>1, <1>2 DEF ConMessage, ConCalls

LEMMA ConResultOfType ==
    ASSUME NEW msgs \in Seq(ConMessage), NEW at \in 0..ConMaxLen, NEW k \in 1..2
    PROVE  /\ ConResultOf(msgs, at, k) \in ConMessage /\ ConResultOf(msgs, at, k).role = "result"
           /\ ConResultOf(msgs, at, k).of = at /\ ConResultOf(msgs, at, k).k = k
           /\ \/ ConResults(msgs, at, k) = {} /\ ConResultOf(msgs, at, k).at = 0
              \/ \E j \in ConResults(msgs, at, k) : ConResultOf(msgs, at, k) = msgs[j]
<1> DEFINE R == ConResults(msgs, at, k)
<1>1. CASE R = {}
  <2>1. ConResultOf(msgs, at, k) = ConRepaired(at, k)
    BY <1>1 DEF ConResultOf
  <2>2. ConRepaired(at, k) = [role |-> "result", at |-> 0, calls |-> <<>>, of |-> at, k |-> k, size |-> 1, usage |-> 0]
    <3>1. ConPlain("result", 0, 1) =
            [role |-> "result", at |-> 0, calls |-> <<>>, of |-> 0, k |-> 0, size |-> 1, usage |-> 0]
      BY DEF ConPlain
    <3>2. ConRepaired(at, k) = [[ConPlain("result", 0, 1) EXCEPT !.of = at] EXCEPT !.k = k]
      BY DEF ConRepaired
    <3>3. [ConPlain("result", 0, 1) EXCEPT !.of = at] =
            [role |-> "result", at |-> 0, calls |-> <<>>, of |-> at, k |-> 0, size |-> 1, usage |-> 0]
      BY <3>1
    <3> QED BY <3>2, <3>3
  <2>3. 0 \in 0..ConMaxLen /\ k \in 0..2 /\ 1 \in Nat /\ 0 \in Nat /\ <<>> \in ConCalls /\ "result" \in ConRoles
    BY ConAssumption DEF ConCalls, ConRoles
  <2>4. ConRepaired(at, k) \in ConMessage
    BY <2>2, <2>3 DEF ConMessage
  <2> QED BY <1>1, <2>1, <2>2, <2>4
<1>2. CASE R # {}
  <2>1. R \in SUBSET Nat
    BY DEF ConResults
  <2>2. Min(R) \in R
    <3> HIDE DEF R
    <3> QED BY <1>2, <2>1, MinOf
  <2>3. ConResultOf(msgs, at, k) = msgs[Min(R)]
    BY <1>2 DEF ConResultOf
  <2>4. msgs[Min(R)].role = "result" /\ msgs[Min(R)].of = at /\ msgs[Min(R)].k = k /\ Min(R) \in 1..Len(msgs)
    BY <2>2 DEF ConResults
  <2> QED BY <2>2, <2>3, <2>4, ElementOfSeq
<1> QED BY <1>1, <1>2

\* What a request has for a message that is not a result: its calls and then, in order, their results.
LEMMA ConUnitShape ==
    ASSUME NEW msgs \in Seq(ConMessage), NEW msg \in ConMessage
    PROVE  \/ ConUnit(msgs, msg) = <<>> /\ (msg.role = "result" \/ ConEmptied(msg))
           \/ \E n \in 0..2 :
                 /\ msg.role # "result" /\ ~ConEmptied(msg)
                 /\ ConUnit(msgs, msg) \in Seq(ConMessage) /\ Len(ConUnit(msgs, msg)) = n + 1
                 /\ ConKnown(msg) = 1..n
                 /\ ConUnit(msgs, msg)[1].role = msg.role /\ ConUnit(msgs, msg)[1].at = msg.at
                 /\ Len(ConUnit(msgs, msg)[1].calls) = n
                 /\ \A k \in 1..n : ConUnit(msgs, msg)[k + 1] = ConResultOf(msgs, msg.at, k)
<1>1. CASE msg.role = "result" \/ ConEmptied(msg)
  BY <1>1 DEF ConUnit
<1>2. CASE ~(msg.role = "result" \/ ConEmptied(msg))
  <2>1. PICK n \in 0..2 : ConKnown(msg) = 1..n /\ Cardinality(ConKnown(msg)) = n
    BY ConKnownFirst
  <2> DEFINE a == <<ConStripped(msg)>>
             b == [k \in 1..n |-> ConResultOf(msgs, msg.at, k)]
  <2>2. ConStripped(msg) \in ConMessage /\ Len(ConStripped(msg).calls) = n
        /\ ConStripped(msg).role = msg.role /\ ConStripped(msg).at = msg.at
    BY <2>1, ConStrippedType
  <2>3. a \in Seq(ConMessage) /\ Len(a) = 1 /\ a[1] = ConStripped(msg)
    <3> HIDE DEF ConMessage
    <3> QED BY <2>2
  <2>4. b \in Seq(ConMessage) /\ Len(b) = n
    <3>1. \A k \in 1..n : ConResultOf(msgs, msg.at, k) \in ConMessage
      <4>1. msg.at \in 0..ConMaxLen /\ 1..n \in SUBSET (1..2)
        BY DEF ConMessage
      <4> QED BY <4>1, ConResultOfType
    <3>2. b \in [1..n -> ConMessage]
      BY <3>1
    <3> HIDE DEF b
    <3> QED BY <3>2, FunctionSeq
  <2>5. \A k \in 1..n : b[k] = ConResultOf(msgs, msg.at, k)
    OBVIOUS
  <2>6. ConUnit(msgs, msg) = a \o b
    BY <1>2, <2>1 DEF ConUnit
  <2> HIDE DEF a, b
  <2>7. /\ a \o b \in Seq(ConMessage) /\ Len(a \o b) = n + 1
        /\ \A i \in 1..(n + 1) : (a \o b)[i] = IF i <= 1 THEN a[i] ELSE b[i - 1]
    <3>1. Len(a) + Len(b) = n + 1
      BY <2>3, <2>4
    <3>2. /\ a \o b \in Seq(ConMessage) /\ Len(a \o b) = Len(a) + Len(b)
          /\ \A i \in 1..(Len(a) + Len(b)) : (a \o b)[i] = IF i <= Len(a) THEN a[i] ELSE b[i - Len(a)]
      BY <2>3, <2>4, ConcatProperties
    <3> QED BY <2>3, <3>1, <3>2
  <2>8. (a \o b)[1] = ConStripped(msg) /\ \A k \in 1..n : (a \o b)[k + 1] = ConResultOf(msgs, msg.at, k)
    BY <2>3, <2>5, <2>7
  <2> QED BY <1>2, <2>1, <2>2, <2>6, <2>7, <2>8
<1> QED BY <1>1, <1>2

\* A request is the units of its messages one after another.
LEMMA ConPreparedUnits ==
    ASSUME NEW msgs \in Seq(ConMessage)
    PROVE  /\ ConPrepared(msgs) \in Seq(ConMessage)
           /\ \A j \in 1..Len(msgs) : \E p \in Nat : Block(ConPrepared(msgs), ConUnit(msgs, msgs[j]), p)
           /\ \A i \in 1..Len(ConPrepared(msgs)) :
                 \E j \in 1..Len(msgs), p \in Nat : /\ Block(ConPrepared(msgs), ConUnit(msgs, msgs[j]), p)
                                                    /\ i - p \in 1..Len(ConUnit(msgs, msgs[j]))
<1> DEFINE ss == [i \in 1..Len(msgs) |-> ConUnit(msgs, msgs[i])]
<1>1. \A i \in 1..Len(msgs) : ConUnit(msgs, msgs[i]) \in Seq(ConMessage)
  <2> SUFFICES ASSUME NEW i \in 1..Len(msgs) PROVE ConUnit(msgs, msgs[i]) \in Seq(ConMessage)
    OBVIOUS
  <2>1. msgs[i] \in ConMessage /\ <<>> \in Seq(ConMessage)
    BY ElementOfSeq, EmptySeq
  <2> QED BY <2>1, ConUnitShape
<1>2. ss \in Seq(Seq(ConMessage)) /\ Len(ss) = Len(msgs)
  <2>1. Len(msgs) \in Nat
    BY LenProperties
  <2>2. ss \in [1..Len(msgs) -> Seq(ConMessage)]
    BY <1>1
  <2> HIDE DEF ss
  <2> QED BY <2>1, <2>2, FunctionSeq
<1>3. \A i \in 1..Len(msgs) : ss[i] = ConUnit(msgs, msgs[i])
  OBVIOUS
<1>4. ConPrepared(msgs) = FlattenSeq(ss)
  BY DEF ConPrepared
<1> HIDE DEF ss
<1> DEFINE sent == ConPrepared(msgs)
<1>5. /\ sent \in Seq(ConMessage)
      /\ \A k \in 1..Len(ss) : \E p \in Nat : Block(sent, ss[k], p)
      /\ \A i \in 1..Len(sent) : \E k \in 1..Len(ss), p \in Nat : Block(sent, ss[k], p) /\ p < i /\ i <= p + Len(ss[k])
  BY <1>2, <1>4, FlattenBlocks
<1> HIDE DEF sent
<1>6. ASSUME NEW i \in 1..Len(sent)
      PROVE  \E j \in 1..Len(msgs), p \in Nat : /\ Block(sent, ConUnit(msgs, msgs[j]), p)
                                                /\ i - p \in 1..Len(ConUnit(msgs, msgs[j]))
  <2>1. PICK k \in 1..Len(ss), p \in Nat : Block(sent, ss[k], p) /\ p < i /\ i <= p + Len(ss[k])
    BY <1>5
  <2>2. k \in 1..Len(msgs) /\ ss[k] = ConUnit(msgs, msgs[k])
    BY <1>2, <1>3, <2>1
  <2>3. Len(ss[k]) \in Nat
    BY <1>1, <2>2, LenProperties
  <2>4. i - p \in 1..Len(ss[k])
    BY <2>1, <2>3
  <2> QED BY <2>1, <2>2, <2>4
<1> QED BY <1>2, <1>3, <1>5, <1>6 DEF sent

\* In a request each call is answered right behind its message, and no result stands alone.
LEMMA ConRequestPaired ==
    ASSUME NEW msgs \in Seq(ConMessage), conSent' = ConPrepared(msgs)
    PROVE  ConPaired'
<1> DEFINE sent == ConPrepared(msgs)
<1>1. sent \in Seq(ConMessage) /\ Len(sent) \in Nat
  BY ConPreparedUnits, LenProperties
<1> SUFFICES ASSUME NEW i \in 1..Len(sent)
             PROVE  /\ sent[i].role = "assistant" =>
                          \A k \in 1..Len(sent[i].calls) :
                              /\ i + k <= Len(sent) /\ sent[i + k].role = "result"
                              /\ sent[i + k].of = sent[i].at /\ sent[i + k].k = k
                    /\ sent[i].role = "result" =>
                          \E j \in 1..(i - 1) : sent[j].at = sent[i].of /\ i - j <= Len(sent[j].calls)
  BY DEF ConPaired
<1>2. PICK j \in 1..Len(msgs), p \in Nat : /\ Block(sent, ConUnit(msgs, msgs[j]), p)
                                           /\ i - p \in 1..Len(ConUnit(msgs, msgs[j]))
  BY ConPreparedUnits
<1> DEFINE msg == msgs[j]
           unit == ConUnit(msgs, msgs[j])
<1>3. msg \in ConMessage
  BY ElementOfSeq
<1> HIDE DEF sent
<1>4. PICK n \in 0..2 :
         /\ msg.role # "result" /\ Len(unit) = n + 1
         /\ unit[1].role = msg.role /\ unit[1].at = msg.at /\ Len(unit[1].calls) = n
         /\ \A k \in 1..n : unit[k + 1] = ConResultOf(msgs, msg.at, k)
  <2>1. unit # <<>>
    BY <1>2
  <2> QED BY <1>3, <2>1, ConUnitShape
<1>5. \A k \in 1..n : /\ unit[k + 1].role = "result" /\ unit[k + 1].of = msg.at /\ unit[k + 1].k = k
  <2> SUFFICES ASSUME NEW k \in 1..n
               PROVE  unit[k + 1].role = "result" /\ unit[k + 1].of = msg.at /\ unit[k + 1].k = k
    OBVIOUS
  <2>1. k \in 1..2
    OBVIOUS
  <2>3. msg.at \in 0..ConMaxLen
    <3> HIDE DEF msg
    <3> QED BY <1>3 DEF ConMessage
  <2> QED BY <1>4, <2>1, <2>3, ConResultOfType
<1> HIDE DEF msg, unit
<1>6. p + n + 1 <= Len(sent) /\ \A m \in 1..(n + 1) : sent[p + m] = unit[m]
  BY <1>2, <1>4 DEF Block, unit
<1>7. i = p + (i - p) /\ i - p \in 1..(n + 1)
  BY <1>1, <1>2, <1>4 DEF unit
<1>8. CASE i - p = 1
  <2>1. sent[i].role = msg.role /\ sent[i].at = msg.at /\ Len(sent[i].calls) = n /\ i = p + 1
    BY <1>1, <1>4, <1>6, <1>7, <1>8
  <2>2. ASSUME NEW k \in 1..n
        PROVE  i + k <= Len(sent) /\ sent[i + k].role = "result" /\ sent[i + k].of = sent[i].at /\ sent[i + k].k = k
    <3>1. i + k = p + (k + 1) /\ k + 1 \in 1..(n + 1) /\ i + k <= Len(sent)
      BY <1>1, <1>6, <2>1
    <3>2. sent[i + k] = unit[k + 1]
      BY <1>6, <3>1
    <3> QED BY <1>5, <2>1, <3>1, <3>2
  <2> QED BY <1>4, <2>1, <2>2
<1>9. CASE i - p # 1
  <2>1. PICK k \in 1..n : i = p + (k + 1)
    <3>1. (i - p) - 1 \in 1..n /\ i = p + (((i - p) - 1) + 1)
      BY <1>1, <1>7, <1>9
    <3> QED BY <3>1
  <2>2. sent[i] = unit[k + 1] /\ sent[p + 1] = unit[1]
    <3>1. k + 1 \in 1..(n + 1) /\ 1 \in 1..(n + 1)
      OBVIOUS
    <3> QED BY <1>6, <2>1, <3>1
  <2>3. sent[i].role = "result" /\ sent[i].of = msg.at
    BY <1>5, <2>2
  <2>4. p + 1 \in 1..(i - 1) /\ i - (p + 1) <= n
    BY <2>1
  <2> QED BY <1>4, <2>2, <2>3, <2>4
<1> QED BY <1>8, <1>9

\* The messages a request is made of: the checkpoint, if there is one, and what comes after it.
LEMMA ConAskedWith ==
    ASSUME conMessages \in Seq(ConMessage), NEW upTo \in Nat, upTo < Len(conMessages)
    PROVE  LET msgs == ConCheckpoint(upTo) \o ConFrom(upTo + 1)
               c == IF upTo = 0 THEN 0 ELSE 1
           IN /\ msgs \in Seq(ConMessage) /\ Len(msgs) = c + (Len(conMessages) - upTo)
              /\ \A i \in 1..Len(msgs) :
                    \/ i <= c /\ msgs[i].role = "checkpoint" /\ msgs[i].at = 0
                    \/ i > c /\ upTo + (i - c) \in (upTo + 1)..Len(conMessages) /\ msgs[i] = conMessages[upTo + (i - c)]
<1> DEFINE a == ConCheckpoint(upTo)
           b == ConFrom(upTo + 1)
           c == IF upTo = 0 THEN 0 ELSE 1
<1>1. Len(conMessages) \in Nat /\ upTo + 1 \in 1..(Len(conMessages) + 1)
  BY LenProperties
<1>2. /\ b \in Seq(ConMessage) /\ Len(b) = Len(conMessages) - upTo
      /\ \A j \in 1..(Len(conMessages) - upTo) : b[j] = conMessages[upTo + j]
  <2>1. /\ b \in Seq(ConMessage) /\ Len(b) = Len(conMessages) - (upTo + 1) + 1
        /\ \A j \in 1..(Len(conMessages) - (upTo + 1) + 1) : b[j] = conMessages[(upTo + 1) + j - 1]
    BY <1>1, ConFromPlace
  <2>2. Len(conMessages) - (upTo + 1) + 1 = Len(conMessages) - upTo
    BY <1>1
  <2>3. ASSUME NEW j \in 1..(Len(conMessages) - upTo) PROVE b[j] = conMessages[upTo + j]
    <3>1. (upTo + 1) + j - 1 = upTo + j
      BY <1>1
    <3> QED BY <2>1, <2>2, <3>1
  <2> QED BY <2>1, <2>2, <2>3
<1>3. a \in Seq(ConMessage) /\ Len(a) = c /\ \A i \in 1..c : a[i].role = "checkpoint" /\ a[i].at = 0
  <2>1. ConPlain("checkpoint", 0, 1) =
          [role |-> "checkpoint", at |-> 0, calls |-> <<>>, of |-> 0, k |-> 0, size |-> 1, usage |-> 0]
    BY DEF ConPlain
  <2>2. 0 \in 0..ConMaxLen /\ 0 \in 0..2 /\ 1 \in Nat /\ 0 \in Nat /\ <<>> \in ConCalls /\ "checkpoint" \in ConRoles
    BY ConAssumption DEF ConCalls, ConRoles
  <2>3. ConPlain("checkpoint", 0, 1) \in ConMessage
    BY <2>1, <2>2 DEF ConMessage
  <2>4. CASE upTo = 0
    <3>1. a = <<>> /\ c = 0
      BY <2>4 DEF ConCheckpoint
    <3> QED BY <3>1, EmptySeq
  <2>5. CASE upTo # 0
    <3>1. a = <<ConPlain("checkpoint", 0, 1)>> /\ c = 1
      BY <2>5 DEF ConCheckpoint
    <3> HIDE DEF a, c
    <3>2. a \in Seq(ConMessage) /\ Len(a) = 1 /\ a[1] = ConPlain("checkpoint", 0, 1)
      BY <2>3, <3>1
    <3>3. \A i \in 1..1 : i = 1
      OBVIOUS
    <3> QED BY <2>1, <3>1, <3>2, <3>3
  <2> QED BY <2>4, <2>5
<1>4. c \in 0..1
  OBVIOUS
<1> HIDE DEF a, b, c
<1>5. /\ a \o b \in Seq(ConMessage) /\ Len(a \o b) = Len(a) + Len(b)
      /\ \A i \in 1..(Len(a) + Len(b)) : (a \o b)[i] = IF i <= Len(a) THEN a[i] ELSE b[i - Len(a)]
  BY <1>2, <1>3, ConcatProperties
<1>6. ASSUME NEW i \in 1..Len(a \o b)
      PROVE  \/ i <= c /\ (a \o b)[i].role = "checkpoint" /\ (a \o b)[i].at = 0
             \/ i > c /\ upTo + (i - c) \in (upTo + 1)..Len(conMessages) /\ (a \o b)[i] = conMessages[upTo + (i - c)]
  <2>1. CASE i <= c
    BY <1>2, <1>3, <1>4, <1>5, <2>1
  <2>2. CASE ~(i <= c)
    <3>1. i - c \in 1..(Len(conMessages) - upTo) /\ i > c /\ upTo + (i - c) \in (upTo + 1)..Len(conMessages)
      BY <1>1, <1>2, <1>3, <1>4, <1>5, <2>2
    <3>2. (a \o b)[i] = b[i - c]
      BY <1>3, <1>5, <2>2
    <3> QED BY <1>2, <3>1, <3>2
  <2> QED BY <2>1, <2>2
<1> QED BY <1>2, <1>3, <1>5, <1>6 DEF a, b, c

\* A request has, word for word, what comes after its checkpoint and nothing from before it.
LEMMA ConRequestVerbatim ==
    ASSUME conMessages \in Seq(ConMessage), ConGroups, NEW upTo \in Nat, upTo < Len(conMessages),
           conMessages[upTo + 1].role # "result",
           conSent' = ConPrepared(ConCheckpoint(upTo) \o ConFrom(upTo + 1))
    PROVE  /\ \A i \in ConVerbatim' : i > upTo
           /\ \A i \in (upTo + 1)..Len(conMessages) :
                 \/ i \in ConVerbatim'
                 \/ ConEmptied(conMessages[i])
                 \/ conMessages[i].role = "result" /\ conMessages[conMessages[i].of].calls[conMessages[i].k] = "unknown"
<1> DEFINE msgs == ConCheckpoint(upTo) \o ConFrom(upTo + 1)
           c == IF upTo = 0 THEN 0 ELSE 1
           sent == ConPrepared(msgs)
<1>1. /\ msgs \in Seq(ConMessage) /\ Len(msgs) = c + (Len(conMessages) - upTo)
      /\ \A i \in 1..Len(msgs) :
            \/ i <= c /\ msgs[i].role = "checkpoint" /\ msgs[i].at = 0
            \/ i > c /\ upTo + (i - c) \in (upTo + 1)..Len(conMessages) /\ msgs[i] = conMessages[upTo + (i - c)]
  BY ConAskedWith
<1>2. c \in 0..1 /\ Len(conMessages) \in Nat
  BY LenProperties
<1>3. ConVerbatim' = {sent[i].at : i \in 1..Len(sent)} \ {0}
  BY DEF ConVerbatim
<1> HIDE DEF msgs, c
<1>4. /\ sent \in Seq(ConMessage)
      /\ \A j \in 1..Len(msgs) : \E p \in Nat : Block(sent, ConUnit(msgs, msgs[j]), p)
      /\ \A i \in 1..Len(sent) : \E j \in 1..Len(msgs), p \in Nat : /\ Block(sent, ConUnit(msgs, msgs[j]), p)
                                                                   /\ i - p \in 1..Len(ConUnit(msgs, msgs[j]))
  BY <1>1, ConPreparedUnits
<1> HIDE DEF sent
<1>5. Len(sent) \in Nat
  BY <1>4, LenProperties
<1>6. \A j \in 1..Len(msgs) : msgs[j] \in ConMessage /\ (msgs[j].at = 0 \/ msgs[j].at > upTo)
  <2> SUFFICES ASSUME NEW j \in 1..Len(msgs) PROVE msgs[j] \in ConMessage /\ (msgs[j].at = 0 \/ msgs[j].at > upTo)
    OBVIOUS
  <2>1. msgs[j] \in ConMessage
    BY <1>1, ElementOfSeq
  <2>2. CASE msgs[j].at = 0
    BY <2>1, <2>2
  <2>3. CASE j > c /\ upTo + (j - c) \in (upTo + 1)..Len(conMessages) /\ msgs[j] = conMessages[upTo + (j - c)]
    <3>1. upTo + (j - c) \in 1..Len(conMessages)
      BY <1>2, <2>3
    <3>2. msgs[j].at = upTo + (j - c)
      BY <2>3, <3>1 DEF ConGroups
    <3> QED BY <1>2, <2>1, <2>3, <3>2
  <2> QED BY <1>1, <2>2, <2>3
<1>7. ASSUME NEW i \in 1..Len(sent) PROVE sent[i].at = 0 \/ sent[i].at > upTo
  <2>1. PICK j \in 1..Len(msgs), p \in Nat : /\ Block(sent, ConUnit(msgs, msgs[j]), p)
                                             /\ i - p \in 1..Len(ConUnit(msgs, msgs[j]))
    BY <1>4
  <2> DEFINE unit == ConUnit(msgs, msgs[j])
             m == i - p
  <2>2. sent[i] = unit[m] /\ m \in 1..Len(unit)
    <3>1. i = p + m
      BY <1>5, <2>1
    <3> QED BY <2>1, <3>1 DEF Block
  <2>3. PICK n \in 0..2 : /\ Len(unit) = n + 1 /\ unit[1].at = msgs[j].at
                          /\ \A k \in 1..n : unit[k + 1] = ConResultOf(msgs, msgs[j].at, k)
    <3>1. unit # <<>>
      BY <2>2
    <3> QED BY <1>1, <1>6, <3>1, ConUnitShape
  <2> HIDE DEF unit, m
  <2>4. CASE m = 1
    BY <1>6, <2>2, <2>3, <2>4
  <2>5. CASE m # 1
    <3> DEFINE k == m - 1
    <3>1. k \in 1..n /\ k \in 1..2 /\ m = k + 1
      BY <2>2, <2>3, <2>5
    <3> HIDE DEF k
    <3>2. sent[i] = ConResultOf(msgs, msgs[j].at, k)
      BY <2>2, <2>3, <3>1
    <3>3. msgs[j].at \in 0..ConMaxLen
      BY <1>6 DEF ConMessage
    <3>4. sent[i].at = 0 \/ \E x \in ConResults(msgs, msgs[j].at, k) : sent[i] = msgs[x]
      <4>1. msgs \in Seq(ConMessage)
        BY <1>1
      <4>2. \/ ConResultOf(msgs, msgs[j].at, k).at = 0
            \/ \E x \in ConResults(msgs, msgs[j].at, k) : ConResultOf(msgs, msgs[j].at, k) = msgs[x]
        BY <3>1, <3>3, <4>1, ConResultOfType
      <4> QED BY <3>2, <4>2
    <3> QED BY <1>6, <3>4 DEF ConResults
  <2> QED BY <2>4, <2>5
<1>8. \A i \in ConVerbatim' : i > upTo
  BY <1>3, <1>7
<1>9. ASSUME NEW i \in (upTo + 1)..Len(conMessages) PROVE msgs[c + (i - upTo)] = conMessages[i] /\ c + (i - upTo) \in 1..Len(msgs)
  <2> DEFINE j == c + (i - upTo)
  <2>1. j \in 1..Len(msgs) /\ ~(j <= c) /\ upTo + (j - c) = i
    BY <1>1, <1>2
  <2> HIDE DEF j
  <2> QED BY <1>1, <2>1 DEF j
<1>10. ASSUME NEW i \in (upTo + 1)..Len(conMessages), conMessages[i].role # "result", ~ConEmptied(conMessages[i])
       PROVE  \E n \in 0..2, p \in Nat :
                 /\ ConKnown(conMessages[i]) = 1..n /\ p + n + 1 <= Len(sent) /\ sent[p + 1].at = i
                 /\ \A k \in 1..n : sent[p + (k + 1)] = ConResultOf(msgs, i, k)
  <2> DEFINE j == c + (i - upTo)
  <2>1. msgs[j] = conMessages[i] /\ j \in 1..Len(msgs)
    BY <1>9
  <2>2. conMessages[i].at = i
    BY <1>2 DEF ConGroups
  <2> HIDE DEF j
  <2> DEFINE unit == ConUnit(msgs, msgs[j])
  <2>3. PICK p \in Nat : Block(sent, unit, p)
    BY <1>4, <2>1
  <2>4. PICK n \in 0..2 : /\ Len(unit) = n + 1 /\ unit[1].at = i /\ ConKnown(conMessages[i]) = 1..n
                          /\ \A k \in 1..n : unit[k + 1] = ConResultOf(msgs, i, k)
    BY <1>1, <1>6, <1>10, <2>1, <2>2, ConUnitShape
  <2> HIDE DEF unit
  <2>5. p + (n + 1) <= Len(sent) /\ \A m \in 1..(n + 1) : sent[p + m] = unit[m]
    BY <2>3, <2>4 DEF Block
  <2>6. \A k \in 1..n : sent[p + (k + 1)] = ConResultOf(msgs, i, k)
    <3>1. \A k \in 1..n : k + 1 \in 1..(n + 1)
      OBVIOUS
    <3> QED BY <2>4, <2>5, <3>1
  <2>7. sent[p + 1].at = i /\ p + n + 1 <= Len(sent)
    BY <1>5, <2>4, <2>5
  <2> QED BY <2>4, <2>6, <2>7
<1>11. ASSUME NEW i \in (upTo + 1)..Len(conMessages), conMessages[i].role = "result",
              conMessages[conMessages[i].of].calls[conMessages[i].k] # "unknown"
       PROVE  i \in ConVerbatim'
  <2> DEFINE a == conMessages[i].of
             k == conMessages[i].k
  <2>1. i \in 1..Len(conMessages)
    BY <1>2
  <2>2. /\ a \in 1..(i - 1) /\ i = a + k /\ conMessages[a].role = "assistant" /\ k \in 1..Len(conMessages[a].calls)
        /\ \A j \in (a + 1)..i : conMessages[j].role = "result"
    BY <1>11, <2>1 DEF ConGroups
  <2>3. a \in (upTo + 1)..Len(conMessages) /\ a \in 1..Len(conMessages)
    <3>1. CASE a <= upTo
      <4>1. upTo + 1 \in (a + 1)..i
        BY <1>2, <2>2, <3>1
      <4> QED BY <2>2, <4>1
    <3>2. CASE ~(a <= upTo)
      BY <1>2, <2>2, <3>2
    <3> QED BY <3>1, <3>2
  <2>4. conMessages[a] \in ConMessage /\ conMessages[i] \in ConMessage
    BY <2>1, <2>3, ElementOfSeq
  <2>5. k \in ConKnown(conMessages[a])
    <3>1. PICK n \in 0..2 : /\ ConKnown(conMessages[a]) = 1..n
                            /\ \A x \in 1..Len(conMessages[a].calls) : x > n => conMessages[a].calls[x] = "unknown"
      BY <2>4, ConKnownFirst
    <3>2. ~(k > n) /\ k \in Nat /\ k >= 1
      BY <1>11, <2>2, <3>1
    <3>3. k \in 1..n
      BY <3>2
    <3> QED BY <3>1, <3>3
  <2>6. ~ConEmptied(conMessages[a])
    BY <2>5 DEF ConEmptied
  <2> HIDE DEF a, k
  <2>7. PICK n \in 0..2, p \in Nat :
           /\ ConKnown(conMessages[a]) = 1..n /\ p + n + 1 <= Len(sent)
           /\ \A x \in 1..n : sent[p + (x + 1)] = ConResultOf(msgs, a, x)
    <3>1. conMessages[a].role # "result"
      BY <2>2
    <3> QED BY <1>10, <2>3, <2>6, <3>1
  <2>8. k \in 1..n /\ k \in 1..2 /\ p + (k + 1) \in 1..Len(sent)
    <3>1. k \in 1..n
      BY <2>5, <2>7
    <3> QED BY <1>5, <2>7, <3>1
  <2>9. a \in 0..ConMaxLen
    BY <2>4 DEF ConMessage, a
  <2> DEFINE y == c + (i - upTo)
  <2>10. y \in ConResults(msgs, a, k)
    <3>1. msgs[y] = conMessages[i] /\ y \in 1..Len(msgs)
      BY <1>9
    <3> QED BY <1>11, <3>1 DEF ConResults, a, k
  <2>11. ASSUME NEW x \in ConResults(msgs, a, k) PROVE msgs[x].at = i
    <3>1. x \in 1..Len(msgs) /\ msgs[x].role = "result" /\ msgs[x].of = a /\ msgs[x].k = k
      BY DEF ConResults
    <3>2. upTo + (x - c) \in (upTo + 1)..Len(conMessages) /\ msgs[x] = conMessages[upTo + (x - c)]
      BY <1>1, <3>1
    <3> DEFINE z == upTo + (x - c)
    <3>3. z \in 1..Len(conMessages)
      BY <1>2, <3>2
    <3> HIDE DEF z
    <3>4. z = a + k /\ conMessages[z].at = z
      BY <3>1, <3>2, <3>3 DEF ConGroups, z
    <3> QED BY <2>2, <3>2, <3>4 DEF z
  <2> HIDE DEF y
  <2>12. \E x \in ConResults(msgs, a, k) : ConResultOf(msgs, a, k) = msgs[x]
    BY <1>1, <2>8, <2>9, <2>10, ConResultOfType
  <2>13. sent[p + (k + 1)].at = i
    BY <2>7, <2>8, <2>11, <2>12
  <2>14. i # 0
    BY <1>2
  <2> QED BY <1>3, <2>8, <2>13, <2>14
<1>12. ASSUME NEW i \in (upTo + 1)..Len(conMessages), conMessages[i].role # "result", ~ConEmptied(conMessages[i])
       PROVE  i \in ConVerbatim'
  <2>1. PICK n \in 0..2, p \in Nat : p + n + 1 <= Len(sent) /\ sent[p + 1].at = i
    BY <1>10, <1>12
  <2>2. p + 1 \in 1..Len(sent) /\ i # 0
    BY <1>2, <1>5, <2>1
  <2> QED BY <1>3, <2>1, <2>2
<1> QED BY <1>8, <1>11, <1>12

-----------------------------------------------------------------------------
(* The steps *)

LEMMA ConInitHolds == ConInit => ConInv
<1> SUFFICES ASSUME ConInit PROVE ConInv
  OBVIOUS
<1>1. PICK n \in ConSizes : conMessages = <<ConPlain("user", 1, n)>>
  BY DEF ConInit
<1> DEFINE m == ConPlain("user", 1, n)
<1>2. m = [role |-> "user", at |-> 1, calls |-> <<>>, of |-> 0, k |-> 0, size |-> n, usage |-> 0]
  BY DEF ConPlain
<1>3. 0 \in 0..ConMaxLen /\ 1 \in 0..ConMaxLen /\ 0 \in 0..2 /\ <<>> \in ConCalls /\ "user" \in ConRoles
      /\ n \in Nat /\ 0 \in Nat /\ 1 <= ConMaxLen /\ ConMaxRefs \in Nat
  BY ConAssumption DEF ConCalls, ConRoles
<1>4. m \in ConMessage
  BY <1>2, <1>3 DEF ConMessage
<1>5. conMessages \in Seq(ConMessage) /\ Len(conMessages) = 1 /\ conMessages[1] = m
  <2> HIDE DEF m
  <2>1. conMessages = <<m>>
    BY <1>1 DEF m
  <2> QED BY <1>4, <2>1
<1> HIDE DEF m
<1>6. conState = [upTo |-> 0, refs |-> <<>>] /\ conSent = <<>> /\ conReceipt \in {"done", "live"} /\ conPhase = "ready"
  BY DEF ConInit
<1>7. <<>> \in Seq(1..ConMaxLen) /\ Len(<<>>) = 0 /\ <<>> \in Seq(ConMessage) /\ 1..0 = {}
  BY EmptySeq
<1>8. \A i \in 1..Len(conMessages) : i = 1
  BY <1>5
<1>9. ConTypeOK
  <2>1. 0 \in 0..Len(conMessages) /\ Len(conState.refs) <= ConMaxRefs
    BY <1>3, <1>5, <1>6, <1>7
  <2>2. conState \in [upTo : 0..Len(conMessages), refs : Seq(1..ConMaxLen)]
    BY <1>6, <1>7, <2>1
  <2>3. \A i \in 1..Len(conMessages) : conMessages[i].at = i
    BY <1>2, <1>5, <1>8
  <2> QED BY <1>3, <1>5, <1>6, <1>7, <2>1, <2>2, <2>3 DEF ConTypeOK
<1>10. ConGroups
  BY <1>2, <1>3, <1>5, <1>8 DEF ConGroups
<1>11. ConCovered
  <2>1. conState.upTo = 0 /\ conState.refs = <<>>
    BY <1>6
  <2> QED BY <1>2, <1>3, <1>5, <1>7, <2>1 DEF ConCovered
<1>12. ConAsking /\ ConNothingBetween
  BY <1>6 DEF ConAsking, ConNothingBetween
<1>13. ConPaired
  BY <1>6, <1>7 DEF ConPaired
<1> QED BY <1>9, <1>10, <1>11, <1>12, <1>13 DEF ConInv

\* What the library may append keeps the transcript and its checkpoint what they are.
LEMMA ConAppended ==
    ASSUME ConInv, NEW new \in Seq(ConMessage), Len(conMessages) + Len(new) <= ConMaxLen,
           conMessages' = conMessages \o new, UNCHANGED <<conState, conSent, conReceipt>>, conPhase' \in {"ready", "tools"},
           conPhase' = "tools" => Len(new) > 0 /\ new[Len(new)].role = "assistant",
           \A j \in 1..Len(new) :
               /\ new[j].at = Len(conMessages) + j /\ new[j].role # "checkpoint" /\ new[j].calls \in ConCalls
               /\ new[j].role # "assistant" => new[j].calls = <<>>
               /\ new[j].role = "result" =>
                     /\ new[j].of = Len(conMessages) /\ new[j].k = j /\ conMessages[Len(conMessages)].role = "assistant"
                     /\ j \in 1..Len(conMessages[Len(conMessages)].calls)
                     /\ \A x \in 1..j : new[x].role = "result"
    PROVE  ConInv'
<1> DEFINE n == Len(conMessages)
           d == Len(new)
<1>1. /\ conMessages \in Seq(ConMessage) /\ n \in Nat /\ d \in Nat /\ conState.upTo \in Nat /\ conState.upTo < n
      /\ n + d <= ConMaxLen
  BY LenProperties DEF ConInv, ConTypeOK, ConCovered
<1>2. /\ conMessages' \in Seq(ConMessage) /\ Len(conMessages') = n + d
      /\ \A i \in 1..n : conMessages'[i] = conMessages[i]
      /\ \A j \in 1..d : conMessages'[n + j] = new[j]
  <2>1. /\ conMessages' \in Seq(ConMessage) /\ Len(conMessages') = n + d
        /\ \A i \in 1..(n + d) : conMessages'[i] = IF i <= n THEN conMessages[i] ELSE new[i - n]
    BY <1>1, ConcatProperties
  <2>2. ASSUME NEW i \in 1..n PROVE conMessages'[i] = conMessages[i]
    <3>1. i \in 1..(n + d) /\ i <= n
      BY <1>1
    <3> QED BY <2>1, <3>1
  <2>3. ASSUME NEW j \in 1..d PROVE conMessages'[n + j] = new[j]
    <3>1. n + j \in 1..(n + d) /\ ~(n + j <= n) /\ (n + j) - n = j
      BY <1>1
    <3> QED BY <2>1, <3>1
  <2> QED BY <2>1, <2>2, <2>3
<1> HIDE DEF n, d
<1>3. \A i \in 1..(n + d) : i \in 1..n \/ \E j \in 1..d : i = n + j
  <2> SUFFICES ASSUME NEW i \in 1..(n + d), ~(i \in 1..n) PROVE \E j \in 1..d : i = n + j
    OBVIOUS
  <2>1. i - n \in 1..d /\ i = n + (i - n)
    BY <1>1
  <2> QED BY <2>1
<1>4. ConGroups'
  <2> SUFFICES ASSUME NEW i \in 1..(n + d)
               PROVE  /\ conMessages'[i].at = i /\ conMessages'[i].role # "checkpoint" /\ conMessages'[i].calls \in ConCalls
                      /\ conMessages'[i].role # "assistant" => conMessages'[i].calls = <<>>
                      /\ conMessages'[i].role = "result" =>
                            /\ conMessages'[i].of \in 1..(i - 1) /\ i = conMessages'[i].of + conMessages'[i].k
                            /\ conMessages'[conMessages'[i].of].role = "assistant"
                            /\ conMessages'[i].k \in 1..Len(conMessages'[conMessages'[i].of].calls)
                            /\ \A j \in (conMessages'[i].of + 1)..i : conMessages'[j].role = "result"
    BY <1>2 DEF ConGroups
  <2>1. CASE i \in 1..n
    <3>1. conMessages'[i] = conMessages[i]
      BY <1>2, <2>1
    <3>2. /\ conMessages[i].at = i /\ conMessages[i].role # "checkpoint" /\ conMessages[i].calls \in ConCalls
          /\ conMessages[i].role # "assistant" => conMessages[i].calls = <<>>
          /\ conMessages[i].role = "result" =>
                /\ conMessages[i].of \in 1..(i - 1) /\ i = conMessages[i].of + conMessages[i].k
                /\ conMessages[conMessages[i].of].role = "assistant"
                /\ conMessages[i].k \in 1..Len(conMessages[conMessages[i].of].calls)
                /\ \A j \in (conMessages[i].of + 1)..i : conMessages[j].role = "result"
      BY <2>1 DEF ConInv, ConGroups, n
    <3>3. ASSUME conMessages[i].role = "result"
          PROVE  /\ conMessages[i].of \in 1..n
                 /\ \A j \in (conMessages[i].of + 1)..i : j \in 1..n
      <4>1. conMessages[i].of \in 1..(i - 1) /\ i \in Nat /\ i <= n /\ 1 <= i
        BY <1>1, <2>1, <3>2, <3>3
      <4> QED BY <1>1, <4>1
    <3>4. ASSUME conMessages'[i].role = "result"
          PROVE  /\ conMessages'[i].of \in 1..(i - 1) /\ i = conMessages'[i].of + conMessages'[i].k
                 /\ conMessages'[conMessages'[i].of].role = "assistant"
                 /\ conMessages'[i].k \in 1..Len(conMessages'[conMessages'[i].of].calls)
                 /\ \A j \in (conMessages'[i].of + 1)..i : conMessages'[j].role = "result"
      <4> DEFINE a == conMessages[i].of
      <4>1. conMessages'[i].of = a /\ conMessages'[i].k = conMessages[i].k /\ conMessages[i].role = "result"
        BY <3>1, <3>4
      <4>2. conMessages'[a] = conMessages[a] /\ \A j \in (a + 1)..i : conMessages'[j] = conMessages[j]
        BY <1>2, <3>3, <4>1
      <4>3. /\ a \in 1..(i - 1) /\ i = a + conMessages[i].k /\ conMessages[a].role = "assistant"
            /\ conMessages[i].k \in 1..Len(conMessages[a].calls)
            /\ \A j \in (a + 1)..i : conMessages[j].role = "result"
        BY <3>2, <4>1
      <4>4. \A j \in (a + 1)..i : conMessages'[j].role = "result"
        BY <4>2, <4>3
      <4>5. conMessages'[a].role = "assistant" /\ conMessages'[i].k \in 1..Len(conMessages'[a].calls)
        BY <4>1, <4>2, <4>3
      <4> HIDE DEF a
      <4> QED BY <4>1, <4>3, <4>4, <4>5
    <3> QED BY <3>1, <3>2, <3>4
  <2>2. CASE \E j \in 1..d : i = n + j
    <3>1. PICK j \in 1..d : i = n + j
      BY <2>2
    <3>2. conMessages'[i] = new[j]
      BY <1>2, <3>1
    <3>3. ASSUME new[j].role = "result"
          PROVE  /\ n \in 1..(i - 1) /\ i = n + j /\ conMessages'[n] = conMessages[n] /\ n \in 1..n
                 /\ \A x \in (n + 1)..i : conMessages'[x].role = "result"
      <4>1. \A x \in 1..j : new[x].role = "result"
        BY <3>3 DEF d
      <4>2. n \in 1..n
        BY <1>1
      <4>3. ASSUME NEW x \in (n + 1)..i PROVE conMessages'[x].role = "result"
        <5>1. x - n \in 1..j /\ x - n \in 1..d /\ n + (x - n) = x
          BY <1>1, <3>1
        <5>2. conMessages'[x] = new[x - n]
          BY <1>2, <5>1
        <5> QED BY <4>1, <5>1, <5>2
      <4> QED BY <1>1, <1>2, <3>1, <4>2, <4>3
    <3>4. /\ new[j].at = i /\ new[j].role # "checkpoint" /\ new[j].calls \in ConCalls
          /\ new[j].role # "assistant" => new[j].calls = <<>>
          /\ new[j].role = "result" => /\ new[j].of = n /\ new[j].k = j /\ conMessages[n].role = "assistant"
                                       /\ j \in 1..Len(conMessages[n].calls)
      BY <3>1 DEF n, d
    <3>5. ASSUME conMessages'[i].role = "result"
          PROVE  /\ conMessages'[i].of \in 1..(i - 1) /\ i = conMessages'[i].of + conMessages'[i].k
                 /\ conMessages'[conMessages'[i].of].role = "assistant"
                 /\ conMessages'[i].k \in 1..Len(conMessages'[conMessages'[i].of].calls)
                 /\ \A x \in (conMessages'[i].of + 1)..i : conMessages'[x].role = "result"
      <4>1. new[j].role = "result" /\ conMessages'[i].of = n /\ conMessages'[i].k = j
        BY <3>2, <3>4, <3>5
      <4>2. conMessages'[n].role = "assistant" /\ j \in 1..Len(conMessages'[n].calls)
        BY <3>3, <3>4, <4>1
      <4> QED BY <3>3, <4>1, <4>2
    <3>6. /\ conMessages'[i].at = i /\ conMessages'[i].role # "checkpoint" /\ conMessages'[i].calls \in ConCalls
          /\ conMessages'[i].role # "assistant" => conMessages'[i].calls = <<>>
      BY <3>2, <3>4
    <3> QED BY <3>5, <3>6
  <2> QED BY <1>3, <2>1, <2>2
<1>5. ConTypeOK'
  <2>1. \A i \in 1..(n + d) : conMessages'[i].at = i
    BY <1>2, <1>4 DEF ConGroups
  <2>2. conState \in [upTo : 0..n, refs : Seq(1..ConMaxLen)] /\ Len(conState.refs) <= ConMaxRefs
        /\ conSent \in Seq(ConMessage) /\ conReceipt \in {"done", "live"}
    BY DEF ConInv, ConTypeOK, n
  <2>3. conState' \in [upTo : 0..(n + d), refs : Seq(1..ConMaxLen)]
    <3>1. 0..n \in SUBSET (0..(n + d))
      BY <1>1
    <3> QED BY <2>2, <3>1
  <2>4. conState' = conState /\ conSent' = conSent /\ conReceipt' = conReceipt
    OBVIOUS
  <2>5. conPhase' \in {"ready", "model", "tools", "refused"}
    OBVIOUS
  <2> QED BY <1>1, <1>2, <2>1, <2>2, <2>3, <2>4, <2>5 DEF ConTypeOK
<1>6. ConCovered'
  <2>1. conState.upTo + 1 \in 1..n /\ conState.upTo < n + d
    BY <1>1
  <2>2. /\ conMessages[conState.upTo + 1].role # "result"
        /\ Len(conState.refs) = IF conState.upTo < ConMaxRefs THEN conState.upTo ELSE ConMaxRefs
        /\ \A j \in 1..Len(conState.refs) : conState.refs[j] = conState.upTo - Len(conState.refs) + j
    BY DEF ConInv, ConCovered
  <2>3. conState' = conState
    OBVIOUS
  <2> QED BY <1>2, <2>1, <2>2, <2>3 DEF ConCovered
<1>7. ConAsking'
  <2> SUFFICES ASSUME conPhase' = "tools" PROVE conMessages'[n + d].role = "assistant"
    BY <1>2 DEF ConAsking
  <2>1. d \in 1..d /\ new[d].role = "assistant"
    BY <1>1 DEF d
  <2> QED BY <1>2, <2>1
<1>8. ConPaired' /\ ConNothingBetween'
  <2>1. conSent' = conSent /\ conPhase' # "model"
    OBVIOUS
  <2> QED BY <2>1 DEF ConInv, ConPaired, ConNothingBetween
<1> QED BY <1>4, <1>5, <1>6, <1>7, <1>8 DEF ConInv

LEMMA ConSteerHolds ==
    ASSUME ConInv, NEW size \in ConSizes, ConSteer(size)
    PROVE  ConInv'
<1> DEFINE m == ConPlain("user", Len(conMessages) + 1, size)
           new == <<m>>
<1>1. conMessages \in Seq(ConMessage) /\ Len(conMessages) \in Nat
  BY LenProperties DEF ConInv, ConTypeOK
<1>2. /\ Len(conMessages) + Len(new) <= ConMaxLen /\ conMessages' = conMessages \o new
      /\ conPhase' = "ready" /\ UNCHANGED <<conState, conSent, conReceipt>>
  BY DEF ConSteer, ConAppend
<1>3. m = [role |-> "user", at |-> Len(conMessages) + 1, calls |-> <<>>, of |-> 0, k |-> 0, size |-> size, usage |-> 0]
  BY DEF ConPlain
<1> HIDE DEF m
<1>4. Len(new) = 1 /\ new[1] = m
  OBVIOUS
<1>5. Len(conMessages) + 1 \in 0..ConMaxLen
  BY <1>1, <1>2, <1>4, ConAssumption
<1>6. 0 \in 0..ConMaxLen /\ 0 \in 0..2 /\ <<>> \in ConCalls /\ "user" \in ConRoles /\ size \in Nat /\ 0 \in Nat
  BY ConAssumption DEF ConCalls, ConRoles
<1>7. m \in ConMessage
  BY <1>3, <1>5, <1>6 DEF ConMessage
<1>8. new \in Seq(ConMessage)
  BY <1>7
<1> HIDE DEF new
<1>9. \A j \in 1..Len(new) : /\ new[j].at = Len(conMessages) + j /\ new[j].role = "user" /\ new[j].calls = <<>>
  <2>1. \A j \in 1..1 : j = 1
    OBVIOUS
  <2> QED BY <1>3, <1>4, <2>1
<1> QED BY <1>2, <1>6, <1>8, <1>9, ConAppended

LEMMA ConAnswerHolds ==
    ASSUME ConInv, NEW calls \in ConCalls, NEW size \in ConSizes, NEW reported \in BOOLEAN, ConAnswer(calls, size, reported)
    PROVE  ConInv'
<1> DEFINE cost == IF reported THEN ConReserved + ConTokens(conSent) + size ELSE 0
           m == [ConPlain("assistant", Len(conMessages) + 1, size) EXCEPT !.calls = calls, !.usage = cost]
           new == <<m>>
<1>1. conMessages \in Seq(ConMessage) /\ Len(conMessages) \in Nat /\ conSent \in Seq(ConMessage)
  BY LenProperties DEF ConInv, ConTypeOK
<1>2. /\ Len(conMessages) + Len(new) <= ConMaxLen /\ conMessages' = conMessages \o new
      /\ conPhase' \in {"ready", "tools"} /\ UNCHANGED <<conState, conSent, conReceipt>>
  BY DEF ConAnswer, ConAppend
<1>3. cost \in Nat
  <2>1. ConTokens(conSent) \in Nat
    BY <1>1, ConTokensType
  <2> QED BY <2>1, ConAssumption
<1> HIDE DEF cost
<1>4. m = [role |-> "assistant", at |-> Len(conMessages) + 1, calls |-> calls, of |-> 0, k |-> 0, size |-> size,
           usage |-> cost]
  <2> DEFINE a == ConPlain("assistant", Len(conMessages) + 1, size)
             b == [a EXCEPT !.calls = calls]
  <2>1. a = [role |-> "assistant", at |-> Len(conMessages) + 1, calls |-> <<>>, of |-> 0, k |-> 0, size |-> size,
             usage |-> 0]
    BY DEF ConPlain
  <2>2. m = [b EXCEPT !.usage = cost]
    OBVIOUS
  <2> HIDE DEF a, m
  <2>3. b = [role |-> "assistant", at |-> Len(conMessages) + 1, calls |-> calls, of |-> 0, k |-> 0, size |-> size,
             usage |-> 0]
    BY <2>1
  <2> HIDE DEF b
  <2> QED BY <2>2, <2>3
<1> HIDE DEF m
<1>5. Len(new) = 1 /\ new[1] = m
  OBVIOUS
<1>6. Len(conMessages) + 1 \in 0..ConMaxLen
  BY <1>1, <1>2, <1>5, ConAssumption
<1>7. 0 \in 0..ConMaxLen /\ 0 \in 0..2 /\ "assistant" \in ConRoles /\ size \in Nat
  BY ConAssumption DEF ConRoles
<1>8. m \in ConMessage
  BY <1>3, <1>4, <1>6, <1>7 DEF ConMessage
<1>9. new \in Seq(ConMessage)
  BY <1>8
<1> HIDE DEF new
<1>10. \A j \in 1..Len(new) : /\ new[j].at = Len(conMessages) + j /\ new[j].role = "assistant" /\ new[j].calls \in ConCalls
  <2>1. \A j \in 1..1 : j = 1
    OBVIOUS
  <2> QED BY <1>4, <1>5, <2>1
<1>11. Len(new) > 0 /\ new[Len(new)].role = "assistant"
  BY <1>4, <1>5
<1> QED BY <1>2, <1>9, <1>10, <1>11, ConAppended

LEMMA ConFinishHolds ==
    ASSUME ConInv, NEW size \in ConSizes, NEW missing \in {0, 1}, ConFinish(size, missing)
    PROVE  ConInv'
<1> DEFINE last == Len(conMessages)
           d == Len(conMessages[last].calls) - missing
           m(k) == [ConPlain("result", last + k, size) EXCEPT !.of = last, !.k = k]
           new == [k \in 1..d |-> m(k)]
           made == Len(new)
<1>1. /\ conMessages \in Seq(ConMessage) /\ last \in Nat /\ last >= 1 /\ last <= ConMaxLen
      /\ conMessages[last].role = "assistant" /\ conMessages[last].calls \in ConCalls
  <2>1. conMessages \in Seq(ConMessage) /\ last \in Nat /\ last <= ConMaxLen
    BY LenProperties DEF ConInv, ConTypeOK
  <2>2. last >= 1
    BY <2>1 DEF ConInv, ConTypeOK, ConCovered
  <2>3. last \in 1..last
    BY <2>1, <2>2
  <2> QED BY <2>1, <2>2, <2>3 DEF ConInv, ConGroups, ConAsking, ConFinish
<1>2. /\ last + made <= ConMaxLen /\ conMessages' = conMessages \o new
      /\ conPhase' = "ready" /\ UNCHANGED <<conState, conSent, conReceipt>>
  BY DEF ConFinish, ConAppend
<1>3. Len(conMessages[last].calls) \in 0..2
  BY <1>1 DEF ConCalls
<1> HIDE DEF last
<1>4. d \in Int /\ d <= 2 /\ d <= Len(conMessages[last].calls)
  <2>1. \A x \in 0..2, y \in {0, 1} : x - y \in Int /\ x - y <= 2 /\ x - y <= x
    OBVIOUS
  <2> QED BY <1>3, <2>1
<1> DEFINE n == IF d < 0 THEN 0 ELSE d
<1>5. n \in 0..2 /\ 1..d = 1..n /\ n <= Len(conMessages[last].calls)
  BY <1>3, <1>4
<1> HIDE DEF d, n
<1>6. \A k \in 1..n : m(k) = [role |-> "result", at |-> last + k, calls |-> <<>>, of |-> last, k |-> k, size |-> size,
                              usage |-> 0]
  <2> SUFFICES ASSUME NEW k \in 1..n
               PROVE  m(k) = [role |-> "result", at |-> last + k, calls |-> <<>>, of |-> last, k |-> k, size |-> size,
                              usage |-> 0]
    OBVIOUS
  <2> DEFINE a == ConPlain("result", last + k, size)
             b == [a EXCEPT !.of = last]
  <2>1. a = [role |-> "result", at |-> last + k, calls |-> <<>>, of |-> 0, k |-> 0, size |-> size, usage |-> 0]
    BY DEF ConPlain
  <2>2. m(k) = [b EXCEPT !.k = k]
    OBVIOUS
  <2> HIDE DEF a, m
  <2>3. b = [role |-> "result", at |-> last + k, calls |-> <<>>, of |-> last, k |-> 0, size |-> size, usage |-> 0]
    BY <2>1
  <2> HIDE DEF b
  <2> QED BY <2>2, <2>3
<1>7. new = [k \in 1..n |-> m(k)]
  BY <1>5
<1>8. /\ \A k \in 1..n : new[k] = [role |-> "result", at |-> last + k, calls |-> <<>>, of |-> last, k |-> k,
                                   size |-> size, usage |-> 0]
      /\ DOMAIN new = 1..n /\ new = [k \in 1..n |-> new[k]]
  BY <1>6, <1>7
<1> HIDE DEF m, new
<1>9. made = n
  BY <1>5, <1>8
<1>10. ASSUME NEW k \in 1..n PROVE new[k] \in ConMessage
  <2>1. last + k \in 0..ConMaxLen /\ last \in 0..ConMaxLen /\ k \in 0..2
    <3>1. last + n <= ConMaxLen
      BY <1>2, <1>9
    <3> QED BY <1>1, <1>5, <3>1, ConAssumption
  <2>2. <<>> \in ConCalls /\ "result" \in ConRoles /\ size \in Nat /\ 0 \in Nat
    BY ConAssumption DEF ConCalls, ConRoles
  <2> QED BY <1>8, <2>1, <2>2 DEF ConMessage
<1>11. new \in Seq(ConMessage)
  <2>1. new \in [1..n -> ConMessage] /\ n \in Nat
    BY <1>5, <1>8, <1>10
  <2> QED BY <2>1, FunctionSeq
<1>12. \A j \in 1..Len(new) :
          /\ new[j].at = last + j /\ new[j].role = "result" /\ new[j].calls = <<>> /\ new[j].of = last /\ new[j].k = j
          /\ j \in 1..Len(conMessages[last].calls)
  <2>1. \A j \in 1..n : j \in 1..Len(conMessages[last].calls)
    BY <1>3, <1>5
  <2>2. ASSUME NEW j \in 1..n
        PROVE  new[j].at = last + j /\ new[j].role = "result" /\ new[j].calls = <<>> /\ new[j].of = last /\ new[j].k = j
    BY <1>8
  <2> QED BY <1>9, <2>1, <2>2
<1>13. \A j \in 1..Len(new) : \A x \in 1..j : new[x].role = "result"
  <2>1. \A j \in 1..n : \A x \in 1..j : x \in 1..n
    BY <1>5
  <2> QED BY <1>9, <1>12, <2>1
<1>14. <<>> \in ConCalls
  BY DEF ConCalls
<1> QED BY <1>1, <1>2, <1>11, <1>12, <1>13, <1>14, ConAppended DEF last

LEMMA ConRequestHolds ==
    ASSUME ConInv, ConRequest
    PROVE  ConInv'
<1> DEFINE upTo == conState'.upTo
           msgs == ConCheckpoint(upTo) \o ConFrom(upTo + 1)
<1>1. /\ conMessages \in Seq(ConMessage) /\ Len(conMessages) \in Nat /\ Len(conMessages) <= ConMaxLen
      /\ ConTypeOK /\ ConGroups /\ ConCovered /\ ConMaxRefs \in Nat
  BY LenProperties, ConAssumption DEF ConInv, ConTypeOK
<1>2. conState' = ConCompacted /\ conMessages' = conMessages /\ conReceipt' = conReceipt
  BY DEF ConRequest
<1>3. /\ upTo \in Nat /\ upTo < Len(conMessages) /\ conMessages[upTo + 1].role # "result"
      /\ conState' = [upTo |-> upTo, refs |-> conState'.refs] /\ conState'.refs \in Seq(1..ConMaxLen)
      /\ Len(conState'.refs) = IF upTo < ConMaxRefs THEN upTo ELSE ConMaxRefs
      /\ \A j \in 1..Len(conState'.refs) : conState'.refs[j] = upTo - Len(conState'.refs) + j
  <2>1. CASE ConCompacted = conState
    BY <1>1, <1>2, <2>1 DEF ConTypeOK, ConCovered
  <2>2. CASE ConCompacted # conState
    BY <1>1, <1>2, <2>2, ConCompacts
  <2> QED BY <2>1, <2>2
<1>4. ConGroups' /\ ConCovered'
  BY <1>1, <1>2, <1>3 DEF ConGroups, ConCovered
<1>5. \/ conPhase' = "refused" /\ conSent' = conSent
      \/ conPhase' = "model" /\ conSent' = ConPrepared(msgs)
  BY DEF ConRequest
<1>6. msgs \in Seq(ConMessage)
  BY <1>1, <1>3, ConAskedWith
<1> HIDE DEF msgs
<1>7. conSent' \in Seq(ConMessage) /\ ConPaired'
  <2>1. CASE conSent' = conSent
    <3>1. conSent \in Seq(ConMessage) /\ ConPaired
      BY DEF ConInv, ConTypeOK
    <3> QED BY <2>1, <3>1 DEF ConPaired
  <2>2. CASE conSent' = ConPrepared(msgs)
    BY <1>6, <2>2, ConPreparedUnits, ConRequestPaired
  <2> QED BY <1>5, <2>1, <2>2
<1>8. ConTypeOK'
  <2>1. upTo \in 0..Len(conMessages) /\ Len(conState'.refs) <= ConMaxRefs
    BY <1>1, <1>3
  <2>2. conState' \in [upTo : 0..Len(conMessages), refs : Seq(1..ConMaxLen)]
    BY <1>3, <2>1
  <2>3. conPhase' \in {"ready", "model", "tools", "refused"}
    BY <1>5
  <2> QED BY <1>1, <1>2, <1>7, <2>1, <2>2, <2>3 DEF ConTypeOK
<1>9. ConAsking'
  BY <1>5 DEF ConAsking
<1>10. ConNothingBetween'
  <2> SUFFICES ASSUME conPhase' = "model" PROVE ConNothingBetween'
    BY DEF ConNothingBetween
  <2>1. conSent' = ConPrepared(ConCheckpoint(upTo) \o ConFrom(upTo + 1))
    BY <1>5 DEF msgs
  <2>2. /\ \A i \in ConVerbatim' : i > upTo
        /\ \A i \in (upTo + 1)..Len(conMessages) :
              \/ i \in ConVerbatim'
              \/ ConEmptied(conMessages[i])
              \/ conMessages[i].role = "result" /\ conMessages[conMessages[i].of].calls[conMessages[i].k] = "unknown"
    BY <1>1, <1>3, <2>1, ConRequestVerbatim
  <2> HIDE DEF upTo
  <2>3. ASSUME NEW i \in 1..Len(conMessages)
        PROVE  \/ i \in ConVerbatim' /\ i > upTo
               \/ i \notin ConVerbatim' /\ i <= upTo /\ (i > upTo - ConMaxRefs => Contains(conState'.refs, i))
               \/ ConEmptied(conMessages[i])
               \/ conMessages[i].role = "result" /\ conMessages[conMessages[i].of].calls[conMessages[i].k] = "unknown"
    <3>1. CASE i > upTo
      <4>1. i \in (upTo + 1)..Len(conMessages)
        BY <1>1, <1>3, <3>1
      <4> QED BY <2>2, <3>1, <4>1
    <3>2. CASE ~(i > upTo)
      <4>1. i \notin ConVerbatim' /\ i <= upTo
        BY <1>3, <2>2, <3>2
      <4>2. ASSUME i > upTo - ConMaxRefs PROVE Contains(conState'.refs, i)
        <5> DEFINE r == conState'.refs
                   j == i - upTo + Len(r)
        <5>1. Len(r) = IF upTo < ConMaxRefs THEN upTo ELSE ConMaxRefs
          BY <1>3
        <5>2. j \in 1..Len(r) /\ upTo - Len(r) + j = i
          <6>1. Len(r) \in Nat /\ upTo \in Nat /\ i \in Nat /\ i >= 1 /\ i <= upTo /\ ConMaxRefs \in Nat
                /\ i > upTo - ConMaxRefs
            BY <1>1, <1>3, <4>1, <4>2, <5>1
          <6> HIDE DEF r
          <6> QED BY <5>1, <6>1
        <5>3. r[j] = upTo - Len(r) + j
          BY <1>3, <5>2
        <5> QED BY <5>2, <5>3 DEF Contains
      <4> QED BY <4>1, <4>2
    <3> QED BY <3>1, <3>2
  <2>4. conMessages[Len(conMessages)].role = "user" => Len(conMessages) \in ConVerbatim'
    <3> DEFINE n == Len(conMessages)
    <3>1. n \in (upTo + 1)..n
      BY <1>1, <1>3
    <3>2. conMessages[n].role = "user" => ~ConEmptied(conMessages[n]) /\ conMessages[n].role # "result"
      BY DEF ConEmptied
    <3> QED BY <2>2, <3>1, <3>2
  <2>5. \A i : ConEmptied(conMessages[i])' <=> ConEmptied(conMessages[i])
    BY <1>2 DEF ConEmptied, ConKnown
  <2> QED BY <1>2, <2>3, <2>4, <2>5 DEF ConNothingBetween, upTo
<1> QED BY <1>4, <1>7, <1>8, <1>9, <1>10 DEF ConInv

LEMMA ConStepHolds == ConInv /\ [ConNext]_conVars => ConInv'
<1> SUFFICES ASSUME ConInv, [ConNext]_conVars PROVE ConInv'
  OBVIOUS
<1>1. CASE ConRequest
  BY <1>1, ConRequestHolds
<1>2. CASE \E n \in ConSizes : ConSteer(n)
  BY <1>2, ConSteerHolds
<1>3. CASE \E n \in ConSizes : \E missing \in {0, 1} : ConFinish(n, missing)
  BY <1>3, ConFinishHolds
<1>4. CASE \E n \in ConSizes : \E calls \in ConCalls, reported \in BOOLEAN : ConAnswer(calls, n, reported)
  BY <1>4, ConAnswerHolds
<1>5. CASE UNCHANGED conVars
  <2>1. /\ conMessages' = conMessages /\ conState' = conState /\ conSent' = conSent /\ conReceipt' = conReceipt
        /\ conPhase' = conPhase
    BY <1>5 DEF conVars
  <2>2. ConTypeOK' /\ ConGroups' /\ ConCovered' /\ ConAsking'
    BY <2>1 DEF ConInv, ConTypeOK, ConGroups, ConCovered, ConAsking
  <2>3. ConPaired' /\ ConNothingBetween'
    BY <2>1 DEF ConInv, ConPaired, ConNothingBetween, ConVerbatim, ConEmptied, ConKnown
  <2> QED BY <2>2, <2>3 DEF ConInv
<1> QED BY <1>1, <1>2, <1>3, <1>4, <1>5 DEF ConNext

\* The transcript, its checkpoint and the request keep their shapes.
THEOREM ConversationIsTyped == ConSpec => []ConTypeOK
<1>1. ConInv => ConTypeOK
  BY DEF ConInv
<1> QED BY <1>1, ConInitHolds, ConStepHolds, PTL DEF ConSpec

\* What a step does to the checkpoint.
LEMMA ConCheckpointStep ==
    ASSUME ConInv, [ConNext]_conVars, conState' # conState
    PROVE  /\ conState'.upTo > conState.upTo /\ conState'.upTo < Len(conMessages)
           /\ LET before == {i \in (conState.upTo + 1)..conState'.upTo : conMessages[i].role # "result"}
              IN \/ Max(before) = conState.upTo + 1
                 \/ ConTokens(ConFrom(Max(before))) > (ConWindow * 45) \div 100 - ConReserved
<1>1. ConRequest
  BY DEF ConNext, ConSteer, ConFinish, ConAnswer, conVars
<1>2. conState' = ConCompacted
  BY <1>1 DEF ConRequest
<1>3. ConTypeOK /\ ConGroups /\ ConCovered /\ conState.upTo \in Nat
  BY DEF ConInv, ConTypeOK
<1> QED BY <1>2, <1>3, ConCompacts

\* Every request carries the conversation: well formed, nothing lost between the checkpoint
\* and what follows it, and each compaction moves on without taking more than it must.
THEOREM RequestsAreWhole == ConSpec => ConRequestWhole
<1>1. ConInv /\ [ConNext]_conVars => [ConPaired' /\ ConNothingBetween']_conVars
  BY ConStepHolds DEF ConInv
<1>2. ConInv /\ [ConNext]_conVars =>
        [conState' # conState => conState'.upTo > conState.upTo /\ conState'.upTo < Len(conMessages)]_conVars
  BY ConCheckpointStep
<1>3. ConInv /\ [ConNext]_conVars =>
        [conState' # conState =>
          LET before == {i \in (conState.upTo + 1)..conState'.upTo : conMessages[i].role # "result"}
          IN \/ Max(before) = conState.upTo + 1
             \/ ConTokens(ConFrom(Max(before))) > (ConWindow * 45) \div 100 - ConReserved]_conVars
  BY ConCheckpointStep
<1> QED BY <1>1, <1>2, <1>3, ConInitHolds, ConStepHolds, PTL
     DEF ConSpec, ConRequestWhole, ConCheckpointsAdvance, ConKeepsWhatFits

\* The largest of some finite sets is one of them.
LEMMA LargestExists ==
    ASSUME NEW S, IsFiniteSet(S), NEW sets \in SUBSET SUBSET S, sets # {}
    PROVE  PrepLargest(sets) \in sets /\ \A t \in sets : Cardinality(t) <= Cardinality(PrepLargest(sets))
<1> DEFINE sizes == {Cardinality(s) : s \in sets}
           n == Cardinality(S)
<1>1. n \in Nat
  BY FS_CardinalityType
<1>2. \A s \in sets : Cardinality(s) \in 0..n
  <2> SUFFICES ASSUME NEW s \in sets PROVE Cardinality(s) \in 0..n
    OBVIOUS
  <2>1. IsFiniteSet(s) /\ Cardinality(s) <= n
    BY FS_Subset
  <2>2. Cardinality(s) \in Nat
    BY <2>1, FS_CardinalityType
  <2> QED BY <1>1, <2>1, <2>2
<1>3. sizes \in SUBSET (0..n) /\ sizes # {}
  BY <1>2
<1>4. Max(sizes) \in sizes /\ \A x \in sizes : x <= Max(sizes)
  <2> HIDE DEF sizes, n
  <2> QED BY <1>1, <1>3, MaxOf
<1>5. PICK s \in sizes : \A x \in sizes : x <= s
  BY <1>4
<1>6. PICK s0 \in sets : \A t \in sets : Cardinality(t) <= Cardinality(s0)
  BY <1>5
<1> QED BY <1>6 DEF PrepLargest

-----------------------------------------------------------------------------
(* Items of a prompt *)

PrepSizes == [it \in PrepItems |-> it.size]
PrepSet(items) == items \in SUBSET PrepItems /\ IsFiniteSet(items)

LEMMA PrepSizesType == \A items : PrepSet(items) => \A it \in items : PrepSizes[it] \in Nat /\ PrepSizes[it] = it.size
  BY DEF PrepSet, PrepSizes, PrepItems

LEMMA PrepTotalIs ==
    ASSUME NEW items, PrepSet(items)
    PROVE  PrepTotal(items) = SumFunctionOnSet(PrepSizes, items) /\ PrepTotal(items) \in Nat
<1> DEFINE f == [it \in items |-> it.size]
<1>1. \A it \in items : f[it] \in Nat /\ f[it] = PrepSizes[it]
  BY PrepSizesType
<1>2. PrepTotal(items) = SumFunctionOnSet(f, items)
  BY DEF PrepTotal, SumFunction
<1> HIDE DEF f
<1>3. IsFiniteSet(items)
  BY DEF PrepSet
<1>4. SumFunctionOnSet(f, items) = SumFunctionOnSet(PrepSizes, items)
  BY <1>1, <1>3, SumSame
<1>5. SumFunctionOnSet(f, items) \in Nat
  BY <1>1, <1>3, SumType
<1> QED BY <1>2, <1>4, <1>5

LEMMA PrepSubset == ASSUME NEW items, PrepSet(items), NEW T \in SUBSET items PROVE PrepSet(T)
  BY FS_Subset DEF PrepSet

LEMMA PrepTotalEmpty == PrepTotal({}) = 0
<1>1. PrepSet({})
  BY FS_EmptySet DEF PrepSet
<1> QED BY <1>1, PrepTotalIs, SumEmpty

LEMMA PrepTotalUnion ==
    ASSUME NEW S, PrepSet(S), NEW T, PrepSet(T), S \cap T = {}
    PROVE  PrepTotal(S \cup T) = PrepTotal(S) + PrepTotal(T) /\ PrepSet(S \cup T)
<1>1. PrepSet(S \cup T)
  BY FS_Union DEF PrepSet
<1>2. \A it \in S \cup T : PrepSizes[it] \in Nat
  BY PrepSizesType
<1>3. SumFunctionOnSet(PrepSizes, S \cup T) = SumFunctionOnSet(PrepSizes, S) + SumFunctionOnSet(PrepSizes, T)
  BY <1>2, SumUnion DEF PrepSet
<1> QED BY <1>1, <1>3, PrepTotalIs

LEMMA PrepTotalMonotone ==
    ASSUME NEW S, PrepSet(S), NEW T \in SUBSET S
    PROVE  PrepTotal(T) <= PrepTotal(S)
<1>1. SumFunctionOnSet(PrepSizes, T) <= SumFunctionOnSet(PrepSizes, S)
  BY PrepSizesType, SumMonotone DEF PrepSet
<1> QED BY <1>1, PrepSubset, PrepTotalIs

LEMMA PrepTotalRemove ==
    ASSUME NEW S, PrepSet(S), NEW x \in S
    PROVE  PrepTotal(S) = x.size + PrepTotal(S \ {x})
<1>1. SumFunctionOnSet(PrepSizes, S) = PrepSizes[x] + SumFunctionOnSet(PrepSizes, S \ {x})
  BY PrepSizesType, SumRemove DEF PrepSet
<1>2. PrepSet(S \ {x})
  BY PrepSubset
<1> QED BY <1>1, <1>2, PrepSizesType, PrepTotalIs

\* Before is a strict order, total where places differ.
PrepApart(items) == \A a, b \in items : a.place = b.place => a = b

LEMMA PrepBeforeOrder ==
    ASSUME NEW a \in PrepItems, NEW b \in PrepItems, NEW c \in PrepItems
    PROVE  /\ ~PrepBefore(a, a) /\ (PrepBefore(a, b) => ~PrepBefore(b, a))
           /\ (PrepBefore(a, b) /\ PrepBefore(b, c) => PrepBefore(a, c))
           /\ (a.place # b.place => PrepBefore(a, b) \/ PrepBefore(b, a))
<1>1. /\ a.rank \in Nat /\ b.rank \in Nat /\ c.rank \in Nat /\ a.place \in Nat /\ b.place \in Nat /\ c.place \in Nat
  BY DEF PrepItems
<1> QED BY <1>1 DEF PrepBefore

LEMMA PrepAheadSmaller ==
    ASSUME NEW items, PrepSet(items), NEW it \in items, NEW a \in PrepAhead(items, it)
    PROVE  /\ PrepAhead(items, a) \in SUBSET PrepAhead(items, it) /\ a \in items
           /\ Cardinality(PrepAhead(items, a)) \in Nat /\ Cardinality(PrepAhead(items, it)) \in Nat
           /\ Cardinality(PrepAhead(items, a)) < Cardinality(PrepAhead(items, it))
<1>1. a \in items /\ PrepBefore(a, it) /\ items \in SUBSET PrepItems
  BY DEF PrepAhead, PrepSet
<1>2. PrepAhead(items, a) \in SUBSET PrepAhead(items, it)
  BY <1>1, PrepBeforeOrder DEF PrepAhead
<1>3. a \notin PrepAhead(items, a)
  BY <1>1, PrepBeforeOrder DEF PrepAhead
<1>4. IsFiniteSet(PrepAhead(items, it))
  BY FS_Subset DEF PrepAhead, PrepSet
<1> QED BY <1>1, <1>2, <1>3, <1>4, Smaller

PrepTaken(items, room, taken, it) ==
    it \in taken <=> it.size + PrepTotal(taken \cap PrepAhead(items, it)) <= room

\* The greedy choice exists: it is made along the order.
LEMMA PrepGreedyExists ==
    ASSUME NEW items, PrepSet(items), NEW room \in Int
    PROVE  \E taken \in SUBSET items : \A it \in items : PrepTaken(items, room, taken, it)
<1> DEFINE Rank(it) == Cardinality(PrepAhead(items, it))
           K == {k \in Nat : \E taken \in SUBSET items :
                    \A it \in items : Rank(it) < k => PrepTaken(items, room, taken, it)}
<1>0. \A it \in items : Rank(it) \in Nat /\ Rank(it) <= Cardinality(items)
  <2> SUFFICES ASSUME NEW it \in items PROVE Rank(it) \in Nat /\ Rank(it) <= Cardinality(items)
    OBVIOUS
  <2>1. PrepAhead(items, it) \in SUBSET items /\ IsFiniteSet(items)
    BY DEF PrepAhead, PrepSet
  <2>2. IsFiniteSet(PrepAhead(items, it)) /\ Cardinality(PrepAhead(items, it)) <= Cardinality(items)
    BY <2>1, FS_Subset
  <2> QED BY <2>2, FS_CardinalityType
<1>1. 0 \in K
  <2>1. \A it \in items : ~(Rank(it) < 0)
    BY <1>0
  <2> HIDE DEF Rank
  <2>2. {} \in SUBSET items
    OBVIOUS
  <2> QED BY <2>1, <2>2
<1>2. ASSUME NEW k \in Nat, k \in K PROVE k + 1 \in K
  <2>1. PICK old \in SUBSET items : \A it \in items : Rank(it) < k => PrepTaken(items, room, old, it)
    BY <1>2
  <2> DEFINE new == {it \in items : \/ Rank(it) < k /\ it \in old
                                    \/ Rank(it) = k /\ it.size + PrepTotal(old \cap PrepAhead(items, it)) <= room}
  <2>2. ASSUME NEW it \in items, Rank(it) < k + 1 PROVE PrepTaken(items, room, new, it)
    <3>1. \A a \in PrepAhead(items, it) : a \in items /\ Rank(a) < k /\ Rank(a) # k
      <4> SUFFICES ASSUME NEW a \in PrepAhead(items, it) PROVE a \in items /\ Rank(a) < k /\ Rank(a) # k
        OBVIOUS
      <4>1. a \in items /\ Rank(a) \in Nat /\ Rank(it) \in Nat /\ Rank(a) < Rank(it)
        BY PrepAheadSmaller
      <4> HIDE DEF Rank
      <4> QED BY <2>2, <4>1
    <3>2. new \cap PrepAhead(items, it) = old \cap PrepAhead(items, it)
      <4> HIDE DEF Rank
      <4> QED BY <3>1
    <3>3. Rank(it) \in Nat
      BY <1>0
    <3>4. CASE Rank(it) < k
      <4>1. it \in new <=> it \in old
        <5> HIDE DEF Rank
        <5> QED BY <3>3, <3>4
      <4>2. PrepTaken(items, room, old, it)
        BY <2>1, <3>4
      <4> HIDE DEF new, Rank
      <4> QED BY <3>2, <4>1, <4>2 DEF PrepTaken
    <3>5. CASE Rank(it) = k
      <4>1. it \in new <=> it.size + PrepTotal(old \cap PrepAhead(items, it)) <= room
        <5> HIDE DEF Rank
        <5> QED BY <3>3, <3>5
      <4> HIDE DEF new, Rank
      <4> QED BY <3>2, <4>1 DEF PrepTaken
    <3>6. Rank(it) < k \/ Rank(it) = k
      <4> HIDE DEF Rank
      <4> QED BY <2>2, <3>3
    <3> QED BY <3>4, <3>5, <3>6
  <2>3. new \in SUBSET items
    OBVIOUS
  <2> HIDE DEF new, Rank
  <2> QED BY <2>2, <2>3
<1>3. Nat \subseteq K
  <2> HIDE DEF K
  <2> QED BY <1>1, <1>2, Induction
<1> DEFINE n == Cardinality(items) + 1
<1>4. n \in K
  <2>1. n \in Nat
    BY FS_CardinalityType DEF PrepSet
  <2> HIDE DEF K, n
  <2> QED BY <1>3, <2>1
<1>5. \A it \in items : Rank(it) < n
  <2>1. Cardinality(items) \in Nat
    BY FS_CardinalityType DEF PrepSet
  <2> HIDE DEF Rank
  <2> QED BY <1>0, <2>1
<1> HIDE DEF Rank, n
<1> QED BY <1>4, <1>5

LEMMA PrepGreedyTakes ==
    ASSUME NEW items, PrepSet(items), NEW room \in Int
    PROVE  /\ PrepGreedy(items, room) \in SUBSET items
           /\ \A it \in items : PrepTaken(items, room, PrepGreedy(items, room), it)
<1>1. \E taken \in SUBSET items :
        \A it \in items : it \in taken <=> it.size + PrepTotal(taken \cap PrepAhead(items, it)) <= room
  BY PrepGreedyExists DEF PrepTaken
<1> QED BY <1>1 DEF PrepGreedy, PrepTaken

\* What the greedy choice takes fits together.
LEMMA PrepGreedyFits ==
    ASSUME NEW items, PrepSet(items), PrepApart(items), NEW room \in Int, PrepGreedy(items, room) # {}
    PROVE  PrepTotal(PrepGreedy(items, room)) <= room
<1> DEFINE T == PrepGreedy(items, room)
           Rank(it) == Cardinality(PrepAhead(items, it))
           ranks == {Rank(it) : it \in T}
           n == Cardinality(items)
<1>1. T \in SUBSET items /\ \A it \in items : PrepTaken(items, room, T, it)
  BY PrepGreedyTakes
<1>2. IsFiniteSet(items) /\ n \in Nat /\ items \in SUBSET PrepItems
  BY FS_CardinalityType DEF PrepSet
<1> HIDE DEF T
<1>3. \A it \in items : Rank(it) \in 0..n
  <2> SUFFICES ASSUME NEW it \in items PROVE Rank(it) \in 0..n
    OBVIOUS
  <2>1. PrepAhead(items, it) \in SUBSET items
    BY DEF PrepAhead
  <2>2. IsFiniteSet(PrepAhead(items, it)) /\ Cardinality(PrepAhead(items, it)) <= n
    BY <1>2, <2>1, FS_Subset
  <2>3. Cardinality(PrepAhead(items, it)) \in Nat
    BY <2>2, FS_CardinalityType
  <2> QED BY <1>2, <2>2, <2>3
<1>4. ranks \in SUBSET (0..n) /\ ranks # {}
  BY <1>1, <1>3 DEF T
<1>5. PICK m \in ranks : \A x \in ranks : x <= m
  <2> HIDE DEF ranks, n
  <2> QED BY <1>2, <1>4, MaxOf
<1>6. PICK x \in T : \A y \in T : Rank(y) <= Rank(x)
  BY <1>5
<1>7. ASSUME NEW y \in T, y # x PROVE PrepBefore(y, x)
  <2>1. x \in items /\ y \in items /\ y.place # x.place
    BY <1>1, <1>7 DEF PrepApart
  <2>2. PrepBefore(y, x) \/ PrepBefore(x, y)
    BY <1>2, <2>1, PrepBeforeOrder
  <2>3. ASSUME PrepBefore(x, y) PROVE FALSE
    <3>1. x \in PrepAhead(items, y)
      BY <2>1, <2>3 DEF PrepAhead
    <3>2. Rank(x) < Rank(y) /\ Rank(x) \in Nat /\ Rank(y) \in Nat
      BY <2>1, <3>1, PrepAheadSmaller
    <3>3. Rank(y) <= Rank(x)
      BY <1>6
    <3> HIDE DEF Rank
    <3> QED BY <3>2, <3>3
  <2> QED BY <2>2, <2>3
<1>8. T \cap PrepAhead(items, x) = T \ {x}
  <2>1. x \notin PrepAhead(items, x)
    BY <1>1, <1>2, PrepBeforeOrder DEF PrepAhead
  <2> QED BY <1>1, <1>7, <2>1 DEF PrepAhead
<1>9. x.size + PrepTotal(T \ {x}) <= room
  BY <1>1, <1>6, <1>8 DEF PrepTaken
<1>10. PrepSet(T)
  BY <1>1, PrepSubset
<1> QED BY <1>6, <1>9, <1>10, PrepTotalRemove DEF T

\* A greedy choice takes no more than it has room for, or nothing.
LEMMA PrepGreedyBounded ==
    ASSUME NEW items, PrepSet(items), PrepApart(items), NEW room \in Nat
    PROVE  PrepTotal(PrepGreedy(items, room)) <= room
<1>1. CASE PrepGreedy(items, room) = {}
  BY <1>1, PrepTotalEmpty
<1>2. CASE PrepGreedy(items, room) # {}
  BY <1>2, PrepGreedyFits
<1> QED BY <1>1, <1>2

LEMMA PrepPair == ASSUME NEW a \in PrepItems, NEW b \in PrepItems PROVE PrepSet({a, b})
<1>1. IsFiniteSet({a}) /\ IsFiniteSet({b})
  BY FS_Singleton
<1>2. IsFiniteSet({a} \cup {b})
  BY <1>1, FS_Union
<1>3. {a} \cup {b} = {a, b}
  OBVIOUS
<1> QED BY <1>2, <1>3 DEF PrepSet

LEMMA PrepUnion == ASSUME NEW S, PrepSet(S), NEW T, PrepSet(T) PROVE PrepSet(S \cup T)
  BY FS_Union DEF PrepSet

\* The item a place stands for.
PrepRuleAt(i) == PrepItem("rule", i, 10 + i, prepRules[i], 850)
PrepInlineAt(i) == PrepItem("inline", i, 30 + i, prepFiles[i].size, 650)
PrepManifestAt(i) == PrepItem("manifest", i, 40 + i, 1, 910)
PrepMetaAt(i) == PrepItem("meta", i, 50 + i, 1, 500)

LEMMA PrepFileItems ==
    ASSUME PrepTypeOK, NEW i \in 1..2
    PROVE  /\ PrepRuleAt(i) \in PrepItems /\ PrepRuleAt(i).name[1] = "rule" /\ PrepRuleAt(i).place = 10 + i
           /\ PrepInlineAt(i) \in PrepItems /\ PrepInlineAt(i).name[1] = "inline" /\ PrepInlineAt(i).place = 30 + i
           /\ PrepManifestAt(i) \in PrepItems /\ PrepManifestAt(i).name[1] = "manifest" /\ PrepManifestAt(i).place = 40 + i
           /\ PrepMetaAt(i) \in PrepItems /\ PrepMetaAt(i).name[1] = "meta" /\ PrepMetaAt(i).place = 50 + i
<1>1. prepRules[i] \in Nat /\ prepFiles[i].size \in Nat
  BY PrepAssumption DEF PrepTypeOK, Attachments
<1>2. \A kind \in {"rule", "manifest", "inline", "meta"} : <<kind, i>> \in PrepNames
  BY DEF PrepNames
<1>3. 10 + i \in Nat /\ 30 + i \in Nat /\ 40 + i \in Nat /\ 50 + i \in Nat
  OBVIOUS
<1>4. <<"rule", i>> \in PrepNames /\ <<"manifest", i>> \in PrepNames /\ <<"inline", i>> \in PrepNames /\ <<"meta", i>> \in PrepNames
  BY <1>2
<1>5. PrepRuleAt(i) \in PrepItems /\ PrepRuleAt(i).name[1] = "rule" /\ PrepRuleAt(i).place = 10 + i
  BY <1>1, <1>3, <1>4 DEF PrepRuleAt, PrepItem, PrepItems
<1>6. PrepInlineAt(i) \in PrepItems /\ PrepInlineAt(i).name[1] = "inline" /\ PrepInlineAt(i).place = 30 + i
  BY <1>1, <1>3, <1>4 DEF PrepInlineAt, PrepItem, PrepItems
<1>7. PrepManifestAt(i) \in PrepItems /\ PrepManifestAt(i).name[1] = "manifest" /\ PrepManifestAt(i).place = 40 + i
  BY <1>1, <1>3, <1>4 DEF PrepManifestAt, PrepItem, PrepItems
<1>8. PrepMetaAt(i) \in PrepItems /\ PrepMetaAt(i).name[1] = "meta" /\ PrepMetaAt(i).place = 50 + i
  BY <1>1, <1>3, <1>4 DEF PrepMetaAt, PrepItem, PrepItems
<1> QED BY <1>5, <1>6, <1>7, <1>8

\* The items a workspace and the attachments offer.
PrepRulesOffered == {PrepRuleAt(i) : i \in {j \in 1..2 : prepRules[j] > 0 /\ prepRules[j] <= PrepRuleLimit}}
PrepInlineOffered == {PrepInlineAt(i) : i \in {j \in 1..2 : prepFiles[j].text /\ prepFiles[j].size <= PrepInline}}

LEMMA PrepOffered ==
    ASSUME PrepTypeOK
    PROVE  /\ PrepSet(PrepRulesOffered) /\ PrepApart(PrepRulesOffered)
           /\ PrepSet(PrepInlineOffered) /\ PrepApart(PrepInlineOffered)
           /\ PrepRuleItems = PrepGreedy(PrepRulesOffered, PrepRulesTotal) /\ PrepRuleItems \in SUBSET PrepRulesOffered
           /\ PrepInlined = PrepGreedy(PrepInlineOffered, PrepInlineTotal) /\ PrepInlined \in SUBSET PrepInlineOffered
<1>0. 1 \in 1..2 /\ 2 \in 1..2 /\ 1..2 = {1, 2}
  OBVIOUS
<1>1. PrepSet({PrepRuleAt(1), PrepRuleAt(2)}) /\ PrepSet({PrepInlineAt(1), PrepInlineAt(2)})
  BY <1>0, PrepFileItems, PrepPair
<1>2. PrepRulesOffered \in SUBSET {PrepRuleAt(1), PrepRuleAt(2)} /\ PrepInlineOffered \in SUBSET {PrepInlineAt(1), PrepInlineAt(2)}
  BY <1>0 DEF PrepRulesOffered, PrepInlineOffered
<1>3. PrepSet(PrepRulesOffered) /\ PrepSet(PrepInlineOffered)
  BY <1>1, <1>2, PrepSubset
<1>4. PrepRuleAt(1).place # PrepRuleAt(2).place /\ PrepInlineAt(1).place # PrepInlineAt(2).place
  BY <1>0, PrepFileItems
<1>5. PrepApart(PrepRulesOffered) /\ PrepApart(PrepInlineOffered)
  BY <1>2, <1>4 DEF PrepApart
<1>6. PrepRulesTotal \in Int /\ PrepInlineTotal \in Int
  BY PrepAssumption
<1>7. PrepRuleItems = PrepGreedy(PrepRulesOffered, PrepRulesTotal)
  BY DEF PrepRuleItems, PrepRulesOffered, PrepRuleAt
<1>8. PrepInlined = PrepGreedy(PrepInlineOffered, PrepInlineTotal)
  BY DEF PrepInlined, PrepInlineOffered, PrepInlineAt
<1>9. PrepRuleItems \in SUBSET PrepRulesOffered /\ PrepInlined \in SUBSET PrepInlineOffered
  BY <1>3, <1>6, <1>7, <1>8, PrepGreedyTakes
<1> QED BY <1>3, <1>5, <1>7, <1>8, <1>9

PrepOthers == {"contract", "memory", "skill", "task", "environment", "checkpoint"}
PrepSingles ==
    {PrepItem("contract", 0, 1, 1, 1000), PrepItem("memory", 0, 20, prepMemory.size, prepMemory.rank),
     PrepItem("skill", 0, 21, prepSkill, 550), PrepItem("task", 0, 22, 1, 1000),
     PrepItem("environment", 0, 23, 1, 700), PrepItem("checkpoint", 0, 24, prepStored.size, 980)}
PrepPairs == {PrepRuleAt(1), PrepRuleAt(2), PrepInlineAt(1), PrepInlineAt(2), PrepManifestAt(1), PrepManifestAt(2),
              PrepMetaAt(1), PrepMetaAt(2)}

LEMMA PrepSinglesType ==
    ASSUME PrepTypeOK
    PROVE  /\ PrepSet(PrepSingles) /\ PrepApart(PrepSingles)
           /\ \A it \in PrepSingles : it.name[1] # "rule" /\ it.place \notin {11, 12, 31, 32, 41, 42, 51, 52}
<1> DEFINE a == PrepItem("contract", 0, 1, 1, 1000)
           b == PrepItem("memory", 0, 20, prepMemory.size, prepMemory.rank)
           c == PrepItem("skill", 0, 21, prepSkill, 550)
           d == PrepItem("task", 0, 22, 1, 1000)
           e == PrepItem("environment", 0, 23, 1, 700)
           f == PrepItem("checkpoint", 0, 24, prepStored.size, 980)
<1>1. prepMemory.size \in Nat /\ prepMemory.rank \in Nat /\ prepSkill \in Nat /\ prepStored.size \in Nat
  <2>1. prepMemory \in PrepMemoryType
    BY PrepMemoryAssumption DEF PrepTypeOK
  <2>2. prepMemory.size \in Nat /\ prepMemory.rank \in 600..700
    BY <2>1 DEF PrepMemoryType
  <2>3. prepSkill \in Nat /\ prepStored.size \in Nat
    BY PrepAssumption DEF PrepTypeOK
  <2> QED BY <2>2, <2>3
<1>2. \A kind \in PrepOthers : <<kind, 0>> \in PrepNames
  BY DEF PrepNames, PrepOthers
<1>3. a \in PrepItems /\ a.name[1] = "contract" /\ a.place = 1
  BY <1>2 DEF PrepOthers, PrepItem, PrepItems
<1>4. b \in PrepItems /\ b.name[1] = "memory" /\ b.place = 20
  BY <1>1, <1>2 DEF PrepOthers, PrepItem, PrepItems
<1>5. c \in PrepItems /\ c.name[1] = "skill" /\ c.place = 21
  BY <1>1, <1>2 DEF PrepOthers, PrepItem, PrepItems
<1>6. d \in PrepItems /\ d.name[1] = "task" /\ d.place = 22
  BY <1>2 DEF PrepOthers, PrepItem, PrepItems
<1>7. e \in PrepItems /\ e.name[1] = "environment" /\ e.place = 23
  BY <1>2 DEF PrepOthers, PrepItem, PrepItems
<1>8. f \in PrepItems /\ f.name[1] = "checkpoint" /\ f.place = 24
  BY <1>1, <1>2 DEF PrepOthers, PrepItem, PrepItems
<1>9. PrepSingles = {a, b} \cup ({c, d} \cup {e, f})
  BY DEF PrepSingles
<1> HIDE DEF a, b, c, d, e, f
<1>10. PrepSet({a, b}) /\ PrepSet({c, d}) /\ PrepSet({e, f})
  BY <1>3, <1>4, <1>5, <1>6, <1>7, <1>8, PrepPair
<1>11. PrepSet(PrepSingles)
  BY <1>9, <1>10, PrepUnion
<1>12. PrepApart(PrepSingles)
  BY <1>3, <1>4, <1>5, <1>6, <1>7, <1>8, <1>9 DEF PrepApart
<1>13. \A it \in PrepSingles : it.name[1] # "rule" /\ it.place \notin {11, 12, 31, 32, 41, 42, 51, 52}
  BY <1>3, <1>4, <1>5, <1>6, <1>7, <1>8, <1>9
<1> QED BY <1>11, <1>12, <1>13

LEMMA PrepPairsType ==
    ASSUME PrepTypeOK
    PROVE  /\ PrepSet(PrepPairs) /\ PrepApart(PrepPairs)
           /\ \A it \in PrepPairs : it.place \in {11, 12, 31, 32, 41, 42, 51, 52}
           /\ \A it \in PrepPairs : it.name[1] = "rule" => it \in {PrepRuleAt(1), PrepRuleAt(2)}
<1>0. 1 \in 1..2 /\ 2 \in 1..2
  OBVIOUS
<1> DEFINE r1 == PrepRuleAt(1) r2 == PrepRuleAt(2) i1 == PrepInlineAt(1) i2 == PrepInlineAt(2)
           m1 == PrepManifestAt(1) m2 == PrepManifestAt(2) t1 == PrepMetaAt(1) t2 == PrepMetaAt(2)
<1>1. r1 \in PrepItems /\ r1.place = 11 /\ r2 \in PrepItems /\ r2.place = 12
  BY <1>0, PrepFileItems
<1>2. i1 \in PrepItems /\ i1.place = 31 /\ i1.name[1] = "inline" /\ i2 \in PrepItems /\ i2.place = 32 /\ i2.name[1] = "inline"
  BY <1>0, PrepFileItems
<1>3. m1 \in PrepItems /\ m1.place = 41 /\ m1.name[1] = "manifest" /\ m2 \in PrepItems /\ m2.place = 42 /\ m2.name[1] = "manifest"
  BY <1>0, PrepFileItems
<1>4. t1 \in PrepItems /\ t1.place = 51 /\ t1.name[1] = "meta" /\ t2 \in PrepItems /\ t2.place = 52 /\ t2.name[1] = "meta"
  BY <1>0, PrepFileItems
<1>5. PrepPairs = {r1, r2} \cup {i1, i2} \cup ({m1, m2} \cup {t1, t2})
  BY DEF PrepPairs
<1> HIDE DEF r1, r2, i1, i2, m1, m2, t1, t2
<1>6. PrepSet({r1, r2}) /\ PrepSet({i1, i2}) /\ PrepSet({m1, m2}) /\ PrepSet({t1, t2})
  BY <1>1, <1>2, <1>3, <1>4, PrepPair
<1>7. PrepSet({r1, r2} \cup {i1, i2}) /\ PrepSet({m1, m2} \cup {t1, t2})
  BY <1>6, PrepUnion
<1>8. PrepSet(PrepPairs)
  BY <1>5, <1>7, PrepUnion
<1>9. PrepApart(PrepPairs)
  BY <1>1, <1>2, <1>3, <1>4, <1>5 DEF PrepApart
<1>10. \A it \in PrepPairs : it.place \in {11, 12, 31, 32, 41, 42, 51, 52}
  BY <1>1, <1>2, <1>3, <1>4, <1>5
<1>11. \A it \in PrepPairs : it.name[1] = "rule" => it \in {r1, r2}
  BY <1>2, <1>3, <1>4, <1>5
<1> QED BY <1>8, <1>9, <1>10, <1>11 DEF r1, r2

\* What is compiled are items at different places, and the rules among them those that were taken.
LEMMA PrepCompiledType ==
    ASSUME PrepTypeOK
    PROVE  PrepSet(PrepCompiled) /\ PrepApart(PrepCompiled) /\ \A it \in PrepCompiled : it.name[1] = "rule" => it \in PrepRuleItems
<1>0. 1 \in 1..2 /\ 2 \in 1..2 /\ 1..2 = {1, 2}
  OBVIOUS
<1>1. PrepRuleItems \in SUBSET {PrepRuleAt(1), PrepRuleAt(2)} /\ PrepInlined \in SUBSET {PrepInlineAt(1), PrepInlineAt(2)}
  BY <1>0, PrepOffered DEF PrepRulesOffered, PrepInlineOffered
<1>2. PrepAttachmentItems \in SUBSET {PrepInlineAt(1), PrepInlineAt(2), PrepManifestAt(1), PrepManifestAt(2), PrepMetaAt(1), PrepMetaAt(2)}
  BY <1>0, <1>1 DEF PrepAttachmentItems, PrepManifestAt, PrepMetaAt
<1>3. PrepCompiled \in SUBSET (PrepSingles \cup PrepPairs)
  BY <1>1, <1>2 DEF PrepCompiled, PrepStable, PrepDynamic, PrepMemoryItems, PrepCheckpointItems, PrepSingles, PrepPairs
<1>4. PrepApart(PrepSingles \cup PrepPairs) /\ PrepSet(PrepSingles \cup PrepPairs)
  BY PrepSinglesType, PrepPairsType, PrepUnion DEF PrepApart
<1>5. PrepSet(PrepCompiled) /\ PrepApart(PrepCompiled)
  <2>1. PrepSet(PrepCompiled)
    BY <1>3, <1>4, PrepSubset
  <2> QED BY <1>3, <1>4, <2>1 DEF PrepApart
<1>6. ASSUME NEW it \in PrepCompiled, it.name[1] = "rule" PROVE it \in PrepRuleItems
  <2>1. it \notin PrepSingles
    BY <1>6, PrepSinglesType
  <2>2. it \in PrepRuleItems \cup PrepAttachmentItems
    BY <2>1 DEF PrepCompiled, PrepStable, PrepDynamic, PrepMemoryItems, PrepCheckpointItems, PrepSingles
  <2>3. \A a \in PrepAttachmentItems : a.name[1] # "rule"
    <3>1. \A i \in 1..2 : PrepInlineAt(i).name[1] # "rule" /\ PrepManifestAt(i).name[1] # "rule" /\ PrepMetaAt(i).name[1] # "rule"
      BY PrepFileItems
    <3> QED BY <1>0, <1>2, <3>1
  <2> QED BY <1>6, <2>2, <2>3
<1> QED BY <1>5, <1>6

LEMMA PrepTargetType == ASSUME prepWindow \in Nat PROVE PrepTarget \in Nat
  BY DEF PrepTarget

LEMMA PrepSummaryType == ASSUME NEW n \in Nat PROVE PrepSummaryOf(n) \in 0..PrepSummary
  BY PrepAssumption DEF PrepSummaryOf

\* The parts of a compression, named.
PrepNeeded(items) == {it \in items : PrepRequired(it)}
PrepFirst(items) == PrepGreedy(items \ PrepNeeded(items), PrepTarget - PrepTotal(PrepNeeded(items)))
PrepUpTo(items, it) == {it} \cup PrepAhead(PrepFirst(items), it)
PrepRoom(items, s) ==
    PrepTotal(PrepNeeded(items)) + PrepTotal(s)
        + PrepSummaryOf(Cardinality((items \ PrepNeeded(items)) \ s)) <= PrepTarget
PrepChoices(items) == {s \in {PrepUpTo(items, it) : it \in PrepFirst(items)} : PrepRoom(items, s)} \cup {{}}
PrepKeptOf(items) ==
    IF PrepFirst(items) = items \ PrepNeeded(items) THEN PrepFirst(items) ELSE PrepLargest(PrepChoices(items))

LEMMA PrepCompressIs ==
    ASSUME NEW items
    PROVE  /\ PrepCompress(items).items = PrepNeeded(items) \cup PrepKeptOf(items)
           /\ PrepCompress(items).summary =
                 IF PrepFirst(items) # items \ PrepNeeded(items) /\ PrepRoom(items, PrepKeptOf(items))
                 THEN PrepSummaryOf(Cardinality((items \ PrepNeeded(items)) \ PrepKeptOf(items))) ELSE 0
  BY DEF PrepCompress, PrepNeeded, PrepFirst, PrepUpTo, PrepRoom, PrepChoices, PrepKeptOf

\* What is kept is all there was, nothing, or what fits up to some item.
LEMMA PrepKeptCases ==
    ASSUME NEW items, PrepSet(items), prepWindow \in Nat
    PROVE  /\ PrepFirst(items) \in SUBSET (items \ PrepNeeded(items))
           /\ \/ PrepKeptOf(items) = items \ PrepNeeded(items) /\ PrepFirst(items) = items \ PrepNeeded(items)
              \/ PrepKeptOf(items) = {}
              \/ /\ PrepFirst(items) # items \ PrepNeeded(items) /\ PrepRoom(items, PrepKeptOf(items))
                 /\ \E x \in PrepFirst(items) : PrepKeptOf(items) = PrepUpTo(items, x)
<1> DEFINE C == items \ PrepNeeded(items)
           F == PrepFirst(items)
           room == PrepTarget - PrepTotal(PrepNeeded(items))
<1>1. PrepNeeded(items) \in SUBSET items
  BY DEF PrepNeeded
<1>2. PrepSet(C) /\ PrepSet(PrepNeeded(items))
  BY <1>1, PrepSubset
<1>3. room \in Int
  BY <1>2, PrepTotalIs, PrepTargetType
<1>4. F \in SUBSET C
  <2> HIDE DEF room
  <2>1. PrepGreedy(C, room) \in SUBSET C
    BY <1>2, <1>3, PrepGreedyTakes
  <2> QED BY <2>1 DEF F, room, PrepFirst
<1>5. CASE F = C
  BY <1>4, <1>5 DEF PrepKeptOf
<1>6. CASE F # C
  <2>1. PrepSet(F)
    <3> HIDE DEF F, C
    <3> QED BY <1>2, <1>4, PrepSubset
  <2>2. PrepChoices(items) \in SUBSET SUBSET F /\ PrepChoices(items) # {}
    BY DEF PrepChoices, PrepUpTo, PrepAhead
  <2>3. PrepLargest(PrepChoices(items)) \in PrepChoices(items)
    <3> HIDE DEF F, C
    <3> QED BY <2>1, <2>2, LargestExists DEF PrepSet
  <2>4. PrepKeptOf(items) \in PrepChoices(items)
    BY <1>6, <2>3 DEF PrepKeptOf
  <2>5. PrepKeptOf(items) = {} \/ (PrepRoom(items, PrepKeptOf(items)) /\ \E x \in F : PrepKeptOf(items) = PrepUpTo(items, x))
    BY <2>4 DEF PrepChoices
  <2> QED BY <1>4, <1>6, <2>5
<1> QED BY <1>5, <1>6

LEMMA PrepCompressTakes ==
    ASSUME NEW items, PrepSet(items), prepWindow \in Nat
    PROVE  /\ PrepNeeded(items) \in SUBSET PrepCompress(items).items /\ PrepCompress(items).items \in SUBSET items
           /\ PrepCompress(items).summary \in 0..PrepSummary
<1>1. PrepKeptOf(items) \in SUBSET (items \ PrepNeeded(items))
  BY PrepKeptCases DEF PrepUpTo, PrepAhead
<1>2. IsFiniteSet((items \ PrepNeeded(items)) \ PrepKeptOf(items))
  BY FS_Subset DEF PrepSet
<1>3. Cardinality((items \ PrepNeeded(items)) \ PrepKeptOf(items)) \in Nat
  BY <1>2, FS_CardinalityType
<1>4. 0 \in 0..PrepSummary
  BY PrepAssumption
<1> QED BY <1>1, <1>3, <1>4, PrepCompressIs, PrepSummaryType DEF PrepNeeded

LEMMA PrepCompressFits ==
    ASSUME NEW items, PrepSet(items), PrepApart(items), prepWindow \in Nat
    PROVE  \/ PrepTotal(PrepCompress(items).items) + PrepCompress(items).summary <= PrepTarget
           \/ \A it \in PrepCompress(items).items : PrepRequired(it)
<1> DEFINE R == PrepNeeded(items)
           C == items \ R
           K == PrepKeptOf(items)
<1>1. R \in SUBSET items
  BY DEF PrepNeeded
<1>2. PrepSet(R) /\ PrepSet(C) /\ R \cap C = {} /\ PrepTotal(R) \in Nat
  BY <1>1, PrepSubset, PrepTotalIs
<1>3. PrepCompress(items).items = R \cup K
  BY PrepCompressIs
<1>4. \A it \in R : PrepRequired(it)
  BY DEF PrepNeeded
<1>5. CASE K = {}
  BY <1>3, <1>4, <1>5
<1>6. K \in SUBSET C
  BY PrepKeptCases DEF PrepUpTo, PrepAhead
<1>7. PrepSet(K) /\ PrepTotal(R \cup K) = PrepTotal(R) + PrepTotal(K) /\ PrepTotal(K) \in Nat
  <2> HIDE DEF R, K
  <2>1. PrepSet(K) /\ R \cap K = {}
    BY <1>2, <1>6, PrepSubset
  <2> QED BY <1>2, <2>1, PrepTotalUnion, PrepTotalIs
<1>8. PrepTarget \in Nat
  BY PrepTargetType
<1>9. CASE K # {} /\ K = C /\ PrepFirst(items) = C
  <2> DEFINE room == PrepTarget - PrepTotal(R)
  <2>1. K = PrepGreedy(C, room)
    BY <1>9 DEF PrepFirst
  <2>2. room \in Int
    BY <1>2, <1>8
  <2>3. PrepApart(C)
    BY DEF PrepApart
  <2>4. PrepTotal(K) <= room
    <3> HIDE DEF room, C, K
    <3> QED BY <1>2, <1>9, <2>1, <2>2, <2>3, PrepGreedyFits
  <2>5. PrepCompress(items).summary = 0
    BY <1>9, PrepCompressIs
  <2>6. PrepTotal(R) + PrepTotal(K) <= PrepTarget
    <3> HIDE DEF R, K
    <3> QED BY <1>2, <1>7, <1>8, <2>4
  <2>7. PrepTotal(R) + PrepTotal(K) + 0 <= PrepTarget
    <3> HIDE DEF R, K
    <3> QED BY <1>2, <1>7, <1>8, <2>6
  <2> HIDE DEF R, K, C
  <2> QED BY <1>3, <1>7, <2>5, <2>7
<1>10. CASE PrepFirst(items) # C /\ PrepRoom(items, K)
  <2>1. PrepCompress(items).summary = PrepSummaryOf(Cardinality(C \ K))
    BY <1>10, PrepCompressIs
  <2>2. PrepTotal(R) + PrepTotal(K) + PrepSummaryOf(Cardinality(C \ K)) <= PrepTarget
    BY <1>10 DEF PrepRoom
  <2> HIDE DEF R, K, C
  <2> QED BY <1>3, <1>7, <2>1, <2>2
<1> QED BY <1>5, <1>9, <1>10, PrepKeptCases

\* What is dropped did not fit beside what is required or of its rank and above.
LEMMA PrepCompressBest ==
    ASSUME NEW items, PrepSet(items), prepWindow \in Nat,
           NEW d \in items \ PrepCompress(items).items, NEW k \in PrepCompress(items).items,
           ~PrepRequired(k), k.rank < d.rank
    PROVE  PrepTotal({it \in PrepCompress(items).items : PrepRequired(it) \/ it.rank >= d.rank}) + d.size > PrepTarget
<1> DEFINE R == PrepNeeded(items)
           C == items \ R
           K == PrepKeptOf(items)
           F == PrepFirst(items)
           above == {it \in PrepCompress(items).items : PrepRequired(it) \/ it.rank >= d.rank}
           room == PrepTarget - PrepTotal(R)
<1>1. PrepCompress(items).items = R \cup K
  BY PrepCompressIs
<1>2. R \in SUBSET items /\ \A it \in items : it \in R <=> PrepRequired(it)
  BY DEF PrepNeeded
<1>3. PrepSet(R) /\ PrepSet(C) /\ R \cap C = {} /\ PrepTotal(R) \in Nat /\ PrepTarget \in Nat
  BY <1>2, PrepSubset, PrepTotalIs, PrepTargetType
<1>4. k \in K /\ d \in C /\ d \notin K
  BY <1>1, <1>2, PrepCompressTakes
<1>5. PICK x \in F : K = PrepUpTo(items, x)
  BY <1>4, PrepKeptCases
<1>6. F \in SUBSET C
  BY PrepKeptCases
<1>7. items \in SUBSET PrepItems
  BY DEF PrepSet
<1>8. K = {x} \cup PrepAhead(F, x)
  BY <1>5 DEF PrepUpTo
<1> HIDE DEF R, K, F, above, room
<1>9. x \in PrepItems /\ d \in PrepItems /\ k \in PrepItems /\ k \in F /\ C \in SUBSET PrepItems
  BY <1>4, <1>5, <1>6, <1>7, <1>8 DEF PrepAhead
<1>10. \A a \in F : PrepBefore(a, k) => a \in K
  <2> SUFFICES ASSUME NEW a \in F, PrepBefore(a, k) PROVE a \in K
    OBVIOUS
  <2>1. a \in PrepItems
    BY <1>6, <1>9
  <2>2. k = x \/ PrepBefore(k, x)
    BY <1>4, <1>8 DEF PrepAhead
  <2>3. PrepBefore(a, x)
    BY <1>9, <2>1, <2>2, PrepBeforeOrder
  <2> QED BY <1>8, <2>3 DEF PrepAhead
<1>11. PrepBefore(d, k)
  <2>1. d.rank \in Nat /\ k.rank \in Nat
    BY <1>9 DEF PrepItems
  <2> QED BY <2>1 DEF PrepBefore
<1>12. d \notin F
  BY <1>4, <1>10, <1>11
<1>13. room \in Int
  BY <1>3 DEF room
<1>14. PrepTaken(C, room, F, d)
  <2>1. F = PrepGreedy(C, room)
    BY DEF F, room, R, PrepFirst
  <2> HIDE DEF C
  <2> QED BY <1>3, <1>4, <1>13, <2>1, PrepGreedyTakes
<1> DEFINE Q == F \cap PrepAhead(C, d)
<1>15. ~(d.size + PrepTotal(Q) <= room)
  BY <1>12, <1>14 DEF PrepTaken
<1>16. \A a \in Q : a \in K /\ a.rank >= d.rank
  <2> SUFFICES ASSUME NEW a \in Q PROVE a \in K /\ a.rank >= d.rank
    OBVIOUS
  <2>1. a \in F /\ a \in C /\ PrepBefore(a, d)
    BY DEF PrepAhead
  <2>2. a \in PrepItems
    BY <1>9, <2>1
  <2>3. PrepBefore(a, k)
    BY <1>9, <1>11, <2>1, <2>2, PrepBeforeOrder
  <2>4. a.rank \in Nat /\ d.rank \in Nat
    BY <1>9, <2>2 DEF PrepItems
  <2>5. a.rank >= d.rank
    BY <2>1, <2>4 DEF PrepBefore
  <2> QED BY <1>10, <2>1, <2>3, <2>5
<1>17. R \cup Q \in SUBSET above
  BY <1>1, <1>2, <1>16 DEF above
<1>18. PrepSet(Q) /\ R \cap Q = {}
  <2>1. Q \in SUBSET C
    BY <1>6
  <2> HIDE DEF Q, C
  <2>2. R \cap Q = {}
    BY <1>3, <2>1
  <2> QED BY <1>3, <2>1, <2>2, PrepSubset
<1>19. PrepTotal(R \cup Q) = PrepTotal(R) + PrepTotal(Q) /\ PrepTotal(Q) \in Nat
  <2> HIDE DEF Q
  <2> QED BY <1>3, <1>18, PrepTotalUnion, PrepTotalIs
<1>20. PrepSet(above)
  <2>1. above \in SUBSET items
    BY <1>1, PrepCompressTakes DEF above
  <2> QED BY <2>1, PrepSubset
<1>21. PrepTotal(R) + PrepTotal(Q) <= PrepTotal(above) /\ PrepTotal(above) \in Nat
  <2> HIDE DEF Q
  <2> QED BY <1>17, <1>19, <1>20, PrepTotalMonotone, PrepTotalIs
<1>22. d.size \in Nat
  BY <1>9 DEF PrepItems
<1>23. d.size + PrepTotal(Q) > PrepTarget - PrepTotal(R)
  <2> HIDE DEF Q
  <2> QED BY <1>3, <1>13, <1>15, <1>19, <1>22 DEF room
<1>24. PrepTotal(above) + d.size > PrepTarget
  <2> HIDE DEF Q
  <2> QED BY <1>3, <1>19, <1>21, <1>22, <1>23
<1> QED BY <1>24 DEF above

-----------------------------------------------------------------------------
LEMMA PrepShownType ==
    ASSUME PrepTypeOK
    PROVE  /\ PrepReceiptsShown \in SUBSET (1..Len(prepReceipts))
           /\ \/ {i \in 1..PrepFetched : prepReceipts[i]} \subseteq PrepReceiptsShown
              \/ Cardinality({i \in PrepReceiptsShown : prepReceipts[i]}) = PrepShown
<1>1. prepReceipts \in Seq(BOOLEAN) /\ Len(prepReceipts) >= PrepFetched /\ PrepFetched \in Nat /\ PrepShown \in Nat
  BY PrepAssumption, PrepHistoryAssumption DEF PrepTypeOK
<1>2. \A i \in 1..PrepFetched : i \in 1..Len(prepReceipts) /\ prepReceipts[i] \in BOOLEAN
  BY <1>1
<1>3. PrepReceiptsShown \in SUBSET (1..Len(prepReceipts))
  BY <1>2 DEF PrepReceiptsShown
<1> DEFINE A == {i \in 1..PrepFetched : prepReceipts[i]}
           Rank(i) == Cardinality({j \in A : j < i})
<1>4. \A i \in A : {j \in 1..PrepFetched : PrepReceiptBefore(j, i)} = {j \in A : j < i}
  BY <1>2 DEF PrepReceiptBefore
<1>5. \A i \in A : i \in PrepReceiptsShown <=> Rank(i) < PrepShown
  BY <1>4 DEF PrepReceiptsShown
<1>6. {i \in PrepReceiptsShown : prepReceipts[i]} = {i \in A : Rank(i) < PrepShown}
  <2>1. {i \in PrepReceiptsShown : prepReceipts[i]} = {i \in A : i \in PrepReceiptsShown}
    BY DEF PrepReceiptsShown
  <2> QED BY <1>5, <2>1
<1>7. A \in SUBSET Nat /\ IsFiniteSet(A)
  <2>1. IsFiniteSet(1..PrepFetched)
    BY <1>1, FS_Interval
  <2>2. A \in SUBSET (1..PrepFetched) /\ A \in SUBSET Nat
    BY <1>1
  <2> HIDE DEF A
  <2> QED BY <2>1, <2>2, FS_Subset
<1>8. CASE PrepShown <= Cardinality(A)
  <2>1. Cardinality({i \in A : Cardinality({j \in A : j < i}) < PrepShown}) = PrepShown
    <3> HIDE DEF A
    <3> QED BY <1>1, <1>7, <1>8, FirstOnes
  <2> QED BY <1>3, <1>6, <2>1
<1>9. CASE ~(PrepShown <= Cardinality(A))
  <2>1. ASSUME NEW i \in A PROVE Rank(i) < PrepShown
    <3> DEFINE B == {j \in A : j < i}
    <3>1. B \in SUBSET A
      OBVIOUS
    <3> HIDE DEF A, B
    <3>2. IsFiniteSet(B) /\ Cardinality(B) <= Cardinality(A)
      BY <1>7, <3>1, FS_Subset
    <3>3. Cardinality(B) \in Nat /\ Cardinality(A) \in Nat
      BY <1>7, <3>2, FS_CardinalityType
    <3>4. Cardinality(B) < PrepShown
      BY <1>1, <1>9, <3>2, <3>3
    <3> QED BY <3>4 DEF B
  <2>2. A \subseteq PrepReceiptsShown
    <3> HIDE DEF A, Rank
    <3> QED BY <1>5, <2>1
  <2> QED BY <1>3, <2>2
<1> QED BY <1>8, <1>9

\* Names of items are names, and finitely many.
LEMMA PrepNamesType ==
    ASSUME NEW items, PrepSet(items), NEW kept \in SUBSET items
    PROVE  /\ PrepNamesOf(items) \ PrepNamesOf(kept) \in SUBSET PrepNames
           /\ Cardinality(PrepNamesOf(items) \ PrepNamesOf(kept)) \in Nat
<1> DEFINE names == PrepNamesOf(items) \ PrepNamesOf(kept)
           f == [it \in items |-> it.name]
<1>1. PrepNamesOf(items) \in SUBSET PrepNames
  BY DEF PrepNamesOf, PrepSet, PrepItems
<1>2. f \in Surjection(items, PrepNamesOf(items))
  BY DEF PrepNamesOf, Surjection
<1>3. IsFiniteSet(PrepNamesOf(items))
  <2> HIDE DEF f
  <2> QED BY <1>2, FS_Surjection DEF PrepSet
<1>4. IsFiniteSet(names)
  BY <1>3, FS_Subset
<1> QED BY <1>1, <1>4, FS_CardinalityType

LEMMA PrepPersistedType ==
    ASSUME PrepTypeOK, NEW size \in Nat, NEW names \in SUBSET PrepNames, Cardinality(names) \in Nat
    PROVE  /\ PrepPersisted(size, names).size \in Nat /\ PrepPersisted(size, names).names \in SUBSET PrepNames
           /\ PrepPersisted(size, names).names = names
<1>1. size + Cardinality(names) \in Nat
  OBVIOUS
<1> QED BY <1>1 DEF PrepPersisted, PrepTypeOK

\* What the last preparation made, in an unchanged run.
PrepMade(out) ==
    /\ PrepSet(out.all) /\ out.items \in SUBSET out.all /\ out.summary \in 0..PrepSummary
    /\ out.shown \in SUBSET (1..Len(prepReceipts))
    /\ \A it \in out.all : PrepRequired(it) => it \in out.items
    /\ out.compressed =>
          PrepTotal(out.items) + out.summary <= PrepTarget \/ \A it \in out.items : PrepRequired(it)
    /\ \A d \in out.all \ out.items, k \in out.items :
          ~PrepRequired(k) /\ k.rank < d.rank =>
             PrepTotal({it \in out.items : PrepRequired(it) \/ it.rank >= d.rank}) + d.size > PrepTarget
    /\ PrepTotal({it \in out.items : it.name[1] = "rule"}) <= PrepRulesTotal
    /\ out.all # {} =>
          \/ {i \in 1..PrepFetched : prepReceipts[i]} \subseteq out.shown
          \/ Cardinality({i \in out.shown : prepReceipts[i]}) = PrepShown

LEMMA PrepMadeNothing == PrepTypeOK => PrepMade(PrepNothing)
<1> SUFFICES ASSUME PrepTypeOK PROVE PrepMade(PrepNothing)
  OBVIOUS
<1>1. PrepSet({}) /\ {it \in {} : it.name[1] = "rule"} = {}
  BY FS_EmptySet DEF PrepSet
<1>2. PrepTotal({}) <= PrepRulesTotal /\ 0 \in 0..PrepSummary
  BY PrepTotalEmpty, PrepAssumption
<1> QED BY <1>1, <1>2 DEF PrepMade, PrepNothing

\* Rules of whatever is kept are rules that were taken.
LEMMA PrepRulesFit ==
    ASSUME PrepTypeOK, NEW items \in SUBSET PrepCompiled
    PROVE  PrepTotal({it \in items : it.name[1] = "rule"}) <= PrepRulesTotal
<1>1. {it \in items : it.name[1] = "rule"} \in SUBSET PrepRuleItems
  BY PrepCompiledType
<1>2. PrepRulesTotal \in Nat /\ PrepTotal(PrepRuleItems) <= PrepRulesTotal
  BY PrepOffered, PrepGreedyBounded, PrepAssumption
<1>3. PrepSet(PrepRuleItems)
  BY PrepOffered, PrepSubset
<1>4. PrepSet({it \in items : it.name[1] = "rule"})
  BY <1>1, <1>3, PrepSubset
<1> DEFINE rules == {it \in items : it.name[1] = "rule"}
<1> HIDE DEF rules
<1>5. PrepTotal(rules) <= PrepTotal(PrepRuleItems) /\ PrepTotal(rules) \in Nat /\ PrepTotal(PrepRuleItems) \in Nat
  BY <1>1, <1>3, <1>4, PrepTotalMonotone, PrepTotalIs DEF rules
<1>6. PrepTotal(rules) <= PrepRulesTotal
  BY <1>2, <1>5
<1> QED BY <1>6 DEF rules

LEMMA PrepMadeWhole ==
    ASSUME PrepTypeOK
    PROVE  PrepMade([all |-> PrepCompiled, items |-> PrepCompiled, summary |-> 0, compressed |-> FALSE,
                     shown |-> PrepReceiptsShown])
<1> DEFINE out == [all |-> PrepCompiled, items |-> PrepCompiled, summary |-> 0, compressed |-> FALSE,
                   shown |-> PrepReceiptsShown]
<1>1. out.all = PrepCompiled /\ out.items = PrepCompiled /\ out.summary = 0 /\ out.compressed = FALSE
      /\ out.shown = PrepReceiptsShown
  OBVIOUS
<1> HIDE DEF out
<1>2. 0 \in 0..PrepSummary
  BY PrepAssumption
<1>3. PrepSet(PrepCompiled)
  BY PrepCompiledType
<1>4. PrepTotal({it \in PrepCompiled : it.name[1] = "rule"}) <= PrepRulesTotal
  BY PrepRulesFit
<1>5. PrepMade(out)
  BY <1>1, <1>2, <1>3, <1>4, PrepShownType DEF PrepMade
<1> QED BY <1>5 DEF out

LEMMA PrepMadeCompressed ==
    ASSUME PrepTypeOK
    PROVE  PrepMade([all |-> PrepCompiled, items |-> PrepCompress(PrepCompiled).items,
                     summary |-> PrepCompress(PrepCompiled).summary, compressed |-> TRUE, shown |-> PrepReceiptsShown])
<1> DEFINE out == [all |-> PrepCompiled, items |-> PrepCompress(PrepCompiled).items,
                   summary |-> PrepCompress(PrepCompiled).summary, compressed |-> TRUE, shown |-> PrepReceiptsShown]
           r == PrepCompress(PrepCompiled)
<1>1. out.all = PrepCompiled /\ out.items = r.items /\ out.summary = r.summary /\ out.compressed = TRUE
      /\ out.shown = PrepReceiptsShown
  OBVIOUS
<1>2. prepWindow \in Nat
  BY PrepAssumption DEF PrepTypeOK
<1>3. PrepSet(PrepCompiled) /\ PrepApart(PrepCompiled)
  BY PrepCompiledType
<1>4. PrepNeeded(PrepCompiled) \in SUBSET r.items /\ r.items \in SUBSET PrepCompiled /\ r.summary \in 0..PrepSummary
  BY <1>2, <1>3, PrepCompressTakes
<1>5. PrepTotal(r.items) + r.summary <= PrepTarget \/ \A it \in r.items : PrepRequired(it)
  BY <1>2, <1>3, PrepCompressFits
<1>6. \A d \in PrepCompiled \ r.items, k \in r.items :
          ~PrepRequired(k) /\ k.rank < d.rank =>
             PrepTotal({it \in r.items : PrepRequired(it) \/ it.rank >= d.rank}) + d.size > PrepTarget
  BY <1>2, <1>3, PrepCompressBest
<1>7. PrepTotal({it \in r.items : it.name[1] = "rule"}) <= PrepRulesTotal
  BY <1>4, PrepRulesFit
<1>8. \A it \in PrepCompiled : PrepRequired(it) => it \in r.items
  BY <1>4 DEF PrepNeeded
<1> HIDE DEF out, r
<1>9. PrepMade(out)
  <2>1. PrepSet(out.all) /\ out.items \in SUBSET out.all /\ out.summary \in 0..PrepSummary
        /\ out.shown \in SUBSET (1..Len(prepReceipts))
    BY <1>1, <1>3, <1>4, PrepShownType
  <2>2. /\ \A it \in out.all : PrepRequired(it) => it \in out.items
        /\ PrepTotal(out.items) + out.summary <= PrepTarget \/ \A it \in out.items : PrepRequired(it)
    BY <1>1, <1>5, <1>8
  <2>3. \A d \in out.all \ out.items, k \in out.items :
          ~PrepRequired(k) /\ k.rank < d.rank =>
             PrepTotal({it \in out.items : PrepRequired(it) \/ it.rank >= d.rank}) + d.size > PrepTarget
    BY <1>1, <1>6
  <2>4. PrepTotal({it \in out.items : it.name[1] = "rule"}) <= PrepRulesTotal
    BY <1>1, <1>7
  <2>5. \/ {i \in 1..PrepFetched : prepReceipts[i]} \subseteq out.shown
        \/ Cardinality({i \in out.shown : prepReceipts[i]}) = PrepShown
    BY <1>1, PrepShownType
  <2> QED BY <2>1, <2>2, <2>3, <2>4, <2>5 DEF PrepMade
<1> QED BY <1>9 DEF out, r

\* The inductive invariant: what was made is right, and what it left out is stored.
PrepInv == PrepTypeOK /\ PrepMade(prepOut) /\ PrepNothingLost

LEMMA PrepInvHolds == PrepInv => PrepPromptHolds
  BY DEF PrepInv, PrepMade, PrepPromptHolds, PrepWithinTarget, PrepBestFirst, PrepNothingLost, PrepRulesBounded, PrepRiskShown

LEMMA PrepMadeType ==
    ASSUME NEW out, PrepMade(out)
    PROVE  /\ out.all \subseteq PrepItems /\ out.items \subseteq out.all
           /\ out.summary \in 0..PrepSummary /\ out.shown \subseteq 1..Len(prepReceipts)
  BY DEF PrepMade, PrepSet

LEMMA PrepMadeStays ==
    ASSUME NEW out, PrepMade(out), UNCHANGED PrepInput
    PROVE  prepReceipts' = prepReceipts /\ prepWindow' = prepWindow
  BY DEF PrepInput

LEMMA PrepInitHolds == PrepInit => PrepInv
<1> SUFFICES ASSUME PrepInit PROVE PrepInv
  OBVIOUS
<1>1. prepOut = PrepNothing /\ prepStored = PrepNoCheckpoint /\ prepCount = 0
  BY DEF PrepInit
<1>2. /\ prepWindow \in PrepWindows /\ prepRules \in [1..2 -> PrepRuleSizes] /\ prepFiles \in [1..2 -> Attachments]
      /\ prepMemory \in PrepMemories /\ prepSkill \in PrepSkillSizes /\ prepReceipts \in PrepHistories
  BY DEF PrepInit
<1>3. /\ prepOut.all = {} /\ prepOut.items = {} /\ prepOut.summary = 0 /\ prepOut.compressed = FALSE /\ prepOut.shown = {}
      /\ prepStored.size = 0 /\ prepStored.names = {}
  BY <1>1 DEF PrepNothing, PrepNoCheckpoint
<1>4. 0 \in 0..PrepMaxRuns /\ 0 \in 0..PrepSummary /\ 0 \in Nat
  BY PrepAssumption
<1>5. PrepTypeOK
  BY <1>1, <1>2, <1>3, <1>4 DEF PrepTypeOK
<1> QED BY <1>1, <1>3, <1>5, PrepMadeNothing DEF PrepInv, PrepNothingLost

\* What is new: an output and a checkpoint, of an unchanged run.
LEMMA PrepNew ==
    ASSUME PrepTypeOK, NEW out, PrepMade(out), NEW size, NEW names, size \in Nat, names \in SUBSET PrepNames,
           prepCount < PrepMaxRuns, prepCount' = prepCount + 1, UNCHANGED PrepInput, prepOut' = out,
           prepStored'.size = size, prepStored'.names = names,
           out.all # {} /\ out.compressed => PrepNamesOf(out.all) \ PrepNamesOf(out.items) \subseteq names
    PROVE  PrepInv'
<1>1. /\ prepWindow' = prepWindow /\ prepRules' = prepRules /\ prepFiles' = prepFiles /\ prepMemory' = prepMemory
      /\ prepSkill' = prepSkill /\ prepReceipts' = prepReceipts
  BY DEF PrepInput
<1>2. prepCount' \in 0..PrepMaxRuns
  BY PrepAssumption DEF PrepTypeOK
<1>3. PrepTypeOK'
  BY <1>1, <1>2, PrepMadeType DEF PrepTypeOK
<1>4. PrepMade(prepOut)'
  BY <1>1 DEF PrepMade, PrepTarget
<1>5. PrepNothingLost'
  BY DEF PrepNothingLost
<1> QED BY <1>3, <1>4, <1>5 DEF PrepInv

LEMMA PrepPrepareHolds == PrepInv /\ PrepPrepare => PrepInv'
<1> SUFFICES ASSUME PrepInv, PrepPrepare PROVE PrepInv'
  OBVIOUS
<1>0. PrepTypeOK
  BY DEF PrepInv
<1> DEFINE items == PrepCompiled
           r == PrepCompress(items)
           dropped == PrepDropped(items, r)
<1>1. prepCount < PrepMaxRuns /\ prepCount' = prepCount + 1 /\ UNCHANGED PrepInput
  BY DEF PrepPrepare
<1>2. CASE PrepTotal(items) < PrepThreshold
  <2> DEFINE out == [all |-> items, items |-> items, summary |-> 0, compressed |-> FALSE, shown |-> PrepReceiptsShown]
  <2>1. prepOut' = out /\ prepStored' = prepStored
    BY <1>2 DEF PrepPrepare
  <2>2. PrepMade(out) /\ out.compressed = FALSE
    BY <1>0, PrepMadeWhole
  <2>3. prepStored.size \in Nat /\ prepStored.names \in SUBSET PrepNames
    BY <1>0 DEF PrepTypeOK
  <2> HIDE DEF out, items
  <2> QED BY <1>0, <1>1, <2>1, <2>2, <2>3, PrepNew
<1>3. CASE ~(PrepTotal(items) < PrepThreshold)
  <2> DEFINE out == [all |-> items, items |-> r.items, summary |-> r.summary, compressed |-> TRUE, shown |-> PrepReceiptsShown]
             size == IF r.summary > 0 THEN r.summary ELSE Cardinality(dropped)
  <2>1. prepOut' = out /\ prepStored' = PrepPersisted(size, dropped)
    BY <1>3 DEF PrepPrepare
  <2>2. PrepMade(out) /\ out.all = items /\ out.items = r.items
    BY <1>0, PrepMadeCompressed
  <2>3. PrepSet(items) /\ r.items \in SUBSET items /\ r.summary \in Nat
    <3>1. prepWindow \in Nat /\ PrepSet(items)
      BY <1>0, PrepCompiledType, PrepAssumption DEF PrepTypeOK
    <3>2. r.items \in SUBSET items /\ r.summary \in 0..PrepSummary
      BY <3>1, PrepCompressTakes
    <3> QED BY <3>1, <3>2
  <2>4. dropped = PrepNamesOf(items) \ PrepNamesOf(r.items)
    BY DEF PrepDropped
  <2> HIDE DEF items, r, dropped
  <2>5. dropped \in SUBSET PrepNames /\ Cardinality(dropped) \in Nat
    BY <2>3, <2>4, PrepNamesType
  <2>6. size \in Nat
    BY <2>3, <2>5
  <2> HIDE DEF size, out
  <2>7. prepStored'.size \in Nat /\ prepStored'.names = dropped
    BY <1>0, <2>1, <2>5, <2>6, PrepPersistedType
  <2> QED BY <1>0, <1>1, <2>1, <2>2, <2>4, <2>5, <2>7, PrepNew
<1> QED BY <1>2, <1>3

LEMMA PrepHostCheckpointHolds == PrepInv /\ PrepHostCheckpoint => PrepInv'
<1> SUFFICES ASSUME PrepInv, PrepHostCheckpoint PROVE PrepInv'
  OBVIOUS
<1>0. PrepTypeOK /\ PrepMade(PrepNothing)
  BY PrepMadeNothing DEF PrepInv
<1>1. prepCount < PrepMaxRuns /\ prepCount' = prepCount + 1 /\ UNCHANGED PrepInput /\ prepOut' = PrepNothing
      /\ prepStored' = PrepPersisted(PrepSummary, {})
  BY DEF PrepHostCheckpoint
<1>2. Cardinality({}) \in Nat /\ {} \in SUBSET PrepNames /\ PrepSummary \in Nat
  BY FS_EmptySet, PrepAssumption
<1>3. prepStored'.size \in Nat /\ prepStored'.names = {}
  BY <1>0, <1>1, <1>2, PrepPersistedType
<1>4. PrepNothing.all = {}
  BY DEF PrepNothing
<1> QED BY <1>0, <1>1, <1>2, <1>3, <1>4, PrepNew

LEMMA PrepStepHolds == PrepInv /\ [PrepNext]_prepVars => PrepInv'
<1> SUFFICES ASSUME PrepInv, [PrepNext]_prepVars PROVE PrepInv'
  OBVIOUS
<1>1. CASE PrepPrepare
  BY <1>1, PrepPrepareHolds
<1>2. CASE PrepHostCheckpoint
  BY <1>2, PrepHostCheckpointHolds
<1>3. CASE UNCHANGED prepVars
  BY <1>3 DEF PrepInv, PrepTypeOK, PrepMade, PrepTarget, PrepNothingLost, prepVars
<1> QED BY <1>1, <1>2, <1>3 DEF PrepNext

THEOREM PreparationIsTyped == PrepSpec => []PrepTypeOK
<1>1. PrepInv => PrepTypeOK
  BY DEF PrepInv
<1> QED BY <1>1, PrepInitHolds, PrepStepHolds, PTL DEF PrepSpec

THEOREM PromptsHold == PrepSpec => []PrepPromptHolds
  BY PrepInitHolds, PrepStepHolds, PrepInvHolds, PTL DEF PrepSpec
=============================================================================
