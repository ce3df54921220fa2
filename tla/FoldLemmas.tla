----------------------------- MODULE FoldLemmas -----------------------------
(***************************************************************************)
(* Lemmas about the folds the models are written with: sums of a function  *)
(* over a finite set, and left folds over a sequence, which both iterate   *)
(* over the subsets of a finite set, from the empty set up; and recursion  *)
(* from a parent to its children in a tree of blocks.                      *)
(*                                                                         *)
(* The induction is over sets of subsets and of numbers, not over          *)
(* predicates: a claim is proved by the set of its counterexamples, which  *)
(* has a minimal member if it has one.                                     *)
(***************************************************************************)
EXTENDS Integers, FiniteSets, Functions, SequencesExt, FiniteSetTheorems,
        SequenceTheorems, TLAPS

-----------------------------------------------------------------------------
(* Induction *)

\* Of some subsets of a finite set, one is minimal.
LEMMA MinimalSubset ==
  ASSUME NEW S, IsFiniteSet(S), NEW Bad \in SUBSET (SUBSET S), Bad # {}
  PROVE  \E T \in Bad : \A U \in Bad : U \subseteq T => U = T
<1>1. Bad \subseteq FiniteSubsetsOf(S)
  BY FS_FiniteSubsetsOfFinite
<1>2. PICK T \in Bad : \A U \in Bad : ~(<<U, T>> \in StrictSubsetOrdering(S))
  BY <1>1, FS_StrictSubsetOrderingWellFounded, WFMin
<1>3. ASSUME NEW U \in Bad, U \subseteq T, U # T
      PROVE  FALSE
  <2>1. <<U, T>> \in StrictSubsetOrdering(S)
    BY <1>3 DEF StrictSubsetOrdering
  <2> QED BY <2>1, <1>2
<1> QED BY <1>3

\* A set of numbers that has 0, and with each number below n the next, has all
\* numbers up to n.
LEMMA UpTo ==
  ASSUME NEW n \in Nat, NEW Q, 0 \in Q,
         \A k \in 0 .. n - 1 : k \in Q => k + 1 \in Q
  PROVE  \A k \in 0 .. n : k \in Q
<1> DEFINE Bad == {k \in 0 .. n : k \notin Q}
<1> SUFFICES ASSUME Bad # {} PROVE FALSE
  OBVIOUS
<1>1. Bad \subseteq Nat
  OBVIOUS
<1>2. PICK k \in Bad : \A m \in Bad : ~(<<m, k>> \in OpToRel(<, Nat))
  <2> HIDE DEF Bad
  <2> QED BY <1>1, NatLessThanWellFounded, WFMin
<1>3. k \in 0 .. n /\ k \notin Q /\ k # 0
  OBVIOUS
<1>4. k - 1 \in 0 .. n - 1 /\ k - 1 < k /\ (k - 1) + 1 = k
  BY <1>3
<1>5. k - 1 \in Bad
  BY <1>3, <1>4
<1>6. <<k - 1, k>> \in OpToRel(<, Nat)
  BY <1>4, <1>3 DEF OpToRel
<1> QED BY <1>2, <1>5, <1>6

-----------------------------------------------------------------------------
(* Iteration over the subsets of a finite set *)

\* A choice of an element from each subset that has one.
Chooses(choose, S) ==
  /\ choose \in [(SUBSET S) \ {{}} -> S]
  /\ \A s \in (SUBSET S) \ {{}} : choose[s] \in s

\* it takes the chosen element of a set last.
Iterates(it, S, base, choose, step) ==
  \A s \in SUBSET S :
    it[s] = IF s = {} THEN base ELSE step[<<choose[s], it[s \ {choose[s]}]>>]

\* What MapThenFoldSet computes exists.
LEMMA IterationExists ==
  ASSUME NEW S, IsFiniteSet(S), NEW A, NEW base \in A,
         NEW choose, Chooses(choose, S),
         NEW step \in [S \X A -> A]
  PROVE  \E it \in [SUBSET S -> A] : Iterates(it, S, base, choose, step)
<1> DEFINE Small(n) == {s \in SUBSET S : Cardinality(s) <= n}
           Builds(it, n) ==
             /\ it \in [Small(n) -> A]
             /\ \A s \in Small(n) :
                  it[s] = IF s = {} THEN base
                          ELSE step[<<choose[s], it[s \ {choose[s]}]>>]
           top == Cardinality(S)
           Q == {n \in 0 .. top : \E it : Builds(it, n)}
<1>1. top \in Nat
  BY FS_CardinalityType
<1>2. \A s \in SUBSET S : IsFiniteSet(s) /\ Cardinality(s) \in Nat
  BY FS_Subset, FS_CardinalityType
<1>3. 0 \in Q
  <2> DEFINE it == [s \in Small(0) |-> base]
  <2>1. Small(0) = {{}}
    BY <1>2, FS_EmptySet
  <2>2. Builds(it, 0)
    <3>1. it \in [Small(0) -> A]
      OBVIOUS
    <3>2. \A s \in Small(0) : s = {} /\ it[s] = base
      BY <2>1
    <3> HIDE DEF it, Small
    <3> QED BY <3>1, <3>2
  <2> HIDE DEF it, Builds
  <2> QED BY <1>1, <2>2
<1>4. ASSUME NEW n \in 0 .. top - 1, n \in Q
      PROVE  n + 1 \in Q
  <2>1. PICK old : Builds(old, n)
    BY <1>4
  <2> DEFINE Value(s) == IF s = {} THEN base
                         ELSE step[<<choose[s], old[s \ {choose[s]}]>>]
             it == [s \in Small(n + 1) |-> Value(s)]
  <2>2. n \in Nat /\ n + 1 \in 0 .. top
    BY <1>1
  <2>3. ASSUME NEW s \in Small(n + 1), s # {}
        PROVE  /\ choose[s] \in s
               /\ s \ {choose[s]} \in Small(n)
               /\ s \ {choose[s]} \in Small(n + 1)
    <3>1. s \in SUBSET S /\ Cardinality(s) \in Nat /\ Cardinality(s) <= n + 1
      BY <1>2
    <3>2. choose[s] \in s
      BY <2>3, <3>1 DEF Chooses
    <3>3. Cardinality(s \ {choose[s]}) = Cardinality(s) - 1
      BY <1>2, <3>1, <3>2, FS_RemoveElement
    <3> QED BY <2>2, <3>1, <3>2, <3>3
  <2>4. ASSUME NEW s \in Small(n + 1)
        PROVE  Value(s) \in A
    <3>1. CASE s = {}
      BY <3>1
    <3>2. CASE s # {}
      <4>1. choose[s] \in S /\ old[s \ {choose[s]}] \in A
        BY <2>1, <2>3, <3>2
      <4> QED BY <3>2, <4>1
    <3> QED BY <3>1, <3>2
  <2>5. ASSUME NEW s \in Small(n)
        PROVE  s \in Small(n + 1) /\ it[s] = old[s]
    <3>1. s \in Small(n + 1)
      BY <1>2, <2>2
    <3>2. old[s] = Value(s)
      BY <2>1
    <3> QED BY <3>1, <3>2
  <2>6. ASSUME NEW s \in Small(n + 1)
        PROVE  it[s] = IF s = {} THEN base
                       ELSE step[<<choose[s], it[s \ {choose[s]}]>>]
    <3>1. CASE s = {}
      BY <3>1
    <3>2. CASE s # {}
      <4>1. it[s \ {choose[s]}] = old[s \ {choose[s]}]
        BY <2>3, <2>5, <3>2
      <4>2. it[s] = step[<<choose[s], old[s \ {choose[s]}]>>]
        BY <3>2
      <4> QED
        <5> HIDE DEF it
        <5> QED BY <3>2, <4>1, <4>2
    <3> QED BY <3>1, <3>2
  <2>7. it \in [Small(n + 1) -> A]
    <3> HIDE DEF Value, Small
    <3> QED BY <2>4
  <2>8. Builds(it, n + 1)
    <3> HIDE DEF it, Small
    <3> QED BY <2>6, <2>7
  <2> QED BY <2>2, <2>8
<1>5. top \in Q
  <2> HIDE DEF Q
  <2>1. \A k \in 0 .. top : k \in Q
    BY <1>1, <1>3, <1>4, UpTo
  <2> QED BY <1>1, <2>1
<1>6. Small(top) = SUBSET S
  BY FS_Subset
<1> QED BY <1>5, <1>6 DEF Iterates

-----------------------------------------------------------------------------
(* Left folds: the element taken last is the largest index *)

LEMMA LargestIndex ==
  ASSUME NEW n \in Nat, NEW s \in SUBSET (1 .. n), s # {}
  PROVE  Max(s) \in s /\ \A i \in s : Max(s) >= i
<1> DEFINE above == {k \in 0 .. n : \E i \in s : i + k = n}
<1>1. PICK j \in s : TRUE
  OBVIOUS
<1>2. n - j \in above
  BY <1>1
<1>3. PICK k \in above : \A m \in above : ~(<<m, k>> \in OpToRel(<, Nat))
  <2>1. above \subseteq Nat /\ above # {}
    <3>1. above \subseteq Nat
      OBVIOUS
    <3> HIDE DEF above
    <3> QED BY <3>1, <1>2
  <2> HIDE DEF above
  <2> QED BY <2>1, NatLessThanWellFounded, WFMin
<1>4. \A m \in above : ~(m < k)
  <2>1. above \subseteq Nat
    OBVIOUS
  <2> HIDE DEF above
  <2> QED BY <1>3, <2>1 DEF OpToRel
<1>5. PICK largest \in s : largest + k = n
  OBVIOUS
<1>6. ASSUME NEW i \in s
      PROVE  largest >= i
  <2>1. n - i \in above
    OBVIOUS
  <2>2. ~(n - i < k)
    BY <1>4, <2>1
  <2>3. i \in Int /\ largest \in Int /\ k \in Int
    OBVIOUS
  <2> HIDE DEF above
  <2> QED BY <1>5, <2>2, <2>3
<1>7. \E x \in s : \A i \in s : x >= i
  BY <1>6
<1> QED
  BY <1>7 DEF Max

\* The prefixes of 1 .. n, from the empty one up, each one index longer.
LEMMA PrefixGrows ==
  ASSUME NEW n \in Nat, NEW k \in 1 .. n
  PROVE  /\ 1 .. k \in SUBSET (1 .. n) /\ 1 .. k # {}
         /\ Max(1 .. k) = k
         /\ (1 .. k) \ {k} = 1 .. (k - 1)
<1>1. k \in Nat /\ k \in 1 .. k /\ 1 .. k \in SUBSET (1 .. n)
  OBVIOUS
<1>2. Max(1 .. k) = k
  <2>1. 1 .. k # {} /\ 1 .. k \in SUBSET (1 .. k)
    BY <1>1
  <2>2. Max(1 .. k) \in 1 .. k /\ Max(1 .. k) >= k
    BY <1>1, <2>1, LargestIndex
  <2> QED BY <1>1, <2>2
<1>3. (1 .. k) \ {k} = 1 .. (k - 1)
  OBVIOUS
<1>4. 1 .. k \in SUBSET (1 .. n) /\ 1 .. k # {}
  BY <1>1
<1> QED
  BY <1>2, <1>3, <1>4

\* it takes the largest index of a set last.
FoldsLeft(it, n, base, step) ==
  it = [s \in SUBSET (1 .. n) |->
          IF s = {} THEN base ELSE step[<<Max(s), it[s \ {Max(s)}]>>]]

\* What FoldLeft computes over indices 1 .. n exists.
LEMMA LeftFoldExists ==
  ASSUME NEW n \in Nat, NEW A, NEW base \in A,
         NEW step \in [(1 .. n) \X A -> A]
  PROVE  \E it \in [SUBSET (1 .. n) -> A] : FoldsLeft(it, n, base, step)
<1> DEFINE choose == [s \in (SUBSET (1 .. n)) \ {{}} |-> Max(s)]
<1>1. IsFiniteSet(1 .. n)
  BY FS_Interval
<1>2. \A s \in (SUBSET (1 .. n)) \ {{}} : Max(s) \in s
  BY LargestIndex
<1>3. /\ Chooses(choose, 1 .. n)
      /\ \A s \in (SUBSET (1 .. n)) \ {{}} : choose[s] = Max(s)
  BY <1>2 DEF Chooses
<1>4. PICK it \in [SUBSET (1 .. n) -> A] : Iterates(it, 1 .. n, base, choose, step)
  <2> HIDE DEF choose
  <2> QED BY <1>1, <1>3, IterationExists
<1>5. \A s \in SUBSET (1 .. n) :
        it[s] = IF s = {} THEN base ELSE step[<<Max(s), it[s \ {Max(s)}]>>]
  <2> HIDE DEF choose
  <2> QED BY <1>3, <1>4 DEF Iterates
<1> QED
  BY <1>5 DEF FoldsLeft

-----------------------------------------------------------------------------
(* Sums *)

\* The elements of S have a number each in f.
Counts(f, S) == \A x \in S : f[x] \in Nat

\* The element a sum takes next.
Some(s) == CHOOSE x \in s : TRUE

\* it has the sum of f over each subset of S.
Totals(it, f, S) ==
  /\ it \in [SUBSET S -> Nat]
  /\ it[{}] = 0
  /\ \A s \in (SUBSET S) \ {{}} : it[s] = f[Some(s)] + it[s \ {Some(s)}]

\* A sum takes the elements of a set in some order.
LEMMA SumIterates ==
  ASSUME NEW S, IsFiniteSet(S), NEW f, Counts(f, S)
  PROVE  \E it : Totals(it, f, S) /\ SumFunctionOnSet(f, S) = it[S]
<1> DEFINE choose == [s \in (SUBSET S) \ {{}} |-> Some(s)]
           step == [p \in S \X Nat |-> f[p[1]] + p[2]]
           Sums(it) == it = [s \in SUBSET S |->
                              IF s = {} THEN 0 ELSE f[Some(s)] + it[s \ {Some(s)}]]
           sum == CHOOSE it : Sums(it)
<1>1. \A s \in (SUBSET S) \ {{}} : Some(s) \in s
  BY DEF Some
<1>2. step \in [S \X Nat -> Nat]
  BY DEF Counts
<1>3. /\ Chooses(choose, S)
      /\ \A s \in (SUBSET S) \ {{}} : choose[s] = Some(s)
  <2> QED BY <1>1 DEF Chooses
<1>4. PICK it \in [SUBSET S -> Nat] : Iterates(it, S, 0, choose, step)
  <2> HIDE DEF choose, step
  <2>1. 0 \in Nat
    OBVIOUS
  <2> QED BY <1>2, <1>3, <2>1, IterationExists
<1>5. \A s \in SUBSET S :
        it[s] = IF s = {} THEN 0 ELSE f[Some(s)] + it[s \ {Some(s)}]
  <2>1. ASSUME NEW s \in SUBSET S, s # {}
        PROVE  it[s] = f[Some(s)] + it[s \ {Some(s)}]
    <3>1. Some(s) \in S /\ it[s \ {Some(s)}] \in Nat /\ choose[s] = Some(s)
      BY <2>1, <1>1
    <3>2. step[<<Some(s), it[s \ {Some(s)}]>>] = f[Some(s)] + it[s \ {Some(s)}]
      BY <3>1
    <3> HIDE DEF step, choose
    <3> QED BY <2>1, <3>1, <3>2, <1>4 DEF Iterates
  <2> QED BY <2>1, <1>4 DEF Iterates
<1>6. Sums(it)
  <2> QED BY <1>5
<1>7. Sums(sum)
  <2> HIDE DEF Sums
  <2> QED BY <1>6
<1>8. SumFunctionOnSet(f, S) = sum[S]
  BY DEF SumFunctionOnSet, FoldFunctionOnSet, MapThenFoldSet, Some
<1> HIDE DEF sum
<1>9. \A s \in SUBSET S :
        sum[s] = IF s = {} THEN 0 ELSE f[Some(s)] + sum[s \ {Some(s)}]
  <2> QED BY <1>7
<1>10. \A s \in SUBSET S : sum[s] \in Nat
  <2> DEFINE Bad == {s \in SUBSET S : sum[s] \notin Nat}
  <2> SUFFICES ASSUME Bad # {} PROVE FALSE
    OBVIOUS
  <2>1. PICK s \in Bad : \A U \in Bad : U \subseteq s => U = s
    <3> HIDE DEF Bad
    <3>1. Bad \in SUBSET (SUBSET S)
      BY DEF Bad
    <3> QED BY <3>1, MinimalSubset
  <2>2. s # {} /\ s \in SUBSET S
    <3>1. s \in SUBSET S /\ sum[s] \notin Nat
      OBVIOUS
    <3>2. {} \in SUBSET S
      OBVIOUS
    <3>3. sum[{}] = 0
      BY <1>9, <3>2
    <3>4. sum[{}] \in Nat
      BY <3>3
    <3> HIDE DEF Bad
    <3>5. s # {}
      BY <3>1, <3>4
    <3> QED BY <3>1, <3>5
  <2>3. Some(s) \in s
    BY <2>2, <1>1
  <2>4. s \ {Some(s)} \notin Bad /\ s \ {Some(s)} \in SUBSET S
    BY <2>1, <2>2, <2>3
  <2>5. sum[s \ {Some(s)}] \in Nat /\ f[Some(s)] \in Nat
    BY <2>4, <2>3, <2>2 DEF Counts
  <2>6. sum[s] = f[Some(s)] + sum[s \ {Some(s)}]
    BY <2>2, <1>9
  <2>7. sum[s] \notin Nat
    OBVIOUS
  <2> HIDE DEF Bad
  <2> QED BY <2>5, <2>6, <2>7
<1>11. DOMAIN sum = SUBSET S
  BY <1>7
<1>12. sum \in [SUBSET S -> Nat]
  <2>1. sum = [s \in SUBSET S |-> sum[s]]
    BY <1>7, <1>11
  <2> QED BY <2>1, <1>10
<1> QED
  <2>1. Totals(sum, f, S)
    BY <1>9, <1>12 DEF Totals
  <2> QED BY <1>8, <2>1

\* The sum over the empty set is 0, and every sum is a number.
LEMMA SumType ==
  ASSUME NEW S, IsFiniteSet(S), NEW f, Counts(f, S)
  PROVE  SumFunctionOnSet(f, S) \in Nat /\ SumFunctionOnSet(f, {}) = 0
<1>1. SumFunctionOnSet(f, S) \in Nat
  <2>1. PICK it : Totals(it, f, S) /\ SumFunctionOnSet(f, S) = it[S]
    BY SumIterates
  <2> QED BY <2>1 DEF Totals
<1>2. IsFiniteSet({}) /\ Counts(f, {})
  BY FS_EmptySet DEF Counts
<1>3. PICK it : Totals(it, f, {}) /\ SumFunctionOnSet(f, {}) = it[{}]
  BY <1>2, SumIterates
<1> QED
  BY <1>1, <1>3 DEF Totals

\* Two functions that agree on a set have the same sum over it.
LEMMA SumEqual ==
  ASSUME NEW S, IsFiniteSet(S), NEW f, NEW g, Counts(f, S),
         \A x \in S : f[x] = g[x]
  PROVE  SumFunctionOnSet(f, S) = SumFunctionOnSet(g, S)
<1>1. Counts(g, S)
  BY DEF Counts
<1>2. PICK p : Totals(p, f, S) /\ SumFunctionOnSet(f, S) = p[S]
  BY SumIterates
<1>3. PICK q : Totals(q, g, S) /\ SumFunctionOnSet(g, S) = q[S]
  BY <1>1, SumIterates
<1> DEFINE Bad == {s \in SUBSET S : p[s] # q[s]}
<1>4. ASSUME Bad # {}
      PROVE  FALSE
  <2>1. PICK s \in Bad : \A U \in Bad : U \subseteq s => U = s
    <3>1. Bad \in SUBSET (SUBSET S)
      OBVIOUS
    <3> HIDE DEF Bad
    <3> QED BY <1>4, <3>1, MinimalSubset
  <2>2. s \in (SUBSET S) \ {{}} /\ p[s] # q[s]
    BY <1>2, <1>3 DEF Totals
  <2>3. Some(s) \in s
    BY <2>2 DEF Some
  <2>4. s \ {Some(s)} \in SUBSET S /\ s \ {Some(s)} \notin Bad
    BY <2>1, <2>2, <2>3
  <2>5. p[s \ {Some(s)}] = q[s \ {Some(s)}] /\ f[Some(s)] = g[Some(s)]
    BY <2>2, <2>3, <2>4
  <2> HIDE DEF Bad
  <2> QED BY <1>2, <1>3, <2>2, <2>5 DEF Totals
<1> QED
  BY <1>2, <1>3, <1>4

\* Over a subset, a sum iterates like the sum over the whole set.
LEMMA SumOverSubsets ==
  ASSUME NEW S, IsFiniteSet(S), NEW f, Counts(f, S)
  PROVE  \A T \in (SUBSET S) \ {{}} :
           SumFunctionOnSet(f, T)
             = f[Some(T)] + SumFunctionOnSet(f, T \ {Some(T)})
<1>1. ASSUME NEW T \in SUBSET S
      PROVE  IsFiniteSet(T) /\ Counts(f, T)
  BY FS_Subset DEF Counts
<1>2. ASSUME NEW T \in SUBSET S, NEW p, Totals(p, f, T)
      PROVE  \A s \in SUBSET T : SumFunctionOnSet(f, s) = p[s]
  <2> SUFFICES ASSUME NEW U \in SUBSET T
               PROVE  SumFunctionOnSet(f, U) = p[U]
    OBVIOUS
  <2>1. PICK q : Totals(q, f, U) /\ SumFunctionOnSet(f, U) = q[U]
    <3>1. U \in SUBSET S
      OBVIOUS
    <3> QED BY <1>1, <3>1, SumIterates
  <2> DEFINE Bad == {s \in SUBSET U : p[s] # q[s]}
  <2>2. ASSUME Bad # {}
        PROVE  FALSE
    <3>1. PICK s \in Bad : \A V \in Bad : V \subseteq s => V = s
      <4>1. Bad \in SUBSET (SUBSET U) /\ IsFiniteSet(U)
        BY <1>1
      <4> HIDE DEF Bad
      <4> QED BY <2>2, <4>1, MinimalSubset
    <3>2. s \in (SUBSET U) \ {{}} /\ p[s] # q[s]
      BY <1>2, <2>1 DEF Totals
    <3>3. Some(s) \in s
      BY <3>2 DEF Some
    <3>4. s \ {Some(s)} \in SUBSET U /\ s \ {Some(s)} \notin Bad
      BY <3>1, <3>2, <3>3
    <3>5. p[s \ {Some(s)}] = q[s \ {Some(s)}] /\ s \in (SUBSET T) \ {{}}
      BY <3>2, <3>4
    <3> HIDE DEF Bad
    <3> QED BY <1>2, <2>1, <3>2, <3>5 DEF Totals
  <2> QED BY <2>1, <2>2
<1> SUFFICES ASSUME NEW T \in (SUBSET S) \ {{}}
             PROVE  SumFunctionOnSet(f, T)
                      = f[Some(T)] + SumFunctionOnSet(f, T \ {Some(T)})
  OBVIOUS
<1>3. PICK p : Totals(p, f, T) /\ SumFunctionOnSet(f, T) = p[T]
  BY <1>1, SumIterates
<1>4. SumFunctionOnSet(f, T \ {Some(T)}) = p[T \ {Some(T)}]
  BY <1>2, <1>3
<1> QED
  BY <1>3, <1>4 DEF Totals

\* A sum is any one of its terms and the sum of the others.
LEMMA SumRemove ==
  ASSUME NEW S, IsFiniteSet(S), NEW f, Counts(f, S), NEW x \in S
  PROVE  SumFunctionOnSet(f, S) = f[x] + SumFunctionOnSet(f, S \ {x})
<1> DEFINE Sum(T) == SumFunctionOnSet(f, T)
           Bad == {T \in SUBSET S : \E y \in T : Sum(T) # f[y] + Sum(T \ {y})}
<1>1. \A T \in SUBSET S : Sum(T) \in Nat
  <2>1. ASSUME NEW T \in SUBSET S
        PROVE  Sum(T) \in Nat
    <3>1. IsFiniteSet(T) /\ Counts(f, T)
      BY FS_Subset DEF Counts
    <3> QED BY <3>1, SumType
  <2> QED BY <2>1
<1>2. \A T \in (SUBSET S) \ {{}} :
        Some(T) \in T /\ Sum(T) = f[Some(T)] + Sum(T \ {Some(T)})
  BY SumOverSubsets DEF Some
<1> HIDE DEF Sum
<1>3. ASSUME Bad # {}
      PROVE  FALSE
  <2>1. PICK T \in Bad : \A U \in Bad : U \subseteq T => U = T
    <3>1. Bad \in SUBSET (SUBSET S)
      OBVIOUS
    <3> HIDE DEF Bad
    <3> QED BY <1>3, <3>1, MinimalSubset
  <2>2. PICK y \in T : Sum(T) # f[y] + Sum(T \ {y})
    OBVIOUS
  <2> DEFINE z == Some(T)
  <2>3. /\ T \in (SUBSET S) \ {{}} /\ z \in T
        /\ Sum(T) = f[z] + Sum(T \ {z})
    BY <2>2, <1>2
  <2>4. z # y
    BY <2>2, <2>3
  <2> HIDE DEF z
  <2>5. /\ T \ {z} \in SUBSET S /\ T \ {z} \notin Bad /\ y \in T \ {z}
        /\ T \ {y} \in SUBSET S /\ T \ {y} \notin Bad /\ z \in T \ {y}
    BY <2>1, <2>3, <2>4
  <2>6. /\ Sum(T \ {z}) = f[y] + Sum((T \ {z}) \ {y})
        /\ Sum(T \ {y}) = f[z] + Sum((T \ {y}) \ {z})
    BY <2>5
  <2>7. (T \ {z}) \ {y} = (T \ {y}) \ {z} /\ (T \ {y}) \ {z} \in SUBSET S
    BY <2>5
  <2>8. f[y] \in Nat /\ f[z] \in Nat /\ Sum((T \ {y}) \ {z}) \in Nat
    BY <2>3, <2>7, <1>1 DEF Counts
  <2> HIDE DEF Bad
  <2>9. Sum(T \ {z}) \in Nat /\ Sum(T \ {y}) \in Nat
    BY <1>1, <2>5
  <2> DEFINE rest == Sum((T \ {y}) \ {z})
  <2>10. /\ Sum(T \ {z}) = f[y] + rest
         /\ Sum(T \ {y}) = f[z] + rest
         /\ rest \in Nat
    BY <2>6, <2>7, <2>8
  <2> HIDE DEF rest
  <2>11. f[z] + (f[y] + rest) = f[y] + (f[z] + rest)
    BY <2>8, <2>10
  <2> QED BY <2>2, <2>3, <2>10, <2>11
<1>4. S \notin Bad
  BY <1>3
<1> QED
  BY <1>4 DEF Sum

\* A sum changes with the one term that changes.
LEMMA SumUpdate ==
  ASSUME NEW S, IsFiniteSet(S), NEW f, NEW g, Counts(f, S), Counts(g, S),
         NEW x \in S, \A y \in S \ {x} : g[y] = f[y]
  PROVE  SumFunctionOnSet(g, S) = SumFunctionOnSet(f, S) - f[x] + g[x]
<1> DEFINE T == S \ {x}
<1>1. IsFiniteSet(T) /\ Counts(f, T) /\ Counts(g, T)
  BY FS_RemoveElement DEF Counts
<1>2. SumFunctionOnSet(f, T) = SumFunctionOnSet(g, T)
  <2> HIDE DEF T
  <2>1. \A y \in T : f[y] = g[y]
    BY DEF T
  <2> QED BY <1>1, <2>1, SumEqual
<1>3. SumFunctionOnSet(f, T) \in Nat
  BY <1>1, SumType
<1>4. /\ SumFunctionOnSet(f, S) = f[x] + SumFunctionOnSet(f, T)
      /\ SumFunctionOnSet(g, S) = g[x] + SumFunctionOnSet(g, T)
  BY SumRemove
<1>5. f[x] \in Nat /\ g[x] \in Nat
  BY DEF Counts
<1> HIDE DEF T
<1> QED
  BY <1>2, <1>3, <1>4, <1>5

\* The terms of a sum, added up one by one: what holds of the empty sum and,
\* with each smaller sum, of the next, holds of all.
LEMMA SumSteps ==
  ASSUME NEW S, IsFiniteSet(S), NEW f, Counts(f, S)
  PROVE  \A T \in (SUBSET S) \ {{}} :
           /\ Some(T) \in T /\ T \ {Some(T)} \in SUBSET S
           /\ f[Some(T)] \in Nat
           /\ SumFunctionOnSet(f, T \ {Some(T)}) \in Nat
           /\ SumFunctionOnSet(f, T)
                = f[Some(T)] + SumFunctionOnSet(f, T \ {Some(T)})
<1> SUFFICES ASSUME NEW T \in (SUBSET S) \ {{}}
             PROVE  /\ Some(T) \in T /\ T \ {Some(T)} \in SUBSET S
                    /\ f[Some(T)] \in Nat
                    /\ SumFunctionOnSet(f, T \ {Some(T)}) \in Nat
                    /\ SumFunctionOnSet(f, T)
                         = f[Some(T)] + SumFunctionOnSet(f, T \ {Some(T)})
  OBVIOUS
<1>1. Some(T) \in T
  BY DEF Some
<1>2. T \ {Some(T)} \in SUBSET S /\ f[Some(T)] \in Nat
  BY <1>1 DEF Counts
<1>3. SumFunctionOnSet(f, T \ {Some(T)}) \in Nat
  <2> DEFINE U == T \ {Some(T)}
  <2>1. IsFiniteSet(U) /\ Counts(f, U)
    BY <1>2, FS_Subset DEF Counts
  <2> HIDE DEF U
  <2>2. SumFunctionOnSet(f, U) \in Nat
    BY <2>1, SumType
  <2> QED BY <2>2 DEF U
<1> QED BY <1>1, <1>2, <1>3, SumOverSubsets

\* Sums add up term by term.
LEMMA SumAdd ==
  ASSUME NEW S, IsFiniteSet(S), NEW f, NEW g, NEW h, Counts(f, S), Counts(g, S),
         \A x \in S : h[x] = f[x] + g[x]
  PROVE  SumFunctionOnSet(h, S) = SumFunctionOnSet(f, S) + SumFunctionOnSet(g, S)
<1> DEFINE F(T) == SumFunctionOnSet(f, T)
           G(T) == SumFunctionOnSet(g, T)
           H(T) == SumFunctionOnSet(h, T)
           Bad == {T \in SUBSET S : H(T) # F(T) + G(T)}
<1>1. Counts(h, S)
  BY DEF Counts
<1>2. /\ F({}) = 0 /\ G({}) = 0 /\ H({}) = 0
      /\ \A T \in (SUBSET S) \ {{}} :
           /\ Some(T) \in T /\ T \ {Some(T)} \in SUBSET S
           /\ f[Some(T)] \in Nat /\ F(T \ {Some(T)}) \in Nat
           /\ g[Some(T)] \in Nat /\ G(T \ {Some(T)}) \in Nat
           /\ F(T) = f[Some(T)] + F(T \ {Some(T)})
           /\ G(T) = g[Some(T)] + G(T \ {Some(T)})
           /\ H(T) = h[Some(T)] + H(T \ {Some(T)})
  BY <1>1, SumSteps, SumType
<1> HIDE DEF F, G, H
<1>3. ASSUME Bad # {}
      PROVE  FALSE
  <2>1. PICK T \in Bad : \A U \in Bad : U \subseteq T => U = T
    <3>1. Bad \in SUBSET (SUBSET S)
      OBVIOUS
    <3> HIDE DEF Bad
    <3> QED BY <1>3, <3>1, MinimalSubset
  <2>2. T \in (SUBSET S) \ {{}} /\ H(T) # F(T) + G(T)
    BY <1>2
  <2> DEFINE x == Some(T)
             U == T \ {x}
  <2>3. x \in S /\ U \in SUBSET S /\ U \notin Bad
    BY <2>1, <2>2, <1>2
  <2>4. H(U) = F(U) + G(U) /\ h[x] = f[x] + g[x]
    BY <2>3
  <2>5. /\ f[x] \in Nat /\ F(U) \in Nat /\ g[x] \in Nat /\ G(U) \in Nat
        /\ F(T) = f[x] + F(U) /\ G(T) = g[x] + G(U) /\ H(T) = h[x] + H(U)
    BY <2>2, <1>2
  <2> HIDE DEF x, U, Bad
  <2> QED BY <2>2, <2>4, <2>5
<1> QED
  BY <1>3 DEF F, G, H

\* Parts that are no more than a share n of t of their whole are not more in sum.
LEMMA SumScaled ==
  ASSUME NEW S, IsFiniteSet(S), NEW f, NEW g, Counts(f, S), Counts(g, S),
         NEW t \in Nat, NEW n \in Nat, \A x \in S : t * f[x] <= n * g[x]
  PROVE  t * SumFunctionOnSet(f, S) <= n * SumFunctionOnSet(g, S)
<1> DEFINE F(T) == SumFunctionOnSet(f, T)
           G(T) == SumFunctionOnSet(g, T)
           Bad == {T \in SUBSET S : ~(t * F(T) <= n * G(T))}
<1>1. /\ F({}) = 0 /\ G({}) = 0
      /\ \A T \in (SUBSET S) \ {{}} :
           /\ Some(T) \in T /\ T \ {Some(T)} \in SUBSET S
           /\ f[Some(T)] \in Nat /\ F(T \ {Some(T)}) \in Nat
           /\ g[Some(T)] \in Nat /\ G(T \ {Some(T)}) \in Nat
           /\ F(T) = f[Some(T)] + F(T \ {Some(T)})
           /\ G(T) = g[Some(T)] + G(T \ {Some(T)})
  <2>1. F({}) = 0 /\ G({}) = 0
    BY SumType
  <2> QED BY <2>1, SumSteps
<1> HIDE DEF F, G
<1>2. ASSUME Bad # {}
      PROVE  FALSE
  <2>1. PICK T \in Bad : \A U \in Bad : U \subseteq T => U = T
    <3>1. Bad \in SUBSET (SUBSET S)
      OBVIOUS
    <3> HIDE DEF Bad
    <3> QED BY <1>2, <3>1, MinimalSubset
  <2>2. T \in (SUBSET S) \ {{}} /\ ~(t * F(T) <= n * G(T))
    <3>1. t * F({}) = 0 /\ n * G({}) = 0
      BY <1>1
    <3>2. T \in SUBSET S /\ ~(t * F(T) <= n * G(T))
      OBVIOUS
    <3> HIDE DEF Bad
    <3>3. T # {}
      <4> SUFFICES ASSUME T = {} PROVE FALSE
        OBVIOUS
      <4>1. F(T) = F({}) /\ G(T) = G({})
        OBVIOUS
      <4> QED BY <3>1, <3>2, <4>1
    <3> QED BY <3>2, <3>3
  <2> DEFINE x == Some(T)
             U == T \ {x}
  <2>3. x \in S /\ U \in SUBSET S /\ U \notin Bad
    BY <2>1, <2>2, <1>1
  <2>4. t * F(U) <= n * G(U) /\ t * f[x] <= n * g[x]
    BY <2>3
  <2>5. /\ f[x] \in Nat /\ F(U) \in Nat /\ g[x] \in Nat /\ G(U) \in Nat
        /\ F(T) = f[x] + F(U) /\ G(T) = g[x] + G(U)
    BY <2>2, <1>1
  <2> HIDE DEF x, U, Bad
  <2>6. t * F(T) = t * f[x] + t * F(U) /\ n * G(T) = n * g[x] + n * G(U)
    BY <2>5
  <2>7. /\ t * f[x] \in Nat /\ t * F(U) \in Nat
        /\ n * g[x] \in Nat /\ n * G(U) \in Nat
    BY <2>5
  <2> QED BY <2>2, <2>4, <2>6, <2>7
<1> QED
  BY <1>2 DEF F, G

\* Fewer terms, no larger sum.
LEMMA SumSubset ==
  ASSUME NEW S, IsFiniteSet(S), NEW f, Counts(f, S), NEW T \in SUBSET S
  PROVE  SumFunctionOnSet(f, T) <= SumFunctionOnSet(f, S)
<1> DEFINE F(U) == SumFunctionOnSet(f, U)
           Bad == {R \in SUBSET (S \ T) : ~(F(T) <= F(T \cup R))}
<1>1. \A U \in SUBSET S : F(U) \in Nat /\ \A x \in U : F(U) = f[x] + F(U \ {x})
  <2>1. ASSUME NEW U \in SUBSET S
        PROVE  IsFiniteSet(U) /\ Counts(f, U)
    BY FS_Subset DEF Counts
  <2> QED BY <2>1, SumType, SumRemove
<1> HIDE DEF F
<1>2. ASSUME Bad # {}
      PROVE  FALSE
  <2>1. PICK R \in Bad : \A U \in Bad : U \subseteq R => U = R
    <3>1. Bad \in SUBSET (SUBSET (S \ T)) /\ IsFiniteSet(S \ T)
      BY FS_Subset
    <3> HIDE DEF Bad
    <3> QED BY <1>2, <3>1, MinimalSubset
  <2>2. R \in SUBSET (S \ T) /\ ~(F(T) <= F(T \cup R))
    OBVIOUS
  <2>3. PICK x \in R : TRUE
    <3>1. T \cup {} = T /\ F(T) \in Nat
      BY <1>1
    <3> HIDE DEF Bad
    <3> QED BY <2>2, <3>1
  <2> DEFINE Q == R \ {x}
  <2>4. Q \in SUBSET (S \ T) /\ Q \notin Bad
    BY <2>1, <2>2
  <2>5. F(T) <= F(T \cup Q)
    BY <2>4
  <2>6. (T \cup R) \ {x} = T \cup Q
    BY <2>2, <2>3
  <2>7. T \cup R \in SUBSET S /\ x \in T \cup R /\ T \cup Q \in SUBSET S
    BY <2>2, <2>3
  <2> HIDE DEF Q, Bad
  <2>8. F(T \cup R) = f[x] + F(T \cup Q)
    BY <1>1, <2>6, <2>7
  <2>9. f[x] \in Nat /\ F(T) \in Nat /\ F(T \cup Q) \in Nat
    BY <1>1, <2>2, <2>3, <2>7 DEF Counts
  <2> QED BY <2>2, <2>5, <2>8, <2>9
<1> QED
  <2>1. S \ T \notin Bad
    BY <1>2
  <2>2. T \cup (S \ T) = S
    OBVIOUS
  <2> QED BY <2>1, <2>2 DEF F

-----------------------------------------------------------------------------
(* Finite sets as sequences *)

\* The elements of a finite set, in some order, are elements of the set.
LEMMA SetToSeqHasElements ==
  ASSUME NEW S, IsFiniteSet(S), NEW T, S \subseteq T
  PROVE  SetToSeq(S) \in Seq(T)
<1> DEFINE n == Cardinality(S)
           listed == SetToSeq(S)
<1>1. n \in Nat /\ ExistsBijection(1 .. n, S)
  BY FS_CardinalityType
<1>2. \E f \in [1 .. n -> S] : IsInjective(f)
  <2>1. PICK f \in Bijection(1 .. n, S) : TRUE
    BY <1>1 DEF ExistsBijection
  <2>2. f \in [1 .. n -> S] /\ DOMAIN f = 1 .. n
    BY <2>1 DEF Bijection, Injection
  <2>3. \A a, b \in 1 .. n : f[a] = f[b] => a = b
    BY <2>1 DEF Bijection, Injection, IsInjective
  <2> QED BY <2>2, <2>3 DEF IsInjective
<1>3. listed = CHOOSE f \in [1 .. n -> S] : IsInjective(f)
  BY DEF SetToSeq
<1>4. listed \in [1 .. n -> S]
  <2> HIDE DEF listed, n
  <2> QED BY <1>2, <1>3
<1>5. listed \in [1 .. n -> T]
  <2> HIDE DEF listed, n
  <2> QED BY <1>4
<1>6. listed \in Seq(T)
  <2> HIDE DEF listed, n
  <2> QED BY <1>1, <1>5, SeqDef
<1> QED BY <1>6

\* The sequence lists no element of the set twice.
LEMMA SetToSeqIsInjective ==
  ASSUME NEW S, IsFiniteSet(S)
  PROVE  \A i, j \in DOMAIN SetToSeq(S) : SetToSeq(S)[i] = SetToSeq(S)[j] => i = j
<1> DEFINE n == Cardinality(S)
           listed == SetToSeq(S)
<1>1. n \in Nat /\ ExistsBijection(1 .. n, S)
  BY FS_CardinalityType
<1>2. \E f \in [1 .. n -> S] : IsInjective(f)
  <2>1. PICK f \in Bijection(1 .. n, S) : TRUE
    BY <1>1 DEF ExistsBijection
  <2>2. f \in [1 .. n -> S] /\ DOMAIN f = 1 .. n
    BY <2>1 DEF Bijection, Injection
  <2>3. \A a, b \in 1 .. n : f[a] = f[b] => a = b
    BY <2>1 DEF Bijection, Injection, IsInjective
  <2> QED BY <2>2, <2>3 DEF IsInjective
<1>3. listed = CHOOSE f \in [1 .. n -> S] : IsInjective(f)
  BY DEF SetToSeq
<1>4. IsInjective(listed)
  <2> HIDE DEF listed, n
  <2> QED BY <1>2, <1>3
<1> QED BY <1>4 DEF IsInjective

\* fold takes the indices 1 .. n one after the other, as long as it stays in A.
StepsThrough(fold, n, A, base, step) ==
  /\ fold[{}] = base
  /\ \A k \in 1 .. n :
       fold[1 .. (k - 1)] \in A =>
         fold[1 .. k] = step[<<k, fold[1 .. (k - 1)]>>]

\* run goes from base by steps to the value last.
RunsTo(run, n, base, step, last) ==
  /\ run[0] = base
  /\ \A k \in 1 .. n : run[k] = step[<<k, run[k - 1]>>]
  /\ run[n] = last

\* A left fold over indices 1 .. n goes through the values of a run.
LEMMA FoldRuns ==
  ASSUME NEW n \in Nat, NEW A, NEW base \in A,
         NEW step \in [(1 .. n) \X A -> A],
         NEW fold, StepsThrough(fold, n, A, base, step)
  PROVE  \E run \in [0 .. n -> A] : RunsTo(run, n, base, step, fold[1 .. n])
<1> DEFINE Q == {k \in 0 .. n : fold[1 .. k] \in A}
           run == [k \in 0 .. n |-> fold[1 .. k]]
<1>1. 1 .. 0 = {} /\ fold[1 .. 0] = base
  BY DEF StepsThrough
<1>2. 0 \in Q
  BY <1>1
<1>3. ASSUME NEW k \in 0 .. n - 1, k \in Q
      PROVE  k + 1 \in Q
  <2>1. k + 1 \in 1 .. n /\ (k + 1) - 1 = k /\ k + 1 \in 0 .. n
    OBVIOUS
  <2>2. fold[1 .. k] \in A
    BY <1>3
  <2>3. fold[1 .. (k + 1)] = step[<<k + 1, fold[1 .. k]>>]
    BY <2>1, <2>2 DEF StepsThrough
  <2>4. step[<<k + 1, fold[1 .. k]>>] \in A
    BY <2>1, <2>2
  <2> QED BY <2>1, <2>3, <2>4
<1>4. \A k \in 0 .. n : k \in Q
  <2> HIDE DEF Q
  <2> QED BY <1>2, <1>3, UpTo
<1>5. \A k \in 0 .. n : fold[1 .. k] \in A
  BY <1>4
<1>6. run \in [0 .. n -> A]
  BY <1>5
<1>7. run[0] = base /\ run[n] = fold[1 .. n]
  BY <1>1
<1>8. ASSUME NEW k \in 1 .. n
      PROVE  run[k] = step[<<k, run[k - 1]>>]
  <2>1. k \in 0 .. n /\ k - 1 \in 0 .. n
    OBVIOUS
  <2>2. run[k] = fold[1 .. k] /\ run[k - 1] = fold[1 .. (k - 1)]
    BY <2>1
  <2> HIDE DEF run
  <2> QED BY <1>5, <2>1, <2>2 DEF StepsThrough
<1> HIDE DEF run
<1> QED
  BY <1>6, <1>7, <1>8 DEF RunsTo

-----------------------------------------------------------------------------
(* Recursion along a tree *)

\* Whoever goes from an element of S to its parent, and on, leaves S.
Grounded(S, parent) ==
  \A T \in (SUBSET S) \ {{}} : \E b \in T : parent[b] \notin T

\* f has the values that the recursion gives on D.
Recurs(f, D, root, parent, base, step) ==
  \A b \in D : f[b] = IF b = root THEN base ELSE step[<<f[parent[b]], b>>]

\* Values for a part of the tree that has the parents of all its elements.
Attempt(D, f, S, root, parent, V, base, step) ==
  /\ D \subseteq S \cup {root} /\ root \in D
  /\ \A b \in D \ {root} : parent[b] \in D
  /\ f \in [D -> V]
  /\ Recurs(f, D, root, parent, base, step)

\* A recursion from the parent to the child has a result.
LEMMA TreeRecursion ==
  ASSUME NEW S, NEW root, root \notin S, NEW parent \in [S -> S \cup {root}],
         Grounded(S, parent),
         NEW V, NEW base \in V, NEW step \in [V \X S -> V]
  PROVE  \E f \in [S \cup {root} -> V] :
           Recurs(f, S \cup {root}, root, parent, base, step)
<1> DEFINE Tries(D, f) == Attempt(D, f, S, root, parent, V, base, step)
           Covers(b, v) == \E D, f : Tries(D, f) /\ b \in D /\ f[b] = v
           whole == [b \in S \cup {root} |-> CHOOSE v \in V : Covers(b, v)]
<1>1. ASSUME NEW D, NEW f, Tries(D, f), NEW E, NEW g, Tries(E, g)
      PROVE  \A b \in D \cap E : f[b] = g[b]
  <2> DEFINE T == {b \in D \cap E : b # root /\ f[b] # g[b]}
  <2>1. f[root] = base /\ g[root] = base
    BY <1>1 DEF Attempt, Recurs
  <2>2. ASSUME T # {}
        PROVE  FALSE
    <3>1. T \in (SUBSET S) \ {{}}
      BY <1>1, <2>2 DEF Attempt
    <3>2. PICK b \in T : parent[b] \notin T
      <4> HIDE DEF T
      <4> QED BY <3>1 DEF Grounded
    <3>3. /\ b \in D /\ b \in E /\ b # root
          /\ parent[b] \in D /\ parent[b] \in E
      BY <1>1 DEF Attempt
    <3>4. f[parent[b]] = g[parent[b]]
      BY <2>1, <3>2, <3>3
    <3>5. f[b] = g[b]
      BY <1>1, <3>3, <3>4 DEF Attempt, Recurs
    <3> QED BY <3>5
  <2> QED BY <2>1, <2>2
<1>2. Tries({root}, [b \in {root} |-> base])
  BY DEF Attempt, Recurs
<1>3. ASSUME NEW D, NEW f, Tries(D, f), NEW b \in S, parent[b] \in D
      PROVE  \E E, g : Tries(E, g) /\ b \in E
  <2>1. CASE b \in D
    BY <1>3, <2>1
  <2>2. CASE b \notin D
    <3> DEFINE E == D \cup {b}
               v == step[<<f[parent[b]], b>>]
               g == [x \in E |-> IF x = b THEN v ELSE f[x]]
    <3>1. /\ D \subseteq S \cup {root} /\ root \in D
          /\ \A x \in D \ {root} : parent[x] \in D
          /\ f \in [D -> V]
          /\ Recurs(f, D, root, parent, base, step)
      BY <1>3 DEF Attempt
    <3>2. f[parent[b]] \in V /\ parent[b] # b /\ b # root
      BY <1>3, <2>2, <3>1
    <3>3. v \in V
      BY <3>2
    <3>4. g[b] = v /\ \A x \in D : g[x] = f[x]
      BY <2>2
    <3>5. g \in [E -> V]
      <4> HIDE DEF v
      <4> QED BY <3>1, <3>3
    <3>6. Recurs(g, E, root, parent, base, step)
      <4> SUFFICES ASSUME NEW x \in E
                   PROVE  g[x] = IF x = root THEN base ELSE step[<<g[parent[x]], x>>]
        BY DEF Recurs
      <4> HIDE DEF g
      <4>1. CASE x = b
        BY <1>3, <3>2, <3>4, <4>1
      <4>2. CASE x # b
        <5>1. x \in D /\ g[x] = f[x]
          BY <3>4, <4>2
        <5>2. CASE x = root
          BY <3>1, <5>1, <5>2 DEF Recurs
        <5>3. CASE x # root
          <6>1. parent[x] \in D /\ g[parent[x]] = f[parent[x]]
            BY <3>1, <3>4, <5>1, <5>3
          <6> QED BY <3>1, <5>1, <5>3, <6>1 DEF Recurs
        <5> QED BY <5>2, <5>3
      <4> QED BY <4>1, <4>2
    <3>7. E \subseteq S \cup {root} /\ root \in E /\ \A x \in E \ {root} : parent[x] \in E
      BY <1>3, <3>1
    <3> HIDE DEF g, E
    <3>8. Tries(E, g)
      BY <3>5, <3>6, <3>7 DEF Attempt
    <3> QED BY <3>8 DEF E
  <2> QED BY <2>1, <2>2
<1> DEFINE Reached(b) == \E D, f : Tries(D, f) /\ b \in D
           Unreached == {b \in S : ~Reached(b)}
<1>4. \A b \in S \cup {root} : Reached(b)
  <2>1. Reached(root)
    <3> HIDE DEF Tries
    <3> QED BY <1>2
  <2>2. ASSUME Unreached # {}
        PROVE  FALSE
    <3>1. Unreached \in (SUBSET S) \ {{}}
      BY <2>2
    <3>2. PICK b \in Unreached : parent[b] \notin Unreached
      <4> HIDE DEF Unreached
      <4> QED BY <3>1 DEF Grounded
    <3> HIDE DEF Tries
    <3>3. b \in S /\ parent[b] \in S \cup {root}
      OBVIOUS
    <3>4. Reached(parent[b])
      BY <2>1, <3>2, <3>3
    <3>5. PICK D, f : Tries(D, f) /\ parent[b] \in D
      BY <3>4
    <3>6. Reached(b)
      BY <1>3, <3>3, <3>5
    <3> QED BY <3>6
  <2> QED BY <2>1, <2>2
<1>5. ASSUME NEW D, NEW f, Tries(D, f), NEW b \in D
      PROVE  b \in S \cup {root} /\ whole[b] = f[b] /\ f[b] \in V
  <2>1. b \in S \cup {root} /\ f[b] \in V
    BY <1>5 DEF Attempt
  <2> HIDE DEF Tries
  <2>2. Covers(b, f[b])
    BY <1>5
  <2>3. \A v \in V : Covers(b, v) => v = f[b]
    BY <1>1, <1>5
  <2> HIDE DEF Covers
  <2> QED BY <2>1, <2>2, <2>3
<1> HIDE DEF whole
<1>6. ASSUME NEW b \in S \cup {root}
      PROVE  /\ whole[b] \in V
             /\ whole[b] = IF b = root THEN base ELSE step[<<whole[parent[b]], b>>]
  <2>1. PICK D, f : Tries(D, f) /\ b \in D
    BY <1>4
  <2>2. whole[b] = f[b] /\ f[b] \in V
    <3> HIDE DEF Tries
    <3> QED BY <1>5, <2>1
  <2>3. b # root => parent[b] \in D
    BY <2>1 DEF Attempt
  <2>4. b # root => whole[parent[b]] = f[parent[b]]
    <3> HIDE DEF Tries
    <3> QED BY <1>5, <2>1, <2>3
  <2>5. f[b] = IF b = root THEN base ELSE step[<<f[parent[b]], b>>]
    BY <2>1 DEF Attempt, Recurs
  <2> QED BY <2>2, <2>4, <2>5
<1>7. whole \in [S \cup {root} -> V]
  <2>1. whole = [b \in S \cup {root} |-> whole[b]]
    BY DEF whole
  <2> QED BY <1>6, <2>1
<1> QED
  BY <1>6, <1>7 DEF Recurs
=============================================================================
