---------------------------- MODULE ChainProofs ----------------------------
(***************************************************************************)
(* Proofs about Chain, ChainCrash and ChainWork.                           *)
(*                                                                         *)
(* Chain: the inductive invariant of the block store, fork choice and      *)
(* replay, what retargeting answers to, and the refinement of ForkChoice.  *)
(*                                                                         *)
(* ChainCrash: what a store may look like after any number of crashes, at  *)
(* any write of any handler.  The argument has three parts: a prefix of    *)
(* the writes is a run of the store, one write at a time; all writes of a  *)
(* handler but its first two are harmless in any number and order; and     *)
(* what the first two may leave undone is part of the invariant.           *)
(*                                                                         *)
(* ChainWork: limbs are the digits of a number, and the carries of         *)
(* meets_difficulty are those of its product with the difficulty.          *)
(***************************************************************************)
EXTENDS ChainCrash, ChainWork, FoldLemmas

-----------------------------------------------------------------------------
(* Lemmas about hashes, that is about branches of headers. *)

\* An ancestor at height n is a branch of length n, and is itself the ancestor
\* of whatever lies above it.
LEMMA AncestorIsHash ==
  ASSUME NEW h \in Hash, NEW n \in 0 .. Height(h)
  PROVE  /\ Ancestor(h, n) \in Hash
         /\ Height(Ancestor(h, n)) = n
         /\ \A i \in 1 .. n : Ancestor(h, n)[i] = h[i]
<1>1. h \in Seq(BlockHeader) /\ Len(h) \in Nat /\ n \in Int
  BY LenProperties DEF Hash, Height
<1>2. \A i \in 1 .. n : h[i] \in BlockHeader
  BY <1>1, ElementOfSeq DEF Height
<1> QED
  BY <1>1, <1>2, SubSeqProperties DEF Hash, Height, Ancestor

\* Ancestors compose.
LEMMA AncestorOfAncestor ==
  ASSUME NEW h \in Hash, NEW n \in 0 .. Height(h), NEW m \in 0 .. n
  PROVE  Ancestor(Ancestor(h, n), m) = Ancestor(h, m)
<1>1. Height(h) \in Nat
  BY LenProperties DEF Hash, Height
<1>2. m \in 0 .. Height(h) /\ m \in 0 .. Height(Ancestor(h, n))
  BY <1>1, AncestorIsHash
<1>3. Ancestor(h, n) \in Hash
  BY AncestorIsHash
<1>4. /\ Ancestor(Ancestor(h, n), m) \in Hash
      /\ Height(Ancestor(Ancestor(h, n), m)) = m
      /\ \A i \in 1 .. m : Ancestor(Ancestor(h, n), m)[i] = Ancestor(h, n)[i]
  BY <1>2, <1>3, AncestorIsHash
<1>5. /\ Ancestor(h, m) \in Hash
      /\ Height(Ancestor(h, m)) = m
      /\ \A i \in 1 .. m : Ancestor(h, m)[i] = h[i]
  BY <1>2, AncestorIsHash
<1>6. \A i \in 1 .. m : Ancestor(h, n)[i] = h[i]
  BY AncestorIsHash, <1>1
<1> QED
  BY <1>4, <1>5, <1>6, SeqEqual DEF Hash, Height

\* A block is its own ancestor at its own height.
LEMMA AncestorAtOwnHeight ==
  ASSUME NEW h \in Hash
  PROVE  Ancestor(h, Height(h)) = h
BY SubSeqFull DEF Hash, Height, Ancestor

\* A block other than genesis is its parent with one header more.
LEMMA ParentIsHash ==
  ASSUME NEW h \in Hash, h # Genesis
  PROVE  /\ Height(h) \in Nat \ {0}
         /\ Parent(h) \in Hash
         /\ Height(Parent(h)) = Height(h) - 1
         /\ h[Len(h)] \in BlockHeader
<1>1. Height(h) \in Nat \ {0}
  BY LenProperties, EmptySeq DEF Hash, Height, Genesis
<1>2. Height(h) - 1 \in 0 .. Height(h) /\ Len(h) \in 1 .. Len(h)
  BY <1>1 DEF Height
<1>3. h[Len(h)] \in BlockHeader
  BY <1>2, ElementOfSeq DEF Hash
<1> QED
  BY <1>1, <1>2, <1>3, AncestorIsHash DEF Parent, Height

\* The child of a parent is a branch one longer, above that parent.
LEMMA AppendIsChild ==
  ASSUME NEW p \in Hash, NEW b \in BlockHeader
  PROVE  /\ Append(p, b) \in Hash
         /\ Append(p, b) # Genesis
         /\ Parent(Append(p, b)) = p
         /\ Height(Append(p, b)) = Height(p) + 1
         /\ Append(p, b)[Len(Append(p, b))] = b
<1> DEFINE h == Append(p, b)
<1>1. /\ h \in Hash /\ h # Genesis /\ Len(h) = Len(p) + 1
      /\ \A i \in 1 .. Len(p) : h[i] = p[i]
      /\ h[Len(p) + 1] = b
  BY AppendProperties DEF Hash, Genesis
<1>2. Len(p) \in Nat
  BY LenProperties DEF Hash
<1>3. Parent(h) = Ancestor(h, Len(p)) /\ Len(p) \in 0 .. Height(h)
  BY <1>1, <1>2 DEF Parent, Height
<1>4. /\ Parent(h) \in Hash /\ Len(Parent(h)) = Len(p)
      /\ \A i \in 1 .. Len(p) : Parent(h)[i] = h[i]
  BY <1>1, <1>3, AncestorIsHash DEF Height
<1>5. Parent(h) = p
  BY <1>1, <1>4, SeqEqual DEF Hash
<1> QED
  BY <1>1, <1>5 DEF Height

\* Replaying a branch from the state of any of its ancestors gives the state
\* of the branch (rebuild_state_to, whatever snapshot it starts from).
LEMMA ReplayFromAncestor ==
  ASSUME NEW h \in Hash, NEW n \in 0 .. Height(h)
  PROVE  Replay(Ancestor(h, n), h, n) = h
<1>1. Len(h) \in Nat /\ h \in Seq(BlockHeader)
  BY LenProperties DEF Hash
<1>2. 1 \in 1 .. Len(h) + 1 /\ n \in 1 - 1 .. Len(h) /\ Len(h) \in n .. Len(h)
  BY <1>1 DEF Height
<1>3. SubSeq(h, 1, n) \o SubSeq(h, n + 1, Len(h)) = SubSeq(h, 1, Len(h))
  BY <1>1, <1>2, ConcatAdjacentSubSeq
<1> QED
  BY <1>1, <1>3, SubSeqFull DEF Replay, Ancestor, Height

LEMMA ReplayFromGenesis ==
  ASSUME NEW h \in Hash
  PROVE  Replay(GenesisState, h, 0) = h
<1>1. 0 \in 0 .. Height(h)
  BY LenProperties DEF Hash, Height
<1>2. Ancestor(h, 0) = GenesisState
  BY SubSeqEmpty DEF Ancestor, GenesisState
<1> QED
  BY <1>1, <1>2, ReplayFromAncestor

-----------------------------------------------------------------------------
(* Arithmetic *)

LEMMA Quotient ==
  ASSUME NEW x \in Nat, NEW q \in Nat \ {0}
  PROVE  /\ x \div q \in Nat /\ x % q \in 0 .. q - 1
         /\ x = q * (x \div q) + (x % q)
OBVIOUS

LEMMA RemainderIs ==
  ASSUME NEW q \in Nat \ {0}, NEW a \in Nat, NEW r \in 0 .. q - 1
  PROVE  (q * a + r) % q = r
OBVIOUS

LEMMA TimesKeepsOrder ==
  ASSUME NEW a \in Int, NEW b \in Int, a <= b, NEW p \in Nat
  PROVE  a * p <= b * p
<1>1. b * p = a * p + (b - a) * p
  OBVIOUS
<1>2. (b - a) * p >= 0 /\ (b - a) * p \in Int /\ a * p \in Int
  OBVIOUS
<1> QED BY <1>1, <1>2

\* A non-empty set of heights with an upper bound has a largest element.
LEMMA LargestHeight ==
  ASSUME NEW bound \in Nat, NEW S, S \subseteq 0 .. bound, S # {}
  PROVE  \E n \in S : \A m \in S : m <= n
<1> DEFINE T == {bound - n : n \in S}
<1>1. T \subseteq Nat /\ T # {}
  <2>1. \A n \in S : n \in Int /\ 0 <= n /\ n <= bound
    OBVIOUS
  <2>2. \A n \in S : bound - n \in Nat
    BY <2>1
  <2> QED
    BY <2>2
<1>2. PICK x \in T : \A y \in T : ~(<<y, x>> \in OpToRel(<, Nat))
  <2> HIDE DEF T
  <2> QED BY <1>1, NatLessThanWellFounded, WFMin
<1>3. \A y \in T : ~(y < x)
  BY <1>1, <1>2 DEF OpToRel
<1>4. PICK n \in S : x = bound - n
  OBVIOUS
<1>5. \A m \in S : bound - m \in T
  OBVIOUS
<1>6. ASSUME NEW m \in S
      PROVE  m <= n
  <2> HIDE DEF T
  <2>1. m \in Int /\ n \in Int
    OBVIOUS
  <2>2. ~(bound - m < bound - n)
    BY <1>3, <1>4, <1>5
  <2> QED
    BY <2>1, <2>2
<1> QED
  BY <1>6

-----------------------------------------------------------------------------
(* Difficulty *)

LEMMA HeaderNumbers ==
  ASSUME NEW h \in Hash
  PROVE  /\ Timestamp(h) \in Nat /\ Difficulty(h) \in 1 .. MaxDifficulty
         /\ Difficulty(h) \in Nat \ {0} /\ MaxDifficulty \in Nat \ {0}
<1>1. CASE h = Genesis
  BY <1>1, ChainAssumption DEF Timestamp, Difficulty
<1>2. CASE h # Genesis
  <2>1. h[Len(h)] \in BlockHeader
    BY <1>2, ParentIsHash
  <2> QED
    BY <1>2, <2>1, ChainAssumption DEF Timestamp, Difficulty, BlockHeader
<1> QED
  BY <1>1, <1>2

\* Retargeting never yields a difficulty of zero, never divides by zero, and stays
\* within the width of a difficulty.
LEMMA ExpectedDifficultyIsPositive ==
  ASSUME NEW p \in Hash
  PROVE  expected_difficulty(p) \in 1 .. MaxDifficulty
<1> DEFINE height == Height(p) + 1
           steps  == RetargetInterval - 1
           first  == Ancestor(p, Height(p) - steps)
           actual == Larger(Timestamp(p) - Timestamp(first), 1)
           old    == Difficulty(p)
           total  == old * (steps * TargetBlockTime)
           next   == total \div actual
<1>1. /\ Height(p) \in Nat /\ old \in Nat \ {0} /\ old \in 1 .. MaxDifficulty
      /\ MaxDifficulty \in Nat \ {0}
  BY HeaderNumbers, LenProperties DEF Hash, Height
<1>2. CASE height % RetargetInterval # 0 \/ height < RetargetInterval
  BY <1>1, <1>2 DEF expected_difficulty
<1>3. CASE ~(height % RetargetInterval # 0 \/ height < RetargetInterval)
  <2>1. steps \in Nat /\ Height(p) - steps \in 0 .. Height(p)
    BY <1>1, <1>3, ChainAssumption
  <2>2. Timestamp(p) \in Nat /\ Timestamp(first) \in Nat
    BY <2>1, AncestorIsHash, HeaderNumbers
  <2>3. actual \in Nat \ {0}
    BY <2>2 DEF Larger
  <2>4. steps * TargetBlockTime \in Nat
    BY <2>1, ChainAssumption
  <2>5. total \in Nat
    BY <1>1, <2>4
  <2>6. next \in Int
    <3> HIDE DEF total, actual
    <3> QED BY <2>3, <2>5
  <2>7. expected_difficulty(p)
          = Smaller(Larger(Smaller(next, 4 * old), Larger(old \div 4, 1)), MaxDifficulty)
    BY <1>3 DEF expected_difficulty
  <2>8. Smaller(next, 4 * old) \in Int
    <3> HIDE DEF next, old
    <3> QED BY <1>1, <2>6 DEF Smaller
  <2>9. Larger(old \div 4, 1) \in Nat \ {0}
    <3> HIDE DEF old
    <3> QED BY <1>1 DEF Larger
  <2> QED
    <3> HIDE DEF next, old
    <3> QED BY <1>1, <2>7, <2>8, <2>9 DEF Larger, Smaller
<1> QED
  BY <1>2, <1>3

\* A block that somebody can mine on a parent is a child of it that carries the
\* expected difficulty.
LEMMA ChildIsBlock ==
  ASSUME NEW p \in Hash, NEW gap \in Gaps, NEW sol \in Solutions,
         NEW opens \in BOOLEAN
  PROVE  LET h == Child(p, gap, sol, opens)
         IN  /\ h \in Hash /\ h # Genesis
             /\ Parent(h) = p
             /\ Height(h) = Height(p) + 1
             /\ Difficulty(h) = expected_difficulty(p)
<1> DEFINE b == [timestamp  |-> Timestamp(p) + gap,
                 difficulty |-> expected_difficulty(p),
                 solution   |-> sol,
                 reveal     |-> opens]
<1>1. Timestamp(p) + gap \in Nat
  BY HeaderNumbers, ChainAssumption
<1>2. b \in BlockHeader
  BY <1>1, ExpectedDifficultyIsPositive DEF BlockHeader
<1>3. Child(p, gap, sol, opens) = Append(p, b)
  BY DEF Child
<1>4. /\ Append(p, b) \in Hash
      /\ Append(p, b) # Genesis
      /\ Parent(Append(p, b)) = p
      /\ Height(Append(p, b)) = Height(p) + 1
      /\ Append(p, b)[Len(Append(p, b))] = b
  BY <1>2, AppendIsChild
<1>5. Difficulty(Append(p, b)) = b.difficulty
  <2> HIDE DEF b
  <2> QED BY <1>4 DEF Difficulty
<1> QED
  BY <1>3, <1>4, <1>5

-----------------------------------------------------------------------------
(* The pace of blocks and retargeting *)

\* Steps of at least rate add up; this is the induction over a window of blocks.
LEMMA StepsAddUp ==
  ASSUME NEW n \in Nat, NEW steps \in Nat, NEW rate \in Int,
         NEW f \in [n .. n + steps -> Int],
         \A k \in n + 1 .. n + steps : f[k] - f[k - 1] >= rate
  PROVE  f[n + steps] - f[n] >= steps * rate
<1> DEFINE Good == {i \in 0 .. steps : f[n + i] - f[n] >= i * rate}
<1>1. 0 \in Good
  BY n \in n .. n + steps
<1>2. PICK i \in Good : \A j \in Good : j <= i
  BY <1>1, LargestHeight
<1>3. ASSUME i < steps PROVE i + 1 \in Good
  <2>1. i + 1 \in 0 .. steps /\ n + i + 1 \in n + 1 .. n + steps
    BY <1>3
  <2>2. f[n + i + 1] - f[n + i] >= rate
    BY <2>1
  <2>3. f[n + i] \in Int /\ f[n + i + 1] \in Int /\ f[n] \in Int
    BY <2>1
  <2>4. i * rate \in Int /\ (i + 1) * rate = i * rate + rate
    OBVIOUS
  <2>5. f[n + (i + 1)] = f[n + i + 1]
    OBVIOUS
  <2> QED BY <1>2, <2>1, <2>2, <2>3, <2>4, <2>5
<1>4. i = steps
  <2>1. i \in 0 .. steps
    OBVIOUS
  <2> HIDE DEF Good
  <2> QED BY <1>2, <1>3, <2>1
<1> QED BY <1>2, <1>4

\* A window of slow blocks took long, a window of fast blocks was short.
LEMMA PaceAddsUp ==
  ASSUME NEW h \in Hash, NEW n \in Nat, NEW steps \in Nat, n + steps <= Height(h)
  PROVE  LET gaps == {Gap(h, k) : k \in n + 1 .. n + steps}
             span == Timestamp(Ancestor(h, n + steps)) - Timestamp(Ancestor(h, n))
         IN  \A rate \in Nat :
               /\ (\A gap \in gaps : gap >= rate) => span >= steps * rate
               /\ (\A gap \in gaps : gap <= rate) => span <= steps * rate
<1> DEFINE T(k) == Timestamp(Ancestor(h, k))
           later   == [k \in n .. n + steps |-> T(k)]
           earlier == [k \in n .. n + steps |-> -T(k)]
<1>1. Height(h) \in Nat
  BY LenProperties DEF Hash, Height
<1>2. \A k \in n .. n + steps : T(k) \in Nat
  <2>1. TAKE k \in n .. n + steps
  <2>2. k \in 0 .. Height(h)
    BY <1>1
  <2> QED BY <2>2, AncestorIsHash, HeaderNumbers
<1> SUFFICES ASSUME NEW rate \in Nat
    PROVE  LET gaps == {Gap(h, k) : k \in n + 1 .. n + steps}
           IN  /\ (\A gap \in gaps : gap >= rate) => T(n + steps) - T(n) >= steps * rate
               /\ (\A gap \in gaps : gap <= rate) => T(n + steps) - T(n) <= steps * rate
  OBVIOUS
<1>3. \A k \in n + 1 .. n + steps :
        Gap(h, k) = T(k) - T(k - 1) /\ k \in n .. n + steps /\ k - 1 \in n .. n + steps
  BY DEF Gap
<1>4. n \in n .. n + steps /\ n + steps \in n .. n + steps
  OBVIOUS
<1>5. ASSUME \A k \in n + 1 .. n + steps : Gap(h, k) >= rate
      PROVE  T(n + steps) - T(n) >= steps * rate
  <2>1. later \in [n .. n + steps -> Int]
    <3> HIDE DEF T
    <3> QED BY <1>2
  <2>2. \A k \in n + 1 .. n + steps : later[k] - later[k - 1] >= rate
    <3> HIDE DEF T
    <3> QED BY <1>3, <1>5
  <2>3. later[n + steps] - later[n] >= steps * rate
    <3>1. rate \in Int
      OBVIOUS
    <3> HIDE DEF later
    <3> QED BY <2>1, <2>2, <3>1, StepsAddUp, Zenon
  <2> HIDE DEF T
  <2> QED BY <1>4, <2>3
<1>6. ASSUME \A k \in n + 1 .. n + steps : Gap(h, k) <= rate
      PROVE  T(n + steps) - T(n) <= steps * rate
  <2>1. earlier \in [n .. n + steps -> Int]
    <3> HIDE DEF T
    <3> QED BY <1>2
  <2>2. \A k \in n + 1 .. n + steps : earlier[k] - earlier[k - 1] >= -rate
    <3> HIDE DEF T
    <3> QED BY <1>2, <1>3, <1>6
  <2>3. earlier[n + steps] - earlier[n] >= steps * (-rate)
    <3>1. -rate \in Int
      OBVIOUS
    <3> HIDE DEF earlier
    <3> QED BY <2>1, <2>2, <3>1, StepsAddUp, Zenon
  <2>4. -T(n + steps) + T(n) >= -(steps * rate)
    <3>1. steps * (-rate) = -(steps * rate)
      OBVIOUS
    <3> HIDE DEF T
    <3> QED BY <1>2, <1>4, <2>3, <3>1
  <2>5. steps * rate \in Int
    OBVIOUS
  <2> HIDE DEF T
  <2> QED BY <1>2, <1>4, <2>4, <2>5
<1> HIDE DEF T
<1> QED BY <1>5, <1>6

\* A quotient by more, or by less, than what is multiplied in.
LEMMA ScaledDown ==
  ASSUME NEW a \in Nat \ {0}, NEW x \in Nat \ {0}, NEW q \in Nat \ {0}
  PROVE  /\ (a * x) \div q \in Nat
         /\ x <= q => (a * x) \div q <= a
         /\ x >= q => (a * x) \div q >= a
<1> DEFINE d == (a * x) \div q
           r == (a * x) % q
<1>1. a * x \in Nat
  OBVIOUS
<1>2. d \in Nat /\ r \in 0 .. q - 1 /\ a * x = q * d + r
  <2>1. \A y \in Nat : /\ y \div q \in Nat /\ y % q \in 0 .. q - 1
                      /\ y = q * (y \div q) + (y % q)
    BY Quotient
  <2> QED BY <1>1, <2>1, Zenon
<1> HIDE DEF d, r
<1>3. ASSUME x <= q PROVE d <= a
  <2>1. a * x <= a * q
    BY <1>3, TimesKeepsOrder
  <2>2. SUFFICES ASSUME d >= a + 1 PROVE FALSE
    BY <1>2
  <2>3. (a + 1) * q <= d * q
    BY <1>2, <2>2, TimesKeepsOrder
  <2>4. (a + 1) * q = a * q + q /\ d * q = q * d
    BY <1>2
  <2>5. a * q \in Nat /\ q * d \in Nat
    BY <1>2
  <2> QED BY <1>1, <1>2, <2>1, <2>3, <2>4, <2>5
<1>4. ASSUME x >= q PROVE d >= a
  <2>1. a * q <= a * x
    BY <1>4, TimesKeepsOrder
  <2>2. SUFFICES ASSUME d + 1 <= a PROVE FALSE
    BY <1>2
  <2>3. (d + 1) * q <= a * q
    BY <1>2, <2>2, TimesKeepsOrder
  <2>4. (d + 1) * q = q * d + q
    BY <1>2
  <2>5. a * q \in Nat /\ q * d \in Nat
    BY <1>2
  <2> QED BY <1>1, <1>2, <2>1, <2>3, <2>4, <2>5
<1> QED BY <1>2, <1>3, <1>4 DEF d

\* What RetargetFollowsPace says of one block.
LEMMA ExpectedDifficultyFollowsPace ==
  ASSUME NEW h \in Hash, h # Genesis, Difficulty(h) = expected_difficulty(Parent(h))
  PROVE  LET old == Difficulty(Parent(h)) IN
         IF Height(h) % RetargetInterval # 0 THEN Difficulty(h) = old
         ELSE RetargetInterval > 1 =>
           /\ (\A gap \in WindowGaps(h) : gap >= TargetBlockTime) => Difficulty(h) <= old
           /\ (\A gap \in WindowGaps(h) : gap <= TargetBlockTime) => Difficulty(h) >= old
<1> DEFINE p      == Parent(h)
           steps  == RetargetInterval - 1
           first  == Ancestor(p, Height(p) - steps)
           span   == Timestamp(p) - Timestamp(first)
           actual == Larger(span, 1)
           old    == Difficulty(p)
           x      == steps * TargetBlockTime
           next   == (old * x) \div actual
<1>1. /\ Height(h) \in Nat \ {0} /\ p \in Hash /\ Height(p) = Height(h) - 1
      /\ old \in Nat \ {0} /\ old <= MaxDifficulty
      /\ RetargetInterval \in Nat \ {0} /\ TargetBlockTime \in Nat \ {0}
      /\ MaxDifficulty \in Nat
  BY ParentIsHash, HeaderNumbers, ChainAssumption
<1>2. CASE Height(h) % RetargetInterval # 0
  BY <1>1, <1>2 DEF expected_difficulty
<1>3. CASE Height(h) % RetargetInterval = 0 /\ RetargetInterval > 1
  <2>1. Height(h) >= RetargetInterval
    <3>1. Height(h) < RetargetInterval => Height(h) % RetargetInterval = Height(h)
      BY <1>1
    <3> QED BY <1>1, <1>3, <3>1
  <2>2. steps \in Nat \ {0} /\ Height(p) - steps = Height(h) - RetargetInterval
        /\ Height(h) - RetargetInterval \in 0 .. Height(h) - 1
    BY <1>1, <1>3, <2>1
  <2> DEFINE n == Height(h) - RetargetInterval
  <2>3. n + steps = Height(h) - 1 /\ n \in Nat /\ n + 1 = Height(h) - RetargetInterval + 1
    BY <1>1, <2>2
  <2>4. p = Ancestor(h, n + steps) /\ first = Ancestor(h, n)
    <3>1. p = Ancestor(h, Height(h) - 1)
      BY DEF Parent, Height
    <3>2. Height(h) - 1 \in 0 .. Height(h)
      BY <1>1
    <3>3. Ancestor(p, n) = Ancestor(h, n)
      BY <2>2, <3>1, <3>2, AncestorOfAncestor
    <3> QED BY <2>2, <2>3, <3>1, <3>3
  <2>5. Timestamp(p) \in Nat /\ Timestamp(first) \in Nat
    <3>1. Height(p) - steps \in 0 .. Height(p)
      BY <1>1, <2>2
    <3> QED BY <1>1, <3>1, AncestorIsHash, HeaderNumbers
  <2>6. /\ (\A gap \in WindowGaps(h) : gap >= TargetBlockTime) => span >= x
        /\ (\A gap \in WindowGaps(h) : gap <= TargetBlockTime) => span <= x
    <3>1. n + steps <= Height(h)
      BY <1>1, <2>3
    <3>2. WindowGaps(h) = {Gap(h, k) : k \in n + 1 .. n + steps}
      BY <2>3 DEF WindowGaps
    <3> HIDE DEF n, steps, first, p
    <3> QED BY <1>1, <2>2, <2>3, <2>4, <3>1, <3>2, PaceAddsUp
  <2>7. x \in Nat \ {0}
    <3> HIDE DEF steps
    <3> QED BY <1>1, <2>2
  <2>8. /\ span >= x => x <= actual
        /\ span <= x => x >= actual
        /\ actual \in Nat \ {0}
    <3>1. span \in Int
      BY <2>5
    <3> HIDE DEF span, x
    <3> QED BY <2>7, <3>1 DEF Larger
  <2>9. /\ next \in Nat
        /\ span >= x => next <= old
        /\ span <= x => next >= old
    <3> HIDE DEF span, x, actual, old
    <3> QED BY <1>1, <2>7, <2>8, ScaledDown
  <2>10. Difficulty(h)
           = Smaller(Larger(Smaller(next, 4 * old), Larger(old \div 4, 1)), MaxDifficulty)
    <3>1. ~(Height(p) + 1 < RetargetInterval) /\ ~((Height(p) + 1) % RetargetInterval # 0)
      BY <1>1, <1>3, <2>1
    <3> QED BY <3>1 DEF expected_difficulty
  <2>11. /\ next <= old => Difficulty(h) <= old
         /\ next >= old => Difficulty(h) >= old
    <3> HIDE DEF next, old
    <3> QED BY <1>1, <2>9, <2>10 DEF Larger, Smaller
  <2> HIDE DEF next, old, span, x
  <2> QED BY <1>3, <2>6, <2>9, <2>11 DEF old
<1> HIDE DEF old
<1> QED BY <1>2, <1>3 DEF old

-----------------------------------------------------------------------------
(* Replay *)

\* The walk back of rebuild_state_to ends at a saved ancestor or at genesis.
LEMMA NearestSnapshotIsSaved ==
  ASSUME NEW h \in Hash
  PROVE  \/ NearestSnapshot(h) = -1
         \/ NearestSnapshot(h) \in SnapshotHeights(h)
<1>1. CASE SnapshotHeights(h) = {}
  BY <1>1 DEF NearestSnapshot
<1>2. CASE SnapshotHeights(h) # {}
  <2>1. Height(h) \in Nat
    BY LenProperties DEF Hash, Height
  <2>2. SnapshotHeights(h) \subseteq 0 .. Height(h)
    BY DEF SnapshotHeights
  <2>3. \E n \in SnapshotHeights(h) : \A m \in SnapshotHeights(h) : m <= n
    BY <1>2, <2>1, <2>2, LargestHeight
  <2> QED
    BY <1>2, <2>3 DEF NearestSnapshot
<1> QED
  BY <1>1, <1>2

\* Rebuilding gives the state of the block, whatever the nearest snapshot is.
LEMMA RebuiltIsReplay ==
  ASSUME NEW h \in Hash, SnapshotsAreReplays
  PROVE  RebuiltState(h) = h
<1> DEFINE n == NearestSnapshot(h)
<1>1. CASE n = -1
  BY <1>1, ReplayFromGenesis DEF RebuiltState
<1>2. CASE n \in SnapshotHeights(h)
  <2>1. n \in 0 .. Height(h) /\ Ancestor(h, n) \in DOMAIN states
    BY <1>2 DEF SnapshotHeights
  <2>2. n # -1
    BY <2>1
  <2>3. states[Ancestor(h, n)] = Ancestor(h, n)
    BY <2>1 DEF SnapshotsAreReplays
  <2>4. RebuiltState(h) = Replay(Ancestor(h, n), h, n)
    BY <2>2, <2>3 DEF RebuiltState
  <2> QED
    BY <2>1, <2>4, ReplayFromAncestor
<1> QED
  BY <1>1, <1>2, NearestSnapshotIsSaved

\* Saving a snapshot of a block with its own state, and pruning, keeps every
\* snapshot a replay.
LEMMA SavedSnapshotIsReplay ==
  ASSUME NEW h, SnapshotsAreReplays
  PROVE  LET saved == SavedSnapshot(h, h)
         IN  /\ DOMAIN saved \subseteq DOMAIN states \cup {h}
             /\ \A x \in DOMAIN saved : saved[x] = x
BY DEF SavedSnapshot, SnapshotsAreReplays

\* The rewritten index ends at the new tip and names known blocks only.
LEMMA RewrittenIndexEnds ==
  ASSUME NEW h \in Hash, NEW B,
         Ancestors(h) \subseteq B,
         DOMAIN by_height \subseteq Nat,
         \A k \in DOMAIN by_height : by_height[k] \in B,
         \/ h \notin DOMAIN states
         \/ (Height(h) \in DOMAIN by_height /\ by_height[Height(h)] = h)
  PROVE  LET index == RewrittenIndex(h)
         IN  /\ DOMAIN index \subseteq Nat
             /\ \A k \in DOMAIN index : k <= Height(h) /\ index[k] \in B
             /\ Height(h) \in DOMAIN index
             /\ index[Height(h)] = h
<1> DEFINE n == NearestSnapshot(h)
           replayed == n + 1 .. Height(h)
           index == RewrittenIndex(h)
<1>1. Height(h) \in Nat
  BY LenProperties DEF Hash, Height
<1>2. n = -1 \/ (n \in 0 .. Height(h) /\ Ancestor(h, n) \in DOMAIN states)
  BY NearestSnapshotIsSaved DEF SnapshotHeights
<1>3. n \in Int /\ -1 <= n /\ n <= Height(h)
  BY <1>1, <1>2
<1>4. replayed \subseteq 0 .. Height(h)
  <2> HIDE DEF n
  <2> QED BY <1>1, <1>3
<1>5. index = [k \in {j \in DOMAIN by_height : j <= Height(h)} \cup replayed |->
                 IF k \in replayed THEN Ancestor(h, k) ELSE by_height[k]]
  BY DEF RewrittenIndex
<1>6. DOMAIN index = {j \in DOMAIN by_height : j <= Height(h)} \cup replayed
  BY <1>5
<1>7. \A k \in replayed : index[k] = Ancestor(h, k) /\ Ancestor(h, k) \in B
  BY <1>4, <1>5 DEF Ancestors
<1>8. \A k \in DOMAIN index \ replayed : index[k] = by_height[k]
  BY <1>5, <1>6
<1>9. /\ DOMAIN index \subseteq Nat
      /\ \A k \in DOMAIN index : k <= Height(h) /\ index[k] \in B
  <2> HIDE DEF index, replayed
  <2>1. SUFFICES ASSUME NEW k \in DOMAIN index
                 PROVE  k \in Nat /\ k <= Height(h) /\ index[k] \in B
    OBVIOUS
  <2>2. CASE k \in replayed
    BY <2>2, <1>1, <1>4, <1>7
  <2>3. CASE k \notin replayed
    BY <2>3, <1>1, <1>6, <1>8
  <2> QED
    BY <2>2, <2>3
<1>10. Height(h) \in DOMAIN index /\ index[Height(h)] = h
  <2>1. CASE Height(h) \in replayed
    <3> HIDE DEF index, replayed
    <3> QED BY <2>1, <1>6, <1>7, AncestorAtOwnHeight
  <2>2. CASE Height(h) \notin replayed
    <3>1. n = Height(h)
      <4> HIDE DEF n
      <4> QED BY <2>2, <1>1, <1>3
    <3>2. h \in DOMAIN states
      BY <3>1, <1>1, <1>2, AncestorAtOwnHeight
    <3>3. Height(h) \in DOMAIN by_height /\ by_height[Height(h)] = h
      BY <3>2
    <3> HIDE DEF index, replayed
    <3> QED BY <2>2, <3>3, <1>1, <1>6, <1>8
  <2> QED
    BY <2>1, <2>2
<1> QED
  BY <1>9, <1>10

-----------------------------------------------------------------------------
(* The inductive invariant *)

\* The conjunction of what the runs check: no part is inductive on its own.
\* Replay needs sound snapshots, fork choice needs memory and store to agree
\* and work to add up, and the freshness of reveals needs fork choice.
IndInv ==
  /\ TypeOK
  /\ StoreIsSound
  /\ TipIsHeaviest
  /\ StateIsReplay
  /\ RevealsAreFresh
  /\ IndexEndsAtTip

\* A block that accept_block looks at after its early returns.
Candidate(h) ==
  /\ h \in Hash /\ h # Genesis
  /\ h \notin blocks
  /\ Parent(h) \in blocks
  /\ Difficulty(h) = expected_difficulty(Parent(h))

LEMMA StepCases ==
  ASSUME TypeOK, Next
  PROVE  \/ \E h \in Hash : /\ Candidate(h)
                            /\ Extend(h) \/ StoreSideBranch(h) \/ Reorganise(h)
         \/ submit_reveal
         \/ Reopen
<1>1. CASE AcceptBlock
  <2>1. PICK p \in blocks, gap \in Gaps, sol \in Solutions, opens \in BOOLEAN :
          LET h == Child(p, gap, sol, opens)
          IN  New(h) /\ (Extend(h) \/ StoreSideBranch(h) \/ Reorganise(h))
    BY <1>1 DEF AcceptBlock
  <2> DEFINE h == Child(p, gap, sol, opens)
  <2>2. p \in Hash
    BY DEF TypeOK
  <2>3. h \in Hash /\ Candidate(h)
    <3>1. /\ h \in Hash /\ h # Genesis /\ Parent(h) = p
          /\ Difficulty(h) = expected_difficulty(p)
      BY <2>2, ChildIsBlock
    <3> HIDE DEF h
    <3> QED BY <2>1, <3>1 DEF Candidate, New, h
  <2> QED
    BY <2>1, <2>3
<1>2. CASE submit_solution
  <2>1. PICK gap \in Gaps, sol \in Solutions :
          New(build_block(gap, sol)) /\ Extend(build_block(gap, sol))
    BY <1>2 DEF submit_solution
  <2> DEFINE h == build_block(gap, sol)
  <2>2. tip_hash \in Hash /\ tip_hash \in blocks
    BY DEF TypeOK
  <2>3. UsableReveal \in BOOLEAN
    BY DEF UsableReveal
  <2>4. /\ h \in Hash /\ h # Genesis /\ Parent(h) = tip_hash
        /\ Difficulty(h) = expected_difficulty(tip_hash)
    BY <2>2, <2>3, ChildIsBlock DEF build_block
  <2>5. Candidate(h)
    <3> HIDE DEF h
    <3> QED BY <2>1, <2>2, <2>4 DEF Candidate, New, h
  <2> QED
    BY <2>1, <2>4, <2>5
<1> QED
  BY <1>1, <1>2 DEF Next

\* Storing an offered block with its parent's work plus its own keeps the store
\* consistent and changes no recorded work.
LEMMA PutBlockKeepsStore ==
  ASSUME IndInv, NEW h \in Hash, Candidate(h),
         NEW w, w = work[Parent(h)] + Difficulty(h), put_block(h, w)
  PROVE  /\ blocks' \subseteq Hash
         /\ blocks' = blocks \cup {h}
         /\ Parent(h) \in blocks'
         /\ Ancestors(h) \subseteq blocks'
         /\ work' \in [blocks' -> Nat]
         /\ work'[h] = w /\ w \in Nat /\ w > work[Parent(h)]
         /\ \A x \in blocks : work'[x] = work[x]
         /\ Genesis \in blocks'
         /\ ClosedUnderAncestors'
         /\ WorkAccumulates'
<1> USE DEF IndInv, TypeOK
<1>1. /\ blocks' = blocks \cup {h} /\ blocks' \subseteq Hash
      /\ Parent(h) \in blocks'
  BY DEF put_block, Candidate
<1>2. /\ Difficulty(h) \in Nat \ {0}
      /\ work[Parent(h)] \in Nat
      /\ w \in Nat /\ w > work[Parent(h)]
  <2>1. Difficulty(h) \in Nat \ {0} /\ work[Parent(h)] \in Nat
    BY HeaderNumbers DEF Candidate
  <2> QED
    BY <2>1
<1>3. /\ work' \in [blocks' -> Nat] /\ work'[h] = w
      /\ \A x \in blocks : work'[x] = work[x]
  <2>1. work' = [x \in blocks \cup {h} |-> IF x = h THEN w ELSE work[x]]
    BY DEF put_block
  <2> QED
    BY <1>1, <1>2, <2>1 DEF Candidate
<1>4. Ancestors(h) \subseteq blocks'
  <2>1. SUFFICES ASSUME NEW n \in 0 .. Height(h)
                 PROVE  Ancestor(h, n) \in blocks'
    BY DEF Ancestors
  <2>2. Height(h) \in Nat \ {0} /\ Height(Parent(h)) = Height(h) - 1
    BY ParentIsHash DEF Candidate
  <2>3. CASE n = Height(h)
    BY <2>3, <1>1, AncestorAtOwnHeight
  <2>4. CASE n # Height(h)
    <3>1. n \in 0 .. Height(Parent(h)) /\ Height(h) - 1 \in 0 .. Height(h)
      BY <2>2, <2>4
    <3>2. Ancestor(Parent(h), n) = Ancestor(h, n)
      BY <2>2, <3>1, AncestorOfAncestor DEF Parent, Height
    <3>3. Ancestors(Parent(h)) \subseteq blocks
      BY DEF Candidate, StoreIsSound, ClosedUnderAncestors
    <3> QED
      BY <1>1, <3>1, <3>2, <3>3 DEF Ancestors
  <2> QED
    BY <2>3, <2>4
<1>5. Genesis \in blocks' /\ ClosedUnderAncestors'
  BY <1>1, <1>4 DEF StoreIsSound, ClosedUnderAncestors
<1>6. WorkAccumulates'
  <2>1. work'[Genesis] = 0
    BY <1>3 DEF StoreIsSound, WorkAccumulates
  <2>2. ASSUME NEW x \in blocks' \ {Genesis}
        PROVE  /\ Difficulty(x) = expected_difficulty(Parent(x))
               /\ work'[x] = work'[Parent(x)] + Difficulty(x)
    <3>1. CASE x = h
      BY <3>1, <1>3 DEF Candidate
    <3>2. CASE x # h
      <4>1. x \in blocks \ {Genesis}
        BY <3>2, <1>1
      <4>2. Parent(x) \in blocks
        <5>1. Height(x) \in Nat \ {0} /\ Height(x) - 1 \in 0 .. Height(x)
          BY <4>1, ParentIsHash
        <5>2. Parent(x) \in Ancestors(x)
          BY <5>1 DEF Parent, Ancestors, Height
        <5> QED
          BY <4>1, <5>2 DEF StoreIsSound, ClosedUnderAncestors
      <4> QED
        BY <4>1, <4>2, <1>3 DEF StoreIsSound, WorkAccumulates
    <3> QED
      BY <3>1, <3>2
  <2> QED
    BY <2>1, <2>2 DEF WorkAccumulates
<1> QED
  BY <1>1, <1>2, <1>3, <1>4, <1>5, <1>6

\* No buffered reveal survives the adoption of a heavier block: it belongs to
\* the old tip, and a sibling of the old tip, the only block that shares its
\* commitment, is exactly as heavy.
LEMMA NewTipDropsReveals ==
  ASSUME IndInv, NEW h \in Hash, Candidate(h),
         work[Parent(h)] + Difficulty(h) > work[tip_hash]
  PROVE  RetainReveals(reveal_buffer, h) = <<>>
<1> DEFINE kept == DOMAIN reveal_buffer \cap Pending(h)
<1>1. ASSUME NEW c \in kept
      PROVE  FALSE
  <2>1. c \in Pending(tip_hash)
    BY DEF IndInv, RevealsAreFresh, StateIsReplay
  <2>2. tip_hash # Genesis /\ c = CommitId(tip_hash)
    BY <2>1 DEF Pending, GenesisState, Genesis
  <2>3. c = CommitId(h)
    BY DEF Pending
  <2>4. Parent(h) = Parent(tip_hash)
    BY <2>2, <2>3 DEF CommitId
  <2>5. tip_hash \in blocks \ {Genesis}
    BY <2>2 DEF IndInv, TypeOK
  <2>6. work[tip_hash] = work[Parent(tip_hash)] + expected_difficulty(Parent(tip_hash))
    BY <2>5 DEF IndInv, StoreIsSound, WorkAccumulates
  <2>7. work[Parent(h)] + Difficulty(h) = work[tip_hash]
    BY <2>4, <2>6 DEF Candidate
  <2>8. work[tip_hash] \in Nat
    BY <2>5 DEF IndInv, TypeOK
  <2> QED
    BY <2>7, <2>8
<1>2. RetainReveals(reveal_buffer, h) = [c \in {} |-> reveal_buffer[c]]
  BY <1>1 DEF RetainReveals
<1> QED
  BY <1>2

\* What is common to Extend and Reorganise: a block becomes the tip, with its
\* own state, an index that ends at it and snapshots that are replays.
LEMMA NewTipKeepsInvariant ==
  ASSUME IndInv, NEW h \in Hash, Candidate(h),
         NEW w, w = work[Parent(h)] + Difficulty(h), put_block(h, w),
         w > work[tip_hash],
         stored_tip' = h, tip_hash' = h, tip_work' = w, state' = h,
         reveal_buffer' = RetainReveals(reveal_buffer, state'),
         DOMAIN states' \subseteq DOMAIN states \cup {h},
         \A x \in DOMAIN states' : states'[x] = x,
         DOMAIN by_height' \subseteq Nat,
         \A k \in DOMAIN by_height' : k <= Height(h) /\ by_height'[k] \in blocks',
         Height(h) \in DOMAIN by_height',
         by_height'[Height(h)] = h
  PROVE  IndInv'
<1>1. /\ blocks' \subseteq Hash
      /\ blocks' = blocks \cup {h}
      /\ work' \in [blocks' -> Nat]
      /\ work'[h] = w /\ w \in Nat
      /\ \A x \in blocks : work'[x] = work[x]
      /\ Genesis \in blocks'
      /\ ClosedUnderAncestors'
      /\ WorkAccumulates'
  BY PutBlockKeepsStore
<1>2. reveal_buffer' = <<>>
  BY NewTipDropsReveals
<1>3. DOMAIN reveal_buffer' = {}
  BY <1>2
<1>4. TypeOK'
  <2>1. DOMAIN states' \subseteq blocks'
    BY <1>1 DEF IndInv, TypeOK
  <2>2. \A x \in DOMAIN states' : states'[x] \in Hash
    BY <1>1, <2>1
  <2>3. \A k \in DOMAIN by_height' : by_height'[k] \in blocks'
    OBVIOUS
  <2>4. stored_tip' \in blocks' /\ tip_hash' \in blocks' /\ state' \in Hash /\ tip_work' \in Nat
    BY <1>1
  <2>5. /\ DOMAIN reveal_buffer' \subseteq [prev: Hash, solution: Solutions]
        /\ \A c \in DOMAIN reveal_buffer' : reveal_buffer'[c] \in Hash
    BY <1>3
  <2> QED
    BY <1>1, <2>1, <2>2, <2>3, <2>4, <2>5 DEF TypeOK
<1>5. StoreIsSound'
  <2>1. SnapshotsAreReplays'
    BY DEF SnapshotsAreReplays
  <2>2. MemoryMatchesStore'
    BY <1>1 DEF MemoryMatchesStore
  <2> QED
    BY <1>1, <2>1, <2>2 DEF StoreIsSound
<1>6. TipIsHeaviest'
  <2>1. \A x \in blocks : work[x] \in Nat /\ work[x] <= work[tip_hash]
    BY DEF IndInv, TypeOK, TipIsHeaviest
  <2>2. work[tip_hash] \in Nat
    BY DEF IndInv, TypeOK
  <2>3. \A x \in blocks' : work'[x] <= w
    BY <1>1, <2>1, <2>2
  <2> QED
    BY <1>1, <2>3 DEF TipIsHeaviest
<1>7. StateIsReplay' /\ RevealsAreFresh'
  BY <1>3 DEF StateIsReplay, RevealsAreFresh
<1>8. IndexEndsAtTip'
  BY DEF IndexEndsAtTip
<1> QED
  BY <1>4, <1>5, <1>6, <1>7, <1>8 DEF IndInv

-----------------------------------------------------------------------------
(* Every action preserves the invariant. *)

LEMMA ExtendKeepsInvariant ==
  ASSUME IndInv, NEW h \in Hash, Candidate(h), Extend(h)
  PROVE  IndInv'
<1> DEFINE w == tip_work + Difficulty(h)
<1>1. Parent(h) = tip_hash /\ Execute(state, h) = h
  BY DEF Extend, validate_block
<1>2. w = work[Parent(h)] + Difficulty(h)
  BY <1>1 DEF IndInv, StoreIsSound, MemoryMatchesStore
<1>3. put_block(h, w)
  BY DEF Extend
<1>4. w > work[tip_hash]
  BY <1>1, <1>2, <1>3, PutBlockKeepsStore
<1>5. /\ stored_tip' = h /\ tip_hash' = h /\ tip_work' = w /\ state' = h
      /\ reveal_buffer' = RetainReveals(reveal_buffer, state')
  BY <1>1 DEF Extend
<1>6. /\ DOMAIN states' \subseteq DOMAIN states \cup {h}
      /\ \A x \in DOMAIN states' : states'[x] = x
  <2>1. SnapshotsAreReplays
    BY DEF IndInv, StoreIsSound
  <2>2. states' = SavedSnapshot(h, h) \/ states' = states
    BY <1>5 DEF Extend
  <2> QED
    BY <2>1, <2>2, SavedSnapshotIsReplay DEF SnapshotsAreReplays
<1>7. /\ DOMAIN by_height' \subseteq Nat
      /\ \A k \in DOMAIN by_height' : k <= Height(h) /\ by_height'[k] \in blocks'
      /\ Height(h) \in DOMAIN by_height'
      /\ by_height'[Height(h)] = h
  <2>1. /\ Height(h) \in Nat \ {0} /\ Height(tip_hash) = Height(h) - 1
    BY <1>1, ParentIsHash DEF Candidate
  <2>2. /\ DOMAIN by_height \subseteq Nat
        /\ \A k \in DOMAIN by_height : k <= Height(tip_hash) /\ by_height[k] \in blocks
    BY DEF IndInv, TypeOK, IndexEndsAtTip
  <2>3. blocks' = blocks \cup {h}
    BY <1>3 DEF put_block
  <2>4. by_height' = [k \in DOMAIN by_height \cup {Height(h)} |->
                        IF k = Height(h) THEN h ELSE by_height[k]]
    BY DEF Extend
  <2>5. \A k \in DOMAIN by_height : k \in Nat /\ k <= Height(h) /\ k # Height(h)
    BY <2>1, <2>2
  <2> QED
    BY <2>1, <2>2, <2>3, <2>4, <2>5
<1> HIDE DEF w
<1> QED
  BY <1>2, <1>3, <1>4, <1>5, <1>6, <1>7, NewTipKeepsInvariant

LEMMA StoreSideBranchKeepsInvariant ==
  ASSUME IndInv, NEW h \in Hash, Candidate(h), StoreSideBranch(h)
  PROVE  IndInv'
<1>1. put_block(h, CandidateWork(h)) /\ CandidateWork(h) <= tip_work
  BY DEF StoreSideBranch, OffTip
<1>2. UNCHANGED <<by_height, stored_tip, states, state, tip_hash, tip_work,
                  reveal_buffer>>
  BY DEF StoreSideBranch
<1>3. /\ blocks' \subseteq Hash
      /\ blocks' = blocks \cup {h}
      /\ work' \in [blocks' -> Nat]
      /\ work'[h] = CandidateWork(h)
      /\ \A x \in blocks : work'[x] = work[x]
      /\ Genesis \in blocks'
      /\ ClosedUnderAncestors'
      /\ WorkAccumulates'
  BY <1>1, PutBlockKeepsStore DEF CandidateWork
<1>4. TypeOK'
  <2>1. blocks \subseteq blocks'
    BY <1>3
  <2> QED
    BY <1>2, <1>3, <2>1 DEF IndInv, TypeOK
<1>5. StoreIsSound'
  <2>1. SnapshotsAreReplays'
    BY <1>2 DEF IndInv, StoreIsSound, SnapshotsAreReplays
  <2>2. MemoryMatchesStore'
    BY <1>2, <1>3 DEF IndInv, TypeOK, StoreIsSound, MemoryMatchesStore
  <2> QED
    BY <1>3, <2>1, <2>2 DEF StoreIsSound
<1>6. TipIsHeaviest'
  <2>1. tip_work = work[tip_hash] /\ tip_hash \in blocks
    BY DEF IndInv, TypeOK, StoreIsSound, MemoryMatchesStore
  <2> QED
    BY <1>1, <1>2, <1>3, <2>1 DEF IndInv, TipIsHeaviest
<1>7. StateIsReplay' /\ RevealsAreFresh' /\ IndexEndsAtTip'
  BY <1>2 DEF IndInv, StateIsReplay, RevealsAreFresh, IndexEndsAtTip
<1> QED
  BY <1>4, <1>5, <1>6, <1>7 DEF IndInv

LEMMA ReorganiseKeepsInvariant ==
  ASSUME IndInv, NEW h \in Hash, Candidate(h), Reorganise(h)
  PROVE  IndInv'
<1> DEFINE w == CandidateWork(h)
<1>1. put_block(h, w) /\ w > tip_work /\ w = work[Parent(h)] + Difficulty(h)
  BY DEF Reorganise, OffTip, CandidateWork
<1>2. w > work[tip_hash]
  BY <1>1 DEF IndInv, StoreIsSound, MemoryMatchesStore
<1>3. RebuiltState(h) = h
  BY RebuiltIsReplay DEF IndInv, StoreIsSound
<1>4. /\ stored_tip' = h /\ tip_hash' = h /\ tip_work' = w /\ state' = h
      /\ reveal_buffer' = RetainReveals(reveal_buffer, state')
      /\ states' = SavedSnapshot(h, h)
      /\ by_height' = RewrittenIndex(h)
  BY <1>3 DEF Reorganise, rebuild_state_to
<1>5. /\ DOMAIN states' \subseteq DOMAIN states \cup {h}
      /\ \A x \in DOMAIN states' : states'[x] = x
  BY <1>4, SavedSnapshotIsReplay DEF IndInv, StoreIsSound
<1>6. /\ DOMAIN by_height' \subseteq Nat
      /\ \A k \in DOMAIN by_height' : k <= Height(h) /\ by_height'[k] \in blocks'
      /\ Height(h) \in DOMAIN by_height'
      /\ by_height'[Height(h)] = h
  <2>1. Ancestors(h) \subseteq blocks' /\ blocks \subseteq blocks'
    BY <1>1, PutBlockKeepsStore
  <2>2. /\ DOMAIN by_height \subseteq Nat
        /\ \A k \in DOMAIN by_height : by_height[k] \in blocks'
    BY <2>1 DEF IndInv, TypeOK
  <2>3. h \notin DOMAIN states
    BY DEF IndInv, TypeOK, Candidate
  <2> QED
    BY <1>4, <2>1, <2>2, <2>3, RewrittenIndexEnds
<1> HIDE DEF w
<1> QED
  BY <1>1, <1>2, <1>4, <1>5, <1>6, NewTipKeepsInvariant

LEMMA SubmitRevealKeepsInvariant ==
  ASSUME IndInv, submit_reveal
  PROVE  IndInv'
<1>1. PICK c \in Pending(state) :
        reveal_buffer' = [x \in DOMAIN reveal_buffer \cup {c} |->
                            IF x = c THEN tip_hash ELSE reveal_buffer[x]]
  BY DEF submit_reveal
<1>2. UNCHANGED <<blocks, work, by_height, stored_tip, states, state, tip_hash,
                  tip_work>>
  BY DEF submit_reveal
<1>3. c \in [prev: Hash, solution: Solutions]
  <2>1. state \in Hash /\ state # Genesis /\ c = CommitId(state)
    BY DEF IndInv, TypeOK, Pending, Genesis, GenesisState
  <2>2. Parent(state) \in Hash /\ state[Len(state)] \in BlockHeader
    BY <2>1, ParentIsHash
  <2> QED
    BY <2>1, <2>2 DEF CommitId, BlockHeader
<1>4. TypeOK'
  <2>1. tip_hash \in Hash
    BY DEF IndInv, TypeOK
  <2>2. /\ DOMAIN reveal_buffer' \subseteq [prev: Hash, solution: Solutions]
        /\ \A x \in DOMAIN reveal_buffer' : reveal_buffer'[x] \in Hash
    BY <1>1, <1>3, <2>1 DEF IndInv, TypeOK
  <2> QED
    BY <1>2, <2>2 DEF IndInv, TypeOK
<1>5. StoreIsSound'
  BY <1>2 DEF IndInv, StoreIsSound, ClosedUnderAncestors, WorkAccumulates,
              SnapshotsAreReplays, MemoryMatchesStore
<1>6. TipIsHeaviest' /\ StateIsReplay' /\ IndexEndsAtTip'
  BY <1>2 DEF IndInv, TipIsHeaviest, StateIsReplay, IndexEndsAtTip
<1>7. RevealsAreFresh'
  BY <1>1, <1>2 DEF IndInv, RevealsAreFresh, Pending
<1> QED
  BY <1>4, <1>5, <1>6, <1>7 DEF IndInv

LEMMA ReopenKeepsInvariant ==
  ASSUME IndInv, Reopen
  PROVE  /\ IndInv'
         /\ UNCHANGED <<blocks, work, state, tip_hash, tip_work>>
<1> DEFINE h == stored_tip
<1>1. h = tip_hash /\ h \in blocks /\ h \in Hash /\ tip_work = work[h] /\ state = h
  BY DEF IndInv, TypeOK, StoreIsSound, MemoryMatchesStore, StateIsReplay
<1>2. RebuiltState(h) = h
  BY <1>1, RebuiltIsReplay DEF IndInv, StoreIsSound
<1>3. /\ UNCHANGED <<blocks, work, stored_tip, state, tip_hash, tip_work>>
      /\ reveal_buffer' = <<>>
      /\ states' = SavedSnapshot(h, h)
      /\ by_height' = RewrittenIndex(h)
  BY <1>1, <1>2 DEF Reopen, rebuild_state_to
<1>4. /\ DOMAIN states' \subseteq DOMAIN states \cup {h}
      /\ \A x \in DOMAIN states' : states'[x] = x
  BY <1>3, SavedSnapshotIsReplay DEF IndInv, StoreIsSound
<1>5. /\ DOMAIN by_height' \subseteq Nat
      /\ \A k \in DOMAIN by_height' : k <= Height(h) /\ by_height'[k] \in blocks
      /\ Height(h) \in DOMAIN by_height'
      /\ by_height'[Height(h)] = h
  <2>1. Ancestors(h) \subseteq blocks
    BY <1>1 DEF IndInv, StoreIsSound, ClosedUnderAncestors
  <2>2. /\ DOMAIN by_height \subseteq Nat
        /\ \A k \in DOMAIN by_height : by_height[k] \in blocks
        /\ Height(h) \in DOMAIN by_height /\ by_height[Height(h)] = h
    BY <1>1 DEF IndInv, TypeOK, IndexEndsAtTip
  <2> HIDE DEF h
  <2> QED
    BY <1>1, <1>3, <2>1, <2>2, RewrittenIndexEnds
<1>6. TypeOK'
  <2>1. DOMAIN states' \subseteq blocks' /\ \A x \in DOMAIN states' : states'[x] \in Hash
    BY <1>1, <1>3, <1>4 DEF IndInv, TypeOK
  <2>2. DOMAIN reveal_buffer' = {}
    BY <1>3
  <2> QED
    BY <1>3, <1>5, <2>1, <2>2 DEF IndInv, TypeOK
<1>7. StoreIsSound'
  BY <1>3, <1>4 DEF IndInv, StoreIsSound, ClosedUnderAncestors, WorkAccumulates,
              SnapshotsAreReplays, MemoryMatchesStore
<1>8. TipIsHeaviest' /\ StateIsReplay'
  BY <1>3 DEF IndInv, TipIsHeaviest, StateIsReplay
<1>9. RevealsAreFresh' /\ IndexEndsAtTip'
  <2>1. DOMAIN reveal_buffer' = {}
    BY <1>3
  <2> QED
    BY <1>1, <1>3, <1>5, <2>1 DEF RevealsAreFresh, IndexEndsAtTip
<1> QED
  BY <1>3, <1>6, <1>7, <1>8, <1>9 DEF IndInv

LEMMA InitEstablishesInvariant == Init => IndInv
<1> SUFFICES ASSUME Init PROVE IndInv
  OBVIOUS
<1>1. Genesis \in Hash /\ Height(Genesis) = 0
  BY EmptySeq DEF Genesis, Hash, Height
<1>2. Ancestors(Genesis) = {Genesis}
  <2>1. Ancestor(Genesis, 0) = Genesis
    BY <1>1, AncestorAtOwnHeight
  <2> QED
    BY <1>1, <2>1 DEF Ancestors
<1>3. TypeOK
  BY <1>1 DEF Init, TypeOK, GenesisState, Genesis
<1>4. StoreIsSound
  BY <1>2 DEF Init, StoreIsSound, ClosedUnderAncestors, WorkAccumulates,
              SnapshotsAreReplays, MemoryMatchesStore, GenesisState, Genesis
<1>5. TipIsHeaviest /\ StateIsReplay /\ RevealsAreFresh
  BY DEF Init, TipIsHeaviest, StateIsReplay, RevealsAreFresh, GenesisState, Genesis
<1>6. IndexEndsAtTip
  BY <1>1 DEF Init, IndexEndsAtTip
<1> QED
  BY <1>3, <1>4, <1>5, <1>6 DEF IndInv

LEMMA NextKeepsInvariant == IndInv /\ [Next]_vars => IndInv'
<1> SUFFICES ASSUME IndInv, [Next]_vars PROVE IndInv'
  OBVIOUS
<1>1. CASE Next
  <2>1. TypeOK
    BY DEF IndInv
  <2>2. CASE \E h \in Hash : /\ Candidate(h)
                             /\ Extend(h) \/ StoreSideBranch(h) \/ Reorganise(h)
    BY <2>2, ExtendKeepsInvariant, StoreSideBranchKeepsInvariant,
       ReorganiseKeepsInvariant
  <2>3. CASE submit_reveal
    BY <2>3, SubmitRevealKeepsInvariant
  <2>4. CASE Reopen
    BY <2>4, ReopenKeepsInvariant
  <2> QED
    BY <1>1, <2>1, <2>2, <2>3, <2>4, StepCases
<1>2. CASE UNCHANGED vars
  BY <1>2 DEF vars, IndInv, TypeOK, StoreIsSound, ClosedUnderAncestors,
     WorkAccumulates, SnapshotsAreReplays, MemoryMatchesStore, TipIsHeaviest,
     StateIsReplay, RevealsAreFresh, IndexEndsAtTip, Pending
<1> QED
  BY <1>1, <1>2

-----------------------------------------------------------------------------
(* The theorems *)

\* The invariant holds in every reachable state, for every size of the chain.
THEOREM ChainInvariant == Spec => []IndInv
BY InitEstablishesInvariant, NextKeepsInvariant, PTL DEF Spec

\* The store and the memory of chain.rs keep their types.
THEOREM ChainTypeCorrect == Spec => []TypeOK
<1>1. IndInv => TypeOK
  BY DEF IndInv
<1> QED
  BY <1>1, ChainInvariant, PTL

\* accept_block never leaves the node on a branch lighter than one it stored.
THEOREM ForkChoiceIsHeaviest == Spec => []TipIsHeaviest
<1>1. IndInv => TipIsHeaviest
  BY DEF IndInv
<1> QED
  BY <1>1, ChainInvariant, PTL

\* The ledger in memory is the execution of the tip's ancestry, through any
\* sequence of extensions, reorganisations, snapshots, prunings and restarts.
THEOREM LedgerIsReplay == Spec => []StateIsReplay
<1>1. IndInv => StateIsReplay
  BY DEF IndInv
<1> QED
  BY <1>1, ChainInvariant, PTL

\* The store stays closed, its work additive and its snapshots exact.
THEOREM StoreStaysSound == Spec => []StoreIsSound
<1>1. IndInv => StoreIsSound
  BY DEF IndInv
<1> QED
  BY <1>1, ChainInvariant, PTL

\* expected_difficulty follows the pace of the last RetargetInterval blocks, in
\* every block that a node ever stores.
THEOREM RetargetsFollowPace == Spec => []RetargetFollowsPace
<1>1. IndInv => RetargetFollowsPace
  <2> SUFFICES ASSUME IndInv, NEW h \in blocks \ {Genesis}
      PROVE  LET old == Difficulty(Parent(h)) IN
             IF Height(h) % RetargetInterval # 0 THEN Difficulty(h) = old
             ELSE RetargetInterval > 1 =>
               /\ (\A gap \in WindowGaps(h) : gap >= TargetBlockTime) => Difficulty(h) <= old
               /\ (\A gap \in WindowGaps(h) : gap <= TargetBlockTime) => Difficulty(h) >= old
    BY DEF RetargetFollowsPace
  <2>1. h \in Hash /\ Difficulty(h) = expected_difficulty(Parent(h))
    BY DEF IndInv, TypeOK, StoreIsSound, WorkAccumulates
  <2> QED BY <2>1, ExpectedDifficultyFollowsPace
<1> QED BY <1>1, ChainInvariant, PTL

\* submit_reveal and the two retain calls of accept_block never leave a reveal
\* that answers another tip's challenge.
THEOREM BufferedRevealsAreFresh == Spec => []RevealsAreFresh
<1>1. IndInv => RevealsAreFresh
  BY DEF IndInv
<1> QED
  BY <1>1, ChainInvariant, PTL

\* The height index ends at the tip (it may still be wrong below it: see the
\* run that refutes IndexIsTipBranch).
THEOREM IndexStaysTopped == Spec => []IndexEndsAtTip
<1>1. IndInv => IndexEndsAtTip
  BY DEF IndInv
<1> QED
  BY <1>1, ChainInvariant, PTL

-----------------------------------------------------------------------------
(* Refinement *)

LEMMA OfferedStepLearns ==
  ASSUME IndInv, NEW h \in Hash, Candidate(h),
         NEW w, w = work[Parent(h)] + Difficulty(h), put_block(h, w),
         tip_hash' = IF w > work[tip_hash] THEN h ELSE tip_hash
  PROVE  Abstract!Next
<1>1. Abstract!Learn(h)
  BY DEF Abstract!Learn, put_block, Candidate, IndInv, TypeOK
<1>2. h \in blocks'
  BY DEF put_block
<1> QED
  BY <1>1, <1>2 DEF Abstract!Next

\* The three paths of accept_block, the miner's own blocks, the reveal buffer,
\* the snapshots and the restarts together implement ForkChoice: a restart or a
\* reveal is invisible to it, a tie never moves the tip.
THEOREM ChainImplementsForkChoice == Spec => ImplementsForkChoice
<1>1. Init => Abstract!Init
  BY DEF Init, Abstract!Init
<1>2. IndInv /\ [Next]_vars => [Abstract!Next]_<<blocks, work, tip_hash>>
  <2> SUFFICES ASSUME IndInv, [Next]_vars
               PROVE  [Abstract!Next]_<<blocks, work, tip_hash>>
    OBVIOUS
  <2>1. TypeOK /\ tip_work = work[tip_hash]
    BY DEF IndInv, StoreIsSound, MemoryMatchesStore
  <2>2. ASSUME NEW h \in Hash, Candidate(h), Extend(h)
        PROVE  Abstract!Next
    <3> DEFINE w == tip_work + Difficulty(h)
    <3>1. Parent(h) = tip_hash /\ put_block(h, w) /\ tip_hash' = h
      BY <2>2 DEF Extend, validate_block
    <3>2. w = work[Parent(h)] + Difficulty(h)
      BY <2>1, <3>1
    <3>3. w > work[tip_hash]
      BY <2>2, <3>1, <3>2, PutBlockKeepsStore
    <3> HIDE DEF w
    <3> QED
      BY <2>2, <3>1, <3>2, <3>3, OfferedStepLearns
  <2>3. ASSUME NEW h \in Hash, Candidate(h), StoreSideBranch(h) \/ Reorganise(h)
        PROVE  Abstract!Next
    <3> DEFINE w == CandidateWork(h)
    <3>1. put_block(h, w) /\ w = work[Parent(h)] + Difficulty(h)
      BY <2>3 DEF StoreSideBranch, Reorganise, OffTip, CandidateWork
    <3>2. w \in Nat /\ tip_work \in Nat
      BY <2>1, <2>3, <3>1, PutBlockKeepsStore DEF TypeOK
    <3>3. tip_hash' = IF w > work[tip_hash] THEN h ELSE tip_hash
      <4> HIDE DEF w
      <4>1. CASE StoreSideBranch(h)
        BY <4>1, <2>1, <3>2 DEF StoreSideBranch, w
      <4>2. CASE Reorganise(h)
        BY <4>2, <2>1, <3>2 DEF Reorganise, rebuild_state_to, w
      <4> QED
        BY <2>3, <4>1, <4>2
    <3> HIDE DEF w
    <3> QED
      BY <2>3, <3>1, <3>3, OfferedStepLearns
  <2>4. CASE submit_reveal
    BY <2>4 DEF submit_reveal
  <2>5. CASE Reopen
    BY <2>5, ReopenKeepsInvariant
  <2>6. CASE UNCHANGED vars
    BY <2>6 DEF vars
  <2> QED
    BY <2>1, <2>2, <2>3, <2>4, <2>5, <2>6, StepCases
<1> QED
  BY <1>1, <1>2, ChainInvariant, PTL DEF Spec, ImplementsForkChoice, Abstract!Spec

-----------------------------------------------------------------------------
(* Stopping and reopening *)

\* The height index is a table, and right above some saved state of the tip's
\* branch.  (Below it entries may be stale: see IndexIsTipBranch.)
IndexFromSnapshot ==
  /\ by_height = [k \in DOMAIN by_height |-> by_height[k]]
  /\ \E n \in SnapshotHeights(tip_hash) :
       \A k \in n + 1 .. Height(tip_hash) :
         k \in DOMAIN by_height /\ by_height[k] = Ancestor(tip_hash, k)

LEMMA NearestSnapshotIsNearest ==
  ASSUME NEW h \in Hash, NEW n \in SnapshotHeights(h)
  PROVE  NearestSnapshot(h) \in SnapshotHeights(h) /\ NearestSnapshot(h) >= n
<1>1. Height(h) \in Nat
  BY LenProperties DEF Hash, Height
<1>2. SnapshotHeights(h) \subseteq 0 .. Height(h)
  BY DEF SnapshotHeights
<1>3. \E x \in SnapshotHeights(h) : \A m \in SnapshotHeights(h) : m <= x
  BY <1>1, <1>2, LargestHeight
<1>4. /\ NearestSnapshot(h) \in SnapshotHeights(h)
      /\ \A m \in SnapshotHeights(h) : m <= NearestSnapshot(h)
  BY <1>3 DEF NearestSnapshot
<1>5. n \in Int /\ NearestSnapshot(h) \in Int
  BY <1>1, <1>2, <1>4
<1> QED BY <1>4, <1>5

\* A rebuilding saves the state it arrives at, whatever it prunes.
LEMMA RebuiltTipIsSaved ==
  ASSUME NEW h \in Hash, NEW st
  PROVE  h \in DOMAIN SavedSnapshot(h, st)
<1>1. Height(h) \in Nat /\ SnapshotRetention \in Nat
  BY LenProperties, ChainAssumption DEF Hash, Height
<1>2. Height(h) >= Height(h) - SnapshotRetention
  BY <1>1
<1> QED BY <1>2 DEF SavedSnapshot

LEMMA IndexStaysFromSnapshot ==
  IndInv /\ IndexFromSnapshot /\ [Next]_vars => IndexFromSnapshot'
<1> SUFFICES ASSUME IndInv, IndexFromSnapshot, [Next]_vars
             PROVE  IndexFromSnapshot'
  OBVIOUS
<1>1. IndInv' /\ tip_hash \in Hash
  BY NextKeepsInvariant DEF IndInv, TypeOK
<1>2. tip_hash' \in Hash
  BY <1>1 DEF IndInv, TypeOK
<1>3. Height(tip_hash') \in Nat /\ Height(tip_hash) \in Nat
  BY <1>1, <1>2, LenProperties DEF Hash, Height
<1>4. ASSUME by_height' = [k \in DOMAIN by_height' |-> by_height'[k]],
             tip_hash' \in DOMAIN states'
      PROVE  IndexFromSnapshot'
  <2>1. Ancestor(tip_hash', Height(tip_hash')) = tip_hash'
    BY <1>2, AncestorAtOwnHeight
  <2>2. Height(tip_hash') \in 0 .. Height(tip_hash')
    BY <1>3
  <2>3. Height(tip_hash') \in SnapshotHeights(tip_hash)'
    BY <1>4, <2>1, <2>2 DEF SnapshotHeights
  <2>4. Height(tip_hash') + 1 .. Height(tip_hash') = {}
    BY <1>3
  <2> QED BY <1>4, <2>3, <2>4 DEF IndexFromSnapshot
<1>5. ASSUME NEW h \in Hash, NEW st,
             by_height' = RewrittenIndex(h), tip_hash' = h,
             states' = SavedSnapshot(h, st)
      PROVE  IndexFromSnapshot'
  <2>1. by_height' = [k \in DOMAIN by_height' |-> by_height'[k]]
    BY <1>5 DEF RewrittenIndex
  <2> QED BY <1>4, <1>5, <2>1, RebuiltTipIsSaved
<1>6. ASSUME NEW h \in Hash, Candidate(h), Extend(h)
      PROVE  IndexFromSnapshot'
  <2>1. /\ by_height' = [k \in DOMAIN by_height \cup {Height(h)} |->
                           IF k = Height(h) THEN h ELSE by_height[k]]
        /\ tip_hash' = h /\ Parent(h) = tip_hash
    BY <1>6 DEF Extend, validate_block
  <2>2. by_height' = [k \in DOMAIN by_height' |-> by_height'[k]]
    BY <2>1
  <2>3. CASE states' = SavedSnapshot(h, state')
    BY <1>4, <2>1, <2>2, <2>3, RebuiltTipIsSaved
  <2>4. CASE states' = states
    <3>1. PICK n \in SnapshotHeights(tip_hash) :
            \A k \in n + 1 .. Height(tip_hash) :
              k \in DOMAIN by_height /\ by_height[k] = Ancestor(tip_hash, k)
      BY DEF IndexFromSnapshot
    <3>2. n \in 0 .. Height(tip_hash) /\ Ancestor(tip_hash, n) \in DOMAIN states
      BY <3>1 DEF SnapshotHeights
    <3>3. Height(h) \in Nat \ {0} /\ Height(tip_hash) = Height(h) - 1
      BY <1>6, <2>1, ParentIsHash DEF Candidate
    <3>4. \A k \in 0 .. Height(tip_hash) : Ancestor(h, k) = Ancestor(tip_hash, k)
      <4>1. Height(h) - 1 \in 0 .. Height(h)
        BY <3>3
      <4> QED
        BY <2>1, <3>3, <4>1, AncestorOfAncestor DEF Parent, Height
    <3>5. n \in SnapshotHeights(tip_hash)'
      <4>1. n \in 0 .. Height(h) /\ Ancestor(h, n) \in DOMAIN states'
        BY <2>4, <3>2, <3>3, <3>4
      <4> QED BY <2>1, <4>1 DEF SnapshotHeights
    <3>6. ASSUME NEW k \in n + 1 .. Height(h)
          PROVE  k \in DOMAIN by_height' /\ by_height'[k] = Ancestor(h, k)
      <4>1. CASE k = Height(h)
        BY <2>1, <4>1, AncestorAtOwnHeight
      <4>2. CASE k # Height(h)
        <5>1. k \in n + 1 .. Height(tip_hash) /\ k \in 0 .. Height(tip_hash)
          BY <3>2, <3>3, <4>2
        <5> QED BY <2>1, <3>1, <3>4, <4>2, <5>1
      <4> QED BY <4>1, <4>2
    <3> QED BY <2>1, <2>2, <3>5, <3>6 DEF IndexFromSnapshot
  <2> QED BY <1>6, <2>3, <2>4 DEF Extend
<1>7. CASE Next
  <2>1. ASSUME NEW h \in Hash, StoreSideBranch(h)
        PROVE  IndexFromSnapshot'
    BY <2>1 DEF StoreSideBranch, IndexFromSnapshot, SnapshotHeights
  <2>2. ASSUME NEW h \in Hash, Reorganise(h)
        PROVE  IndexFromSnapshot'
    BY <1>5, <2>2 DEF Reorganise, rebuild_state_to
  <2>3. CASE submit_reveal
    BY <2>3 DEF submit_reveal, IndexFromSnapshot, SnapshotHeights
  <2>4. CASE Reopen
    <3>1. stored_tip \in Hash
      BY DEF IndInv, TypeOK
    <3> QED BY <1>5, <2>4, <3>1 DEF Reopen, rebuild_state_to
  <2>5. TypeOK
    BY DEF IndInv
  <2> QED BY <1>6, <1>7, <2>1, <2>2, <2>3, <2>4, <2>5, StepCases
<1>8. CASE UNCHANGED vars
  BY <1>8 DEF vars, IndexFromSnapshot, SnapshotHeights
<1> QED BY <1>7, <1>8

\* Chain::open after a clean stop replays from the nearest saved state, and yet
\* arrives at the ledger, tip, work and height index the node stopped with:
\* whatever it rewrites of the index was right, at any state of the snapshots.
THEOREM ReopeningRestores == Spec => ReopenRestores
<1>1. Init => IndexFromSnapshot
  <2> SUFFICES ASSUME Init PROVE IndexFromSnapshot
    OBVIOUS
  <2>1. tip_hash = Genesis /\ Genesis \in Hash /\ Height(Genesis) = 0
    BY EmptySeq DEF Init, Genesis, Hash, Height
  <2>2. Ancestor(Genesis, 0) = Genesis
    BY <2>1, AncestorAtOwnHeight
  <2>3. 0 \in SnapshotHeights(tip_hash)
    BY <2>1, <2>2 DEF Init, SnapshotHeights
  <2>4. 0 + 1 .. 0 = {}
    OBVIOUS
  <2>5. by_height = [k \in DOMAIN by_height |-> by_height[k]]
    BY DEF Init
  <2> QED BY <2>1, <2>3, <2>4, <2>5 DEF IndexFromSnapshot
<1>2. ASSUME IndInv, IndexFromSnapshot, Reopen
      PROVE  UNCHANGED <<state, tip_hash, tip_work, by_height>>
  <2>1. UNCHANGED <<state, tip_hash, tip_work>>
    BY <1>2, ReopenKeepsInvariant
  <2>2. stored_tip = tip_hash /\ tip_hash \in Hash
    BY <1>2 DEF IndInv, TypeOK, StoreIsSound, MemoryMatchesStore
  <2> DEFINE h == tip_hash
             m == NearestSnapshot(h)
             replayed == m + 1 .. Height(h)
  <2>3. by_height' = [k \in {j \in DOMAIN by_height : j <= Height(h)} \cup replayed |->
                        IF k \in replayed THEN Ancestor(h, k) ELSE by_height[k]]
    BY <1>2, <2>2 DEF Reopen, rebuild_state_to, RewrittenIndex
  <2>4. PICK n \in SnapshotHeights(h) :
          \A k \in n + 1 .. Height(h) :
            k \in DOMAIN by_height /\ by_height[k] = Ancestor(h, k)
    BY <1>2 DEF IndexFromSnapshot
  <2>5. m \in SnapshotHeights(h) /\ m >= n
    BY <2>2, <2>4, NearestSnapshotIsNearest
  <2>6. Height(h) \in Nat /\ n \in Int /\ m \in Int
    <3>1. Height(h) \in Nat
      BY <2>2, LenProperties DEF Hash, Height
    <3>2. SnapshotHeights(h) \subseteq 0 .. Height(h)
      BY DEF SnapshotHeights
    <3> QED BY <2>4, <2>5, <3>1, <3>2
  <2>7. replayed \subseteq n + 1 .. Height(h)
    <3> HIDE DEF h, m
    <3> QED BY <2>5, <2>6
  <2>8. \A k \in DOMAIN by_height : k <= Height(h)
    BY <1>2 DEF IndInv, IndexEndsAtTip
  <2>9. {j \in DOMAIN by_height : j <= Height(h)} \cup replayed = DOMAIN by_height
    <3> HIDE DEF h, replayed
    <3> QED BY <2>4, <2>7, <2>8
  <2>10. \A k \in replayed : by_height[k] = Ancestor(h, k)
    <3> HIDE DEF h, replayed
    <3> QED BY <2>4, <2>7
  <2>11. by_height' = [k \in DOMAIN by_height |-> by_height[k]]
    <3> HIDE DEF h, replayed
    <3> QED BY <2>3, <2>9, <2>10
  <2>12. by_height = [k \in DOMAIN by_height |-> by_height[k]]
    BY <1>2 DEF IndexFromSnapshot
  <2> QED BY <2>1, <2>11, <2>12
<1>3. Spec => []IndexFromSnapshot
  BY <1>1, IndexStaysFromSnapshot, ChainInvariant, PTL DEF Spec
<1>4. IndInv /\ IndexFromSnapshot /\ [Next]_vars
        => [Reopen => UNCHANGED <<state, tip_hash, tip_work, by_height>>]_vars
  BY <1>2
<1> QED BY <1>3, <1>4, ChainInvariant, PTL DEF Spec, ReopenRestores

-----------------------------------------------------------------------------
(* The store as the writes see it *)

\* A tree of the store: finitely many keys.
Table(K, V) == UNION {[D -> V] : D \in {E \in SUBSET K : IsFiniteSet(E)}}

Databases ==
  [blocks: Table(Hash, Hash), work: Table(Hash, Nat),
   by_height: Table(Nat, Hash), meta: Table({"tip"}, Hash),
   states: Table(Hash, Hash)]

Writes ==
  [table: {"blocks", "states"}, key: Hash, value: Hash, removes: BOOLEAN]
    \cup [table: {"work"}, key: Hash, value: Nat, removes: {FALSE}]
    \cup [table: {"by_height"}, key: Nat, value: Hash, removes: BOOLEAN]
    \cup [table: {"meta"}, key: {"tip"}, value: Hash, removes: {FALSE}]

\* The table t after the write w.
Updated(t, w) ==
  IF w.removes THEN [k \in DOMAIN t \ {w.key} |-> t[k]]
  ELSE [k \in DOMAIN t \cup {w.key} |-> IF k = w.key THEN w.value ELSE t[k]]

LEMMA TableIs ==
  ASSUME NEW K, NEW V, NEW t
  PROVE  t \in Table(K, V) <=>
           /\ t = [k \in DOMAIN t |-> t[k]]
           /\ DOMAIN t \subseteq K /\ IsFiniteSet(DOMAIN t)
           /\ \A k \in DOMAIN t : t[k] \in V
<1>1. ASSUME t \in Table(K, V)
      PROVE  /\ t = [k \in DOMAIN t |-> t[k]]
             /\ DOMAIN t \subseteq K /\ IsFiniteSet(DOMAIN t)
             /\ \A k \in DOMAIN t : t[k] \in V
  <2>1. PICK D \in {E \in SUBSET K : IsFiniteSet(E)} : t \in [D -> V]
    BY <1>1 DEF Table
  <2> QED BY <2>1
<1>2. ASSUME /\ t = [k \in DOMAIN t |-> t[k]]
             /\ DOMAIN t \subseteq K /\ IsFiniteSet(DOMAIN t)
             /\ \A k \in DOMAIN t : t[k] \in V
      PROVE  t \in Table(K, V)
  <2>1. t \in [DOMAIN t -> V]
    BY <1>2
  <2>2. DOMAIN t \in {E \in SUBSET K : IsFiniteSet(E)}
    BY <1>2
  <2> QED BY <2>1, <2>2 DEF Table
<1> QED BY <1>1, <1>2

LEMMA UpdatedIsTable ==
  ASSUME NEW K, NEW V, NEW t \in Table(K, V), NEW w,
         w.key \in K, w.removes \in BOOLEAN, w.removes \/ w.value \in V
  PROVE  /\ Updated(t, w) \in Table(K, V)
         /\ DOMAIN Updated(t, w) = IF w.removes THEN DOMAIN t \ {w.key}
                                   ELSE DOMAIN t \cup {w.key}
         /\ \A k \in DOMAIN Updated(t, w) :
              Updated(t, w)[k] = IF ~w.removes /\ k = w.key THEN w.value ELSE t[k]
<1> DEFINE u == Updated(t, w)
<1>1. DOMAIN t \subseteq K /\ IsFiniteSet(DOMAIN t) /\ \A k \in DOMAIN t : t[k] \in V
  BY TableIs
<1>2. IsFiniteSet(DOMAIN t \ {w.key}) /\ IsFiniteSet(DOMAIN t \cup {w.key})
  BY <1>1, FS_AddElement, FS_RemoveElement
<1>3. CASE w.removes
  <2>1. u = [k \in DOMAIN t \ {w.key} |-> t[k]]
    BY <1>3 DEF Updated
  <2> HIDE DEF u
  <2>2. /\ u = [k \in DOMAIN u |-> u[k]]
        /\ DOMAIN u \subseteq K /\ IsFiniteSet(DOMAIN u)
        /\ \A k \in DOMAIN u : u[k] \in V
    BY <1>1, <1>2, <2>1
  <2>3. u \in Table(K, V)
    BY <2>2, TableIs
  <2> QED BY <1>3, <2>1, <2>3 DEF u
<1>4. CASE ~w.removes
  <2>1. u = [k \in DOMAIN t \cup {w.key} |-> IF k = w.key THEN w.value ELSE t[k]]
    BY <1>4 DEF Updated
  <2> HIDE DEF u
  <2>2. /\ u = [k \in DOMAIN u |-> u[k]]
        /\ DOMAIN u \subseteq K /\ IsFiniteSet(DOMAIN u)
        /\ \A k \in DOMAIN u : u[k] \in V
    BY <1>1, <1>2, <1>4, <2>1
  <2>3. u \in Table(K, V)
    BY <2>2, TableIs
  <2> QED BY <1>4, <2>1, <2>3 DEF u
<1> QED BY <1>3, <1>4

\* A write changes the table it names and no other.
LEMMA WriteChangesItsTable ==
  ASSUME NEW db \in Databases, NEW w \in Writes
  PROVE  /\ Written(db, w) \in Databases
         /\ Written(db, w).blocks
              = IF w.table = "blocks" THEN Updated(db.blocks, w) ELSE db.blocks
         /\ Written(db, w).work
              = IF w.table = "work" THEN Updated(db.work, w) ELSE db.work
         /\ Written(db, w).by_height
              = IF w.table = "by_height" THEN Updated(db.by_height, w) ELSE db.by_height
         /\ Written(db, w).meta
              = IF w.table = "meta" THEN Updated(db.meta, w) ELSE db.meta
         /\ Written(db, w).states
              = IF w.table = "states" THEN Updated(db.states, w) ELSE db.states
<1>1. Written(db, w) = [db EXCEPT ![w.table] = Updated(db[w.table], w)]
  BY DEF Written, Updated
<1> DEFINE new == [db EXCEPT ![w.table] = Updated(db[w.table], w)]
<1>2. db = [blocks |-> db.blocks, work |-> db.work, by_height |-> db.by_height,
            meta |-> db.meta, states |-> db.states]
  BY DEF Databases
<1>3. /\ db.blocks \in Table(Hash, Hash) /\ db.work \in Table(Hash, Nat)
      /\ db.by_height \in Table(Nat, Hash) /\ db.meta \in Table({"tip"}, Hash)
      /\ db.states \in Table(Hash, Hash)
  BY DEF Databases
<1>4. CASE w.table = "blocks"
  <2>1. /\ w.key \in Hash /\ w.value \in Hash /\ w.removes \in BOOLEAN
    BY <1>4 DEF Writes
  <2>2. Updated(db.blocks, w) \in Table(Hash, Hash)
    BY <1>3, <2>1, UpdatedIsTable
  <2>3. new = [db EXCEPT !.blocks = Updated(db.blocks, w)]
    BY <1>4
  <2> QED BY <1>1, <1>2, <1>3, <1>4, <2>2, <2>3 DEF Databases
<1>5. CASE w.table = "states"
  <2>1. /\ w.key \in Hash /\ w.value \in Hash /\ w.removes \in BOOLEAN
    BY <1>5 DEF Writes
  <2>2. Updated(db.states, w) \in Table(Hash, Hash)
    BY <1>3, <2>1, UpdatedIsTable
  <2>3. new = [db EXCEPT !.states = Updated(db.states, w)]
    BY <1>5
  <2> QED BY <1>1, <1>2, <1>3, <1>5, <2>2, <2>3 DEF Databases
<1>6. CASE w.table = "work"
  <2>1. /\ w.key \in Hash /\ w.value \in Nat /\ w.removes \in BOOLEAN
    BY <1>6 DEF Writes
  <2>2. Updated(db.work, w) \in Table(Hash, Nat)
    BY <1>3, <2>1, UpdatedIsTable
  <2>3. new = [db EXCEPT !.work = Updated(db.work, w)]
    BY <1>6
  <2> QED BY <1>1, <1>2, <1>3, <1>6, <2>2, <2>3 DEF Databases
<1>7. CASE w.table = "by_height"
  <2>1. /\ w.key \in Nat /\ w.value \in Hash /\ w.removes \in BOOLEAN
    BY <1>7 DEF Writes
  <2>2. Updated(db.by_height, w) \in Table(Nat, Hash)
    BY <1>3, <2>1, UpdatedIsTable
  <2>3. new = [db EXCEPT !.by_height = Updated(db.by_height, w)]
    BY <1>7
  <2> QED BY <1>1, <1>2, <1>3, <1>7, <2>2, <2>3 DEF Databases
<1>8. CASE w.table = "meta"
  <2>1. /\ w.key \in {"tip"} /\ w.value \in Hash /\ w.removes \in BOOLEAN
    BY <1>8 DEF Writes
  <2>2. Updated(db.meta, w) \in Table({"tip"}, Hash)
    <3> DEFINE K == {"tip"}
    <3>1. db.meta \in Table(K, Hash) /\ w.key \in K
      BY <1>3, <2>1
    <3> HIDE DEF K
    <3>2. Updated(db.meta, w) \in Table(K, Hash)
      BY <2>1, <3>1, UpdatedIsTable
    <3> QED BY <3>2 DEF K
  <2>3. new = [db EXCEPT !.meta = Updated(db.meta, w)]
    BY <1>8
  <2> QED BY <1>1, <1>2, <1>3, <1>8, <2>2, <2>3 DEF Databases
<1>9. w.table \in {"blocks", "states", "work", "by_height", "meta"}
  BY DEF Writes
<1> QED BY <1>4, <1>5, <1>6, <1>7, <1>8, <1>9

-----------------------------------------------------------------------------
(* A handler's writes, one by one *)

\* The store after each of the writes.
LEMMA WritesRunInOrder ==
  ASSUME NEW db \in Databases, NEW ws \in Seq(Writes)
  PROVE  \E run \in [0 .. Len(ws) -> Databases] :
           /\ run[0] = db
           /\ \A k \in 1 .. Len(ws) : run[k] = Written(run[k - 1], ws[k])
           /\ FoldLeft(Written, db, ws) = run[Len(ws)]
<1> DEFINE n == Len(ws)
           step == [p \in (1 .. n) \X Databases |-> Written(p[2], ws[p[1]])]
           Folds(it) == it = [s \in SUBSET (1 .. n) |->
                               IF s = {} THEN db
                               ELSE Written(it[s \ {Max(s)}], ws[Max(s)])]
           fold == CHOOSE it : Folds(it)
           run == [k \in 0 .. n |-> fold[1 .. k]]
<1>1. n \in Nat /\ DOMAIN ws = 1 .. n
  BY LenProperties
<1>2. \A k \in 1 .. n : ws[k] \in Writes
  BY ElementOfSeq
<1>3. step \in [(1 .. n) \X Databases -> Databases]
  <2>1. \A p \in (1 .. n) \X Databases : Written(p[2], ws[p[1]]) \in Databases
    BY <1>2, WriteChangesItsTable
  <2> QED BY <2>1
<1>4. PICK it \in [SUBSET (1 .. n) -> Databases] : FoldsLeft(it, n, db, step)
  <2> HIDE DEF step, n
  <2> QED BY <1>1, <1>3, LeftFoldExists
<1>5. ASSUME NEW s \in SUBSET (1 .. n), s # {}
      PROVE  step[<<Max(s), it[s \ {Max(s)}]>>]
               = Written(it[s \ {Max(s)}], ws[Max(s)])
  <2>1. Max(s) \in 1 .. n
    <3> HIDE DEF n
    <3> QED BY <1>1, <1>5, LargestIndex
  <2>2. it[s \ {Max(s)}] \in Databases
    OBVIOUS
  <2> QED BY <2>1, <2>2
<1>6. Folds(it)
  <2> HIDE DEF step
  <2> QED BY <1>4, <1>5 DEF FoldsLeft
<1>7. Folds(fold)
  <2> HIDE DEF Folds
  <2> QED BY <1>6
<1>8. FoldLeft(Written, db, ws) = fold[1 .. n]
  BY <1>1 DEF FoldLeft, MapThenFoldSet
<1> HIDE DEF fold
<1>9. fold[{}] = db
  BY <1>7
<1>10. \A k \in 1 .. n : fold[1 .. k] = Written(fold[1 .. (k - 1)], ws[k])
  <2> SUFFICES ASSUME NEW k \in 1 .. n
               PROVE  fold[1 .. k] = Written(fold[1 .. (k - 1)], ws[k])
    OBVIOUS
  <2>1. /\ 1 .. k \in SUBSET (1 .. n) /\ 1 .. k # {}
        /\ Max(1 .. k) = k
        /\ (1 .. k) \ {k} = 1 .. (k - 1)
    <3> HIDE DEF n
    <3> QED BY <1>1, PrefixGrows
  <2> QED BY <1>7, <2>1
<1>11. 1 .. 0 = {}
  OBVIOUS
<1>12. \A k \in 0 .. n : fold[1 .. k] \in Databases
  <2> DEFINE Q == {k \in 0 .. n : fold[1 .. k] \in Databases}
  <2>1. 0 \in Q
    BY <1>1, <1>9, <1>11
  <2>2. ASSUME NEW k \in 0 .. n - 1, k \in Q
        PROVE  k + 1 \in Q
    <3>1. k + 1 \in 1 .. n /\ (k + 1) - 1 = k /\ k + 1 \in 0 .. n
      BY <1>1
    <3>2. fold[1 .. (k + 1)] = Written(fold[1 .. k], ws[k + 1])
      BY <1>10, <3>1
    <3>3. fold[1 .. k] \in Databases /\ ws[k + 1] \in Writes
      BY <1>2, <2>2, <3>1
    <3> QED BY <3>1, <3>2, <3>3, WriteChangesItsTable
  <2>3. \A k \in 0 .. n : k \in Q
    <3> HIDE DEF Q, n
    <3> QED BY <1>1, <2>1, <2>2, UpTo
  <2> QED BY <2>3
<1>13. run \in [0 .. n -> Databases]
  BY <1>12
<1>14. run[0] = db
  BY <1>1, <1>9, <1>11
<1>15. \A k \in 1 .. n : run[k] = Written(run[k - 1], ws[k])
  <2> SUFFICES ASSUME NEW k \in 1 .. n
               PROVE  run[k] = Written(run[k - 1], ws[k])
    OBVIOUS
  <2>1. k \in 0 .. n /\ k - 1 \in 0 .. n
    BY <1>1
  <2> QED BY <1>10, <2>1
<1>16. FoldLeft(Written, db, ws) = run[n]
  BY <1>1, <1>8
<1> HIDE DEF run
<1> QED
  BY <1>13, <1>14, <1>15, <1>16

\* A write that a crash may follow without harm: it does not touch what a
\* branch is weighed by, it saves no state but that of h, and it moves the tip
\* to h only.
LateWrites(h) ==
  {w \in Writes :
     \/ w.table = "by_height"
     \/ w.table = "states" /\ (w.removes \/ (w.key = h /\ w.value = h))
     \/ w.table = "meta" /\ w.value = h}

\* What any number of such writes leaves of a store.
Follows(db, from, h) ==
  /\ db.blocks = from.blocks
  /\ db.work = from.work
  /\ db.meta["tip"] \in {from.meta["tip"], h}
  /\ DOMAIN db.states \subseteq DOMAIN from.states \cup {h}
  /\ \A x \in DOMAIN db.states : db.states[x] = x

LEMMA LateWriteFollows ==
  ASSUME NEW db \in Databases, NEW from, NEW h \in Hash, Follows(db, from, h),
         NEW w \in LateWrites(h)
  PROVE  Follows(Written(db, w), from, h)
<1> DEFINE new == Written(db, w)
<1>1. w \in Writes
  BY DEF LateWrites
<1>2. /\ new.blocks = IF w.table = "blocks" THEN Updated(db.blocks, w) ELSE db.blocks
      /\ new.work = IF w.table = "work" THEN Updated(db.work, w) ELSE db.work
      /\ new.meta = IF w.table = "meta" THEN Updated(db.meta, w) ELSE db.meta
      /\ new.states = IF w.table = "states" THEN Updated(db.states, w) ELSE db.states
  BY <1>1, WriteChangesItsTable
<1> HIDE DEF new
<1>3. new.blocks = db.blocks /\ new.work = db.work
  BY <1>2 DEF LateWrites
<1>4. new.meta["tip"] \in {from.meta["tip"], h}
  <2>1. CASE w.table # "meta"
    BY <2>1, <1>2 DEF Follows
  <2>2. CASE w.table = "meta"
    <3>1. ~w.removes /\ w.key = "tip" /\ w.value = h
      BY <2>2, <1>1 DEF LateWrites, Writes
    <3> QED BY <1>2, <2>2, <3>1 DEF Updated
  <2> QED BY <2>1, <2>2
<1>5. /\ DOMAIN new.states \subseteq DOMAIN from.states \cup {h}
      /\ \A x \in DOMAIN new.states : new.states[x] = x
  <2>1. CASE w.table # "states"
    BY <2>1, <1>2 DEF Follows
  <2>2. CASE w.table = "states"
    <3>1. w.removes \/ (w.key = h /\ w.value = h)
      BY <2>2 DEF LateWrites
    <3>2. w.removes \in BOOLEAN
      BY <1>1 DEF Writes
    <3>3. new.states = Updated(db.states, w)
      BY <1>2, <2>2
    <3> QED BY <3>1, <3>2, <3>3 DEF Updated, Follows
  <2> QED BY <2>1, <2>2
<1> QED BY <1>3, <1>4, <1>5 DEF Follows, new

LEMMA LateRunFollows ==
  ASSUME NEW n \in Nat, NEW run \in [0 .. n -> Databases], NEW ws,
         \A k \in 1 .. n : run[k] = Written(run[k - 1], ws[k]),
         NEW h \in Hash, NEW m \in 0 .. n,
         \A k \in m + 1 .. n : ws[k] \in LateWrites(h),
         \A x \in DOMAIN run[m].states : run[m].states[x] = x
  PROVE  Follows(run[n], run[m], h)
<1> DEFINE top == n - m
           Q == {j \in 0 .. top : Follows(run[m + j], run[m], h)}
<1>1. top \in Nat /\ m + 0 = m /\ m + top = n
  OBVIOUS
<1>2. 0 \in Q
  BY <1>1 DEF Follows
<1>3. ASSUME NEW j \in 0 .. top - 1, j \in Q
      PROVE  j + 1 \in Q
  <2>1. /\ j + 1 \in 0 .. top /\ m + (j + 1) \in m + 1 .. n /\ m + (j + 1) \in 1 .. n
        /\ (m + (j + 1)) - 1 = m + j /\ m + j \in 0 .. n
    BY <1>1
  <2>2. run[m + (j + 1)] = Written(run[m + j], ws[m + (j + 1)])
    BY <2>1
  <2>3. run[m + j] \in Databases /\ ws[m + (j + 1)] \in LateWrites(h)
    BY <2>1
  <2>4. Follows(run[m + j], run[m], h)
    BY <1>3
  <2>5. Follows(run[m + (j + 1)], run[m], h)
    <3> DEFINE r == run[m + j]
               w == ws[m + (j + 1)]
               from == run[m]
    <3>1. r \in Databases /\ w \in LateWrites(h) /\ Follows(r, from, h)
      BY <2>3, <2>4
    <3> HIDE DEF r, w, from
    <3>2. Follows(Written(r, w), from, h)
      BY <3>1, LateWriteFollows
    <3> QED BY <2>2, <3>2 DEF r, w, from
  <2> QED BY <2>1, <2>5
<1>4. \A j \in 0 .. top : j \in Q
  <2> HIDE DEF Q, top
  <2> QED BY <1>1, <1>2, <1>3, UpTo
<1>5. top \in Q
  <2> HIDE DEF Q, top
  <2> QED BY <1>1, <1>4
<1> QED BY <1>1, <1>5

-----------------------------------------------------------------------------
(* The work of a branch *)

\* It is added up header by header.
LEMMA BranchWorkAddsUp ==
  ASSUME NEW h \in Hash
  PROVE  \E sum \in [0 .. Len(h) -> Nat] :
           /\ sum[0] = 0
           /\ \A k \in 1 .. Len(h) : sum[k] = sum[k - 1] + h[k].difficulty
           /\ BranchWork(h) = sum[Len(h)]
<1> DEFINE n == Len(h)
           step == [p \in (1 .. n) \X Nat |-> p[2] + h[p[1]].difficulty]
           Folds(it) == it = [s \in SUBSET (1 .. n) |->
                               IF s = {} THEN 0
                               ELSE it[s \ {Max(s)}] + h[Max(s)].difficulty]
           fold == CHOOSE it : Folds(it)
           sum == [k \in 0 .. n |-> fold[1 .. k]]
<1>1. n \in Nat /\ DOMAIN h = 1 .. n
  BY LenProperties DEF Hash
<1>2. \A k \in 1 .. n : h[k].difficulty \in Nat
  <2>1. \A k \in 1 .. n : h[k] \in BlockHeader
    BY ElementOfSeq DEF Hash
  <2> QED BY <2>1 DEF BlockHeader
<1>3. step \in [(1 .. n) \X Nat -> Nat]
  <2>1. \A p \in (1 .. n) \X Nat : p[2] + h[p[1]].difficulty \in Nat
    BY <1>2
  <2> QED BY <2>1
<1>4. PICK it \in [SUBSET (1 .. n) -> Nat] : FoldsLeft(it, n, 0, step)
  <2> HIDE DEF step, n
  <2> QED BY <1>1, <1>3, LeftFoldExists
<1>5. ASSUME NEW s \in SUBSET (1 .. n), s # {}
      PROVE  step[<<Max(s), it[s \ {Max(s)}]>>]
               = it[s \ {Max(s)}] + h[Max(s)].difficulty
  <2>1. Max(s) \in 1 .. n
    <3> HIDE DEF n
    <3> QED BY <1>1, <1>5, LargestIndex
  <2>2. it[s \ {Max(s)}] \in Nat
    OBVIOUS
  <2> QED BY <2>1, <2>2
<1>6. Folds(it)
  <2> HIDE DEF step
  <2> QED BY <1>4, <1>5 DEF FoldsLeft
<1>7. Folds(fold)
  <2> HIDE DEF Folds
  <2> QED BY <1>6
<1>8. BranchWork(h) = fold[1 .. n]
  BY <1>1 DEF BranchWork, FoldLeft, MapThenFoldSet
<1> HIDE DEF fold
<1>9. fold[{}] = 0
  BY <1>7
<1>10. \A k \in 1 .. n : fold[1 .. k] = fold[1 .. (k - 1)] + h[k].difficulty
  <2> SUFFICES ASSUME NEW k \in 1 .. n
               PROVE  fold[1 .. k] = fold[1 .. (k - 1)] + h[k].difficulty
    OBVIOUS
  <2>1. /\ 1 .. k \in SUBSET (1 .. n) /\ 1 .. k # {}
        /\ Max(1 .. k) = k
        /\ (1 .. k) \ {k} = 1 .. (k - 1)
    <3> HIDE DEF n
    <3> QED BY <1>1, PrefixGrows
  <2> QED BY <1>7, <2>1
<1>11. 1 .. 0 = {}
  OBVIOUS
<1>12. \A k \in 0 .. n : fold[1 .. k] \in Nat
  <2> DEFINE Q == {k \in 0 .. n : fold[1 .. k] \in Nat}
  <2>1. 0 \in Q
    BY <1>1, <1>9, <1>11
  <2>2. ASSUME NEW k \in 0 .. n - 1, k \in Q
        PROVE  k + 1 \in Q
    <3>1. k + 1 \in 1 .. n /\ (k + 1) - 1 = k /\ k + 1 \in 0 .. n
      BY <1>1
    <3>2. fold[1 .. (k + 1)] = fold[1 .. k] + h[k + 1].difficulty
      BY <1>10, <3>1
    <3>3. fold[1 .. k] \in Nat /\ h[k + 1].difficulty \in Nat
      BY <1>2, <2>2, <3>1
    <3> QED BY <3>1, <3>2, <3>3
  <2>3. \A k \in 0 .. n : k \in Q
    <3> HIDE DEF Q, n
    <3> QED BY <1>1, <2>1, <2>2, UpTo
  <2> QED BY <2>3
<1>13. sum \in [0 .. n -> Nat]
  BY <1>12
<1>14. sum[0] = 0
  BY <1>1, <1>9, <1>11
<1>15. \A k \in 1 .. n : sum[k] = sum[k - 1] + h[k].difficulty
  <2> SUFFICES ASSUME NEW k \in 1 .. n
               PROVE  sum[k] = sum[k - 1] + h[k].difficulty
    OBVIOUS
  <2>1. k \in 0 .. n /\ k - 1 \in 0 .. n
    BY <1>1
  <2> QED BY <1>10, <2>1
<1>16. BranchWork(h) = sum[n]
  BY <1>1, <1>8
<1> HIDE DEF sum
<1> QED
  BY <1>13, <1>14, <1>15, <1>16

\* A block adds its own difficulty to its parent's branch.
LEMMA BlockAddsWork ==
  ASSUME NEW h \in Hash
  PROVE  /\ BranchWork(h) \in Nat
         /\ h = Genesis => BranchWork(h) = 0
         /\ h # Genesis => /\ BranchWork(Parent(h)) \in Nat
                           /\ BranchWork(h) = BranchWork(Parent(h)) + Difficulty(h)
<1>1. PICK sum \in [0 .. Len(h) -> Nat] :
        /\ sum[0] = 0
        /\ \A k \in 1 .. Len(h) : sum[k] = sum[k - 1] + h[k].difficulty
        /\ BranchWork(h) = sum[Len(h)]
  BY BranchWorkAddsUp
<1>2. Len(h) \in Nat
  BY LenProperties DEF Hash
<1>3. BranchWork(h) \in Nat
  BY <1>1, <1>2
<1>4. CASE h = Genesis
  BY <1>1, <1>3, <1>4, EmptySeq DEF Genesis
<1>5. CASE h # Genesis
  <2> DEFINE p == Parent(h)
             n == Len(p)
  <2>1. p \in Hash /\ n \in Nat /\ Len(h) = n + 1 /\ Len(h) \in 1 .. Len(h)
    BY <1>2, <1>5, ParentIsHash DEF Height
  <2>2. \A k \in 1 .. n : p[k] = h[k]
    <3>1. Len(h) - 1 \in 0 .. Height(h) /\ Len(h) - 1 = n
      BY <1>2, <2>1 DEF Height
    <3> QED BY <3>1, AncestorIsHash DEF Parent
  <2> HIDE DEF p
  <2>3. PICK below \in [0 .. n -> Nat] :
          /\ below[0] = 0
          /\ \A k \in 1 .. n : below[k] = below[k - 1] + p[k].difficulty
          /\ BranchWork(p) = below[n]
    BY <2>1, BranchWorkAddsUp
  <2> HIDE DEF n
  <2> DEFINE Q == {k \in 0 .. n : below[k] = sum[k]}
  <2>4. 0 \in Q
    BY <1>1, <2>1, <2>3
  <2>5. ASSUME NEW k \in 0 .. n - 1, k \in Q
        PROVE  k + 1 \in Q
    <3>1. k + 1 \in 1 .. n /\ k + 1 \in 1 .. Len(h) /\ (k + 1) - 1 = k /\ k + 1 \in 0 .. n
      BY <2>1
    <3>2. below[k + 1] = below[k] + p[k + 1].difficulty
      BY <2>3, <3>1
    <3>3. sum[k + 1] = sum[k] + h[k + 1].difficulty
      BY <1>1, <3>1
    <3> QED BY <2>2, <2>5, <3>1, <3>2, <3>3
  <2>6. \A k \in 0 .. n : k \in Q
    <3> HIDE DEF Q
    <3> QED BY <2>1, <2>4, <2>5, UpTo
  <2>7. below[n] = sum[n]
    BY <2>1, <2>6
  <2>8. sum[Len(h)] = sum[n] + h[Len(h)].difficulty
    <3>1. Len(h) - 1 = n
      BY <2>1
    <3> QED BY <1>1, <2>1, <3>1
  <2>9. BranchWork(p) \in Nat
    BY <2>1, <2>3
  <2> QED BY <1>1, <1>3, <1>5, <2>3, <2>7, <2>8, <2>9 DEF Difficulty, p
<1> QED BY <1>4, <1>5

-----------------------------------------------------------------------------
(* The inductive invariant *)

StoreTypeOK ==
  /\ blocks \subseteq Hash /\ IsFiniteSet(blocks)
  /\ work \in Table(Hash, Nat)
  /\ by_height \in Table(Nat, Hash)
  /\ stored_tip \in Hash
  /\ states \in Table(Hash, Hash)

\* What is on record is exact, whatever is missing: the work of a block is that
\* of its branch, its parent has been weighed before it, and a block heavier
\* than the tip is one whose acceptance was cut short.
CrashInv ==
  /\ StoreTypeOK
  /\ ClosedUnderAncestors
  /\ DOMAIN work \subseteq blocks
  /\ \A h \in DOMAIN work : work[h] = BranchWork(h)
  /\ \A h \in DOMAIN work \ {Genesis} : Parent(h) \in DOMAIN work
  /\ stored_tip \in DOMAIN work
  /\ DOMAIN states \subseteq blocks
  /\ SnapshotsAreReplays
  /\ running \in BOOLEAN
  /\ running => StateIsReplay /\ MemoryMatchesStore
  /\ \A h \in blocks : BranchWork(h) > BranchWork(stored_tip) => h \in torn

\* A step that only adds h, and names it as the tip only once it is weighed and
\* no lighter than the tip, keeps the store.
LEMMA StoreIsKept ==
  ASSUME CrashInv, NEW h \in Hash,
         StoreTypeOK',
         blocks' = blocks \cup {h}, Ancestors(h) \subseteq blocks',
         DOMAIN work' \in {DOMAIN work, DOMAIN work \cup {h}},
         \A x \in DOMAIN work' : work'[x] = BranchWork(x),
         h = Genesis \/ Parent(h) \in DOMAIN work,
         \/ stored_tip' = stored_tip
         \/ /\ stored_tip' = h /\ h \in DOMAIN work'
            /\ BranchWork(h) >= BranchWork(stored_tip),
         DOMAIN states' \subseteq DOMAIN states \cup {h},
         \A x \in DOMAIN states' : states'[x] = x,
         running' \in BOOLEAN,
         running' => StateIsReplay' /\ MemoryMatchesStore',
         torn \subseteq torn',
         BranchWork(h) > BranchWork(stored_tip') => h \in torn'
  PROVE  /\ CrashInv'
         /\ work'[stored_tip'] >= work[stored_tip]
<1>1. \A x \in blocks' : x \in Hash /\ BranchWork(x) \in Nat
  BY BlockAddsWork DEF StoreTypeOK
<1>2. stored_tip \in DOMAIN work /\ stored_tip \in blocks /\ blocks \subseteq blocks'
  BY DEF CrashInv
<1>3. DOMAIN work' \subseteq blocks' /\ stored_tip' \in DOMAIN work'
      /\ stored_tip' \in blocks'
  BY <1>2 DEF CrashInv
<1>4. BranchWork(stored_tip') >= BranchWork(stored_tip)
  BY <1>1, <1>2
<1>5. work'[stored_tip'] >= work[stored_tip]
  BY <1>2, <1>3, <1>4 DEF CrashInv
<1>6. ClosedUnderAncestors'
  BY DEF CrashInv, ClosedUnderAncestors, Ancestors
<1>7. \A x \in DOMAIN work' \ {Genesis} : Parent(x) \in DOMAIN work'
  BY DEF CrashInv
<1>8. DOMAIN states' \subseteq blocks'
  BY DEF CrashInv
<1>9. ASSUME NEW x \in blocks', BranchWork(x) > BranchWork(stored_tip')
      PROVE  x \in torn'
  <2>1. CASE x = h
    BY <1>9, <2>1
  <2>2. CASE x \in blocks
    <3>1. BranchWork(x) > BranchWork(stored_tip)
      BY <1>1, <1>2, <1>3, <1>4, <1>9
    <3> QED BY <2>2, <3>1 DEF CrashInv
  <2> QED BY <2>1, <2>2
<1>10. (\A x \in DOMAIN work : work[x] = BranchWork(x))'
  OBVIOUS
<1>11. SnapshotsAreReplays'
  BY DEF SnapshotsAreReplays
<1> QED
  BY <1>3, <1>5, <1>6, <1>7, <1>8, <1>9, <1>10, <1>11 DEF CrashInv

-----------------------------------------------------------------------------
(* The writes of each handler *)

\* The image of a finite set of keys under Delete is finite.
LEMMA DeletesAreFinite ==
  ASSUME NEW K, IsFiniteSet(K), NEW table
  PROVE  IsFiniteSet({Delete(table, x) : x \in K})
<1> DEFINE T == {Delete(table, x) : x \in K}
           f == [x \in K |-> Delete(table, x)]
<1>1. f \in Surjection(K, T)
  BY DEF Surjection
<1> QED BY <1>1, FS_Surjection

LEMMA SnapshotWritesAreLate ==
  ASSUME CrashInv, NEW h \in Hash
  PROVE  SnapshotWrites(h, h) \in Seq(LateWrites(h))
<1> DEFINE stale == {x \in DOMAIN states : Height(x) < Height(h) - SnapshotRetention}
           removals == {Delete("states", x) : x \in stale}
<1>1. DOMAIN states \subseteq Hash /\ IsFiniteSet(DOMAIN states)
  BY TableIs DEF CrashInv, StoreTypeOK
<1>2. IsFiniteSet(stale) /\ stale \subseteq Hash
  BY <1>1, FS_Subset
<1>3. IsFiniteSet(removals)
  <2> HIDE DEF stale
  <2> QED BY <1>2, DeletesAreFinite
<1>4. Genesis \in Hash
  BY EmptySeq DEF Genesis, Hash
<1>5. \A x \in Hash : Delete("states", x) \in LateWrites(h)
  BY <1>4 DEF LateWrites, Writes, Delete
<1>6. removals \subseteq LateWrites(h)
  <2> HIDE DEF stale
  <2> QED BY <1>2, <1>5
<1>7. SetToSeq(removals) \in Seq(LateWrites(h))
  <2> HIDE DEF removals
  <2> QED BY <1>3, <1>6, SetToSeqHasElements
<1>8. Write("states", h, h) \in LateWrites(h)
  BY DEF LateWrites, Writes, Write
<1>9. <<Write("states", h, h)>> \in Seq(LateWrites(h))
  BY <1>8
<1>10. SnapshotWrites(h, h) = <<Write("states", h, h)>> \o SetToSeq(removals)
  BY DEF SnapshotWrites
<1> HIDE DEF removals
<1> QED BY <1>7, <1>9, <1>10, ConcatProperties

LEMMA RebuildWritesAreLate ==
  ASSUME CrashInv, NEW h \in Hash
  PROVE  RebuildWrites(h) \in Seq(LateWrites(h))
<1> DEFINE n == NearestSnapshot(h)
           m == Height(h) - n
           above == {k \in DOMAIN by_height : k > Height(h)}
           rewrites == [i \in 1 .. m |-> Write("by_height", n + i, Ancestor(h, n + i))]
           removals == {Delete("by_height", k) : k \in above}
           naming == <<Write("meta", "tip", h)>>
           late == LateWrites(h)
<1>1. Height(h) \in Nat
  BY LenProperties DEF Hash, Height
<1>2. n \in Int /\ n >= -1 /\ n <= Height(h)
  <2>1. n = -1 \/ n \in 0 .. Height(h)
    BY NearestSnapshotIsSaved DEF SnapshotHeights
  <2> HIDE DEF n
  <2> QED BY <1>1, <2>1
<1>3. rewrites \in Seq(late)
  <2>1. ASSUME NEW i \in 1 .. m
        PROVE  Write("by_height", n + i, Ancestor(h, n + i)) \in late
    <3> HIDE DEF n
    <3>1. n + i \in 0 .. Height(h)
      BY <1>1, <1>2
    <3>2. Ancestor(h, n + i) \in Hash /\ n + i \in Nat
      BY <1>1, <3>1, AncestorIsHash
    <3> QED BY <3>2 DEF LateWrites, Writes, Write
  <2>2. m \in Nat
    <3> HIDE DEF n
    <3> QED BY <1>1, <1>2
  <2> HIDE DEF m, late
  <2>3. rewrites \in [1 .. m -> late]
    BY <2>1
  <2> HIDE DEF rewrites
  <2> QED BY <2>2, <2>3, SeqDef
<1>4. SetToSeq(removals) \in Seq(late)
  <2>1. IsFiniteSet(DOMAIN by_height) /\ DOMAIN by_height \subseteq Nat
    BY TableIs DEF CrashInv, StoreTypeOK
  <2>2. IsFiniteSet(above) /\ above \subseteq Nat
    BY <2>1, FS_Subset
  <2>3. Genesis \in Hash
    BY EmptySeq DEF Genesis, Hash
  <2>4. \A k \in Nat : Delete("by_height", k) \in late
    BY <2>3 DEF LateWrites, Writes, Delete
  <2>5. IsFiniteSet(removals)
    <3> HIDE DEF above
    <3> QED BY <2>2, DeletesAreFinite
  <2>6. removals \subseteq late
    <3> HIDE DEF above, late
    <3> QED BY <2>2, <2>4
  <2> HIDE DEF removals, late
  <2> QED BY <2>5, <2>6, SetToSeqHasElements
<1>5. naming \in Seq(late)
  <2>1. Write("meta", "tip", h) \in late
    BY DEF LateWrites, Writes, Write
  <2> HIDE DEF late
  <2> QED BY <2>1
<1>6. SnapshotWrites(h, RebuiltState(h)) \in Seq(late)
  <2>1. RebuiltState(h) = h
    BY RebuiltIsReplay DEF CrashInv
  <2> QED BY <2>1, SnapshotWritesAreLate
<1>7. RebuildWrites(h)
        = rewrites \o SetToSeq(removals) \o naming \o SnapshotWrites(h, RebuiltState(h))
  BY DEF RebuildWrites
<1> HIDE DEF rewrites, removals, naming, late
<1>8. rewrites \o SetToSeq(removals) \in Seq(late)
  BY <1>3, <1>4, ConcatProperties
<1>9. rewrites \o SetToSeq(removals) \o naming \in Seq(late)
  BY <1>5, <1>8, ConcatProperties
<1>10. RebuildWrites(h) \in Seq(late)
  BY <1>6, <1>7, <1>9, ConcatProperties
<1> QED BY <1>10 DEF late

\* What accept_block has found out about a block before it writes.
Accepting(h) ==
  /\ h \in Hash /\ h # Genesis /\ h \notin blocks
  /\ Offered(h)

LEMMA AcceptedBlockIsWeighed ==
  ASSUME CrashInv, NEW h, Accepting(h)
  PROVE  /\ tip_hash = stored_tip /\ state = tip_hash
         /\ tip_work = BranchWork(stored_tip) /\ tip_work \in Nat
         /\ h \in Hash /\ h # Genesis /\ h \notin blocks
         /\ Parent(h) \in blocks /\ Parent(h) \in DOMAIN work
         /\ Parent(h) = tip_hash => tip_work + Difficulty(h) = BranchWork(h)
         /\ CandidateWork(h) = BranchWork(h)
         /\ BranchWork(h) \in Nat
         /\ Parent(h) = tip_hash => BranchWork(h) > BranchWork(stored_tip)
         /\ Ancestors(h) \subseteq blocks \cup {h}
<1>1. running /\ Parent(h) \in blocks /\ Weighable(h)
  BY DEF Accepting, Offered, New
<1>2. StateIsReplay /\ MemoryMatchesStore
  BY <1>1 DEF CrashInv
<1>3. /\ tip_hash = stored_tip /\ state = tip_hash
      /\ stored_tip \in DOMAIN work /\ tip_work = BranchWork(stored_tip)
  BY <1>2 DEF CrashInv, StateIsReplay, MemoryMatchesStore
<1>4. Parent(h) \in DOMAIN work
  BY <1>1, <1>3 DEF Weighable
<1>5. h \in Hash /\ h # Genesis /\ h \notin blocks /\ stored_tip \in Hash
  BY DEF Accepting, CrashInv, StoreTypeOK
<1>6. /\ BranchWork(h) \in Nat /\ BranchWork(stored_tip) \in Nat
      /\ BranchWork(Parent(h)) \in Nat
      /\ BranchWork(h) = BranchWork(Parent(h)) + Difficulty(h)
      /\ Difficulty(h) \in Nat \ {0}
  BY <1>5, BlockAddsWork, HeaderNumbers
<1>7. CandidateWork(h) = BranchWork(h)
  BY <1>4, <1>6 DEF CandidateWork, CrashInv
<1>8. Ancestors(h) \subseteq blocks \cup {h}
  <2> DEFINE p == Parent(h)
  <2>1. /\ Height(h) \in Nat \ {0} /\ p = Ancestor(h, Height(h) - 1)
        /\ Height(p) = Height(h) - 1
    BY <1>5, ParentIsHash DEF Parent, Height
  <2>2. ASSUME NEW n \in 0 .. Height(h)
        PROVE  Ancestor(h, n) \in blocks \cup {h}
    <3>1. CASE n = Height(h)
      BY <3>1, <1>5, AncestorAtOwnHeight
    <3>2. CASE n # Height(h)
      <4>1. n \in 0 .. Height(h) - 1 /\ Height(h) - 1 \in 0 .. Height(h)
        BY <2>1, <3>2
      <4>2. Ancestor(p, n) = Ancestor(h, n)
        BY <1>5, <2>1, <4>1, AncestorOfAncestor
      <4>3. Ancestor(p, n) \in Ancestors(p)
        BY <2>1, <4>1 DEF Ancestors
      <4>4. Ancestors(p) \subseteq blocks
        BY <1>1 DEF CrashInv, ClosedUnderAncestors
      <4> QED BY <4>2, <4>3, <4>4
    <3> QED BY <3>1, <3>2
  <2> QED BY <2>2 DEF Ancestors
<1> QED BY <1>1, <1>3, <1>4, <1>5, <1>6, <1>7, <1>8

\* accept_block writes the block, its work, and then only what may be cut.
LEMMA AcceptWritesAreOrdered ==
  ASSUME CrashInv, NEW h, Accepting(h)
  PROVE  \E rest \in Seq(LateWrites(h)) :
           /\ AcceptWrites(h) = BlockWrites(h, BranchWork(h)) \o rest
           /\ rest = <<>> \/ BranchWork(h) > BranchWork(stored_tip)
<1> DEFINE late == LateWrites(h)
           first == BlockWrites(h, BranchWork(h))
<1>0. /\ h \in Hash /\ BranchWork(h) \in Nat
      /\ tip_hash = stored_tip /\ state = tip_hash
      /\ tip_work = BranchWork(stored_tip)
      /\ Parent(h) = tip_hash => tip_work + Difficulty(h) = BranchWork(h)
      /\ CandidateWork(h) = BranchWork(h)
      /\ Parent(h) = tip_hash => BranchWork(h) > BranchWork(stored_tip)
  BY AcceptedBlockIsWeighed
<1>1. CASE Parent(h) = tip_hash
  <2> DEFINE naming == <<Write("by_height", Height(h), h), Write("meta", "tip", h)>>
             saving == IF Height(h) % SnapshotInterval = 0
                       THEN SnapshotWrites(h, Execute(state, h)) ELSE <<>>
  <2>1. Execute(state, h) = h
    <3>1. state \in Hash
      BY <1>0 DEF CrashInv, StoreTypeOK
    <3>2. \/ Execute(state, h) = h
          \/ Execute(Replay(GenesisState, state, 0), h) = h
      BY <1>0, <1>1 DEF Accepting, Offered, validate_block
    <3> QED BY <3>1, <3>2, ReplayFromGenesis
  <2>2. naming \in Seq(late)
    <3>1. Height(h) \in Nat
      BY <1>0, LenProperties DEF Hash, Height
    <3>2. Write("by_height", Height(h), h) \in late /\ Write("meta", "tip", h) \in late
      BY <1>0, <3>1 DEF LateWrites, Writes, Write
    <3> HIDE DEF late
    <3> QED BY <3>2
  <2>3. saving \in Seq(late)
    <3>1. SnapshotWrites(h, Execute(state, h)) \in Seq(late)
      BY <1>0, <2>1, SnapshotWritesAreLate
    <3>2. <<>> \in Seq(late)
      BY EmptySeq
    <3> HIDE DEF late
    <3> QED BY <3>1, <3>2
  <2>4. AcceptWrites(h) = first \o naming \o saving
    BY <1>0, <1>1 DEF AcceptWrites, ExtendWrites
  <2>5. first \in Seq(Writes)
    <3>1. Write("blocks", h, h) \in Writes /\ Write("work", h, BranchWork(h)) \in Writes
      BY <1>0 DEF Writes, Write
    <3> QED BY <3>1 DEF BlockWrites
  <2>6. naming \in Seq(Writes) /\ saving \in Seq(Writes)
    <3>1. late \subseteq Writes
      BY DEF LateWrites
    <3> HIDE DEF late, naming, saving
    <3> QED BY <2>2, <2>3, <3>1, SeqMonotonic
  <2> HIDE DEF naming, saving, first, late
  <2>7. AcceptWrites(h) = first \o (naming \o saving)
    BY <2>4, <2>5, <2>6, ConcatAssociative
  <2>8. naming \o saving \in Seq(late)
    BY <2>2, <2>3, ConcatProperties
  <2> QED BY <1>0, <1>1, <2>7, <2>8 DEF first, late
<1>2. CASE Parent(h) # tip_hash
  <2> DEFINE rest == IF CandidateWork(h) > tip_work THEN RebuildWrites(h) ELSE <<>>
  <2>1. AcceptWrites(h) = first \o rest
    BY <1>0, <1>2 DEF AcceptWrites
  <2>2. rest \in Seq(late)
    <3>1. RebuildWrites(h) \in Seq(late)
      BY <1>0, RebuildWritesAreLate
    <3>2. <<>> \in Seq(late)
      BY EmptySeq
    <3> HIDE DEF late
    <3> QED BY <3>1, <3>2
  <2>3. rest = <<>> \/ BranchWork(h) > BranchWork(stored_tip)
    BY <1>0
  <2> HIDE DEF rest
  <2> QED BY <2>1, <2>2, <2>3
<1> QED BY <1>1, <1>2

-----------------------------------------------------------------------------
(* What is left of them after a crash *)

LEMMA DatabaseIsTyped ==
  ASSUME StoreTypeOK
  PROVE  /\ Database \in Databases
         /\ Database.blocks = [h \in blocks |-> h]
         /\ Database.work = work
         /\ Database.by_height = by_height
         /\ Database.meta["tip"] = stored_tip
         /\ Database.states = states
<1> DEFINE tree == [h \in blocks |-> h]
           meta == [k \in {"tip"} |-> stored_tip]
           tips == {"tip"}
<1>1. tree \in Table(Hash, Hash)
  <2>1. /\ tree = [k \in DOMAIN tree |-> tree[k]]
        /\ DOMAIN tree \subseteq Hash /\ IsFiniteSet(DOMAIN tree)
        /\ \A k \in DOMAIN tree : tree[k] \in Hash
    BY DEF StoreTypeOK
  <2> HIDE DEF tree
  <2> QED BY <2>1, TableIs
<1>2. meta \in Table(tips, Hash)
  <2>1. /\ meta = [k \in DOMAIN meta |-> meta[k]]
        /\ DOMAIN meta \subseteq tips /\ IsFiniteSet(DOMAIN meta)
        /\ \A k \in DOMAIN meta : meta[k] \in Hash
    BY FS_Singleton DEF StoreTypeOK
  <2> HIDE DEF meta, tips
  <2> QED BY <2>1, TableIs
<1>3. meta["tip"] = stored_tip
  OBVIOUS
<1>4. Database = [blocks |-> tree, work |-> work, by_height |-> by_height,
                  meta |-> meta, states |-> states]
  BY DEF Database
<1> HIDE DEF meta
<1> QED BY <1>1, <1>2, <1>3, <1>4 DEF Databases, StoreTypeOK

\* The variables after a cut are those of a database.
LEMMA CutIsTyped ==
  ASSUME NEW db \in Databases,
         blocks' = DOMAIN db.blocks, work' = db.work,
         by_height' = db.by_height, stored_tip' = db.meta["tip"],
         stored_tip' \in Hash,
         states' = db.states
  PROVE  StoreTypeOK'
<1>1. /\ db.blocks \in Table(Hash, Hash) /\ db.work \in Table(Hash, Nat)
      /\ db.by_height \in Table(Nat, Hash) /\ db.states \in Table(Hash, Hash)
  BY DEF Databases
<1>2. DOMAIN db.blocks \subseteq Hash /\ IsFiniteSet(DOMAIN db.blocks)
  BY <1>1, TableIs
<1> QED BY <1>1, <1>2 DEF StoreTypeOK, Table

\* A crash in Chain::open: whatever part of the rebuild was written.
LEMMA CutRebuildKeepsStore ==
  ASSUME CrashInv, NEW n \in 1 .. Len(RebuildWrites(stored_tip)),
         Cut(RebuildWrites(stored_tip), n)
  PROVE  /\ StoreTypeOK'
         /\ blocks' = blocks /\ work' = work /\ stored_tip' = stored_tip
         /\ DOMAIN states' \subseteq DOMAIN states \cup {stored_tip}
         /\ \A x \in DOMAIN states' : states'[x] = x
<1> DEFINE h == stored_tip
           all == RebuildWrites(h)
           ws == SubSeq(all, 1, n)
           m == Len(ws)
           end == FoldLeft(Written, Database, ws)
<1>1. h \in Hash /\ StoreTypeOK
  BY DEF CrashInv, StoreTypeOK
<1>2. all \in Seq(LateWrites(h)) /\ Len(all) \in Nat
  BY <1>1, RebuildWritesAreLate, LenProperties
<1>3. /\ ws \in Seq(LateWrites(h)) /\ m \in Nat
      /\ \A k \in 1 .. m : ws[k] \in LateWrites(h)
  <2>0. n \in 1 .. Len(all)
    OBVIOUS
  <2> HIDE DEF all, h
  <2>1. \A i \in 1 .. n : all[i] \in LateWrites(h)
    <3>1. \A i \in 1 .. n : i \in 1 .. Len(all)
      BY <1>2, <2>0
    <3> QED BY <1>2, <3>1, ElementOfSeq
  <2>2. ws \in Seq(LateWrites(h))
    BY <2>1, SubSeqProperties
  <2> HIDE DEF ws
  <2> QED BY <2>2, LenProperties, ElementOfSeq
<1>4. ws \in Seq(Writes)
  <2>1. LateWrites(h) \subseteq Writes
    BY DEF LateWrites
  <2> HIDE DEF ws
  <2> QED BY <1>3, <2>1, SeqMonotonic
<1>5. /\ Database \in Databases /\ Database.blocks = [x \in blocks |-> x]
      /\ Database.work = work /\ Database.meta["tip"] = stored_tip
      /\ Database.states = states
  BY <1>1, DatabaseIsTyped
<1> HIDE DEF ws
<1>6. PICK run \in [0 .. m -> Databases] :
        /\ run[0] = Database
        /\ \A k \in 1 .. m : run[k] = Written(run[k - 1], ws[k])
        /\ end = run[m]
  BY <1>4, <1>5, WritesRunInOrder
<1> HIDE DEF m
<1>7. Follows(run[m], run[0], h)
  <2>1. \A x \in DOMAIN run[0].states : run[0].states[x] = x
    BY <1>5, <1>6 DEF CrashInv, SnapshotsAreReplays
  <2>2. 0 \in 0 .. m /\ \A k \in 0 + 1 .. m : ws[k] \in LateWrites(h)
    BY <1>3
  <2> HIDE DEF h
  <2> QED BY <1>1, <1>3, <1>6, <2>1, <2>2, LateRunFollows
<1>8. /\ blocks' = DOMAIN end.blocks /\ work' = end.work
      /\ by_height' = end.by_height /\ stored_tip' = end.meta["tip"]
      /\ states' = end.states
  BY DEF Cut, ws
<1>9. end \in Databases
  BY <1>3, <1>6
<1> HIDE DEF end
<1>10. /\ blocks' = blocks /\ work' = work /\ stored_tip' = stored_tip
       /\ DOMAIN states' \subseteq DOMAIN states \cup {stored_tip}
       /\ \A x \in DOMAIN states' : states'[x] = x
  BY <1>5, <1>6, <1>7, <1>8 DEF Follows
<1>11. StoreTypeOK'
  BY <1>1, <1>8, <1>9, <1>10, CutIsTyped
<1> QED BY <1>10, <1>11

\* A crash in accept_block: the block alone, or the block and its work, or these
\* and any part of the rest.
LEMMA CutAcceptKeepsStore ==
  ASSUME CrashInv, NEW h, Accepting(h),
         NEW n \in 1 .. Len(AcceptWrites(h)), Cut(AcceptWrites(h), n)
  PROVE  /\ StoreTypeOK'
         /\ blocks' = blocks \cup {h}
         /\ DOMAIN work' \in {DOMAIN work, DOMAIN work \cup {h}}
         /\ \A x \in DOMAIN work' : work'[x] = BranchWork(x)
         /\ \/ stored_tip' = stored_tip
            \/ /\ stored_tip' = h /\ h \in DOMAIN work'
               /\ BranchWork(h) >= BranchWork(stored_tip)
         /\ DOMAIN states' \subseteq DOMAIN states \cup {h}
         /\ \A x \in DOMAIN states' : states'[x] = x
<1> DEFINE w == BranchWork(h)
           all == AcceptWrites(h)
           ws == SubSeq(all, 1, n)
           end == FoldLeft(Written, Database, ws)
           storing == Write("blocks", h, h)
           weighing == Write("work", h, w)
<1>1. h \in Hash /\ w \in Nat /\ h \notin blocks /\ StoreTypeOK
  BY AcceptedBlockIsWeighed DEF CrashInv
<1>2. PICK rest \in Seq(LateWrites(h)) :
        /\ all = BlockWrites(h, w) \o rest
        /\ rest = <<>> \/ w > BranchWork(stored_tip)
  BY AcceptWritesAreOrdered
<1>3. storing \in Writes /\ weighing \in Writes
  BY <1>1 DEF Writes, Write
<1>4. /\ Len(all) = 2 + Len(rest) /\ Len(rest) \in Nat
      /\ all[1] = storing
      /\ all[2] = weighing
      /\ \A k \in 3 .. Len(all) : all[k] \in LateWrites(h)
      /\ all \in Seq(Writes)
  <2> DEFINE first == BlockWrites(h, w)
  <2>1. /\ first \in Seq(Writes) /\ Len(first) = 2
        /\ first[1] = storing /\ first[2] = weighing
    BY <1>3 DEF BlockWrites
  <2>2. LateWrites(h) \subseteq Writes
    BY DEF LateWrites
  <2>3. rest \in Seq(Writes) /\ Len(rest) \in Nat
    BY <2>2, SeqMonotonic, LenProperties
  <2> HIDE DEF first, storing, weighing
  <2>4. /\ first \o rest \in Seq(Writes)
        /\ Len(first \o rest) = Len(first) + Len(rest)
        /\ \A i \in 1 .. Len(first) + Len(rest) : (first \o rest)[i] =
              IF i <= Len(first) THEN first[i] ELSE rest[i - Len(first)]
    BY <2>1, <2>3, ConcatProperties
  <2>5. all = first \o rest
    BY <1>2 DEF first
  <2> HIDE DEF all
  <2>6. \A k \in 3 .. Len(all) : k - 2 \in 1 .. Len(rest) /\ all[k] = rest[k - 2]
    BY <2>1, <2>3, <2>4, <2>5
  <2>7. \A k \in 1 .. Len(rest) : rest[k] \in LateWrites(h)
    BY ElementOfSeq
  <2> QED BY <2>1, <2>3, <2>4, <2>5, <2>6, <2>7
<1>5. /\ n \in Nat \ {0} /\ ws \in Seq(Writes) /\ Len(ws) = n
      /\ \A k \in 1 .. n : ws[k] = all[k]
      /\ \A k \in 1 .. n : k \in 1 .. Len(all)
  <2> HIDE DEF all
  <2>1. n \in Nat \ {0} /\ \A k \in 1 .. n : k \in 1 .. Len(all)
    BY <1>4 DEF all
  <2>2. \A i \in 1 .. n : all[i] \in Writes
    BY <1>4, <2>1, ElementOfSeq
  <2>3. /\ ws \in Seq(Writes)
        /\ Len(ws) = IF 1 <= n THEN n - 1 + 1 ELSE 0
        /\ \A i \in 1 .. n - 1 + 1 : ws[i] = all[1 + i - 1]
    BY <2>1, <2>2, SubSeqProperties
  <2> HIDE DEF ws
  <2>4. \A k \in 1 .. n : k \in 1 .. n - 1 + 1 /\ 1 + k - 1 = k
    BY <2>1
  <2> QED BY <2>1, <2>3, <2>4
<1>6. /\ Database \in Databases /\ Database.blocks = [x \in blocks |-> x]
      /\ Database.work = work /\ Database.meta["tip"] = stored_tip
      /\ Database.states = states
  BY <1>1, DatabaseIsTyped
<1>7. /\ blocks' = DOMAIN end.blocks /\ work' = end.work
      /\ by_height' = end.by_height /\ stored_tip' = end.meta["tip"]
      /\ states' = end.states
  BY DEF Cut
<1> HIDE DEF ws, all, storing, weighing
<1>8. PICK run \in [0 .. n -> Databases] :
        /\ run[0] = Database
        /\ \A k \in 1 .. n : run[k] = Written(run[k - 1], ws[k])
        /\ end = run[n]
  BY <1>5, <1>6, WritesRunInOrder
<1> HIDE DEF end
<1>9. end \in Databases
  BY <1>5, <1>8
<1>10. /\ run[1] \in Databases
       /\ DOMAIN run[1].blocks = blocks \cup {h}
       /\ run[1].work = work /\ run[1].meta["tip"] = stored_tip
       /\ run[1].states = states
  <2>1. 1 \in 1 .. n /\ 1 - 1 = 0 /\ 1 \in 0 .. n
    BY <1>5
  <2>2. run[1] = Written(Database, storing)
    BY <1>4, <1>5, <1>8, <2>1
  <2>3. storing.table = "blocks" /\ storing.key = h /\ ~storing.removes
    BY DEF storing, Write
  <2>4. DOMAIN Updated(Database.blocks, storing) = blocks \cup {h}
    BY <1>6, <2>3 DEF Updated
  <2>5. /\ Written(Database, storing) \in Databases
        /\ Written(Database, storing).blocks = Updated(Database.blocks, storing)
        /\ Written(Database, storing).work = Database.work
        /\ Written(Database, storing).meta = Database.meta
        /\ Written(Database, storing).states = Database.states
    BY <1>3, <1>6, <2>3, WriteChangesItsTable
  <2> QED BY <1>6, <2>2, <2>4, <2>5
<1>11. ASSUME n >= 2
       PROVE  /\ run[2] \in Databases
              /\ DOMAIN run[2].blocks = blocks \cup {h}
              /\ run[2].work = [x \in DOMAIN work \cup {h} |-> IF x = h THEN w ELSE work[x]]
              /\ run[2].meta["tip"] = stored_tip
              /\ run[2].states = states
  <2>1. 2 \in 1 .. n /\ 2 - 1 = 1 /\ 2 \in 0 .. n
    BY <1>5, <1>11
  <2>2. run[2] = Written(run[1], weighing)
    BY <1>4, <1>5, <1>8, <2>1
  <2>3. weighing.table = "work" /\ weighing.key = h /\ weighing.value = w
        /\ ~weighing.removes
    BY DEF weighing, Write
  <2>4. Updated(run[1].work, weighing)
          = [x \in DOMAIN work \cup {h} |-> IF x = h THEN w ELSE work[x]]
    <3> HIDE DEF w
    <3> QED BY <1>10, <2>3 DEF Updated
  <2>5. /\ Written(run[1], weighing) \in Databases
        /\ Written(run[1], weighing).blocks = run[1].blocks
        /\ Written(run[1], weighing).work = Updated(run[1].work, weighing)
        /\ Written(run[1], weighing).meta = run[1].meta
        /\ Written(run[1], weighing).states = run[1].states
    BY <1>3, <1>10, <2>3, WriteChangesItsTable
  <2> QED BY <1>10, <2>2, <2>4, <2>5
<1>12. /\ blocks' = blocks \cup {h}
       /\ DOMAIN work' \in {DOMAIN work, DOMAIN work \cup {h}}
       /\ \A x \in DOMAIN work' : work'[x] = BranchWork(x)
       /\ \/ stored_tip' = stored_tip
          \/ /\ stored_tip' = h /\ h \in DOMAIN work'
             /\ BranchWork(h) >= BranchWork(stored_tip)
       /\ DOMAIN states' \subseteq DOMAIN states \cup {h}
       /\ \A x \in DOMAIN states' : states'[x] = x
  <2>1. CASE n = 1
    <3>1. /\ blocks' = blocks \cup {h} /\ work' = work
          /\ stored_tip' = stored_tip /\ states' = states
      BY <1>7, <1>8, <1>10, <2>1
    <3>2. /\ \A x \in DOMAIN work : work[x] = BranchWork(x)
          /\ \A x \in DOMAIN states : states[x] = x
      BY DEF CrashInv, SnapshotsAreReplays
    <3> QED BY <3>1, <3>2
  <2>2. CASE n >= 2
    <3>1. Follows(run[n], run[2], h)
      <4>1. \A x \in DOMAIN run[2].states : run[2].states[x] = x
        BY <1>11, <2>2 DEF CrashInv, SnapshotsAreReplays
      <4>2. 2 \in 0 .. n /\ \A k \in 2 + 1 .. n : ws[k] \in LateWrites(h)
        BY <1>4, <1>5, <2>2
      <4> QED BY <1>1, <1>5, <1>8, <4>1, <4>2, LateRunFollows
    <3>2. /\ blocks' = blocks \cup {h}
          /\ work' = [x \in DOMAIN work \cup {h} |-> IF x = h THEN w ELSE work[x]]
          /\ stored_tip' \in {stored_tip, h}
          /\ DOMAIN states' \subseteq DOMAIN states \cup {h}
          /\ \A x \in DOMAIN states' : states'[x] = x
      BY <1>7, <1>8, <1>11, <2>2, <3>1 DEF Follows
    <3>3. /\ DOMAIN work' = DOMAIN work \cup {h}
          /\ \A x \in DOMAIN work' : work'[x] = BranchWork(x)
      BY <3>2 DEF CrashInv
    <3>4. stored_tip' # stored_tip => w > BranchWork(stored_tip)
      <4>1. CASE rest = <<>>
        <5>1. n = 2
          <6>1. Len(rest) = 0
            BY <4>1
          <6> QED BY <1>4, <1>5, <2>2, <6>1
        <5> QED BY <1>7, <1>8, <1>11, <2>2, <5>1
      <4>2. CASE rest # <<>>
        BY <1>2, <4>2
      <4> QED BY <4>1, <4>2
    <3>5. BranchWork(stored_tip) \in Nat
      BY BlockAddsWork DEF CrashInv, StoreTypeOK
    <3>6. ASSUME stored_tip' # stored_tip
          PROVE  /\ stored_tip' = h /\ h \in DOMAIN work'
                 /\ BranchWork(h) >= BranchWork(stored_tip)
      <4>1. stored_tip' = h
        BY <3>2, <3>6
      <4>2. h \in DOMAIN work'
        BY <3>3
      <4>3. w > BranchWork(stored_tip)
        BY <3>4, <3>6
      <4> QED BY <1>1, <3>5, <4>1, <4>2, <4>3
    <3> QED BY <3>2, <3>3, <3>6
  <2> QED BY <1>5, <2>1, <2>2
<1>13. StoreTypeOK'
  <2>1. stored_tip' \in Hash
    BY <1>1, <1>12 DEF StoreTypeOK
  <2> QED BY <1>7, <1>9, <2>1, CutIsTyped
<1> QED BY <1>12, <1>13

\* rebuild_state_to leaves a height index behind.
LEMMA RewrittenIndexIsTable ==
  ASSUME NEW h \in Hash, StoreTypeOK
  PROVE  RewrittenIndex(h) \in Table(Nat, Hash)
<1> DEFINE n == NearestSnapshot(h)
           replayed == n + 1 .. Height(h)
           low == {j \in DOMAIN by_height : j <= Height(h)}
           index == RewrittenIndex(h)
<1>1. Height(h) \in Nat
  BY LenProperties DEF Hash, Height
<1>2. n \in Int /\ n >= -1
  <2>1. n = -1 \/ n \in 0 .. Height(h)
    BY NearestSnapshotIsSaved DEF SnapshotHeights
  <2> HIDE DEF n
  <2> QED BY <1>1, <2>1
<1>3. /\ DOMAIN by_height \subseteq Nat /\ IsFiniteSet(DOMAIN by_height)
      /\ \A k \in DOMAIN by_height : by_height[k] \in Hash
  BY TableIs DEF StoreTypeOK
<1>4. replayed \subseteq 0 .. Height(h) /\ IsFiniteSet(replayed)
  <2> HIDE DEF n
  <2> QED BY <1>1, <1>2, FS_Interval
<1>5. index = [k \in low \cup replayed |->
                 IF k \in replayed THEN Ancestor(h, k) ELSE by_height[k]]
  BY DEF RewrittenIndex
<1>6. low \subseteq DOMAIN by_height /\ IsFiniteSet(low)
  BY <1>3, FS_Subset
<1> HIDE DEF replayed, low, index
<1>7. IsFiniteSet(low \cup replayed)
  BY <1>4, <1>6, FS_Union
<1>8. \A k \in replayed : k \in Nat /\ Ancestor(h, k) \in Hash
  BY <1>1, <1>4, AncestorIsHash
<1>9. /\ index = [k \in DOMAIN index |-> index[k]]
      /\ DOMAIN index \subseteq Nat /\ IsFiniteSet(DOMAIN index)
      /\ \A k \in DOMAIN index : index[k] \in Hash
  BY <1>3, <1>5, <1>6, <1>7, <1>8
<1> QED BY <1>9, TableIs DEF index

-----------------------------------------------------------------------------
(* Every step keeps the invariant, and the recorded tip never gets lighter. *)

TipKept == work'[stored_tip'] >= work[stored_tip]

\* A block that accept_block gets through with: what it leaves behind.
LEMMA AcceptKeepsStore ==
  ASSUME CrashInv, NEW h, Accepting(h), Accept(h)
  PROVE  CrashInv' /\ TipKept
<1> DEFINE w == BranchWork(h)
<1>1. /\ tip_hash = stored_tip /\ state = tip_hash
      /\ tip_work = BranchWork(stored_tip) /\ tip_work \in Nat
      /\ h \in Hash /\ h # Genesis /\ h \notin blocks
      /\ Parent(h) \in DOMAIN work
      /\ Parent(h) = tip_hash => tip_work + Difficulty(h) = w
      /\ CandidateWork(h) = w /\ w \in Nat
      /\ Parent(h) = tip_hash => w > BranchWork(stored_tip)
      /\ Ancestors(h) \subseteq blocks \cup {h}
  BY AcceptedBlockIsWeighed
<1>2. /\ running /\ running' = running /\ torn' = torn
      /\ Extend(h) \/ StoreSideBranch(h) \/ Reorganise(h)
  BY DEF Accept, Offered
<1>3. SnapshotsAreReplays /\ StoreTypeOK
  BY DEF CrashInv
<1>4. put_block(h, w)
  BY <1>1, <1>2 DEF Extend, StoreSideBranch, Reorganise, OffTip, validate_block
<1>5. /\ blocks' = blocks \cup {h}
      /\ work' = [x \in DOMAIN work \cup {h} |-> IF x = h THEN w ELSE work[x]]
  BY <1>4 DEF put_block
<1>6. /\ DOMAIN work' = DOMAIN work \cup {h}
      /\ \A x \in DOMAIN work' : work'[x] = BranchWork(x)
      /\ work'[h] = w
      /\ stored_tip \in DOMAIN work'
  BY <1>5 DEF CrashInv
<1>7. /\ \/ /\ UNCHANGED <<by_height, stored_tip, states, state, tip_hash, tip_work>>
            /\ w <= BranchWork(stored_tip)
         \/ /\ stored_tip' = h /\ tip_hash' = h /\ tip_work' = w /\ state' = h
            /\ w > BranchWork(stored_tip)
            /\ states' \in {states, SavedSnapshot(h, h)}
            /\ by_height' \in
                 {[k \in DOMAIN by_height \cup {Height(h)} |->
                     IF k = Height(h) THEN h ELSE by_height[k]],
                  RewrittenIndex(h)}
  <2>1. CASE Extend(h)
    <3>1. Parent(h) = tip_hash /\ Execute(state, h) = h
      BY <2>1 DEF Extend, validate_block
    <3> HIDE DEF w
    <3> QED BY <1>1, <2>1, <3>1 DEF Extend, w
  <2>2. CASE StoreSideBranch(h)
    BY <1>1, <2>2 DEF StoreSideBranch
  <2>3. CASE Reorganise(h)
    <3>1. RebuiltState(h) = h
      BY <1>1, <1>3, RebuiltIsReplay
    <3> HIDE DEF w
    <3> QED BY <1>1, <2>3, <3>1 DEF Reorganise, rebuild_state_to, w
  <2> QED BY <1>2, <2>1, <2>2, <2>3
<1>8. /\ DOMAIN states' \subseteq DOMAIN states \cup {h}
      /\ \A x \in DOMAIN states' : states'[x] = x
      /\ states' = [x \in DOMAIN states' |-> states'[x]]
  <2>1. CASE states' = states
    BY <1>3, <2>1, TableIs DEF SnapshotsAreReplays, StoreTypeOK
  <2>2. CASE states' = SavedSnapshot(h, h)
    <3>1. SavedSnapshot(h, h)
            = [x \in DOMAIN SavedSnapshot(h, h) |-> SavedSnapshot(h, h)[x]]
      BY DEF SavedSnapshot
    <3> QED BY <1>3, <2>2, <3>1, SavedSnapshotIsReplay
  <2> QED BY <1>7, <2>1, <2>2
<1>9. by_height' \in Table(Nat, Hash)
  <2>1. Height(h) \in Nat
    BY <1>1, LenProperties DEF Hash, Height
  <2>2. DOMAIN by_height \subseteq Nat /\ IsFiniteSet(DOMAIN by_height)
        /\ \A k \in DOMAIN by_height : by_height[k] \in Hash
    BY <1>3, TableIs DEF StoreTypeOK
  <2>3. CASE by_height' = by_height
    BY <1>3, <2>3 DEF StoreTypeOK
  <2>4. CASE by_height' = [k \in DOMAIN by_height \cup {Height(h)} |->
                             IF k = Height(h) THEN h ELSE by_height[k]]
    <3>1. IsFiniteSet(DOMAIN by_height \cup {Height(h)})
      BY <2>2, FS_AddElement
    <3>2. /\ by_height' = [k \in DOMAIN by_height' |-> by_height'[k]]
          /\ DOMAIN by_height' \subseteq Nat /\ IsFiniteSet(DOMAIN by_height')
          /\ \A k \in DOMAIN by_height' : by_height'[k] \in Hash
      BY <1>1, <2>1, <2>2, <2>4, <3>1
    <3> QED BY <3>2, TableIs
  <2>5. CASE by_height' = RewrittenIndex(h)
    BY <1>1, <1>3, <2>5, RewrittenIndexIsTable
  <2> QED BY <1>7, <2>3, <2>4, <2>5
<1>10. StoreTypeOK'
  <2>1. blocks' \subseteq Hash /\ IsFiniteSet(blocks')
    BY <1>1, <1>3, <1>5, FS_AddElement DEF StoreTypeOK
  <2>2. IsFiniteSet(DOMAIN work') /\ DOMAIN work' \subseteq Hash
    <3>1. IsFiniteSet(DOMAIN work) /\ DOMAIN work \subseteq Hash
      BY <1>3, TableIs DEF StoreTypeOK
    <3> QED BY <1>1, <1>6, <3>1, FS_AddElement
  <2>3. \A x \in DOMAIN work' : work'[x] \in Nat
    BY <1>6, <2>2, BlockAddsWork
  <2>4. work' \in Table(Hash, Nat)
    <3>1. work' = [x \in DOMAIN work' |-> work'[x]]
      <4> HIDE DEF w
      <4> QED BY <1>5
    <3> QED BY <2>2, <2>3, <3>1, TableIs
  <2>5. stored_tip' \in Hash
    BY <1>1, <1>3, <1>7 DEF StoreTypeOK
  <2>6. states' \in Table(Hash, Hash)
    <3>1. DOMAIN states \subseteq Hash /\ IsFiniteSet(DOMAIN states)
      BY <1>3, TableIs DEF StoreTypeOK
    <3>2. IsFiniteSet(DOMAIN states \cup {h}) /\ DOMAIN states \cup {h} \subseteq Hash
      BY <1>1, <3>1, FS_AddElement
    <3>3. IsFiniteSet(DOMAIN states') /\ DOMAIN states' \subseteq Hash
      BY <1>8, <3>2, FS_Subset
    <3>4. \A x \in DOMAIN states' : states'[x] \in Hash
      BY <1>8, <3>3
    <3> QED BY <1>8, <3>3, <3>4, TableIs
  <2> QED BY <1>9, <2>1, <2>4, <2>5, <2>6 DEF StoreTypeOK
<1>11. StateIsReplay' /\ MemoryMatchesStore'
  <2>1. CASE UNCHANGED <<by_height, stored_tip, states, state, tip_hash, tip_work>>
    BY <1>1, <1>6, <2>1 DEF StateIsReplay, MemoryMatchesStore
  <2>2. CASE stored_tip' = h /\ tip_hash' = h /\ tip_work' = w /\ state' = h
    BY <1>6, <2>2 DEF StateIsReplay, MemoryMatchesStore
  <2> QED BY <1>7, <2>1, <2>2
<1>12. BranchWork(stored_tip) \in Nat
  BY <1>1
<1>13. \/ stored_tip' = stored_tip
       \/ /\ stored_tip' = h /\ h \in DOMAIN work'
          /\ BranchWork(h) >= BranchWork(stored_tip)
  BY <1>1, <1>6, <1>7, <1>12
<1>14. ~(BranchWork(h) > BranchWork(stored_tip'))
  BY <1>1, <1>7, <1>12
<1>15. Ancestors(h) \subseteq blocks' /\ running' \in BOOLEAN
  BY <1>1, <1>2, <1>5 DEF CrashInv
<1> QED
  BY <1>1, <1>2, <1>5, <1>6, <1>8, <1>10, <1>11, <1>13, <1>14, <1>15,
     StoreIsKept DEF TipKept

LEMMA CrashInAcceptKeepsStore ==
  ASSUME CrashInv, NEW h, Accepting(h), CrashInAccept(h)
  PROVE  CrashInv' /\ TipKept
<1>1. PICK n \in 1 .. Len(AcceptWrites(h)) : Cut(AcceptWrites(h), n)
  BY DEF CrashInAccept
<1>2. running' = FALSE /\ torn' = torn \cup {h}
  BY DEF CrashInAccept
<1>3. /\ StoreTypeOK'
      /\ blocks' = blocks \cup {h}
      /\ DOMAIN work' \in {DOMAIN work, DOMAIN work \cup {h}}
      /\ \A x \in DOMAIN work' : work'[x] = BranchWork(x)
      /\ \/ stored_tip' = stored_tip
         \/ /\ stored_tip' = h /\ h \in DOMAIN work'
            /\ BranchWork(h) >= BranchWork(stored_tip)
      /\ DOMAIN states' \subseteq DOMAIN states \cup {h}
      /\ \A x \in DOMAIN states' : states'[x] = x
  BY <1>1, CutAcceptKeepsStore
<1>4. /\ h \in Hash /\ Parent(h) \in DOMAIN work
      /\ Ancestors(h) \subseteq blocks \cup {h}
  BY AcceptedBlockIsWeighed
<1> QED BY <1>2, <1>3, <1>4, StoreIsKept DEF TipKept

\* A step that adds no block and leaves the tip.
LEMMA StoreAtRest ==
  ASSUME CrashInv, StoreTypeOK',
         blocks' = blocks, work' = work, stored_tip' = stored_tip, torn' = torn,
         DOMAIN states' \subseteq DOMAIN states \cup {stored_tip},
         \A x \in DOMAIN states' : states'[x] = x,
         running' \in BOOLEAN,
         running' => StateIsReplay' /\ MemoryMatchesStore'
  PROVE  CrashInv' /\ TipKept
<1> DEFINE h == stored_tip
<1>1. /\ h \in Hash /\ h \in DOMAIN work /\ h \in blocks
      /\ h = Genesis \/ Parent(h) \in DOMAIN work
  BY DEF CrashInv, StoreTypeOK
<1>2. Ancestors(h) \subseteq blocks'
  BY <1>1 DEF CrashInv, ClosedUnderAncestors
<1>3. blocks' = blocks \cup {h}
  BY <1>1
<1>4. \A x \in DOMAIN work' : work'[x] = BranchWork(x)
  BY DEF CrashInv
<1>5. BranchWork(h) \in Nat
  BY <1>1, BlockAddsWork
<1>6. ~(BranchWork(h) > BranchWork(stored_tip'))
  BY <1>5
<1>7. stored_tip' = stored_tip /\ torn \subseteq torn'
  OBVIOUS
<1>8. DOMAIN work' \in {DOMAIN work, DOMAIN work \cup {h}}
  OBVIOUS
<1>9. DOMAIN states' \subseteq DOMAIN states \cup {h}
  OBVIOUS
<1> HIDE DEF h
<1> QED BY <1>1, <1>2, <1>3, <1>4, <1>6, <1>7, <1>8, <1>9, StoreIsKept DEF TipKept

LEMMA CrashAtRestKeepsStore ==
  ASSUME CrashInv, CrashAtRest
  PROVE  CrashInv' /\ TipKept
<1>1. UNCHANGED store /\ torn' = torn /\ running' = FALSE
  BY DEF CrashAtRest
<1>2. /\ UNCHANGED <<blocks, work, by_height, stored_tip, states>>
      /\ StoreTypeOK /\ SnapshotsAreReplays
  BY <1>1 DEF store, CrashInv
<1>3. StoreTypeOK'
  BY <1>2 DEF StoreTypeOK
<1> QED BY <1>1, <1>2, <1>3, StoreAtRest DEF SnapshotsAreReplays

LEMMA CrashInOpenKeepsStore ==
  ASSUME CrashInv, CrashInOpen
  PROVE  CrashInv' /\ TipKept
<1>1. PICK n \in 1 .. Len(RebuildWrites(stored_tip)) :
        Cut(RebuildWrites(stored_tip), n)
  BY DEF CrashInOpen
<1>2. /\ StoreTypeOK'
      /\ blocks' = blocks /\ work' = work /\ stored_tip' = stored_tip
      /\ DOMAIN states' \subseteq DOMAIN states \cup {stored_tip}
      /\ \A x \in DOMAIN states' : states'[x] = x
  BY <1>1, CutRebuildKeepsStore
<1>3. ~running /\ running' = running /\ torn' = torn
  BY DEF CrashInOpen
<1>4. running' = FALSE
  <2>1. running \in BOOLEAN
    BY DEF CrashInv
  <2> QED BY <1>3, <2>1
<1> QED BY <1>2, <1>3, <1>4, StoreAtRest

LEMMA OpenKeepsStore ==
  ASSUME CrashInv, Open
  PROVE  CrashInv' /\ TipKept
<1> DEFINE h == stored_tip
<1>1. h \in Hash /\ h \in DOMAIN work /\ h \in blocks /\ SnapshotsAreReplays
      /\ StoreTypeOK
  BY DEF CrashInv, StoreTypeOK
<1>2. RebuiltState(h) = h
  BY <1>1, RebuiltIsReplay
<1>3. /\ UNCHANGED <<blocks, work, torn>> /\ running' = TRUE
      /\ state' = h /\ by_height' = RewrittenIndex(h)
      /\ stored_tip' = h /\ tip_hash' = h /\ tip_work' = work[h]
      /\ states' = SavedSnapshot(h, h)
  BY <1>1, <1>2 DEF Open, rebuild_state_to
<1>4. /\ DOMAIN states' \subseteq DOMAIN states \cup {h}
      /\ \A x \in DOMAIN states' : states'[x] = x
      /\ states' = [x \in DOMAIN states' |-> states'[x]]
  <2>1. SavedSnapshot(h, h)
          = [x \in DOMAIN SavedSnapshot(h, h) |-> SavedSnapshot(h, h)[x]]
    BY DEF SavedSnapshot
  <2> QED BY <1>1, <1>3, <2>1, SavedSnapshotIsReplay
<1>5. StoreTypeOK'
  <2>1. by_height' \in Table(Nat, Hash)
    BY <1>1, <1>3, RewrittenIndexIsTable
  <2>2. states' \in Table(Hash, Hash)
    <3>1. DOMAIN states \subseteq Hash /\ IsFiniteSet(DOMAIN states)
      BY <1>1, TableIs DEF StoreTypeOK
    <3>2. IsFiniteSet(DOMAIN states \cup {h}) /\ DOMAIN states \cup {h} \subseteq Hash
      BY <1>1, <3>1, FS_AddElement
    <3>3. IsFiniteSet(DOMAIN states') /\ DOMAIN states' \subseteq Hash
      BY <1>4, <3>2, FS_Subset
    <3>4. \A x \in DOMAIN states' : states'[x] \in Hash
      BY <1>4, <3>3
    <3> QED BY <1>4, <3>3, <3>4, TableIs
  <2> QED BY <1>1, <1>3, <2>1, <2>2 DEF StoreTypeOK
<1>6. StateIsReplay' /\ MemoryMatchesStore'
  BY <1>3 DEF StateIsReplay, MemoryMatchesStore
<1> QED BY <1>3, <1>4, <1>5, <1>6, StoreAtRest

LEMMA CrashInitEstablishesInvariant == CrashInit => CrashInv
<1> SUFFICES ASSUME CrashInit PROVE CrashInv
  OBVIOUS
<1>1. Genesis \in Hash /\ Height(Genesis) = 0
  BY EmptySeq DEF Genesis, Hash, Height
<1>2. Ancestors(Genesis) = {Genesis}
  <2>1. Ancestor(Genesis, 0) = Genesis
    BY <1>1, AncestorAtOwnHeight
  <2> QED BY <1>1, <2>1 DEF Ancestors
<1>3. /\ blocks = {Genesis} /\ work = [h \in {Genesis} |-> 0]
      /\ by_height = [k \in {0} |-> Genesis] /\ stored_tip = Genesis
      /\ states = [h \in {Genesis} |-> Genesis]
      /\ state = Genesis /\ tip_hash = Genesis /\ tip_work = 0
      /\ running = TRUE /\ torn = {}
  BY DEF CrashInit, Init, GenesisState, Genesis
<1>4. BranchWork(Genesis) = 0
  BY <1>1, BlockAddsWork
<1>5. StoreTypeOK
  <2>1. IsFiniteSet({Genesis}) /\ IsFiniteSet({0})
    BY FS_Singleton
  <2>2. work \in Table(Hash, Nat)
    <3>1. /\ work = [k \in DOMAIN work |-> work[k]]
          /\ DOMAIN work \subseteq Hash /\ IsFiniteSet(DOMAIN work)
          /\ \A k \in DOMAIN work : work[k] \in Nat
      BY <1>1, <1>3, <2>1
    <3> QED BY <3>1, TableIs
  <2>3. by_height \in Table(Nat, Hash)
    <3>1. /\ by_height = [k \in DOMAIN by_height |-> by_height[k]]
          /\ DOMAIN by_height \subseteq Nat /\ IsFiniteSet(DOMAIN by_height)
          /\ \A k \in DOMAIN by_height : by_height[k] \in Hash
      BY <1>1, <1>3, <2>1
    <3> QED BY <3>1, TableIs
  <2>4. states \in Table(Hash, Hash)
    <3>1. /\ states = [k \in DOMAIN states |-> states[k]]
          /\ DOMAIN states \subseteq Hash /\ IsFiniteSet(DOMAIN states)
          /\ \A k \in DOMAIN states : states[k] \in Hash
      BY <1>1, <1>3, <2>1
    <3> QED BY <3>1, TableIs
  <2> QED BY <1>1, <1>3, <2>1, <2>2, <2>3, <2>4 DEF StoreTypeOK
<1>6. ClosedUnderAncestors /\ SnapshotsAreReplays
  BY <1>2, <1>3 DEF ClosedUnderAncestors, SnapshotsAreReplays
<1>7. StateIsReplay /\ MemoryMatchesStore
  BY <1>3 DEF StateIsReplay, MemoryMatchesStore
<1>8. \A h \in blocks : ~(BranchWork(h) > BranchWork(stored_tip))
  BY <1>3, <1>4
<1>9. /\ DOMAIN work \subseteq blocks
      /\ \A h \in DOMAIN work : work[h] = BranchWork(h)
      /\ \A h \in DOMAIN work \ {Genesis} : Parent(h) \in DOMAIN work
      /\ stored_tip \in DOMAIN work /\ DOMAIN states \subseteq blocks
      /\ running \in BOOLEAN
  BY <1>3, <1>4
<1> QED BY <1>5, <1>6, <1>7, <1>8, <1>9 DEF CrashInv

LEMMA CrashStepKeepsInvariant == CrashInv /\ [CrashNext]_crashVars => CrashInv' /\ TipKept
<1> SUFFICES ASSUME CrashInv, [CrashNext]_crashVars PROVE CrashInv' /\ TipKept
  OBVIOUS
<1>1. ASSUME NEW p \in blocks, NEW gap \in Gaps, NEW sol \in Solutions,
             NEW opens \in BOOLEAN, Offered(Child(p, gap, sol, opens))
      PROVE  Accepting(Child(p, gap, sol, opens))
  <2>1. p \in Hash
    BY DEF CrashInv, StoreTypeOK
  <2>2. Child(p, gap, sol, opens) \in Hash /\ Child(p, gap, sol, opens) # Genesis
    BY <2>1, ChildIsBlock
  <2> QED BY <1>1, <2>2 DEF Accepting, Offered, New
<1>2. CASE AnyChild(Accept)
  <2>1. PICK p \in blocks, gap \in Gaps, sol \in Solutions, opens \in BOOLEAN :
          Accept(Child(p, gap, sol, opens))
    BY <1>2 DEF AnyChild
  <2>2. Offered(Child(p, gap, sol, opens))
    BY <2>1 DEF Accept
  <2> QED BY <1>1, <2>1, <2>2, AcceptKeepsStore
<1>3. CASE AnyChild(CrashInAccept)
  <2>1. PICK p \in blocks, gap \in Gaps, sol \in Solutions, opens \in BOOLEAN :
          CrashInAccept(Child(p, gap, sol, opens))
    BY <1>3 DEF AnyChild
  <2>2. Offered(Child(p, gap, sol, opens))
    BY <2>1 DEF CrashInAccept
  <2> QED BY <1>1, <2>1, <2>2, CrashInAcceptKeepsStore
<1>4. CASE CrashAtRest
  BY <1>4, CrashAtRestKeepsStore
<1>5. CASE Open
  BY <1>5, OpenKeepsStore
<1>6. CASE CrashInOpen
  BY <1>6, CrashInOpenKeepsStore
<1>7. CASE UNCHANGED crashVars
  <2>1. UNCHANGED <<blocks, work, by_height, stored_tip, states, state, tip_hash,
                    tip_work, running, torn>>
    BY <1>7 DEF crashVars, vars
  <2>2. StoreTypeOK'
    BY <2>1 DEF CrashInv, StoreTypeOK
  <2>3. /\ running' \in BOOLEAN
        /\ running' => StateIsReplay' /\ MemoryMatchesStore'
    BY <2>1 DEF CrashInv, StateIsReplay, MemoryMatchesStore
  <2>4. /\ DOMAIN states' \subseteq DOMAIN states \cup {stored_tip}
        /\ \A x \in DOMAIN states' : states'[x] = x
    BY <2>1 DEF CrashInv, SnapshotsAreReplays
  <2> QED BY <2>1, <2>2, <2>3, <2>4, StoreAtRest
<1> QED BY <1>2, <1>3, <1>4, <1>5, <1>6, <1>7 DEF CrashNext

-----------------------------------------------------------------------------
(* The theorems *)

\* The invariant holds in every state of the store, whatever crashes it has been
\* through, for every size of the chain.
THEOREM CrashInvariant == CrashSpec => []CrashInv
BY CrashInitEstablishesInvariant, CrashStepKeepsInvariant, PTL DEF CrashSpec

\* After any crashes the reopened ledger is the execution of the tip's ancestry.
THEOREM RecoveryIsReplay == CrashSpec => []RecoveredStateIsReplay
<1>1. CrashInv => RecoveredStateIsReplay
  BY DEF CrashInv, RecoveredStateIsReplay
<1> QED BY <1>1, CrashInvariant, PTL

\* No prefix of a handler's writes leaves rebuild_state_to or branch_to a store
\* they cannot read back.
THEOREM StoreSurvivesCrashes == CrashSpec => []TornStoreIsSound
<1>1. CrashInv => TornStoreIsSound
  <2> SUFFICES ASSUME CrashInv PROVE TornStoreIsSound
    OBVIOUS
  <2>1. ASSUME NEW h \in DOMAIN work \ {Genesis}
        PROVE  /\ Parent(h) \in DOMAIN work
               /\ work[h] = work[Parent(h)] + Difficulty(h)
    <3>1. h \in Hash /\ h # Genesis /\ Parent(h) \in DOMAIN work
      BY DEF CrashInv, StoreTypeOK
    <3>2. BranchWork(h) = BranchWork(Parent(h)) + Difficulty(h)
      BY <3>1, BlockAddsWork
    <3> QED BY <3>1, <3>2 DEF CrashInv
  <2> QED BY <2>1 DEF CrashInv, TornStoreIsSound
<1> QED BY <1>1, CrashInvariant, PTL

\* A stored block heavier than the tip is one whose own acceptance was cut short.
THEOREM ForkChoiceSurvivesCrashes == CrashSpec => []OnlyTornBlocksOutweigh
<1>1. CrashInv => OnlyTornBlocksOutweigh
  BY DEF CrashInv, OnlyTornBlocksOutweigh, MemoryMatchesStore
<1> QED BY <1>1, CrashInvariant, PTL

\* No crash and no recovery exchanges the recorded tip for a lighter one.
THEOREM RecordedTipNeverRetreats == CrashSpec => TipNeverRetreats
<1>1. CrashInv /\ [CrashNext]_crashVars
        => [work'[stored_tip'] >= work[stored_tip]]_crashVars
  BY CrashStepKeepsInvariant DEF TipKept
<1> QED BY <1>1, CrashInvariant, PTL DEF CrashSpec, TipNeverRetreats

-----------------------------------------------------------------------------
(* Targets: a hash is a number, read limb by limb *)

\* What a recursion gives that starts behind the last limb.
FromTheEnd(f, base, step) ==
  /\ f[LIMBS] = base
  /\ \A k \in 0 .. LIMBS - 1 : f[k] = step[<<f[k + 1], k>>]

LEMMA RecursionFromTheEnd ==
  ASSUME NEW V, NEW base \in V, NEW step \in [V \X (0 .. LIMBS - 1) -> V]
  PROVE  \E f \in [0 .. LIMBS -> V] : FromTheEnd(f, base, step)
<1> DEFINE S == 0 .. LIMBS - 1
           next == [k \in S |-> k + 1]
<1>1. LIMBS \in Nat \ {0}
  BY TargetAssumption
<1>2. S \cup {LIMBS} = 0 .. LIMBS /\ LIMBS \notin S
  BY <1>1
<1>3. next \in [S -> S \cup {LIMBS}] /\ \A k \in S : next[k] = k + 1
  BY <1>1
<1>4. Grounded(S, next)
  <2> SUFFICES ASSUME NEW T \in (SUBSET S) \ {{}}
               PROVE  \E k \in T : next[k] \notin T
    BY DEF Grounded
  <2> DEFINE U == {i \in 1 .. LIMBS : i - 1 \in T}
  <2>1. U \in SUBSET (1 .. LIMBS) /\ U # {}
    <3>1. PICK k \in T : TRUE
      OBVIOUS
    <3>2. k + 1 \in U
      BY <1>1, <3>1
    <3> QED BY <3>2
  <2>2. PICK i \in U : \A j \in U : i >= j
    <3> HIDE DEF U
    <3> QED BY <1>1, <2>1, LargestIndex
  <2>3. i - 1 \in T /\ next[i - 1] = i /\ i \in 1 .. LIMBS
    BY <1>3
  <2>4. i \notin T
    <3> SUFFICES ASSUME i \in T PROVE FALSE
      OBVIOUS
    <3>1. i + 1 \in U
      BY <1>1, <2>3
    <3> HIDE DEF U
    <3> QED BY <1>1, <2>2, <2>3, <3>1
  <2> QED BY <2>3, <2>4
<1>5. step \in [V \X S -> V]
  OBVIOUS
<1> HIDE DEF next, S
<1>6. PICK f \in [S \cup {LIMBS} -> V] : Recurs(f, S \cup {LIMBS}, LIMBS, next, base, step)
  BY <1>5, <1>2, <1>3, <1>4, TreeRecursion
<1>7. FromTheEnd(f, base, step)
  <2>1. f[LIMBS] = base
    BY <1>6 DEF Recurs
  <2>2. ASSUME NEW k \in 0 .. LIMBS - 1
        PROVE  f[k] = step[<<f[k + 1], k>>]
    BY <1>2, <1>3, <1>6 DEF Recurs, S
  <2> QED BY <2>1, <2>2 DEF FromTheEnd
<1> QED BY <1>2, <1>6, <1>7

\* A set that has the end, and with each place the one before, has all places.
LEMMA BackFromTheEnd ==
  ASSUME NEW Q, LIMBS \in Q, \A k \in 0 .. LIMBS - 1 : k + 1 \in Q => k \in Q
  PROVE  \A k \in 0 .. LIMBS : k \in Q
<1> DEFINE U == {j \in 0 .. LIMBS : LIMBS - j \in Q}
<1>1. LIMBS \in Nat \ {0}
  BY TargetAssumption
<1>2. 0 \in U
  BY <1>1
<1>3. ASSUME NEW j \in 0 .. LIMBS - 1, j \in U
      PROVE  j + 1 \in U
  <2>1. LIMBS - (j + 1) \in 0 .. LIMBS - 1 /\ (LIMBS - (j + 1)) + 1 = LIMBS - j
    BY <1>1
  <2>2. LIMBS - (j + 1) \in Q
    BY <1>3, <2>1
  <2> QED BY <1>1, <2>2
<1> HIDE DEF U
<1>4. \A j \in 0 .. LIMBS : j \in U
  BY <1>1, <1>2, <1>3, UpTo
<1>5. ASSUME NEW k \in 0 .. LIMBS
      PROVE  k \in Q
  <2>1. LIMBS - k \in 0 .. LIMBS /\ LIMBS - (LIMBS - k) = k
    BY <1>1
  <2> QED BY <1>4, <2>1 DEF U
<1> QED BY <1>5

\* What a one in limb k is worth, and what the limbs after k are worth.
Scale(s) ==
  /\ s \in [0 .. LIMBS -> Nat \ {0}]
  /\ s[LIMBS] = 1
  /\ \A k \in 0 .. LIMBS - 1 : s[k] = s[k + 1] * LimbSize
Worth(s, hash, v) ==
  /\ v \in [0 .. LIMBS -> Nat]
  /\ v[LIMBS] = 0
  /\ \A k \in 0 .. LIMBS - 1 : v[k] = s[k + 1] * hash[k + 1] + v[k + 1]
Carry(hash, d, c) ==
  /\ c \in [0 .. LIMBS -> Nat]
  /\ c[LIMBS] = 0
  /\ \A k \in 0 .. LIMBS - 1 : c[k] = (hash[k + 1] * d + c[k + 1]) \div LimbSize

LEMMA ScaleExists == \E s : Scale(s)
<1> DEFINE step == [p \in (Nat \ {0}) \X (0 .. LIMBS - 1) |-> p[1] * LimbSize]
<1>1. LimbSize \in Nat \ {0} /\ LIMBS \in Nat \ {0}
  BY TargetAssumption
<1>2. \A a \in Nat \ {0} : a * LimbSize \in Nat \ {0}
  BY <1>1
<1>3. step \in [(Nat \ {0}) \X (0 .. LIMBS - 1) -> Nat \ {0}] /\ 1 \in Nat \ {0}
  BY <1>2
<1>4. PICK s \in [0 .. LIMBS -> Nat \ {0}] : FromTheEnd(s, 1, step)
  <2> HIDE DEF step
  <2> QED BY <1>3, RecursionFromTheEnd
<1>5. \A k \in 0 .. LIMBS - 1 : s[k] = s[k + 1] * LimbSize
  <2> SUFFICES ASSUME NEW k \in 0 .. LIMBS - 1 PROVE s[k] = s[k + 1] * LimbSize
    OBVIOUS
  <2>1. k + 1 \in 0 .. LIMBS
    BY <1>1
  <2>2. s[k] = step[<<s[k + 1], k>>] /\ s[k + 1] \in Nat \ {0}
    BY <1>4, <2>1 DEF FromTheEnd
  <2> QED BY <2>2
<1>6. s[LIMBS] = 1
  BY <1>4 DEF FromTheEnd
<1> QED BY <1>4, <1>5, <1>6 DEF Scale

LEMMA WorthExists ==
  ASSUME NEW s, Scale(s), NEW hash \in HashLimbs
  PROVE  \E v : Worth(s, hash, v)
<1> DEFINE step == [p \in Nat \X (0 .. LIMBS - 1) |-> s[p[2] + 1] * hash[p[2] + 1] + p[1]]
<1>1. LimbSize \in Nat \ {0} /\ LIMBS \in Nat \ {0}
  BY TargetAssumption
<1>2. \A k \in 0 .. LIMBS - 1 : s[k + 1] \in Nat /\ hash[k + 1] \in Nat
  BY <1>1 DEF Scale, HashLimbs, Limb
<1>3. \A k \in 0 .. LIMBS - 1 : s[k + 1] * hash[k + 1] \in Nat
  BY <1>2
<1>4. step \in [Nat \X (0 .. LIMBS - 1) -> Nat]
  BY <1>3
<1>5. PICK v \in [0 .. LIMBS -> Nat] : FromTheEnd(v, 0, step)
  <2> HIDE DEF step
  <2> QED BY <1>4, RecursionFromTheEnd
<1>6. \A k \in 0 .. LIMBS - 1 : v[k] = s[k + 1] * hash[k + 1] + v[k + 1]
  <2> SUFFICES ASSUME NEW k \in 0 .. LIMBS - 1 PROVE v[k] = s[k + 1] * hash[k + 1] + v[k + 1]
    OBVIOUS
  <2>1. k + 1 \in 0 .. LIMBS
    BY <1>1
  <2>2. v[k] = step[<<v[k + 1], k>>] /\ v[k + 1] \in Nat
    BY <1>5, <2>1 DEF FromTheEnd
  <2> QED BY <2>2
<1>7. v[LIMBS] = 0
  BY <1>5 DEF FromTheEnd
<1> QED BY <1>5, <1>6, <1>7 DEF Worth

LEMMA CarryExists ==
  ASSUME NEW hash \in HashLimbs, NEW d \in Nat \ {0}
  PROVE  \E c : Carry(hash, d, c) /\ (meets_difficulty(hash, d) <=> d <= 1 \/ c[0] = 0)
<1> DEFINE step == [p \in Nat \X (0 .. LIMBS - 1) |->
                      (hash[p[2] + 1] * d + p[1]) \div LimbSize]
           Carried(c) == c = [i \in 0 .. LIMBS |->
                                IF i = LIMBS THEN 0
                                ELSE (hash[i + 1] * d + c[i + 1]) \div LimbSize]
           carry == CHOOSE c : Carried(c)
<1>1. LimbSize \in Nat \ {0} /\ LIMBS \in Nat \ {0}
  BY TargetAssumption
<1>2. \A k \in 0 .. LIMBS - 1 : hash[k + 1] \in Nat
  BY <1>1 DEF HashLimbs, Limb
<1>3. \A k \in 0 .. LIMBS - 1, a \in Nat : (hash[k + 1] * d + a) \div LimbSize \in Nat
  <2> SUFFICES ASSUME NEW h \in Nat, NEW a \in Nat
               PROVE  (h * d + a) \div LimbSize \in Nat
    BY <1>2
  <2>1. h * d \in Nat
    OBVIOUS
  <2>2. h * d + a \in Nat
    BY <2>1
  <2> QED BY <1>1, <2>2, Quotient
<1>4. step \in [Nat \X (0 .. LIMBS - 1) -> Nat]
  BY <1>3
<1>5. PICK f \in [0 .. LIMBS -> Nat] : FromTheEnd(f, 0, step)
  <2> HIDE DEF step
  <2> QED BY <1>4, RecursionFromTheEnd
<1>6. \A k \in 0 .. LIMBS - 1 :
        k + 1 \in 0 .. LIMBS /\ f[k] = (hash[k + 1] * d + f[k + 1]) \div LimbSize
  <2> SUFFICES ASSUME NEW k \in 0 .. LIMBS - 1
               PROVE  k + 1 \in 0 .. LIMBS
                      /\ f[k] = (hash[k + 1] * d + f[k + 1]) \div LimbSize
    OBVIOUS
  <2>1. k + 1 \in 0 .. LIMBS
    BY <1>1
  <2>2. f[k] = step[<<f[k + 1], k>>] /\ f[k + 1] \in Nat
    BY <1>5, <2>1 DEF FromTheEnd
  <2> QED BY <2>1, <2>2
<1> HIDE DEF step
<1>7. f[LIMBS] = 0
  BY <1>5 DEF FromTheEnd
<1>8. Carried(f)
  <2>1. \A i \in 0 .. LIMBS : i # LIMBS => i \in 0 .. LIMBS - 1
    BY <1>1
  <2>2. \A i \in 0 .. LIMBS :
          f[i] = IF i = LIMBS THEN 0 ELSE (hash[i + 1] * d + f[i + 1]) \div LimbSize
    BY <1>6, <1>7, <2>1
  <2> QED BY <1>5, <2>2
<1>9. Carried(carry)
  <2> HIDE DEF Carried
  <2> QED BY <1>8
<1>10. meets_difficulty(hash, d) <=> d <= 1 \/ carry[0] = 0
  BY DEF meets_difficulty
<1> HIDE DEF carry
<1>11. /\ carry[LIMBS] = 0
       /\ \A k \in 0 .. LIMBS - 1 :
            carry[k] = (hash[k + 1] * d + carry[k + 1]) \div LimbSize
  <2>1. LIMBS \in 0 .. LIMBS /\ \A k \in 0 .. LIMBS - 1 : k \in 0 .. LIMBS /\ k # LIMBS
    BY <1>1
  <2> QED BY <1>9, <2>1
<1>12. \A k \in 0 .. LIMBS : carry[k] \in Nat
  <2> DEFINE Q == {k \in 0 .. LIMBS : carry[k] \in Nat}
  <2>1. LIMBS \in Q
    BY <1>1, <1>11
  <2>2. ASSUME NEW k \in 0 .. LIMBS - 1, k + 1 \in Q
        PROVE  k \in Q
    <3>1. carry[k + 1] \in Nat /\ k \in 0 .. LIMBS
      BY <1>1, <2>2
    <3>2. carry[k] \in Nat
      BY <1>3, <1>11, <3>1
    <3> QED BY <3>1, <3>2
  <2> HIDE DEF Q
  <2>3. \A k \in 0 .. LIMBS : k \in Q
    BY <2>1, <2>2, BackFromTheEnd
  <2> QED BY <2>3 DEF Q
<1>13. carry \in [0 .. LIMBS -> Nat]
  <2>1. carry = [i \in 0 .. LIMBS |-> carry[i]]
    BY <1>9
  <2> HIDE DEF Carried
  <2> QED BY <1>12, <2>1
<1> HIDE DEF Carried
<1> QED BY <1>10, <1>11, <1>13 DEF Carry

\* One limb: h more ahead of v, of which a part c went over.
LEMMA CarryGoesOn ==
  ASSUME NEW p \in Nat \ {0}, NEW b \in Nat \ {0}, NEW h \in Nat, NEW d \in Nat,
         NEW c \in Nat, NEW v \in Nat, c * p <= v * d, v * d < (c + 1) * p,
         NEW q, q = (h * d + c) \div b
  PROVE  q * (p * b) <= (p * h + v) * d /\ (p * h + v) * d < (q + 1) * (p * b)
<1> DEFINE m == h * d + c
<1>1. m \in Nat
  OBVIOUS
<1>2. q \in Nat /\ q * b <= m /\ m + 1 <= (q + 1) * b
  <2> HIDE DEF m
  <2>1. q = m \div b
    BY DEF m
  <2>2. q \in Nat /\ m % b \in 0 .. b - 1 /\ m = b * q + (m % b)
    BY <1>1, <2>1, Quotient
  <2>3. b * q = q * b /\ (q + 1) * b = q * b + b /\ q * b \in Nat
    BY <2>2
  <2> QED BY <1>1, <2>2, <2>3
<1>3. (q * b) * p <= m * p
  <2>1. q * b \in Nat
    BY <1>2
  <2> HIDE DEF m
  <2> QED BY <1>1, <1>2, <2>1, TimesKeepsOrder
<1>4. (m + 1) * p <= ((q + 1) * b) * p
  <2>1. (q + 1) * b \in Nat
    BY <1>2
  <2> HIDE DEF m
  <2> QED BY <1>1, <1>2, <2>1, TimesKeepsOrder
<1> DEFINE hdp == (h * d) * p
           cp == c * p
           vd == v * d
<1>5. hdp \in Nat /\ cp \in Nat /\ vd \in Nat
  <2>1. h * d \in Nat
    OBVIOUS
  <2> QED BY <2>1
<1>6. /\ m * p = hdp + cp
      /\ (m + 1) * p = hdp + (c + 1) * p
      /\ (p * h + v) * d = hdp + vd
  OBVIOUS
<1>7. (q * b) * p = q * (p * b) /\ ((q + 1) * b) * p = (q + 1) * (p * b)
  BY <1>2
<1>8. (c + 1) * p \in Nat /\ q * (p * b) \in Nat /\ (q + 1) * (p * b) \in Nat
  <2>1. p * b \in Nat
    OBVIOUS
  <2> QED BY <1>2, <2>1
<1> DEFINE lower == q * (p * b)
           upper == (q + 1) * (p * b)
           whole == (p * h + v) * d
           cp1 == (c + 1) * p
<1>9. /\ lower <= hdp + cp /\ hdp + cp1 <= upper /\ whole = hdp + vd
      /\ cp <= vd /\ vd < cp1 /\ lower \in Nat /\ upper \in Nat /\ cp1 \in Nat
  BY <1>3, <1>4, <1>6, <1>7, <1>8
<1> HIDE DEF lower, upper, whole, cp1, hdp, cp, vd
<1>10. lower <= whole /\ whole < upper
  BY <1>5, <1>9
<1> QED BY <1>10 DEF lower, upper, whole

\* A hash meets a difficulty if their product has no more limbs than the hash.
LEMMA MeetsIsProduct ==
  ASSUME NEW s, Scale(s), NEW hash \in HashLimbs, NEW v, Worth(s, hash, v),
         NEW d \in Nat \ {0}, d = 1 => v[0] < s[0]
  PROVE  meets_difficulty(hash, d) <=> v[0] * d < s[0]
<1>1. LimbSize \in Nat \ {0} /\ LIMBS \in Nat \ {0}
  BY TargetAssumption
<1>2. PICK c : Carry(hash, d, c) /\ (meets_difficulty(hash, d) <=> d <= 1 \/ c[0] = 0)
  BY CarryExists
<1> DEFINE Right(k) == c[k] * s[k] <= v[k] * d /\ v[k] * d < (c[k] + 1) * s[k]
           Q == {k \in 0 .. LIMBS : Right(k)}
<1>3. LIMBS \in Q
  <2>1. c[LIMBS] = 0 /\ v[LIMBS] = 0 /\ s[LIMBS] = 1 /\ LIMBS \in 0 .. LIMBS
    BY <1>1, <1>2 DEF Carry, Worth, Scale
  <2>2. 0 * 1 <= 0 * d /\ 0 * d < (0 + 1) * 1
    OBVIOUS
  <2> QED BY <2>1, <2>2
<1>4. ASSUME NEW k \in 0 .. LIMBS - 1, k + 1 \in Q
      PROVE  k \in Q
  <2>1. k \in 0 .. LIMBS /\ k + 1 \in 0 .. LIMBS /\ Right(k + 1)
    BY <1>1, <1>4
  <2>2. /\ c[k] = (hash[k + 1] * d + c[k + 1]) \div LimbSize /\ c[k + 1] \in Nat
        /\ v[k] = s[k + 1] * hash[k + 1] + v[k + 1] /\ v[k + 1] \in Nat
        /\ s[k] = s[k + 1] * LimbSize /\ s[k + 1] \in Nat \ {0}
        /\ hash[k + 1] \in Nat
    <3>1. c[k] = (hash[k + 1] * d + c[k + 1]) \div LimbSize /\ c[k + 1] \in Nat
      BY <1>2, <2>1 DEF Carry
    <3>2. v[k] = s[k + 1] * hash[k + 1] + v[k + 1] /\ v[k + 1] \in Nat
      BY <2>1 DEF Worth
    <3>3. s[k] = s[k + 1] * LimbSize /\ s[k + 1] \in Nat \ {0}
      BY <2>1 DEF Scale
    <3>4. hash[k + 1] \in Nat
      BY <1>1, <2>1 DEF HashLimbs, Limb
    <3> QED BY <3>1, <3>2, <3>3, <3>4
  <2>3. /\ c[k] * (s[k + 1] * LimbSize) <= (s[k + 1] * hash[k + 1] + v[k + 1]) * d
        /\ (s[k + 1] * hash[k + 1] + v[k + 1]) * d < (c[k] + 1) * (s[k + 1] * LimbSize)
    BY <1>1, <2>1, <2>2, CarryGoesOn
  <2> QED BY <2>1, <2>2, <2>3
<1>5. Right(0)
  <2>1. 0 \in 0 .. LIMBS
    BY <1>1
  <2> HIDE DEF Q
  <2>2. 0 \in Q
    BY <1>3, <1>4, <2>1, BackFromTheEnd
  <2> QED BY <2>2 DEF Q
<1> HIDE DEF Q
<1> DEFINE c0 == c[0]
           s0 == s[0]
           n == v[0] * d
<1>6. c0 \in Nat /\ s0 \in Nat \ {0} /\ v[0] \in Nat
  <2>1. 0 \in 0 .. LIMBS
    BY <1>1
  <2> QED BY <1>2, <2>1 DEF Carry, Worth, Scale
<1>7. n \in Nat /\ (d = 1 => n < s0)
  BY <1>6
<1>8. c0 * s0 <= n /\ n < (c0 + 1) * s0
  BY <1>5
<1> HIDE DEF c0, s0, n
<1>9. c0 = 0 <=> n < s0
  <2>1. c0 = 0 => n < s0
    BY <1>6, <1>8
  <2>2. ASSUME c0 # 0
        PROVE  s0 <= n
    <3>1. 1 * s0 <= c0 * s0
      BY <1>6, <2>2, TimesKeepsOrder
    <3>2. c0 * s0 \in Nat
      BY <1>6
    <3> QED BY <1>6, <1>7, <1>8, <3>1, <3>2
  <2> QED BY <1>6, <1>7, <2>1, <2>2
<1> QED BY <1>2, <1>7, <1>9 DEF c0, s0, n

\* The hash that is worth n.
HashOf(s, n) == [i \in 1 .. LIMBS |-> (n \div s[i]) % LimbSize]

LEMMA HashOfIsWorth ==
  ASSUME NEW s, Scale(s), NEW n \in 0 .. s[0] - 1
  PROVE  /\ HashOf(s, n) \in HashLimbs
         /\ \E v : Worth(s, HashOf(s, n), v) /\ v[0] = n
<1> DEFINE hash == HashOf(s, n)
           v == [k \in 0 .. LIMBS |-> n % s[k]]
<1>1. /\ LimbSize \in Nat \ {0} /\ LIMBS \in Nat \ {0} /\ 0 \in 0 .. LIMBS
      /\ \A k \in 0 .. LIMBS : s[k] \in Nat \ {0}
      /\ s[LIMBS] = 1
  BY TargetAssumption DEF Scale
<1>2. n \in Nat
  BY <1>1
<1>3. \A i \in 1 .. LIMBS : /\ i \in 0 .. LIMBS /\ n \div s[i] \in Nat
                            /\ hash[i] = (n \div s[i]) % LimbSize
  <2> SUFFICES ASSUME NEW i \in 1 .. LIMBS
               PROVE  /\ i \in 0 .. LIMBS /\ n \div s[i] \in Nat
                      /\ hash[i] = (n \div s[i]) % LimbSize
    OBVIOUS
  <2>1. i \in 0 .. LIMBS /\ s[i] \in Nat \ {0}
    BY <1>1
  <2> QED BY <1>2, <2>1, Quotient DEF HashOf
<1>4. hash \in HashLimbs
  <2>1. \A i \in 1 .. LIMBS : (n \div s[i]) % LimbSize \in 0 .. LimbSize - 1
    BY <1>1, <1>3, Quotient
  <2> QED BY <2>1 DEF HashOf, HashLimbs, Limb
<1>5. ASSUME NEW k \in 0 .. LIMBS - 1
      PROVE  v[k] = s[k + 1] * hash[k + 1] + v[k + 1]
  <2> DEFINE p == s[k + 1]
             a == n \div p
             r == n % p
             e == a \div LimbSize
             f == a % LimbSize
  <2>1. /\ k \in 0 .. LIMBS /\ k + 1 \in 0 .. LIMBS /\ k + 1 \in 1 .. LIMBS
        /\ p \in Nat \ {0} /\ s[k] = p * LimbSize
    BY <1>1 DEF Scale
  <2>2. v[k] = n % (p * LimbSize) /\ v[k + 1] = r /\ hash[k + 1] = f
    BY <1>3, <2>1
  <2> HIDE DEF p, v, hash
  <2>3. a \in Nat /\ r \in 0 .. p - 1 /\ n = p * a + r
    BY <1>2, <2>1, Quotient
  <2> HIDE DEF a, r
  <2>4. e \in Nat /\ f \in 0 .. LimbSize - 1 /\ a = LimbSize * e + f
    BY <1>1, <2>3, Quotient
  <2> HIDE DEF e, f
  <2> DEFINE q == p * LimbSize
             t == p * f + r
  <2>5. q \in Nat \ {0}
    BY <1>1, <2>1
  <2>6. t \in 0 .. q - 1
    <3>1. f * p <= (LimbSize - 1) * p
      BY <1>1, <2>1, <2>4, TimesKeepsOrder
    <3>2. (LimbSize - 1) * p = q - p /\ f * p = p * f /\ p * f \in Nat
      BY <1>1, <2>1, <2>4
    <3> HIDE DEF q
    <3> QED BY <2>1, <2>3, <2>5, <3>1, <3>2
  <2>7. n = q * e + t
    <3>1. p * a = q * e + p * f
      BY <1>1, <2>1, <2>4
    <3>2. p * a \in Nat /\ q * e \in Nat /\ p * f \in Nat
      BY <1>1, <2>1, <2>3, <2>4, <2>5
    <3> HIDE DEF q
    <3> QED BY <2>3, <3>1, <3>2
  <2> HIDE DEF q, t
  <2>8. n % q = t
    BY <2>4, <2>5, <2>6, <2>7, RemainderIs
  <2> QED BY <2>2, <2>8 DEF q, t, p
<1>6. v \in [0 .. LIMBS -> Nat] /\ v[LIMBS] = 0 /\ v[0] = n
  <2>1. \A k \in 0 .. LIMBS : n % s[k] \in Nat
    <3> SUFFICES ASSUME NEW k \in 0 .. LIMBS PROVE n % s[k] \in Nat
      OBVIOUS
    <3> DEFINE q == s[k]
    <3>1. q \in Nat \ {0}
      BY <1>1
    <3> HIDE DEF q
    <3>2. n % q \in 0 .. q - 1
      BY <1>2, <3>1, Quotient
    <3>3. n % q \in Nat
      BY <3>1, <3>2
    <3> QED BY <3>3 DEF q
  <2>2. n % 1 = 0
    BY <1>2
  <2>3. n % s[0] = n
    <3>1. s[0] \in Nat \ {0} /\ n \in 0 .. s[0] - 1
      BY <1>1
    <3>2. (s[0] * 0 + n) % s[0] = n
      BY <3>1, RemainderIs
    <3> QED BY <1>2, <3>1, <3>2
  <2> QED BY <1>1, <2>1, <2>2, <2>3
<1> HIDE DEF v
<1>7. Worth(s, hash, v)
  BY <1>5, <1>6 DEF Worth
<1> QED BY <1>4, <1>6, <1>7

LEMMA WorthBelowScale ==
  ASSUME NEW s, Scale(s), NEW hash \in HashLimbs, NEW v, Worth(s, hash, v)
  PROVE  \A k \in 0 .. LIMBS : v[k] \in 0 .. s[k] - 1
<1> DEFINE Q == {k \in 0 .. LIMBS : v[k] < s[k]}
<1>1. /\ LimbSize \in Nat \ {0} /\ LIMBS \in Nat \ {0}
      /\ \A k \in 0 .. LIMBS : s[k] \in Nat \ {0} /\ v[k] \in Nat
  BY TargetAssumption DEF Scale, Worth
<1>2. LIMBS \in Q
  BY <1>1 DEF Scale, Worth
<1>3. ASSUME NEW k \in 0 .. LIMBS - 1, k + 1 \in Q
      PROVE  k \in Q
  <2> DEFINE p == s[k + 1]
             h == hash[k + 1]
             x == v[k + 1]
  <2>1. /\ k \in 0 .. LIMBS /\ k + 1 \in 0 .. LIMBS /\ x < p
        /\ p \in Nat \ {0} /\ x \in Nat /\ h \in 0 .. LimbSize - 1
        /\ s[k] = p * LimbSize /\ v[k] = p * h + x
    BY <1>1, <1>3 DEF Scale, Worth, HashLimbs, Limb
  <2> HIDE DEF p, h, x
  <2>2. (h + 1) * p <= LimbSize * p
    BY <1>1, <2>1, TimesKeepsOrder
  <2>3. /\ (h + 1) * p = p * h + p /\ LimbSize * p = p * LimbSize
        /\ p * h \in Nat /\ p * LimbSize \in Nat
    BY <1>1, <2>1
  <2>4. p * h + x < p * LimbSize
    BY <2>1, <2>2, <2>3
  <2> QED BY <2>1, <2>4
<1> HIDE DEF Q
<1>4. \A k \in 0 .. LIMBS : k \in Q
  BY <1>2, <1>3, BackFromTheEnd
<1> QED BY <1>1, <1>4 DEF Q

\* Hashes that are worth the same are the same.
LEMMA WorthDecides ==
  ASSUME NEW s, Scale(s), NEW a \in HashLimbs, NEW v, Worth(s, a, v),
         NEW b \in HashLimbs, NEW w, Worth(s, b, w), v[0] = w[0]
  PROVE  a = b
<1> DEFINE Q == {k \in 0 .. LIMBS : v[k] = w[k] /\ \A i \in 1 .. k : a[i] = b[i]}
<1>1. /\ LimbSize \in Nat \ {0} /\ LIMBS \in Nat \ {0}
      /\ \A k \in 0 .. LIMBS : s[k] \in Nat \ {0}
  BY TargetAssumption DEF Scale
<1>2. 0 \in Q
  BY <1>1
<1>3. ASSUME NEW k \in 0 .. LIMBS - 1, k \in Q
      PROVE  k + 1 \in Q
  <2> DEFINE p == s[k + 1]
             g == a[k + 1]
             h == b[k + 1]
             x == v[k + 1]
             y == w[k + 1]
  <2>1. k + 1 \in 0 .. LIMBS /\ v[k] = w[k]
    BY <1>1, <1>3
  <2>2. x \in 0 .. p - 1 /\ y \in 0 .. p - 1
    BY <2>1, WorthBelowScale
  <2>3. p \in Nat \ {0} /\ g \in Nat /\ h \in Nat /\ p * g + x = p * h + y
    BY <1>1, <2>1 DEF Scale, Worth, HashLimbs, Limb
  <2>4. x = y /\ g = h
    <3> HIDE DEF p, g, h, x, y
    <3>1. (p * g + x) % p = x /\ (p * h + y) % p = y
      BY <2>2, <2>3, RemainderIs
    <3>2. x = y
      BY <2>3, <3>1
    <3>3. p * g = p * h
      <4>1. p * g \in Nat /\ p * h \in Nat /\ x \in Nat
        BY <2>2, <2>3
      <4> QED BY <2>3, <3>2, <4>1
    <3>4. ASSUME NEW c \in Nat, NEW e \in Nat, c < e
          PROVE  p * c # p * e
      <4>1. (c + 1) * p <= e * p
        BY <2>3, <3>4, TimesKeepsOrder
      <4>2. (c + 1) * p = p * c + p /\ e * p = p * e /\ p * c \in Nat /\ p * e \in Nat
        BY <2>3
      <4> QED BY <2>3, <4>1, <4>2
    <3>5. ~(g < h) /\ ~(h < g)
      BY <2>3, <3>3, <3>4
    <3> QED BY <2>3, <3>2, <3>5
  <2>5. \A i \in 1 .. k + 1 : i \in 1 .. k \/ i = k + 1
    OBVIOUS
  <2> QED BY <1>3, <2>1, <2>4, <2>5
<1> HIDE DEF Q
<1>4. LIMBS \in Q
  <2>1. \A k \in 0 .. LIMBS : k \in Q
    BY <1>1, <1>2, <1>3, UpTo
  <2> QED BY <1>1, <2>1
<1> QED BY <1>1, <1>4 DEF Q, HashLimbs

\* As many hashes as there are numbers below s[0], and as many of them meet a
\* difficulty as there are numbers whose product with it is below s[0].
LEMMA HashesAreNumbers ==
  ASSUME NEW s, Scale(s), NEW T \in SUBSET (0 .. s[0] - 1), IsFiniteSet(T),
         NEW H \in SUBSET HashLimbs,
         \A hash \in HashLimbs : \A v : Worth(s, hash, v) => (hash \in H <=> v[0] \in T)
  PROVE  Cardinality(H) = Cardinality(T)
<1> DEFINE f == [n \in T |-> HashOf(s, n)]
<1>1. ASSUME NEW n \in T
      PROVE  /\ f[n] \in H
             /\ \E v : Worth(s, f[n], v) /\ v[0] = n
  <2>1. n \in 0 .. s[0] - 1 /\ f[n] = HashOf(s, n)
    OBVIOUS
  <2> HIDE DEF f
  <2>2. f[n] \in HashLimbs /\ \E v : Worth(s, f[n], v) /\ v[0] = n
    BY <2>1, HashOfIsWorth
  <2> QED BY <2>2
<1>2. f \in [T -> H]
  BY <1>1
<1>3. ASSUME NEW m \in T, NEW n \in T, f[m] = f[n]
      PROVE  m = n
  <2> HIDE DEF f
  <2>1. PICK v : Worth(s, f[m], v) /\ v[0] = m
    BY <1>1
  <2>2. PICK w : Worth(s, f[n], w) /\ w[0] = n
    BY <1>1
  <2>3. \A k \in 0 .. LIMBS : v[k] = w[k]
    <3> DEFINE Q == {k \in 0 .. LIMBS : v[k] = w[k]}
    <3>1. LIMBS \in Nat \ {0}
      BY TargetAssumption
    <3>2. LIMBS \in Q
      BY <2>1, <2>2, <3>1 DEF Worth
    <3>3. ASSUME NEW k \in 0 .. LIMBS - 1, k + 1 \in Q
          PROVE  k \in Q
      BY <1>3, <2>1, <2>2, <3>1, <3>3 DEF Worth
    <3> HIDE DEF Q
    <3>4. \A k \in 0 .. LIMBS : k \in Q
      BY <3>2, <3>3, BackFromTheEnd
    <3> QED BY <3>4 DEF Q
  <2>4. 0 \in 0 .. LIMBS
    BY TargetAssumption
  <2> QED BY <2>1, <2>2, <2>3, <2>4
<1>4. ASSUME NEW hash \in H
      PROVE  \E n \in T : f[n] = hash
  <2>1. PICK v : Worth(s, hash, v)
    BY WorthExists
  <2>2. v[0] \in T /\ f[v[0]] = HashOf(s, v[0])
    BY <2>1
  <2> HIDE DEF f
  <2>3. PICK w : Worth(s, f[v[0]], w) /\ w[0] = v[0]
    BY <1>1, <2>2
  <2>4. f[v[0]] \in HashLimbs /\ hash \in HashLimbs
    BY <1>1, <2>2
  <2>5. f[v[0]] = hash
    BY <2>1, <2>3, <2>4, WorthDecides
  <2> QED BY <2>2, <2>5
<1> HIDE DEF f
<1>5. f \in Bijection(T, H)
  <2>1. DOMAIN f = T
    BY <1>2
  <2> QED BY <1>2, <1>3, <1>4, <2>1 DEF Bijection, Injection, Surjection, IsInjective
<1>6. ExistsBijection(T, H)
  BY <1>5 DEF ExistsBijection
<1> QED BY <1>6, FS_Bijection

\* One hash in d meets the difficulty d.
LEMMA OneInDifficultyMeets ==
  ASSUME NEW d \in Nat \ {0}
  PROVE  LET meeting == Cardinality({hash \in HashLimbs : meets_difficulty(hash, d)})
         IN  /\ meeting * d >= Cardinality(HashLimbs)
             /\ (meeting - 1) * d < Cardinality(HashLimbs)
<1> DEFINE M == {hash \in HashLimbs : meets_difficulty(hash, d)}
<1>1. PICK s : Scale(s)
  BY ScaleExists
<1>2. 0 \in 0 .. LIMBS
  BY TargetAssumption
<1> DEFINE all == s[0]
           most == (all - 1) \div d
<1>3. all \in Nat \ {0}
  BY <1>1, <1>2 DEF Scale
<1>4. most \in Nat /\ d * most <= all - 1 /\ all - 1 < d * most + d /\ d * most \in Nat
  <2> DEFINE x == all - 1
             r == x % d
  <2>1. x \in Nat
    BY <1>3
  <2> HIDE DEF x
  <2>2. x \div d \in Nat /\ r \in 0 .. d - 1 /\ x = d * (x \div d) + r
    BY <2>1, Quotient
  <2>3. most = x \div d
    BY DEF x
  <2> HIDE DEF r, most
  <2>4. d * most \in Nat /\ x = d * most + r /\ r \in Nat /\ r < d
    BY <2>2, <2>3
  <2>5. most \in Nat /\ d * most <= x /\ x < d * most + d
    BY <2>1, <2>2, <2>3, <2>4
  <2> QED BY <2>4, <2>5 DEF x
<1> HIDE DEF all, most
<1>5. ASSUME NEW n \in 0 .. all - 1
      PROVE  n * d < all <=> n \in 0 .. most
  <2>1. n \in Nat /\ n * d \in Nat
    BY <1>3
  <2>2. ASSUME n <= most
        PROVE  n * d < all
    <3>1. n * d <= most * d
      BY <1>4, <2>1, <2>2, TimesKeepsOrder
    <3>2. most * d = d * most
      BY <1>4
    <3> QED BY <1>3, <1>4, <2>1, <3>1, <3>2
  <2>3. ASSUME n > most
        PROVE  n * d >= all
    <3>1. (most + 1) * d <= n * d
      BY <1>4, <2>1, <2>3, TimesKeepsOrder
    <3>2. (most + 1) * d = d * most + d
      BY <1>4
    <3> QED BY <1>3, <1>4, <2>1, <3>1, <3>2
  <2> QED BY <1>3, <1>4, <2>1, <2>2, <2>3
<1>6. most <= all - 1
  <2>1. 1 * most <= d * most
    BY <1>4, TimesKeepsOrder
  <2> QED BY <1>3, <1>4, <2>1
<1>7. \A hash \in HashLimbs : \A v : Worth(s, hash, v) =>
        v[0] \in 0 .. all - 1 /\ (hash \in M <=> v[0] \in 0 .. most)
  <2> SUFFICES ASSUME NEW hash \in HashLimbs, NEW v, Worth(s, hash, v)
               PROVE  v[0] \in 0 .. all - 1 /\ (hash \in M <=> v[0] \in 0 .. most)
    OBVIOUS
  <2>1. v[0] \in 0 .. all - 1
    BY <1>1, <1>2, WorthBelowScale DEF all
  <2>2. v[0] < all
    BY <1>3, <2>1
  <2>3. meets_difficulty(hash, d) <=> v[0] * d < all
    BY <1>1, <2>2, MeetsIsProduct DEF all
  <2> QED BY <1>5, <2>1, <2>3
<1>8. Cardinality(HashLimbs) = all
  <2>1. IsFiniteSet(0 .. all - 1) /\ Cardinality(0 .. all - 1) = all
    BY <1>3, FS_Interval
  <2>2. Cardinality(HashLimbs) = Cardinality(0 .. all - 1)
    BY <1>1, <1>7, <2>1, HashesAreNumbers DEF all
  <2> QED BY <2>1, <2>2
<1>9. Cardinality(M) = most + 1
  <2>1. IsFiniteSet(0 .. most) /\ Cardinality(0 .. most) = most + 1
    BY <1>4, FS_Interval
  <2>2. 0 .. most \in SUBSET (0 .. all - 1) /\ M \in SUBSET HashLimbs
    BY <1>3, <1>4, <1>6
  <2> HIDE DEF M
  <2>3. Cardinality(M) = Cardinality(0 .. most)
    BY <1>1, <1>7, <2>1, <2>2, HashesAreNumbers DEF all
  <2> QED BY <2>1, <2>3
<1>10. (most + 1) * d = d * most + d /\ ((most + 1) - 1) * d = d * most
  BY <1>4
<1>11. (most + 1) * d >= all /\ ((most + 1) - 1) * d < all
  BY <1>3, <1>4, <1>10
<1> HIDE DEF M
<1>12. Cardinality(M) * d >= all /\ (Cardinality(M) - 1) * d < all
  BY <1>9, <1>11
<1> QED BY <1>8, <1>12 DEF M

\* A branch is heavier for the hashes it took to find it: what a stored block adds
\* to the work of its parent's branch is its difficulty, at most u64::MAX whatever
\* the retargets made of it, and the limb by limb product of meets_difficulty lets
\* one hash in as many through, for any number of limbs of any size.
THEOREM WorkCountsEffort == Spec => []WorkIsEffort
<1>1. IndInv => WorkIsEffort
  <2> SUFFICES ASSUME IndInv, NEW h \in blocks \ {Genesis}
               PROVE  LET added == work[h] - work[Parent(h)]
                          meeting == Cardinality(Meeting[Difficulty(h)])
                      IN  /\ meeting * added >= Cardinality(HashLimbs)
                          /\ (meeting - 1) * added < Cardinality(HashLimbs)
    BY DEF WorkIsEffort
  <2>1. h \in Hash /\ Parent(h) \in blocks
    <3>1. h \in Hash /\ h # Genesis
      BY DEF IndInv, TypeOK
    <3>2. Parent(h) \in Ancestors(h)
      BY <3>1, ParentIsHash, LenProperties DEF Parent, Ancestors, Height
    <3> QED BY <3>1, <3>2 DEF IndInv, StoreIsSound, ClosedUnderAncestors
  <2> DEFINE d == Difficulty(h)
  <2>2. d \in 1 .. MaxDifficulty /\ d \in Nat \ {0}
    BY <2>1, HeaderNumbers
  <2>3. work[h] = work[Parent(h)] + d /\ work[Parent(h)] \in Nat
    BY <2>1 DEF IndInv, StoreIsSound, WorkAccumulates, TypeOK
  <2> HIDE DEF d
  <2>4. work[h] - work[Parent(h)] = d
    BY <2>2, <2>3
  <2>5. Meeting[d] = {hash \in HashLimbs : meets_difficulty(hash, d)}
    BY <2>2 DEF Meeting
  <2> QED BY <2>2, <2>4, <2>5, OneInDifficultyMeets DEF d
<1> QED BY <1>1, ChainInvariant, PTL
=============================================================================
