----------------------------- MODULE ChainWork ------------------------------
(***************************************************************************)
(* What the work of a chain means: Chain's sums of difficulties measured   *)
(* in the attempts that Target makes them cost.                            *)
(***************************************************************************)
EXTENDS Chain, Target

\* The hashes that meet each difficulty, worked out once.
Meeting ==
  [d \in 1 .. MaxDifficulty |-> {hash \in HashLimbs : meets_difficulty(hash, d)}]

\* The heaviest branch is the one that took the most attempts to find: whatever
\* retargeting makes of the difficulty of a stored block, one hash in as many as
\* the block adds to the work of its branch meets it (types.rs:312-315, exactly).
WorkIsEffort ==
  \A h \in blocks \ {Genesis} :
    LET added == work[h] - work[Parent(h)]
        meeting == Cardinality(Meeting[Difficulty(h)])
    IN  /\ meeting * added >= Cardinality(HashLimbs)
        /\ (meeting - 1) * added < Cardinality(HashLimbs)
=============================================================================
