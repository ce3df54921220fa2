------------------------------- MODULE Target -------------------------------
(***************************************************************************)
(* The target of a difficulty: meets_difficulty of types.rs, a product of  *)
(* a hash and a difficulty carried from limb to limb.  A hash is its limbs,*)
(* the most significant first; a difficulty fits in one limb.              *)
(***************************************************************************)
EXTENDS Integers, FiniteSets

CONSTANTS
  LIMBS,      \* 4 in the code
  LimbSize    \* the numbers that fit in a limb: 2^64 in the code

ASSUME TargetAssumption == LIMBS \in Nat \ {0} /\ LimbSize \in Nat \ {0}

Limb == 0 .. LimbSize - 1
HashLimbs == [1 .. LIMBS -> Limb]

\* Mutant: the carry of the limb below is forgotten.
meets_difficultyNoCarry(hash, difficulty) ==
  difficulty <= 1 \/ (hash[1] * difficulty) \div LimbSize = 0

\* carry[i] is what goes over to limb i from the limbs after it.
meets_difficulty(hash, difficulty) ==
  LET carry[i \in 0 .. LIMBS] ==
        IF i = LIMBS THEN 0
        ELSE (hash[i + 1] * difficulty + carry[i + 1]) \div LimbSize
  IN  difficulty <= 1 \/ carry[0] = 0
=============================================================================
