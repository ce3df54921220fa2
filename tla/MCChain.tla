------------------------------ MODULE MCChain ------------------------------
(***************************************************************************)
(* Instances of Chain for TLC.  Three blocks in a row on one branch and    *)
(* two on another are few enough for two reorganisations, the second one   *)
(* back onto a branch with a snapshot of its own.                          *)
(***************************************************************************)
EXTENDS ChainWork

\* Steady difficulty: blocks always come at the same pace and no retarget
\* falls below MaxHeight, so branches differ in weight by their length only.
SteadyGaps == {1}
NoRetarget == MaxHeight + 1

\* Swinging difficulty: with a retarget every 2 blocks and 4 seconds per block,
\* a gap of 1 quadruples the difficulty and a gap of 16 quarters it, so that a
\* short branch can be heavier than a long one.
SwingingGaps == {1, 16}
=============================================================================
