---------------------------- MODULE MCChainCrash ----------------------------
(***************************************************************************)
(* An instance of ChainCrash for TLC: two block times as seen by siblings, *)
(* steady difficulty, a snapshot every second block.                       *)
(***************************************************************************)
EXTENDS ChainCrash

SteadyGaps == {1, 2}
NoRetarget == MaxHeight + 1
=============================================================================
