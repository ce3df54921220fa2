---------------------------- MODULE MCPoolLedger ----------------------------
(***************************************************************************)
(* An instance of PoolLedger for TLC: two miners that share each block two   *)
(* to one, with a remainder, and two blocks of the pool that settle.  The    *)
(* reward is steady, or halves after the first block.                        *)
(***************************************************************************)
EXTENDS PoolLedger

CONSTANTS m1, m2

UnevenWindow == {[m \in Miner |-> IF m = m1 THEN 2 ELSE 1]}
SteadyReward == [h \in 1 .. MaxHeight + 1 |-> 7]
HalvingReward == [h \in 1 .. MaxHeight + 1 |-> IF h = 1 THEN 8 ELSE 4]
NoFees == [h \in 1 .. MaxHeight |-> 0]
=============================================================================
