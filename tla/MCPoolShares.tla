---------------------------- MODULE MCPoolShares ----------------------------
(***************************************************************************)
(* An instance of PoolShares for TLC: one miner with three shares, two of  *)
(* which win a block.  Shares of different miners meet nowhere but in the  *)
(* order of the window and in what the node owes, which other miners'      *)
(* blocks stand for.                                                       *)
(***************************************************************************)
EXTENDS PoolShares

CONSTANTS m1, s1, s2, s3

FirstFindsAll == [s \in Share |-> m1]
=============================================================================
