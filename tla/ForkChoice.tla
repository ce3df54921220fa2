----------------------------- MODULE ForkChoice -----------------------------
(***************************************************************************)
(* What the block store and fork choice of a node promise, with no ledger, *)
(* no snapshots, no index and no restarts: blocks are learnt one at a time,*)
(* parents first; the weight of a block is its parent's plus its own       *)
(* difficulty; the tip is the heaviest known block, and among equally      *)
(* heavy ones the one that was the first to reach that weight.             *)
(***************************************************************************)
EXTENDS Integers

CONSTANTS Block, Root, ParentOf(_), DifficultyOf(_)

VARIABLES known, weight, tip

Init ==
  /\ known = {Root}
  /\ weight = [b \in {Root} |-> 0]
  /\ tip = Root

Learn(b) ==
  /\ b \in Block \ known
  /\ ParentOf(b) \in known
  /\ known' = known \cup {b}
  /\ weight' = [x \in known \cup {b} |->
                  IF x = b THEN weight[ParentOf(b)] + DifficultyOf(b)
                  ELSE weight[x]]
  /\ tip' = IF weight[ParentOf(b)] + DifficultyOf(b) > weight[tip] THEN b ELSE tip

\* The learnt block is one that is known afterwards, which leaves TLC the few
\* blocks of known' to look at instead of all of Block.
Next == \E b \in known' : Learn(b)

Spec == Init /\ [][Next]_<<known, weight, tip>>
=============================================================================
