------------------------------- MODULE Supply -------------------------------
(***************************************************************************)
(* The issuance schedule that a holder of the coin relies on: the k-th     *)
(* useful-work task ever settled creates exactly the reward that the       *)
(* schedule names for it, never beyond the cap, and nothing else creates   *)
(* or destroys coins.  Transfers, fees, forfeited commitments and the      *)
(* block in which a task settles do not show here.                         *)
(***************************************************************************)
EXTENDS Integers

CONSTANTS Premine, Cap, RewardOf(_)

VARIABLES issued, settled

Init == issued = Premine /\ settled = 0

Settle ==
  /\ settled' = settled + 1
  /\ issued' = IF RewardOf(settled) <= Cap - issued
               THEN issued + RewardOf(settled) ELSE Cap

Spec == Init /\ [][Settle]_<<issued, settled>>
=============================================================================
