----------------------------- MODULE MCMempool -----------------------------
(* Two accounts; alice can pay for each of her transactions but not for three *)
(* of the dear ones, and with three fees a sender's transactions may need as  *)
(* many passes as it has nonces.                                              *)
EXTENDS Mempool

CONSTANTS alice, bob

MCHash ==
  [t \in Tx |-> 100 * (IF t.from = alice THEN 1 ELSE 0) + 10 * t.nonce + t.fee]
MCFunds == [a \in Address |-> IF a = alice THEN 8 ELSE 2]
=============================================================================
