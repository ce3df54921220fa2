----------------------------- MODULE Transfers -----------------------------
(***************************************************************************)
(* Executing transactions on accounts: apply_transaction of state.rs and   *)
(* the loop of apply_block over it.  Ledger puts blocks and rewards on top *)
(* of it, Mempool selects transactions for it.                             *)
(*                                                                         *)
(* An account is [balance, nonce]; one that was never touched has both 0.  *)
(***************************************************************************)
EXTENDS Integers, Sequences, FiniteSets, SequencesExt

CONSTANTS
  Address,
  Amounts, Fees,        \* bound: amounts and fees of the transactions offered
  MaxNonce              \* bound: nonces of the transactions offered

\* An address is 20 bytes, an amount and a fee a u64.
ASSUME TransfersAssumption ==
  /\ IsFiniteSet(Address)
  /\ Amounts \subseteq Nat
  /\ Fees \subseteq Nat
  /\ MaxNonce \in Nat

Tx == {t \in [from: Address, to: Address, amount: Amounts, fee: Fees,
              nonce: 0 .. MaxNonce] : t.from # t.to}

\* A running block: whether it is still valid, the accounts, the fees so far.
Scratch(accts) == [ok |-> TRUE, accounts |-> accts, fees |-> 0]

\* Mutant: the fee is collected without being debited.
apply_transactionFreeFee(run, t) ==
  LET acct == run.accounts
  IN  IF run.ok /\ t.nonce = acct[t.from].nonce
                /\ acct[t.from].balance >= t.amount
      THEN [ok |-> TRUE,
            accounts |-> [acct EXCEPT
              ![t.from] = [balance |-> @.balance - t.amount, nonce |-> @.nonce + 1],
              ![t.to].balance = @ + t.amount],
            fees |-> run.fees + t.fee]
      ELSE [run EXCEPT !.ok = FALSE]

\* Mutant: any nonce from the expected one on is taken.
apply_transactionGap(run, t) ==
  LET acct  == run.accounts
      total == t.amount + t.fee
  IN  IF run.ok /\ t.nonce >= acct[t.from].nonce
                /\ acct[t.from].balance >= total
      THEN [ok |-> TRUE,
            accounts |-> [acct EXCEPT
              ![t.from] = [balance |-> @.balance - total, nonce |-> @.nonce + 1],
              ![t.to].balance = @ + t.amount],
            fees |-> run.fees + t.fee]
      ELSE [run EXCEPT !.ok = FALSE]

\* Mutant: only the amount is checked against the balance.
apply_transactionUncheckedFee(run, t) ==
  LET acct  == run.accounts
      total == t.amount + t.fee
  IN  IF run.ok /\ t.nonce = acct[t.from].nonce
                /\ acct[t.from].balance >= t.amount
      THEN [ok |-> TRUE,
            accounts |-> [acct EXCEPT
              ![t.from] = [balance |-> @.balance - total, nonce |-> @.nonce + 1],
              ![t.to].balance = @ + t.amount],
            fees |-> run.fees + t.fee]
      ELSE [run EXCEPT !.ok = FALSE]

\* Debits amount and fee, credits the amount, takes the nonce.
apply_transaction(run, t) ==
  LET acct  == run.accounts
      total == t.amount + t.fee
  IN  IF run.ok /\ t.nonce = acct[t.from].nonce
                /\ acct[t.from].balance >= total
      THEN [ok |-> TRUE,
            accounts |-> [acct EXCEPT
              ![t.from] = [balance |-> @.balance - total, nonce |-> @.nonce + 1],
              ![t.to].balance = @ + t.amount],
            fees |-> run.fees + t.fee]
      ELSE [run EXCEPT !.ok = FALSE]

\* Each transaction meets the accounts that the ones before it left behind.
RunTransactions(accts, txs) == FoldLeft(apply_transaction, Scratch(accts), txs)
=============================================================================
