-------------------------- MODULE TransfersProofs --------------------------
(***************************************************************************)
(* Lemmas about the execution of transactions: what one transaction does   *)
(* to the accounts, and that a list of them is executed one by one.        *)
(***************************************************************************)
EXTENDS Transfers, FoldLemmas, SequenceTheorems

Account == [balance: Nat, nonce: Nat]
Accounts == [Address -> Account]
Runs == [ok: BOOLEAN, accounts: Accounts, fees: Nat]

Balances(accts) == [a \in Address |-> accts[a].balance]

\* All the coins of some accounts.
Money(accts) == SumFunctionOnSet(Balances(accts), Address)

LEMMA TxType ==
  ASSUME NEW t \in Tx
  PROVE  /\ t.from \in Address /\ t.to \in Address /\ t.from # t.to
         /\ t.amount \in Nat /\ t.fee \in Nat /\ t.nonce \in Nat
<1>1. t \in [from: Address, to: Address, amount: Amounts, fee: Fees,
              nonce: 0 .. MaxNonce] /\ t.from # t.to
  BY DEF Tx
<1>2. /\ t.from \in Address /\ t.to \in Address
      /\ t.amount \in Amounts /\ t.fee \in Fees /\ t.nonce \in 0 .. MaxNonce
  BY <1>1
<1>3. Amounts \subseteq Nat /\ Fees \subseteq Nat /\ MaxNonce \in Nat
  BY TransfersAssumption
<1>4. t.amount \in Nat /\ t.fee \in Nat
  BY <1>2, <1>3
<1>5. t.nonce \in Nat
  BY <1>2, <1>3
<1>6. t.from # t.to
  BY <1>1
<1> QED
  BY <1>2, <1>4, <1>5, <1>6

LEMMA MoneyIsNat ==
  ASSUME NEW accts \in Accounts
  PROVE  Money(accts) \in Nat /\ Counts(Balances(accts), Address)
<1>1. Counts(Balances(accts), Address)
  BY DEF Counts, Balances, Accounts, Account
<1> QED
  BY <1>1, SumType, TransfersAssumption DEF Money

\* Money changes with the one balance that changes.
LEMMA OneBalance ==
  ASSUME NEW before \in Accounts, NEW after \in Accounts, NEW a \in Address,
         \A b \in Address \ {a} : after[b].balance = before[b].balance
  PROVE  Money(after) = Money(before) - before[a].balance + after[a].balance
<1> DEFINE f == Balances(before)
           g == Balances(after)
<1>1. Counts(f, Address) /\ Counts(g, Address)
  BY MoneyIsNat
<1>2. \A b \in Address : f[b] = before[b].balance /\ g[b] = after[b].balance
  BY DEF Balances
<1>3. \A b \in Address \ {a} : g[b] = f[b]
  BY <1>2
<1> HIDE DEF f, g
<1>4. SumFunctionOnSet(g, Address) = SumFunctionOnSet(f, Address) - f[a] + g[a]
  BY <1>1, <1>3, SumUpdate, TransfersAssumption
<1> QED
  BY <1>2, <1>4 DEF Money, f, g

\* A credit adds what it says.
LEMMA CreditAdds ==
  ASSUME NEW accts \in Accounts, NEW a \in Address, NEW amount \in Nat
  PROVE  LET after == [accts EXCEPT ![a].balance = @ + amount]
         IN  /\ after \in Accounts
             /\ \A b \in Address : after[b].nonce = accts[b].nonce
             /\ Money(after) = Money(accts) + amount
<1> DEFINE after == [accts EXCEPT ![a].balance = @ + amount]
<1>1. accts[a] \in Account /\ accts[a].balance \in Nat /\ accts[a].nonce \in Nat
  BY DEF Accounts, Account
<1>2. after[a] = [accts[a] EXCEPT !.balance = @ + amount]
  BY DEF Accounts
<1>3. \A b \in Address \ {a} : after[b] = accts[b]
  BY DEF Accounts
<1>4. /\ after[a].balance = accts[a].balance + amount
      /\ after[a].nonce = accts[a].nonce
      /\ after[a] \in Account
  BY <1>1, <1>2 DEF Account
<1>5. after \in Accounts
  BY <1>3, <1>4 DEF Accounts
<1> HIDE DEF after
<1>6. Money(after) = Money(accts) - accts[a].balance + after[a].balance
  BY <1>3, <1>5, OneBalance
<1>7. Money(accts) \in Nat
  BY MoneyIsNat
<1>8. \A b \in Address : after[b].nonce = accts[b].nonce
  BY <1>3, <1>4
<1>9. Money(after) = Money(accts) + amount
  BY <1>1, <1>4, <1>6, <1>7
<1> QED
  BY <1>5, <1>8, <1>9 DEF after

\* What a transaction does to a run: nothing but to end it, or a transfer that
\* takes the sender's next nonce and loses no coin.
LEMMA TransactionStep ==
  ASSUME NEW run \in Runs, NEW t \in Tx
  PROVE  LET next == apply_transaction(run, t)
         IN  /\ next \in Runs
             /\ Money(next.accounts) + next.fees = Money(run.accounts) + run.fees
             /\ ~next.ok => /\ next.accounts = run.accounts
                            /\ next.fees = run.fees
             /\ next.ok =>
                  /\ run.ok
                  /\ t.nonce = run.accounts[t.from].nonce
                  /\ t.amount + t.fee <= run.accounts[t.from].balance
                  /\ next.fees = run.fees + t.fee
                  /\ next.accounts[t.from].balance =
                       run.accounts[t.from].balance - (t.amount + t.fee)
                  /\ next.accounts[t.from].nonce = t.nonce + 1
                  /\ \A a \in Address \ {t.from} :
                       /\ next.accounts[a].nonce = run.accounts[a].nonce
                       /\ next.accounts[a].balance >= run.accounts[a].balance
<1> DEFINE next == apply_transaction(run, t)
           acct == run.accounts
           total == t.amount + t.fee
           debited == [acct EXCEPT ![t.from] =
                         [balance |-> @.balance - total, nonce |-> @.nonce + 1]]
           credited == [debited EXCEPT ![t.to].balance = @ + t.amount]
           moved == [acct EXCEPT
                       ![t.from] = [balance |-> @.balance - total, nonce |-> @.nonce + 1],
                       ![t.to].balance = @ + t.amount]
<1>1. /\ t.from \in Address /\ t.to \in Address /\ t.from # t.to
      /\ t.amount \in Nat /\ t.fee \in Nat /\ t.nonce \in Nat /\ total \in Nat
  BY TxType
<1>2. run.ok \in BOOLEAN /\ acct \in Accounts /\ run.fees \in Nat
  BY DEF Runs
<1>3. \A a \in Address : acct[a] \in Account /\ acct[a].balance \in Nat /\ acct[a].nonce \in Nat
  BY <1>2 DEF Accounts, Account
<1>4. CASE run.ok /\ t.nonce = acct[t.from].nonce /\ acct[t.from].balance >= total
  <2>1. next = [ok |-> TRUE, accounts |-> credited, fees |-> run.fees + t.fee]
    <3>1. next = [ok |-> TRUE, accounts |-> moved, fees |-> run.fees + t.fee]
      BY <1>4 DEF apply_transaction
    <3>2. moved = credited
      BY <1>1, <1>2 DEF Accounts
    <3> QED BY <3>1, <3>2
  <2>2. debited[t.from] = [balance |-> acct[t.from].balance - total,
                           nonce |-> acct[t.from].nonce + 1]
    BY <1>1, <1>2 DEF Accounts
  <2>3. \A a \in Address \ {t.from} : debited[a] = acct[a]
    BY <1>1, <1>2 DEF Accounts
  <2>4. acct[t.from].balance - total \in Nat
    BY <1>1, <1>3, <1>4
  <2>5. debited[t.from] \in Account
    BY <1>1, <1>3, <2>2, <2>4 DEF Account
  <2>6. debited \in Accounts
    BY <1>2, <1>3, <2>3, <2>5 DEF Accounts
  <2>7. Money(debited) = Money(acct) - acct[t.from].balance + debited[t.from].balance
    <3> HIDE DEF debited, acct
    <3> QED BY <1>1, <1>2, <2>3, <2>6, OneBalance
  <2>8. Money(debited) = Money(acct) - total
    <3>1. Money(acct) \in Nat
      BY <1>2, MoneyIsNat
    <3> HIDE DEF debited, acct
    <3> QED BY <1>1, <1>3, <2>2, <2>7, <3>1
  <2>9. /\ credited \in Accounts
        /\ \A b \in Address : credited[b].nonce = debited[b].nonce
        /\ Money(credited) = Money(debited) + t.amount
    <3> HIDE DEF debited
    <3> QED BY <1>1, <2>6, CreditAdds
  <2>10. Money(credited) + (run.fees + t.fee) = Money(acct) + run.fees
    <3>1. Money(acct) \in Nat
      BY <1>2, MoneyIsNat
    <3> HIDE DEF debited, acct, credited
    <3> QED BY <1>1, <1>2, <2>8, <2>9, <3>1
  <2>11. next \in Runs
    <3> HIDE DEF credited
    <3> QED BY <1>1, <1>2, <2>1, <2>9 DEF Runs
  <2>12. /\ credited[t.from] = debited[t.from]
         /\ \A a \in Address \ {t.from} :
              /\ credited[a].nonce = acct[a].nonce
              /\ credited[a].balance >= acct[a].balance
    <3>1. credited[t.from] = debited[t.from]
      BY <1>1, <2>6 DEF Accounts
    <3>2. ASSUME NEW a \in Address \ {t.from}
          PROVE  credited[a].nonce = acct[a].nonce /\ credited[a].balance >= acct[a].balance
      <4>1. debited[a] = acct[a] /\ acct[a] \in Account /\ acct[a].balance \in Nat
        BY <1>3, <2>3
      <4>2. CASE a = t.to
        <5>1. credited[a] = [debited[a] EXCEPT !.balance = @ + t.amount]
          BY <4>2, <2>6 DEF Accounts
        <5> HIDE DEF credited, debited, acct
        <5>2. credited[a].balance = acct[a].balance + t.amount
          BY <4>1, <5>1 DEF Account
        <5> QED BY <1>1, <2>9, <4>1, <5>2
      <4>3. CASE a # t.to
        <5>1. credited[a] = debited[a]
          BY <4>3, <2>6 DEF Accounts
        <5> HIDE DEF credited, debited, acct
        <5> QED BY <4>1, <5>1
      <4> QED BY <4>2, <4>3
    <3> QED BY <3>1, <3>2
  <2> HIDE DEF credited, debited
  <2>13. next.ok /\ next.accounts = credited /\ next.fees = run.fees + t.fee
    BY <2>1
  <2>14. /\ credited[t.from].balance = acct[t.from].balance - total
         /\ credited[t.from].nonce = t.nonce + 1
    BY <1>4, <2>2, <2>12
  <2> HIDE DEF next
  <2> QED
    BY <1>4, <2>10, <2>11, <2>12, <2>13, <2>14 DEF next
<1>5. CASE ~(run.ok /\ t.nonce = acct[t.from].nonce /\ acct[t.from].balance >= total)
  <2>1. next = [run EXCEPT !.ok = FALSE]
    BY <1>5 DEF apply_transaction
  <2>2. ~next.ok /\ next.accounts = run.accounts /\ next.fees = run.fees /\ next \in Runs
    BY <2>1 DEF Runs
  <2> HIDE DEF next
  <2> QED BY <2>2 DEF next
<1> QED
  BY <1>4, <1>5

LEMMA TransactionKeepsType ==
  ASSUME NEW run \in Runs, NEW t \in Tx
  PROVE  apply_transaction(run, t) \in Runs
BY TransactionStep

\* A list of transactions is executed one by one.
LEMMA TransactionsRunInOrder ==
  ASSUME NEW start \in Runs, NEW txs \in Seq(Tx)
  PROVE  \E run \in [0 .. Len(txs) -> Runs] :
           /\ run[0] = start
           /\ \A k \in 1 .. Len(txs) : run[k] = apply_transaction(run[k - 1], txs[k])
           /\ FoldLeft(apply_transaction, start, txs) = run[Len(txs)]
<1> DEFINE n == Len(txs)
           step == [p \in (1 .. n) \X Runs |-> apply_transaction(p[2], txs[p[1]])]
           Folds(it) == it = [s \in SUBSET (1 .. n) |->
                               IF s = {} THEN start
                               ELSE apply_transaction(it[s \ {Max(s)}], txs[Max(s)])]
           fold == CHOOSE it : Folds(it)
           run == [k \in 0 .. n |-> fold[1 .. k]]
<1>1. n \in Nat /\ DOMAIN txs = 1 .. n
  BY LenProperties
<1>2. \A k \in 1 .. n : txs[k] \in Tx
  BY ElementOfSeq
<1>3. step \in [(1 .. n) \X Runs -> Runs]
  <2>1. \A p \in (1 .. n) \X Runs : apply_transaction(p[2], txs[p[1]]) \in Runs
    BY <1>2, TransactionStep
  <2> QED BY <2>1
<1>4. PICK it \in [SUBSET (1 .. n) -> Runs] :
        FoldsLeft(it, n, start, step)
  <2> HIDE DEF step, n
  <2> QED BY <1>1, <1>3, LeftFoldExists
<1>5. ASSUME NEW s \in SUBSET (1 .. n), s # {}
      PROVE  step[<<Max(s), it[s \ {Max(s)}]>>]
               = apply_transaction(it[s \ {Max(s)}], txs[Max(s)])
  <2>1. Max(s) \in 1 .. n
    <3> HIDE DEF n
    <3> QED BY <1>1, <1>5, LargestIndex
  <2>2. it[s \ {Max(s)}] \in Runs
    OBVIOUS
  <2> QED BY <2>1, <2>2
<1>6. Folds(it)
  <2> HIDE DEF step
  <2> QED BY <1>4, <1>5 DEF FoldsLeft
<1>7. Folds(fold)
  <2> HIDE DEF Folds
  <2> QED BY <1>6
<1>8. FoldLeft(apply_transaction, start, txs) = fold[1 .. n]
  BY <1>1 DEF FoldLeft, MapThenFoldSet
<1> HIDE DEF fold
<1>9. fold[{}] = start
  BY <1>7
<1>10. \A k \in 1 .. n : fold[1 .. k] = apply_transaction(fold[1 .. (k - 1)], txs[k])
  <2> SUFFICES ASSUME NEW k \in 1 .. n
               PROVE  fold[1 .. k] = apply_transaction(fold[1 .. (k - 1)], txs[k])
    OBVIOUS
  <2>1. /\ 1 .. k \in SUBSET (1 .. n) /\ 1 .. k # {}
        /\ Max(1 .. k) = k
        /\ (1 .. k) \ {k} = 1 .. (k - 1)
    <3> HIDE DEF n
    <3> QED BY <1>1, PrefixGrows
  <2> QED BY <1>7, <2>1
<1>11. 1 .. 0 = {}
  OBVIOUS
<1>12. \A k \in 0 .. n : fold[1 .. k] \in Runs
  <2> DEFINE Q == {k \in 0 .. n : fold[1 .. k] \in Runs}
  <2>1. 0 \in Q
    BY <1>1, <1>9, <1>11
  <2>2. ASSUME NEW k \in 0 .. n - 1, k \in Q
        PROVE  k + 1 \in Q
    <3>1. k + 1 \in 1 .. n /\ (k + 1) - 1 = k /\ k + 1 \in 0 .. n
      BY <1>1
    <3>2. fold[1 .. (k + 1)] = apply_transaction(fold[1 .. k], txs[k + 1])
      BY <1>10, <3>1
    <3>3. fold[1 .. k] \in Runs /\ txs[k + 1] \in Tx
      BY <1>2, <2>2, <3>1
    <3>4. fold[1 .. (k + 1)] \in Runs
      <4> HIDE DEF Q, n
      <4> QED BY <3>2, <3>3, TransactionKeepsType
    <3> QED BY <3>1, <3>4
  <2>3. \A k \in 0 .. n : k \in Q
    <3> HIDE DEF Q, n
    <3> QED BY <1>1, <2>1, <2>2, UpTo
  <2> QED BY <2>3
<1>13. run \in [0 .. n -> Runs]
  BY <1>12
<1>14. run[0] = start
  BY <1>1, <1>9, <1>11
<1>15. \A k \in 1 .. n : run[k] = apply_transaction(run[k - 1], txs[k])
  <2> SUFFICES ASSUME NEW k \in 1 .. n
               PROVE  run[k] = apply_transaction(run[k - 1], txs[k])
    OBVIOUS
  <2>1. k \in 0 .. n /\ k - 1 \in 0 .. n
    BY <1>1
  <2>2. run[k] = fold[1 .. k] /\ run[k - 1] = fold[1 .. (k - 1)]
    BY <2>1
  <2> HIDE DEF run
  <2> QED BY <1>10, <2>2
<1>16. FoldLeft(apply_transaction, start, txs) = run[n]
  BY <1>1, <1>8
<1> HIDE DEF run
<1> QED
  BY <1>13, <1>14, <1>15, <1>16

\* What holds of a run and is kept by a transaction that succeeds holds at the
\* end of a list that succeeds, and at every transaction of it.
LEMMA SuccessfulRun ==
  ASSUME NEW accts \in Accounts, NEW txs \in Seq(Tx),
         RunTransactions(accts, txs).ok
  PROVE  \E run \in [0 .. Len(txs) -> Runs] :
           /\ run[0] = Scratch(accts)
           /\ \A k \in 1 .. Len(txs) : run[k] = apply_transaction(run[k - 1], txs[k])
           /\ RunTransactions(accts, txs) = run[Len(txs)]
           /\ \A k \in 0 .. Len(txs) : run[k].ok
<1> DEFINE n == Len(txs)
<1>1. n \in Nat /\ \A k \in 1 .. n : txs[k] \in Tx
  BY LenProperties, ElementOfSeq
<1>2. Scratch(accts) \in Runs
  BY DEF Scratch, Runs
<1>3. PICK run \in [0 .. n -> Runs] :
        /\ run[0] = Scratch(accts)
        /\ \A k \in 1 .. n : run[k] = apply_transaction(run[k - 1], txs[k])
        /\ FoldLeft(apply_transaction, Scratch(accts), txs) = run[n]
  BY <1>2, TransactionsRunInOrder
<1>4. RunTransactions(accts, txs) = run[n] /\ run[n].ok
  BY <1>3 DEF RunTransactions
<1> HIDE DEF n
<1>5. \A k \in 0 .. n : run[k].ok
  <2> DEFINE Q == {j \in 0 .. n : run[n - j].ok}
  <2>1. 0 \in Q
    BY <1>1, <1>4
  <2>2. ASSUME NEW j \in 0 .. n - 1, j \in Q
        PROVE  j + 1 \in Q
    <3>1. /\ n - j \in 1 .. n /\ (n - j) - 1 \in 0 .. n /\ n - (j + 1) = (n - j) - 1
          /\ j + 1 \in 0 .. n
      BY <1>1
    <3>2. run[n - j].ok /\ run[n - j] = apply_transaction(run[(n - j) - 1], txs[n - j])
      BY <1>3, <2>2, <3>1
    <3>3. run[(n - j) - 1] \in Runs /\ txs[n - j] \in Tx
      BY <1>1, <1>3, <3>1
    <3>4. run[(n - j) - 1].ok
      <4> DEFINE r == run[(n - j) - 1]
                 t == txs[n - j]
      <4>1. r \in Runs /\ t \in Tx /\ apply_transaction(r, t).ok
        BY <3>2, <3>3
      <4> HIDE DEF Q, r, t
      <4>2. r.ok
        BY <4>1, TransactionStep
      <4> QED BY <4>2 DEF r
    <3> QED BY <3>1, <3>4
  <2>3. \A j \in 0 .. n : j \in Q
    <3> HIDE DEF Q
    <3> QED BY <1>1, <2>1, <2>2, UpTo
  <2>4. ASSUME NEW k \in 0 .. n
        PROVE  run[k].ok
    <3>1. n - k \in 0 .. n /\ n - (n - k) = k
      BY <1>1
    <3>2. n - k \in Q
      BY <2>3, <3>1
    <3>3. run[n - (n - k)].ok
      BY <3>2
    <3> QED BY <3>1, <3>3
  <2> QED BY <2>4
<1> QED
  BY <1>3, <1>4, <1>5 DEF n

\* A list that succeeds loses no coin: what the accounts have less are fees.
LEMMA TransactionsConserve ==
  ASSUME NEW accts \in Accounts, NEW txs \in Seq(Tx),
         RunTransactions(accts, txs).ok
  PROVE  LET run == RunTransactions(accts, txs)
         IN  /\ run.accounts \in Accounts /\ run.fees \in Nat
             /\ Money(run.accounts) + run.fees = Money(accts)
<1> DEFINE n == Len(txs)
<1>1. n \in Nat /\ \A k \in 1 .. n : txs[k] \in Tx
  BY LenProperties, ElementOfSeq
<1>2. PICK run \in [0 .. n -> Runs] :
        /\ run[0] = Scratch(accts)
        /\ \A k \in 1 .. n : run[k] = apply_transaction(run[k - 1], txs[k])
        /\ RunTransactions(accts, txs) = run[n]
  BY SuccessfulRun
<1> HIDE DEF n
<1> DEFINE Q == {k \in 0 .. n : Money(run[k].accounts) + run[k].fees = Money(accts)}
<1>3. 0 \in Q
  <2>1. run[0].accounts = accts /\ run[0].fees = 0
    BY <1>2 DEF Scratch
  <2>2. Money(accts) \in Nat
    BY MoneyIsNat
  <2> QED BY <1>1, <2>1, <2>2
<1>4. ASSUME NEW k \in 0 .. n - 1, k \in Q
      PROVE  k + 1 \in Q
  <2>1. k + 1 \in 1 .. n /\ (k + 1) - 1 = k /\ k + 1 \in 0 .. n /\ k \in 0 .. n
    BY <1>1
  <2>2. run[k + 1] = apply_transaction(run[k], txs[k + 1])
    BY <1>2, <2>1
  <2>3. run[k] \in Runs /\ txs[k + 1] \in Tx
    BY <1>1, <1>2, <2>1
  <2>4. Money(run[k + 1].accounts) + run[k + 1].fees
          = Money(run[k].accounts) + run[k].fees
    <3> DEFINE r == run[k]
               t == txs[k + 1]
    <3>1. r \in Runs /\ t \in Tx /\ run[k + 1] = apply_transaction(r, t)
      BY <2>2, <2>3
    <3> HIDE DEF Q, r, t
    <3>2. Money(apply_transaction(r, t).accounts) + apply_transaction(r, t).fees
            = Money(r.accounts) + r.fees
      BY <3>1, TransactionStep
    <3> QED BY <3>1, <3>2 DEF r
  <2> QED BY <1>4, <2>1, <2>4
<1>5. n \in Q
  <2> HIDE DEF Q
  <2>1. \A k \in 0 .. n : k \in Q
    BY <1>1, <1>3, <1>4, UpTo
  <2> QED BY <1>1, <2>1
<1>6. run[n] \in Runs
  BY <1>1, <1>2
<1>7. run[n].accounts \in Accounts /\ run[n].fees \in Nat
  BY <1>6 DEF Runs
<1>8. Money(run[n].accounts) + run[n].fees = Money(accts)
  BY <1>5
<1> HIDE DEF Q
<1> QED
  BY <1>2, <1>7, <1>8

\* E holds exactly one transaction for each nonce that an account has used.
NoncesUsed(E, accts) ==
  /\ E \subseteq Tx
  /\ \A t \in E : t.nonce < accts[t.from].nonce
  /\ \A s, t \in E : s.from = t.from /\ s.nonce = t.nonce => s = t
  /\ \A a \in Address : \A n \in 0 .. accts[a].nonce - 1 :
       \E t \in E : t.from = a /\ t.nonce = n

\* Then there are as many of them as nonces.
LEMMA OneTransactionPerNonce ==
  ASSUME NEW accts \in Accounts, NEW E, NoncesUsed(E, accts), NEW a \in Address
  PROVE  Cardinality({t \in E : t.from = a}) = accts[a].nonce
<1> DEFINE n == accts[a].nonce
           S == {t \in E : t.from = a}
           f == [i \in 0 .. n - 1 |-> CHOOSE t \in S : t.nonce = i]
<1>1. n \in Nat
  BY DEF Accounts, Account
<1>2. IsFiniteSet(0 .. n - 1) /\ Cardinality(0 .. n - 1) = n
  <2> HIDE DEF n
  <2>1. 0 \in Int /\ n - 1 \in Int
    BY <1>1
  <2>2. /\ IsFiniteSet(0 .. n - 1)
        /\ Cardinality(0 .. n - 1) = IF 0 > n - 1 THEN 0 ELSE (n - 1) - 0 + 1
    BY <2>1, FS_Interval
  <2> QED BY <1>1, <2>2
<1>3. \A i \in 0 .. n - 1 : \E t \in S : t.nonce = i
  BY DEF NoncesUsed
<1>4. \A i \in 0 .. n - 1 : f[i] \in S /\ f[i].nonce = i
  BY <1>3
<1>5. \A t \in S : t.nonce \in 0 .. n - 1
  <2>1. ASSUME NEW t \in S
        PROVE  t.nonce \in 0 .. n - 1
    <3>1. t \in Tx /\ t.nonce < n
      BY DEF NoncesUsed
    <3>2. t.nonce \in Nat
      BY <3>1, TxType
    <3> QED BY <1>1, <3>1, <3>2
  <2> QED BY <2>1
<1>6. \A s, t \in S : s.nonce = t.nonce => s = t
  BY DEF NoncesUsed
<1>7. f \in [0 .. n - 1 -> S]
  <2>1. f = [i \in 0 .. n - 1 |-> f[i]]
    OBVIOUS
  <2> HIDE DEF f, S
  <2> QED BY <1>4, <2>1
<1> HIDE DEF f, S, n
<1>8. f \in Bijection(0 .. n - 1, S)
  <2>1. \A i, j \in 0 .. n - 1 : f[i] = f[j] => i = j
    BY <1>4
  <2>2. \A t \in S : \E i \in 0 .. n - 1 : f[i] = t
    BY <1>4, <1>5, <1>6
  <2> QED BY <1>7, <2>1, <2>2 DEF Bijection, Injection, Surjection, IsInjective
<1>9. ExistsBijection(0 .. n - 1, S)
  BY <1>8 DEF ExistsBijection
<1> QED
  BY <1>2, <1>9, FS_Bijection DEF S, n

\* A list that succeeds uses the nonces of its transactions, each once.
LEMMA TransactionsUseNonces ==
  ASSUME NEW accts \in Accounts, NEW txs \in Seq(Tx),
         RunTransactions(accts, txs).ok,
         NEW E, NoncesUsed(E, accts)
  PROVE  NoncesUsed(E \cup ToSet(txs), RunTransactions(accts, txs).accounts)
<1> DEFINE n == Len(txs)
           Upto(k) == E \cup {txs[i] : i \in 1 .. k}
<1>1. n \in Nat /\ DOMAIN txs = 1 .. n /\ \A k \in 1 .. n : txs[k] \in Tx
  BY LenProperties, ElementOfSeq
<1>2. PICK run \in [0 .. n -> Runs] :
        /\ run[0] = Scratch(accts)
        /\ \A k \in 1 .. n : run[k] = apply_transaction(run[k - 1], txs[k])
        /\ RunTransactions(accts, txs) = run[n]
        /\ \A k \in 0 .. n : run[k].ok
  BY SuccessfulRun
<1> HIDE DEF n
<1> DEFINE Q == {k \in 0 .. n : NoncesUsed(Upto(k), run[k].accounts)}
<1>3. 0 \in Q
  <2>1. run[0].accounts = accts
    BY <1>2 DEF Scratch
  <2>2. Upto(0) = E
    OBVIOUS
  <2> HIDE DEF Upto
  <2> QED BY <1>1, <2>1, <2>2
<1>4. ASSUME NEW k \in 0 .. n - 1, k \in Q
      PROVE  k + 1 \in Q
  <2> DEFINE t == txs[k + 1]
             before == run[k].accounts
             after == run[k + 1].accounts
  <2>1. k + 1 \in 1 .. n /\ (k + 1) - 1 = k /\ k + 1 \in 0 .. n /\ k \in 0 .. n
    BY <1>1
  <2>2. run[k + 1] = apply_transaction(run[k], t) /\ run[k + 1].ok
    BY <1>2, <2>1
  <2>3. run[k] \in Runs /\ run[k + 1] \in Runs /\ t \in Tx
    BY <1>1, <1>2, <2>1
  <2>4. before \in Accounts /\ after \in Accounts
    BY <2>3 DEF Runs
  <2>5. NoncesUsed(Upto(k), before)
    BY <1>4
  <2>6. Upto(k + 1) = Upto(k) \cup {t}
    <3>1. 1 .. (k + 1) = (1 .. k) \cup {k + 1}
      BY <2>1
    <3> QED BY <3>1
  <2>7. /\ t.nonce = before[t.from].nonce
        /\ after[t.from].nonce = t.nonce + 1
        /\ \A a \in Address \ {t.from} : after[a].nonce = before[a].nonce
    <3> HIDE DEF Q, Upto, t
    <3> QED BY <2>2, <2>3, TransactionStep
  <2>8. t.from \in Address /\ t.nonce \in Nat
    BY <2>3, TxType
  <2>9. NoncesUsed(Upto(k) \cup {t}, after)
    <3> HIDE DEF Q, Upto, t, before, after
    <3>1. Upto(k) \cup {t} \subseteq Tx
      BY <2>3, <2>5 DEF NoncesUsed
    <3>2. ASSUME NEW s \in Upto(k)
          PROVE  /\ s.from \in Address /\ s.nonce \in Nat
                 /\ s.nonce < before[s.from].nonce
                 /\ s.nonce < after[s.from].nonce
      <4>1. s \in Tx /\ s.nonce < before[s.from].nonce
        BY <2>5 DEF NoncesUsed
      <4>2. s.from \in Address /\ s.nonce \in Nat
        BY <4>1, TxType
      <4>3. CASE s.from = t.from
        BY <2>7, <2>8, <4>1, <4>2, <4>3
      <4>4. CASE s.from # t.from
        BY <2>7, <4>1, <4>2, <4>4
      <4> QED BY <4>1, <4>2, <4>3, <4>4
    <3>3. \A s \in Upto(k) \cup {t} : s.nonce < after[s.from].nonce
      BY <2>7, <2>8, <3>2
    <3>4. \A s \in Upto(k) : s.from = t.from => s.nonce # t.nonce
      BY <2>7, <2>8, <3>2
    <3>5. \A r, s \in Upto(k) \cup {t} : r.from = s.from /\ r.nonce = s.nonce => r = s
      BY <2>5, <3>4 DEF NoncesUsed
    <3>6. ASSUME NEW a \in Address, NEW m \in 0 .. after[a].nonce - 1
          PROVE  \E s \in Upto(k) \cup {t} : s.from = a /\ s.nonce = m
      <4>1. before[a].nonce \in Nat /\ after[a].nonce \in Nat
        BY <2>4 DEF Accounts, Account
      <4>2. CASE m \in 0 .. before[a].nonce - 1
        BY <2>5, <4>2 DEF NoncesUsed
      <4>3. CASE m \notin 0 .. before[a].nonce - 1
        <5>1. a = t.from
          BY <2>7, <4>3
        <5>2. m = t.nonce
          BY <2>7, <2>8, <4>1, <4>3, <5>1
        <5> QED BY <5>1, <5>2
      <4> QED BY <4>2, <4>3
    <3> QED BY <3>1, <3>3, <3>5, <3>6 DEF NoncesUsed
  <2> HIDE DEF Upto, t, before, after
  <2> QED BY <2>1, <2>6, <2>9 DEF after
<1>5. n \in Q
  <2> HIDE DEF Q
  <2>1. \A k \in 0 .. n : k \in Q
    BY <1>1, <1>3, <1>4, UpTo
  <2> QED BY <1>1, <2>1
<1>6. Upto(n) = E \cup ToSet(txs)
  BY <1>1 DEF ToSet
<1> HIDE DEF Upto
<1>7. NoncesUsed(Upto(n), run[n].accounts)
  BY <1>5
<1> HIDE DEF Q
<1> QED
  BY <1>2, <1>6, <1>7

\* One more transaction at the end is executed on what the others left.
LEMMA TransactionAppended ==
  ASSUME NEW accts \in Accounts, NEW txs \in Seq(Tx), NEW t \in Tx
  PROVE  /\ RunTransactions(accts, txs) \in Runs
         /\ RunTransactions(accts, Append(txs, t))
              = apply_transaction(RunTransactions(accts, txs), t)
<1> DEFINE n == Len(txs)
           longer == Append(txs, t)
<1>1. n \in Nat /\ longer \in Seq(Tx) /\ Len(longer) = n + 1
  BY AppendProperties, LenProperties
<1>2. longer[n + 1] = t /\ \A k \in 1 .. n : longer[k] = txs[k]
  BY AppendProperties
<1>3. Scratch(accts) \in Runs
  BY DEF Scratch, Runs
<1>4. PICK run \in [0 .. n -> Runs] :
        /\ run[0] = Scratch(accts)
        /\ \A k \in 1 .. n : run[k] = apply_transaction(run[k - 1], txs[k])
        /\ FoldLeft(apply_transaction, Scratch(accts), txs) = run[n]
  BY <1>3, TransactionsRunInOrder
<1>5. PICK more \in [0 .. n + 1 -> Runs] :
        /\ more[0] = Scratch(accts)
        /\ \A k \in 1 .. n + 1 : more[k] = apply_transaction(more[k - 1], longer[k])
        /\ FoldLeft(apply_transaction, Scratch(accts), longer) = more[n + 1]
  <2> HIDE DEF longer, n
  <2> QED BY <1>1, <1>3, TransactionsRunInOrder
<1> DEFINE Q == {k \in 0 .. n : more[k] = run[k]}
<1> HIDE DEF n, longer
<1>6. 0 \in Q
  BY <1>1, <1>4, <1>5
<1>7. ASSUME NEW k \in 0 .. n - 1, k \in Q
      PROVE  k + 1 \in Q
  <2>1. /\ k + 1 \in 0 .. n /\ k + 1 \in 1 .. n /\ k + 1 \in 1 .. n + 1
        /\ (k + 1) - 1 = k
    BY <1>1
  <2>2. more[k + 1] = apply_transaction(more[k], longer[k + 1])
    BY <1>5, <2>1
  <2>3. run[k + 1] = apply_transaction(run[k], txs[k + 1])
    BY <1>4, <2>1
  <2> QED BY <1>2, <1>7, <2>1, <2>2, <2>3
<1>8. more[n] = run[n]
  <2> HIDE DEF Q
  <2>1. \A k \in 0 .. n : k \in Q
    BY <1>1, <1>6, <1>7, UpTo
  <2>2. n \in Q
    BY <1>1, <2>1
  <2> QED BY <2>2 DEF Q
<1>9. more[n + 1] = apply_transaction(more[n], t)
  <2>1. n + 1 \in 1 .. n + 1 /\ (n + 1) - 1 = n
    BY <1>1
  <2> QED BY <1>2, <1>5, <2>1
<1>10. run[n] \in Runs
  BY <1>1
<1> QED
  BY <1>4, <1>5, <1>8, <1>9, <1>10 DEF RunTransactions, longer
=============================================================================
