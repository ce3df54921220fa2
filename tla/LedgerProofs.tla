---------------------------- MODULE LedgerProofs ----------------------------
(***************************************************************************)
(* Proofs about Ledger: what is pending, the issuance schedule, and what   *)
(* becomes of coins and transactions; about the work that a block settles, *)
(* and about the text that its amounts travel as.                          *)
(*                                                                         *)
(* Three inductive invariants, each resting on the one before it: IndInv   *)
(* for commitments and the mint, LedgerInv for the accounts, and           *)
(* ScheduleInv for what the schedule has still to mint.  WorkInv stands by *)
(* itself: that a commitment names work is all the tree has to know.       *)
(***************************************************************************)
EXTENDS LedgerWork, TransfersProofs

\* Halving leaves a natural number.
LEMMA ShiftIsNat ==
  ASSUME NEW e \in Nat
  PROVE  ShiftRight(InitialReward, e) \in Nat
<1> DEFINE multiples == {k \in 1 .. InitialReward : k * 2^e <= InitialReward}
<1>1. IsFiniteSet(1 .. InitialReward)
  BY FS_Interval, GenesisAssumption
<1>2. multiples \subseteq 1 .. InitialReward
  OBVIOUS
<1>3. Cardinality(multiples) \in Nat
  <2> HIDE DEF multiples
  <2> QED BY <1>1, <1>2, FS_Subset, FS_CardinalityType
<1> QED
  BY <1>3 DEF ShiftRight

\* The schedule names a natural number for every task.
LEMMA RewardIsNat ==
  ASSUME NEW tasks \in Nat
  PROVE  block_reward(tasks) \in Nat
<1>1. tasks \div HalvingInterval \in Nat
  BY GenesisAssumption
<1> QED
  BY <1>1, ShiftIsNat DEF block_reward

\* The part of the invariant that issuance rests on.
IndInv ==
  /\ height \in Nat
  /\ minted \in 0 .. SupplyCap
  /\ tasks_completed \in Nat
  /\ OnlyTipIsPending

\* A block opens nothing, or the one commitment that its parent made; either
\* way only its own commitment is left.
LEMMA BlockOpensTip ==
  ASSUME IndInv, NEW opened, verify_reveal(opened)
  PROVE  /\ Surviving(opened) = {}
         /\ \/ opened = {}
            \/ \E c \in DOMAIN pending :
                 opened = {c} /\ pending[c].reward = block_reward(tasks_completed)
<1>1. CASE height = 0
  BY <1>1 DEF IndInv, OnlyTipIsPending, Surviving, verify_reveal
<1>2. CASE height # 0
  <2>1. PICK c \in DOMAIN pending :
          /\ DOMAIN pending = {c}
          /\ pending[c].expires_at = height + REVEAL_WINDOW
          /\ pending[c].reward = block_reward(tasks_completed)
    BY <1>2 DEF IndInv, OnlyTipIsPending
  <2>2. ~(pending[c].expires_at > height + 1)
    BY <2>1 DEF IndInv, REVEAL_WINDOW
  <2>3. Surviving(opened) = {}
    BY <2>1, <2>2 DEF Surviving
  <2>4. opened \subseteq {c}
    BY <2>1 DEF verify_reveal
  <2> QED
    BY <2>1, <2>3, <2>4
<1> QED
  BY <1>1, <1>2

\* A block settles nothing, or exactly the next task of the schedule.
LEMMA BlockSettles ==
  ASSUME IndInv, NEW miner, NEW root, NEW txs, NEW opened,
         apply_block(miner, root, txs, opened)
  PROVE  \/ UNCHANGED <<minted, tasks_completed>>
         \/ /\ tasks_completed' = tasks_completed + 1
            /\ minted' = minted + Minted(block_reward(tasks_completed))
<1>1. /\ verify_reveal(opened)
      /\ minted' = IF opened = {} THEN minted ELSE minted + Minted(RewardFor(opened))
      /\ tasks_completed' = tasks_completed + Cardinality(opened)
  BY DEF apply_block
<1>2. CASE opened = {}
  <2>1. Cardinality(opened) = 0
    BY <1>2, FS_EmptySet
  <2> QED
    BY <1>1, <1>2, <2>1 DEF IndInv
<1>3. CASE opened # {}
  <2>1. PICK c \in DOMAIN pending :
          opened = {c} /\ pending[c].reward = block_reward(tasks_completed)
    BY <1>1, <1>3, BlockOpensTip
  <2>2. Cardinality(opened) = 1
    BY <2>1, FS_Singleton
  <2>3. RewardFor(opened) = block_reward(tasks_completed)
    BY <2>1 DEF RewardFor
  <2> QED
    BY <1>1, <1>3, <2>2, <2>3
<1> QED
  BY <1>2, <1>3

LEMMA MintedIsCapped ==
  ASSUME IndInv
  PROVE  minted + Minted(block_reward(tasks_completed)) \in 0 .. SupplyCap
<1>1. block_reward(tasks_completed) \in Nat
  BY RewardIsNat DEF IndInv
<1> QED
  BY <1>1, GenesisAssumption DEF IndInv, Minted

LEMMA InitEstablishesInvariant == Init => IndInv
BY GenesisAssumption, GenesisValid DEF Init, IndInv, OnlyTipIsPending

LEMMA NextKeepsInvariant == IndInv /\ [Next]_vars => IndInv'
<1> SUFFICES ASSUME IndInv, [Next]_vars PROVE IndInv'
  OBVIOUS
<1>1. ASSUME NEW miner, NEW root, NEW txs, NEW opened,
             apply_block(miner, root, txs, opened)
      PROVE  IndInv'
  <2> DEFINE id == CommitFor(miner, root)
  <2>1. height \in Nat /\ height' = height + 1 /\ verify_reveal(opened)
    BY <1>1 DEF apply_block, IndInv
  <2>2. minted' \in 0 .. SupplyCap /\ tasks_completed' \in Nat
    BY <1>1, BlockSettles, MintedIsCapped DEF IndInv
  <2>3. Surviving(opened) = {}
    BY <2>1, BlockOpensTip
  <2>4. tasks_completed' = tasks_completed + Cardinality(opened)
    BY <1>1 DEF apply_block
  <2>5. pending' = [c \in {id} |-> NewCommit(miner, tasks_completed')]
    BY <1>1, <2>3, <2>4 DEF apply_block
  <2>6. id.height = height + 1
    BY DEF CommitFor
  <2>7. /\ DOMAIN pending' = {id}
        /\ pending'[id].height = height'
        /\ pending'[id].expires_at = height' + REVEAL_WINDOW
        /\ pending'[id].reward = block_reward(tasks_completed')
    <3> HIDE DEF id
    <3> QED BY <2>1, <2>5 DEF NewCommit
  <2>8. OnlyTipIsPending'
    <3> HIDE DEF id
    <3> QED BY <2>1, <2>6, <2>7 DEF OnlyTipIsPending, block_reward, ShiftRight
  <2> QED
    BY <2>1, <2>2, <2>8 DEF IndInv
<1>2. CASE UNCHANGED vars
  BY <1>2 DEF vars, IndInv, OnlyTipIsPending, block_reward, ShiftRight
<1> QED
  BY <1>1, <1>2 DEF Next, Block, BranchFull

-----------------------------------------------------------------------------
(* The theorems *)

\* The inductive invariant of the ledger holds in every reachable state.
THEOREM LedgerInvariant == Spec => []IndInv
BY InitEstablishesInvariant, NextKeepsInvariant, PTL DEF Spec

\* apply_block leaves exactly the block's own commitment open, at the rate of
\* the next task: never a late, a second or a wrongly priced reveal.
THEOREM OnlyTheTipIsPending == Spec => []OnlyTipIsPending
<1>1. IndInv => OnlyTipIsPending
  BY DEF IndInv
<1> QED
  BY <1>1, LedgerInvariant, PTL

\* minted never exceeds the cap of the genesis document.
THEOREM SupplyIsCapped == Spec => [](minted <= SupplyCap)
<1>1. IndInv => minted <= SupplyCap
  BY GenesisAssumption DEF IndInv
<1> QED
  BY <1>1, LedgerInvariant, PTL

\* Issuance follows the schedule: transactions, fees and forfeited commitments
\* are invisible to it, and the k-th task settled mints the k-th reward though
\* that reward was recorded one block earlier.
THEOREM LedgerImplementsSupply == Spec => ImplementsSupply
<1>1. Init => Issuance!Init
  BY DEF Init, Issuance!Init
<1>2. IndInv /\ [Next]_vars => [Issuance!Settle]_<<minted, tasks_completed>>
  <2> SUFFICES ASSUME IndInv, [Next]_vars
               PROVE  [Issuance!Settle]_<<minted, tasks_completed>>
    OBVIOUS
  <2>1. ASSUME NEW miner, NEW root, NEW txs, NEW opened,
               apply_block(miner, root, txs, opened)
        PROVE  [Issuance!Settle]_<<minted, tasks_completed>>
    <3>1. CASE UNCHANGED <<minted, tasks_completed>>
      BY <3>1
    <3>2. CASE /\ tasks_completed' = tasks_completed + 1
               /\ minted' = minted + Minted(block_reward(tasks_completed))
      <4>1. block_reward(tasks_completed) \in Nat /\ minted \in Nat
        BY RewardIsNat DEF IndInv
      <4> QED
        BY <3>2, <4>1, GenesisAssumption DEF Minted, Issuance!Settle
    <3> QED
      BY <2>1, <3>1, <3>2, BlockSettles
  <2>2. CASE UNCHANGED vars
    BY <2>2 DEF vars
  <2> QED
    BY <2>1, <2>2 DEF Next, Block, BranchFull
<1> QED
  BY <1>1, <1>2, LedgerInvariant, PTL DEF Spec, ImplementsSupply, Issuance!Spec

-----------------------------------------------------------------------------
(* Accounts *)

\* Types, conservation, and the transactions that the nonces stand for.
LedgerInv ==
  /\ IndInv
  /\ accounts \in Accounts
  /\ \A c \in DOMAIN pending : pending[c] \in PendingCommit
  /\ Money(accounts) = minted
  /\ NoncesUsed(executed, accounts)

\* The sum of all balances, as Conserved writes it.
LEMMA MoneyIsSum ==
  SumFunction([a \in Address |-> accounts[a].balance]) = Money(accounts)
BY DEF SumFunction, Money, Balances

\* A reveal names a commitment by a miner, and what it mints fits under the cap.
LEMMA RewardFits ==
  ASSUME LedgerInv, NEW opened, verify_reveal(opened), opened # {}
  PROVE  LET c == CHOOSE c \in opened : TRUE
         IN  /\ opened = {c} /\ c \in DOMAIN pending
             /\ pending[c].miner \in Address
             /\ pending[c].reward \in Nat
             /\ Minted(pending[c].reward) \in Nat
<1> DEFINE c == CHOOSE c \in opened : TRUE
<1>1. PICK d \in DOMAIN pending : opened = {d}
  BY BlockOpensTip DEF LedgerInv
<1>2. c = d
  BY <1>1
<1> HIDE DEF c
<1>3. pending[c] \in PendingCommit
  BY <1>1, <1>2 DEF LedgerInv
<1>4. pending[c].miner \in Address /\ pending[c].reward \in Nat
  BY <1>3 DEF PendingCommit
<1>5. Minted(pending[c].reward) \in Nat
  BY <1>4, GenesisAssumption DEF Minted, LedgerInv, IndInv
<1> QED
  BY <1>1, <1>2, <1>4, <1>5 DEF c

\* The credits of a block add the reward settled and the fees collected, and
\* touch no nonce.
LEMMA PayOutAdds ==
  ASSUME LedgerInv, NEW opened, verify_reveal(opened),
         NEW accts \in Accounts, NEW fees \in Nat, NEW miner \in Address
  PROVE  LET paid   == PayOut(accts, opened, fees, miner)
             reward == IF opened = {} THEN 0 ELSE Minted(RewardFor(opened))
         IN  /\ paid \in Accounts
             /\ \A a \in Address : paid[a].nonce = accts[a].nonce
             /\ Money(paid) = Money(accts) + reward + fees
             /\ reward \in Nat
<1> DEFINE c == CHOOSE c \in opened : TRUE
           reward == IF opened = {} THEN 0 ELSE Minted(RewardFor(opened))
           settled == IF opened = {} THEN accts
                      ELSE Credit(accts, pending[c].miner, Minted(pending[c].reward))
<1>1. PayOut(accts, opened, fees, miner) = Credit(settled, miner, fees)
  BY DEF PayOut
<1>2. Money(accts) \in Nat
  BY MoneyIsNat
<1>3. /\ settled \in Accounts
      /\ \A a \in Address : settled[a].nonce = accts[a].nonce
      /\ Money(settled) = Money(accts) + reward
      /\ reward \in Nat
  <2>1. CASE opened = {}
    BY <1>2, <2>1
  <2>2. CASE opened # {}
    <3>1. pending[c].miner \in Address /\ Minted(pending[c].reward) \in Nat
      BY <2>2, RewardFits
    <3>2. reward = Minted(pending[c].reward)
      BY <2>2 DEF RewardFor
    <3>3. settled = Credit(accts, pending[c].miner, Minted(pending[c].reward))
      BY <2>2
    <3> DEFINE m == pending[c].miner
               r == Minted(pending[c].reward)
    <3> HIDE DEF reward, settled, m, r, c
    <3>4. /\ Credit(accts, m, r) \in Accounts
          /\ \A a \in Address : Credit(accts, m, r)[a].nonce = accts[a].nonce
          /\ Money(Credit(accts, m, r)) = Money(accts) + r
      BY <3>1, CreditAdds DEF Credit, m, r
    <3> QED BY <3>1, <3>2, <3>3, <3>4 DEF m, r
  <2> QED BY <2>1, <2>2
<1> HIDE DEF settled, reward
<1>4. /\ Credit(settled, miner, fees) \in Accounts
      /\ \A a \in Address : Credit(settled, miner, fees)[a].nonce = settled[a].nonce
      /\ Money(Credit(settled, miner, fees)) = Money(settled) + fees
  BY <1>3, CreditAdds DEF Credit
<1> QED
  BY <1>1, <1>3, <1>4 DEF reward

\* SeqOf enumerates sequences.
LEMMA BlockTxsAreSequences ==
  ASSUME NEW txs \in SeqOf(Tx, MaxBlockTxs)
  PROVE  txs \in Seq(Tx)
<1>1. PICK m \in 0 .. MaxBlockTxs : txs \in [1 .. m -> Tx]
  BY DEF SeqOf
<1>2. m \in Nat
  BY GenesisAssumption
<1> QED
  BY <1>1, <1>2, SeqDef

LEMMA BlockKeepsLedger ==
  ASSUME LedgerInv, IndInv',
         NEW miner \in Address, NEW root, NEW txs \in Seq(Tx), NEW opened,
         apply_block(miner, root, txs, opened)
  PROVE  LedgerInv'
<1> DEFINE run == ApplyTransactions(txs)
           reward == IF opened = {} THEN 0 ELSE Minted(RewardFor(opened))
           id == CommitFor(miner, root)
<1>1. /\ run.ok /\ verify_reveal(opened)
      /\ minted' = IF opened = {} THEN minted ELSE minted + Minted(RewardFor(opened))
      /\ accounts' = PayOut(run.accounts, opened, run.fees, miner)
      /\ executed' = executed \cup ToSet(txs)
      /\ tasks_completed' = tasks_completed + Cardinality(opened)
      /\ height' = height + 1
  BY DEF apply_block
<1>2. accounts \in Accounts /\ Money(accounts) = minted /\ NoncesUsed(executed, accounts)
      /\ minted \in Nat /\ height \in Nat
  BY DEF LedgerInv, IndInv
<1>3. run = RunTransactions(accounts, txs)
  BY DEF ApplyTransactions
<1> HIDE DEF run
<1>4. /\ run.accounts \in Accounts /\ run.fees \in Nat
      /\ Money(run.accounts) + run.fees = Money(accounts)
  BY <1>1, <1>2, <1>3, TransactionsConserve
<1>5. NoncesUsed(executed \cup ToSet(txs), run.accounts)
  BY <1>1, <1>2, <1>3, TransactionsUseNonces
<1>6. /\ accounts' \in Accounts
      /\ \A a \in Address : accounts'[a].nonce = run.accounts[a].nonce
      /\ Money(accounts') = Money(run.accounts) + reward + run.fees
      /\ reward \in Nat
  BY <1>1, <1>4, PayOutAdds
<1>7. minted' = minted + reward
  <2>1. CASE opened = {}
    BY <1>1, <1>2, <2>1
  <2>2. CASE opened # {}
    BY <1>1, <2>2
  <2> QED BY <2>1, <2>2
<1> HIDE DEF reward
<1>8. Money(accounts') = minted'
  <2>1. Money(run.accounts) \in Nat
    BY <1>4, MoneyIsNat
  <2> QED BY <1>2, <1>4, <1>6, <1>7, <2>1
<1>9. NoncesUsed(executed', accounts')
  <2>1. \A t \in executed \cup ToSet(txs) : t.from \in Address
    BY <1>5, TxType DEF NoncesUsed
  <2> QED BY <1>1, <1>5, <1>6, <2>1 DEF NoncesUsed
<1>10. \A c \in DOMAIN pending' : pending'[c] \in PendingCommit
  <2>1. Surviving(opened) = {}
    BY <1>1, BlockOpensTip DEF LedgerInv
  <2>2. pending' = [c \in {id} |-> NewCommit(miner, tasks_completed')]
    BY <1>1, <2>1 DEF apply_block
  <2>3. tasks_completed' \in Nat
    BY DEF IndInv
  <2>4. NewCommit(miner, tasks_completed') \in PendingCommit
    <3>1. block_reward(tasks_completed') \in Nat
      BY <2>3, RewardIsNat
    <3> QED BY <1>2, <3>1 DEF NewCommit, PendingCommit, REVEAL_WINDOW
  <2> HIDE DEF id
  <2> QED BY <2>2, <2>4
<1> QED
  BY <1>6, <1>8, <1>9, <1>10 DEF LedgerInv, Money, Balances, NoncesUsed

LEMMA InitEstablishesLedger == Init => LedgerInv
<1> SUFFICES ASSUME Init PROVE LedgerInv
  OBVIOUS
<1>1. IndInv
  BY InitEstablishesInvariant
<1>2. \A a \in Address : Premine[a] \in Nat
  BY GenesisAssumption
<1>3. accounts \in Accounts /\ \A a \in Address : accounts[a].nonce = 0
  BY <1>2 DEF Init, Accounts, Account
<1>4. Money(accounts) = minted
  <2>1. DOMAIN Premine = Address
    BY GenesisAssumption
  <2>2. Balances(accounts) = Premine
    BY <2>1, GenesisAssumption DEF Init, Balances
  <2> QED BY <2>1, <2>2 DEF Init, Money, PremineTotal, SumFunction
<1>5. NoncesUsed(executed, accounts)
  BY <1>3 DEF Init, NoncesUsed
<1> QED
  BY <1>1, <1>3, <1>4, <1>5 DEF LedgerInv, Init

LEMMA NextKeepsLedger == LedgerInv /\ [Next]_vars => LedgerInv'
<1> SUFFICES ASSUME LedgerInv, [Next]_vars PROVE LedgerInv'
  OBVIOUS
<1>1. IndInv'
  BY NextKeepsInvariant DEF LedgerInv
<1>2. CASE Block
  <2>1. PICK miner \in Address, root \in Roots, txs \in SeqOf(Tx, MaxBlockTxs),
             opened \in Reveals : apply_block(miner, root, txs, opened)
    BY <1>2 DEF Block
  <2> QED BY <1>1, <2>1, BlockTxsAreSequences, BlockKeepsLedger
<1>3. CASE UNCHANGED vars
  BY <1>1, <1>3 DEF vars, LedgerInv, Money, Balances, NoncesUsed
<1> QED
  BY <1>2, <1>3 DEF Next, BranchFull

\* The inductive invariant of the accounts holds in every reachable state.
THEOREM AccountsInvariant == Spec => []LedgerInv
BY InitEstablishesLedger, NextKeepsLedger, PTL DEF Spec

\* The state of the ledger is well typed: no balance, and not the amount that
\* apply_block mints or the nonce it expects, ever leaves its range.
THEOREM LedgerTypeCorrect == Spec => []TypeOK
<1>1. LedgerInv => TypeOK
  BY DEF LedgerInv, IndInv, TypeOK, Accounts, Account
<1> QED
  BY <1>1, AccountsInvariant, PTL

\* apply_block creates and loses no coin but what it mints: whatever transfers
\* a block makes among any number of accounts, and whoever gets its reward and
\* its fees, the balances add up to minted.
THEOREM CoinsAreConserved == Spec => []Conserved
<1>1. LedgerInv => Conserved
  BY MoneyIsSum DEF LedgerInv, Conserved
<1> QED
  BY <1>1, AccountsInvariant, PTL

\* A transaction takes effect at most once on a branch: an account's nonce
\* counts the distinct transactions that it sent.
THEOREM TransactionsExecuteOnce == Spec => []ExecutedOnce
<1>1. LedgerInv => ExecutedOnce
  BY OneTransactionPerNonce DEF LedgerInv, ExecutedOnce
<1> QED
  BY <1>1, AccountsInvariant, PTL

-----------------------------------------------------------------------------
(* The schedule *)

\* Division by the length of an epoch: the epoch of a task, and how many tasks
\* of it come before.
LEMMA EpochOfTask ==
  ASSUME NEW t \in Nat
  PROVE  /\ t \div HalvingInterval \in Nat
         /\ t % HalvingInterval \in 0 .. HalvingInterval - 1
         /\ t = HalvingInterval * (t \div HalvingInterval) + (t % HalvingInterval)
BY GenesisAssumption

LEMMA TaskOfEpoch ==
  ASSUME NEW t \in Nat, NEW e \in Nat, NEW r \in 0 .. HalvingInterval - 1,
         t = HalvingInterval * e + r
  PROVE  t \div HalvingInterval = e /\ t % HalvingInterval = r
BY GenesisAssumption

\* The next task is in the same epoch, or the first of the next one.
LEMMA EpochOfNextTask ==
  ASSUME NEW t \in Nat
  PROVE  LET e == t \div HalvingInterval
             r == t % HalvingInterval
         IN  \/ /\ (t + 1) \div HalvingInterval = e
                /\ (t + 1) % HalvingInterval = r + 1
             \/ /\ r = HalvingInterval - 1
                /\ (t + 1) \div HalvingInterval = e + 1
                /\ (t + 1) % HalvingInterval = 0
<1> DEFINE e == t \div HalvingInterval
           r == t % HalvingInterval
<1>1. /\ e \in Nat /\ r \in 0 .. HalvingInterval - 1
      /\ t = HalvingInterval * e + r
  BY EpochOfTask
<1>2. HalvingInterval \in Nat \ {0}
  BY GenesisAssumption
<1> HIDE DEF e, r
<1>3. CASE r + 1 \in 0 .. HalvingInterval - 1
  <2>1. t + 1 = HalvingInterval * e + (r + 1) /\ t + 1 \in Nat
    BY <1>1, <1>2
  <2>2. (t + 1) \div HalvingInterval = e /\ (t + 1) % HalvingInterval = r + 1
    BY <1>1, <1>3, <2>1, TaskOfEpoch
  <2> QED BY <2>2 DEF e, r
<1>4. CASE r = HalvingInterval - 1
  <2>1. t + 1 = HalvingInterval * (e + 1) + 0 /\ t + 1 \in Nat
    BY <1>1, <1>2, <1>4
  <2>2. e + 1 \in Nat /\ 0 \in 0 .. HalvingInterval - 1
    BY <1>1, <1>2
  <2>3. (t + 1) \div HalvingInterval = e + 1 /\ (t + 1) % HalvingInterval = 0
    BY <2>1, <2>2, TaskOfEpoch
  <2> QED BY <1>4, <2>3 DEF e, r
<1> QED
  BY <1>1, <1>2, <1>3, <1>4

\* The rewards of the epochs from e on.
FromEpoch(e) == SumFunctionOnSet(EpochReward, e .. EPOCHS - 1)

\* What the schedule still mints once t tasks are settled.
Unissued(t) ==
  LET e == t \div HalvingInterval
  IN  IF e >= EPOCHS THEN 0
      ELSE FromEpoch(e) - (t % HalvingInterval) * ShiftRight(InitialReward, e)

\* The sum over the epochs, one epoch at a time.
LEMMA EpochsAddUp ==
  ASSUME NEW e \in Nat, e < EPOCHS
  PROVE  /\ FromEpoch(e + 1) \in Nat
         /\ FromEpoch(e)
              = HalvingInterval * ShiftRight(InitialReward, e) + FromEpoch(e + 1)
<1> DEFINE S == e .. EPOCHS - 1
<1>1. EPOCHS \in Nat /\ HalvingInterval \in Nat
  BY GenesisAssumption
<1>2. IsFiniteSet(S) /\ IsFiniteSet((e + 1) .. EPOCHS - 1)
  BY <1>1, FS_Interval
<1>3. \A i \in 0 .. EPOCHS - 1 :
        EpochReward[i] = HalvingInterval * ShiftRight(InitialReward, i)
        /\ EpochReward[i] \in Nat
  <2>1. ASSUME NEW i \in 0 .. EPOCHS - 1
        PROVE  ShiftRight(InitialReward, i) \in Nat
    BY <1>1, ShiftIsNat
  <2>2. ASSUME NEW i \in 0 .. EPOCHS - 1
        PROVE  EpochReward[i] = HalvingInterval * ShiftRight(InitialReward, i)
    BY DEF EpochReward
  <2> QED BY <1>1, <2>1, <2>2
<1>4. /\ S \subseteq 0 .. EPOCHS - 1 /\ (e + 1) .. EPOCHS - 1 \subseteq 0 .. EPOCHS - 1
      /\ e \in S /\ S \ {e} = (e + 1) .. EPOCHS - 1
  BY <1>1
<1>5. Counts(EpochReward, S) /\ Counts(EpochReward, (e + 1) .. EPOCHS - 1)
  BY <1>3, <1>4 DEF Counts
<1> HIDE DEF S
<1>6. SumFunctionOnSet(EpochReward, S)
        = EpochReward[e] + SumFunctionOnSet(EpochReward, S \ {e})
  BY <1>2, <1>4, <1>5, SumRemove
<1>7. SumFunctionOnSet(EpochReward, (e + 1) .. EPOCHS - 1) \in Nat
  BY <1>2, <1>5, SumType
<1>8. EpochReward[e] = HalvingInterval * ShiftRight(InitialReward, e)
  BY <1>3, <1>4
<1> QED
  BY <1>4, <1>6, <1>7, <1>8 DEF FromEpoch, S

LEMMA NothingAfterLastEpoch == FromEpoch(EPOCHS) = 0
<1>1. EPOCHS .. EPOCHS - 1 = {}
  BY GenesisAssumption
<1>2. Counts(EpochReward, {}) /\ IsFiniteSet({})
  BY FS_EmptySet DEF Counts
<1> QED
  BY <1>1, <1>2, SumType DEF FromEpoch

\* Each task settled takes its reward off what is left, which never runs short.
LEMMA ScheduleCountsDown ==
  ASSUME NEW t \in Nat
  PROVE  /\ Unissued(t) \in Nat /\ Unissued(t + 1) \in Nat
         /\ Unissued(t) = block_reward(t) + Unissued(t + 1)
<1> DEFINE e == t \div HalvingInterval
           r == t % HalvingInterval
           shift == ShiftRight(InitialReward, e)
           H == HalvingInterval
<1>1. H \in Nat \ {0} /\ EPOCHS \in Nat
  BY GenesisAssumption
<1>2. e \in Nat /\ r \in 0 .. H - 1
  BY EpochOfTask
<1>3. \/ (t + 1) \div H = e /\ (t + 1) % H = r + 1
      \/ r = H - 1 /\ (t + 1) \div H = e + 1 /\ (t + 1) % H = 0
  BY EpochOfNextTask
<1>4. (t + 1) % H \in 0 .. H - 1 /\ t + 1 \in Nat
  BY EpochOfTask
<1>5. CASE e >= EPOCHS
  <2>1. block_reward(t) = 0 /\ Unissued(t) = 0
    BY <1>5 DEF block_reward, Unissued
  <2>2. (t + 1) \div H >= EPOCHS
    <3> HIDE DEF e, r, H
    <3> QED BY <1>1, <1>2, <1>3, <1>5
  <2>3. Unissued(t + 1) = 0
    BY <2>2 DEF Unissued
  <2> QED BY <2>1, <2>3
<1>6. CASE ~(e >= EPOCHS)
  <2>1. e < EPOCHS
    <3> HIDE DEF e
    <3> QED BY <1>1, <1>2, <1>6
  <2>2. block_reward(t) = shift /\ Unissued(t) = FromEpoch(e) - r * shift
    BY <1>6 DEF block_reward, Unissued
  <2>3. shift \in Nat
    BY <1>2, ShiftIsNat
  <2>4. FromEpoch(e + 1) \in Nat /\ FromEpoch(e) = H * shift + FromEpoch(e + 1)
    BY <1>2, <2>1, EpochsAddUp
  <2> DEFINE later == FromEpoch(e + 1)
  <2>5. CASE (t + 1) \div H = e /\ (t + 1) % H = r + 1
    <3>1. Unissued(t + 1) = FromEpoch(e) - (r + 1) * shift
      BY <1>6, <2>5 DEF Unissued
    <3>2. r + 1 \in 0 .. H - 1
      BY <1>4, <2>5
    <3> HIDE DEF e, r, H, shift, later
    <3>3. Unissued(t) = (H - r) * shift + later
      BY <1>1, <1>2, <2>2, <2>3, <2>4 DEF later
    <3>4. Unissued(t + 1) = (H - (r + 1)) * shift + later
      BY <1>1, <1>2, <2>3, <2>4, <3>1 DEF later
    <3>5. (H - r) * shift = shift + (H - (r + 1)) * shift
      BY <1>1, <1>2, <2>3
    <3>6. H - (r + 1) \in Nat
      BY <1>1, <1>2, <3>2
    <3>7. (H - (r + 1)) * shift \in Nat
      BY <2>3, <3>6
    <3>8. later \in Nat
      BY <2>4 DEF later
    <3> QED BY <2>2, <2>3, <3>3, <3>4, <3>5, <3>7, <3>8
  <2>6. CASE r = H - 1 /\ (t + 1) \div H = e + 1 /\ (t + 1) % H = 0
    <3>1. Unissued(t + 1) = later
      <4>1. CASE e + 1 >= EPOCHS
        <5>1. e + 1 = EPOCHS
          <6> HIDE DEF e
          <6> QED BY <1>1, <1>2, <2>1, <4>1
        <5>2. later = 0
          BY <5>1, NothingAfterLastEpoch
        <5> QED BY <2>6, <4>1, <5>2 DEF Unissued
      <4>2. CASE ~(e + 1 >= EPOCHS)
        <5>1. Unissued(t + 1) = later - 0 * ShiftRight(InitialReward, e + 1)
          BY <2>6, <4>2 DEF Unissued
        <5>2. e + 1 \in Nat
          BY <1>2
        <5>3. ShiftRight(InitialReward, e + 1) \in Nat
          BY <5>2, ShiftIsNat
        <5> HIDE DEF e, later
        <5> QED BY <2>4, <5>1, <5>3 DEF later
      <4> QED BY <4>1, <4>2
    <3> HIDE DEF e, r, H, shift, later
    <3>2. H * shift - (H - 1) * shift = shift
      BY <1>1, <2>3
    <3>3. (H - 1) * shift \in Int /\ H * shift \in Int
      BY <1>1, <2>3
    <3> QED BY <2>2, <2>3, <2>4, <2>6, <3>1, <3>2, <3>3 DEF later
  <2> QED BY <1>3, <2>5, <2>6
<1> QED
  BY <1>5, <1>6

LEMMA NothingIssuedYet == Unissued(0) = Emission
<1>1. HalvingInterval \in Nat \ {0} /\ EPOCHS \in Nat
  BY GenesisAssumption
<1>2. 0 \div HalvingInterval = 0 /\ 0 % HalvingInterval = 0
  BY <1>1
<1>3. Emission = FromEpoch(0)
  BY DEF Emission, SumFunction, EpochReward, FromEpoch
<1>4. CASE EPOCHS = 0
  BY <1>2, <1>3, <1>4, NothingAfterLastEpoch DEF Unissued
<1>5. CASE EPOCHS # 0
  <2>1. 0 \in Nat /\ 0 < EPOCHS
    BY <1>1, <1>5
  <2>2. ShiftRight(InitialReward, 0) \in Nat
    BY <2>1, ShiftIsNat
  <2>3. FromEpoch(0) = HalvingInterval * ShiftRight(InitialReward, 0) + FromEpoch(0 + 1)
        /\ FromEpoch(0 + 1) \in Nat
    BY <2>1, EpochsAddUp
  <2>4. HalvingInterval * ShiftRight(InitialReward, 0) \in Nat
    BY <1>1, <2>2
  <2>5. FromEpoch(0) \in Nat
    BY <2>3, <2>4
  <2>6. Unissued(0) = FromEpoch(0) - 0 * ShiftRight(InitialReward, 0)
    BY <1>2, <2>1, <1>1 DEF Unissued
  <2> QED BY <1>3, <2>2, <2>5, <2>6
<1> QED
  BY <1>4, <1>5

\* What is minted and what the schedule still has to mint fit under the cap.
ScheduleInv == IndInv /\ minted + Unissued(tasks_completed) <= SupplyCap

LEMMA InitEstablishesSchedule == Init => ScheduleInv
<1> SUFFICES ASSUME Init PROVE ScheduleInv
  OBVIOUS
<1>1. Emission \in Nat
  <2>1. 0 \in Nat
    OBVIOUS
  <2> QED BY <2>1, NothingIssuedYet, ScheduleCountsDown
<1>2. IndInv
  BY InitEstablishesInvariant
<1> QED
  BY <1>1, <1>2, NothingIssuedYet, GenesisAssumption, GenesisValid
     DEF Init, ScheduleInv

LEMMA NextKeepsSchedule == ScheduleInv /\ [Next]_vars => ScheduleInv'
<1> SUFFICES ASSUME ScheduleInv, [Next]_vars PROVE ScheduleInv'
  OBVIOUS
<1> DEFINE t == tasks_completed
<1>1. IndInv /\ IndInv'
  BY NextKeepsInvariant DEF ScheduleInv
<1>2. t \in Nat /\ minted \in Nat /\ SupplyCap \in Nat
  BY <1>1, GenesisAssumption DEF IndInv
<1>3. /\ Unissued(t) \in Nat /\ Unissued(t + 1) \in Nat
      /\ Unissued(t) = block_reward(t) + Unissued(t + 1)
      /\ block_reward(t) \in Nat
  BY <1>2, ScheduleCountsDown, RewardIsNat
<1>4. minted + Unissued(t) <= SupplyCap
  BY DEF ScheduleInv
<1>5. CASE UNCHANGED <<minted, tasks_completed>>
  BY <1>1, <1>4, <1>5 DEF ScheduleInv, Unissued, FromEpoch, EpochReward, ShiftRight
<1>6. CASE tasks_completed' = t + 1 /\ minted' = minted + Minted(block_reward(t))
  <2>1. minted' + Unissued(t + 1) <= SupplyCap
    <3> HIDE DEF t
    <3> QED BY <1>2, <1>3, <1>4, <1>6 DEF Minted
  <2> QED
    BY <1>1, <1>6, <2>1 DEF ScheduleInv, Unissued, FromEpoch, EpochReward, ShiftRight
<1>7. UNCHANGED <<minted, tasks_completed>>
      \/ (tasks_completed' = t + 1 /\ minted' = minted + Minted(block_reward(t)))
  BY <1>1, BlockSettles DEF Next, Block, BranchFull, vars
<1> QED
  BY <1>5, <1>6, <1>7

\* The check of GenesisConfig::validate, that emission and allocations fit under
\* max_supply, makes the clipping in mint unreachable: every sound reveal is paid
\* the reward its commitment recorded, in full, for every schedule.
THEOREM EveryRewardIsPaidInFull == Spec => []RewardsPaidInFull
<1>1. ScheduleInv => RewardsPaidInFull
  <2> SUFFICES ASSUME ScheduleInv, NEW c \in DOMAIN pending
               PROVE  minted + pending[c].reward <= SupplyCap
    BY DEF RewardsPaidInFull
  <2>1. IndInv /\ tasks_completed \in Nat /\ minted \in Nat
    BY GenesisAssumption DEF ScheduleInv, IndInv
  <2>2. pending[c].reward = block_reward(tasks_completed)
    BY <2>1 DEF IndInv, OnlyTipIsPending
  <2>3. /\ Unissued(tasks_completed + 1) \in Nat
        /\ Unissued(tasks_completed)
             = block_reward(tasks_completed) + Unissued(tasks_completed + 1)
        /\ block_reward(tasks_completed) \in Nat
    BY <2>1, ScheduleCountsDown, RewardIsNat
  <2>4. minted + Unissued(tasks_completed) <= SupplyCap
    BY DEF ScheduleInv
  <2> QED BY <2>1, <2>2, <2>3, <2>4, GenesisAssumption
<1> QED
  BY <1>1, InitEstablishesSchedule, NextKeepsSchedule, PTL DEF Spec

-----------------------------------------------------------------------------
(* Powers of two, and quotients *)

\* A set with one more element has twice as many subsets.
LEMMA PowerOfTwo ==
  /\ 2^0 = 1
  /\ \A n \in Nat : 2^n \in Nat /\ 2^n > 0 /\ 2^(n + 1) = 2 * 2^n
<1>1. 2^0 = 1
  OBVIOUS
<1>2. ASSUME NEW n \in Nat
      PROVE  /\ IsFiniteSet(SUBSET (1 .. n)) /\ Cardinality(SUBSET (1 .. n)) = 2^n
             /\ 2^n \in Nat /\ 2^n > 0
  <2>1. IsFiniteSet(1 .. n) /\ Cardinality(1 .. n) = n
    BY FS_Interval
  <2>2. IsFiniteSet(SUBSET (1 .. n)) /\ Cardinality(SUBSET (1 .. n)) = 2^Cardinality(1 .. n)
    BY <2>1, FS_SUBSET
  <2>3. {} \in SUBSET (1 .. n)
    OBVIOUS
  <2>4. Cardinality(SUBSET (1 .. n)) \in Nat /\ Cardinality(SUBSET (1 .. n)) # 0
    BY <2>2, <2>3, FS_CardinalityType, FS_EmptySet
  <2> QED BY <2>1, <2>2, <2>4
<1>3. ASSUME NEW n \in Nat
      PROVE  2^(n + 1) = 2 * 2^n
  <2> DEFINE old == SUBSET (1 .. n)
             new == {s \cup {n + 1} : s \in old}
             both == SUBSET (1 .. n + 1)
  <2>1. n + 1 \notin 1 .. n /\ 1 .. n + 1 = (1 .. n) \cup {n + 1}
    OBVIOUS
  <2>2. both = old \cup new /\ old \cap new = {}
    <3>1. ASSUME NEW s \in both
          PROVE  s \in old \cup new
      <4>1. CASE n + 1 \in s
        <5>1. s \ {n + 1} \in old /\ s = (s \ {n + 1}) \cup {n + 1}
          BY <2>1, <4>1
        <5> QED BY <5>1
      <4>2. CASE n + 1 \notin s
        BY <2>1, <4>2
      <4> QED BY <4>1, <4>2
    <3>2. old \subseteq both /\ new \subseteq both
      BY <2>1
    <3>3. old \cap new = {}
      BY <2>1
    <3> QED BY <3>1, <3>2, <3>3
  <2>3. ExistsBijection(old, new)
    <3> DEFINE f == [s \in old |-> s \cup {n + 1}]
    <3>1. f \in Bijection(old, new)
      <4>1. f \in [old -> new]
        OBVIOUS
      <4>2. \A s, t \in old : f[s] = f[t] => s = t
        <5> SUFFICES ASSUME NEW s \in old, NEW t \in old, f[s] = f[t]
                     PROVE  s = t
          OBVIOUS
        <5>1. s \cup {n + 1} = t \cup {n + 1} /\ n + 1 \notin s /\ n + 1 \notin t
          BY <2>1
        <5> QED BY <5>1
      <4>3. \A u \in new : \E s \in old : f[s] = u
        OBVIOUS
      <4> HIDE DEF f, new, old
      <4> QED BY <4>1, <4>2, <4>3 DEF Bijection, Injection, Surjection, IsInjective
    <3> QED BY <3>1 DEF ExistsBijection
  <2>4. IsFiniteSet(old) /\ Cardinality(old) = 2^n
    BY <1>2
  <2>5. IsFiniteSet(new) /\ Cardinality(new) = 2^n
    <3> HIDE DEF old, new
    <3> QED BY <2>3, <2>4, FS_Bijection
  <2> DEFINE p == 2^n
  <2>6. p \in Nat /\ Cardinality(old) = p /\ Cardinality(new) = p
    BY <1>2, <2>4, <2>5
  <2>7. n + 1 \in Nat
    OBVIOUS
  <2>8. Cardinality(both) = 2^(n + 1)
    BY <1>2, <2>7
  <2> HIDE DEF p, both, old, new
  <2>9. Cardinality(both) = Cardinality(old) + Cardinality(new) - 0
    BY <2>2, <2>4, <2>5, FS_EmptySet, FS_Union
  <2>10. Cardinality(both) = 2 * p
    BY <2>6, <2>9
  <2> QED BY <2>8, <2>10 DEF p
<1> QED BY <1>1, <1>2, <1>3

\* A quotient is what it is multiplied by and what is left over.
LEMMA Quotient ==
  ASSUME NEW x \in Nat, NEW q \in Nat, q > 0
  PROVE  /\ x \div q \in Nat /\ x % q \in 0 .. q - 1
         /\ x = q * (x \div q) + (x % q)
OBVIOUS

LEMMA QuotientIs ==
  ASSUME NEW q \in Nat, q > 0, NEW a \in Nat, NEW r \in 0 .. q - 1
  PROVE  (q * a + r) \div q = a
OBVIOUS

\* A quotient of a quotient.
LEMMA QuotientTwice ==
  ASSUME NEW x \in Nat, NEW q \in Nat, q > 0, NEW m \in Nat, m > 0
  PROVE  x \div (m * q) = (x \div q) \div m
<1> DEFINE a == x \div q
           r == x % q
           b == a \div m
           s == a % m
<1>1. a \in Nat /\ r \in 0 .. q - 1 /\ x = q * a + r
  BY Quotient
<1>2. b \in Nat /\ s \in 0 .. m - 1 /\ a = m * b + s
  <2> HIDE DEF a
  <2> QED BY <1>1, Quotient
<1> HIDE DEF a, r, b, s
<1> DEFINE p == m * q
           t == q * s + r
<1>3. p \in Nat /\ p > 0
  OBVIOUS
<1>4. t \in 0 .. p - 1
  <2>1. q * s \in Nat /\ q * s <= q * (m - 1)
    BY <1>2
  <2>2. q * (m - 1) = p - q
    OBVIOUS
  <2> HIDE DEF p
  <2> QED BY <1>1, <1>3, <2>1, <2>2
<1>5. x = p * b + t
  <2>1. q * a = p * b + q * s
    BY <1>1, <1>2
  <2>2. q * a \in Nat /\ p * b \in Nat /\ q * s \in Nat
    BY <1>1, <1>2
  <2> HIDE DEF p
  <2> QED BY <1>1, <2>1, <2>2
<1> HIDE DEF p, t
<1>6. x \div p = b
  BY <1>2, <1>3, <1>4, <1>5, QuotientIs
<1> QED BY <1>6 DEF a, b, p

-----------------------------------------------------------------------------
(* The tree over the rows of a matrix *)

\* The level above one, the k-th above the leaves.
Above(level, k) ==
  [i \in 0 .. 2^(N_LOG2 - k) - 1 |-> node_hash(level[2 * i], level[2 * i + 1])]

Storeys(L, n, leaves) ==
  L = [k \in 0 .. n |-> IF k = 0 THEN leaves ELSE Above(L[k - 1], k)]

LEMMA StoreysExist ==
  ASSUME NEW n \in Nat, NEW leaves
  PROVE  \E L : Storeys(L, n, leaves)
<1> DEFINE Q == {k \in 0 .. n : \E L : Storeys(L, k, leaves)}
<1>1. 0 \in Q
  <2> DEFINE L == [k \in 0 .. 0 |-> leaves]
  <2>1. Storeys(L, 0, leaves)
    BY DEF Storeys
  <2> QED BY <2>1
<1>2. ASSUME NEW k \in 0 .. n - 1, k \in Q
      PROVE  k + 1 \in Q
  <2>1. PICK L : Storeys(L, k, leaves)
    BY <1>2
  <2> DEFINE M == [i \in 0 .. k + 1 |-> IF i = k + 1 THEN Above(L[k], i) ELSE L[i]]
  <2>2. \A i \in 0 .. k : L[i] = IF i = 0 THEN leaves ELSE Above(L[i - 1], i)
    BY <2>1 DEF Storeys
  <2>3. \A i \in 0 .. k + 1 : M[i] = IF i = 0 THEN leaves ELSE Above(M[i - 1], i)
    <3> SUFFICES ASSUME NEW i \in 0 .. k + 1
                 PROVE  M[i] = IF i = 0 THEN leaves ELSE Above(M[i - 1], i)
      OBVIOUS
    <3>1. CASE i = 0
      BY <2>2, <3>1
    <3>2. CASE i = k + 1
      <4>1. i - 1 = k /\ k \in 0 .. k + 1 /\ k # k + 1 /\ i # 0
        BY <3>2
      <4>2. M[i - 1] = L[k] /\ M[i] = Above(L[k], i)
        BY <3>2, <4>1
      <4> QED BY <4>1, <4>2
    <3>3. CASE i # 0 /\ i # k + 1
      <4>1. i \in 0 .. k /\ i - 1 \in 0 .. k + 1 /\ i - 1 # k + 1
        BY <3>3
      <4>2. M[i - 1] = L[i - 1] /\ M[i] = L[i]
        BY <3>3, <4>1
      <4> QED BY <2>2, <3>3, <4>1, <4>2
    <3> QED BY <3>1, <3>2, <3>3
  <2>4. Storeys(M, k + 1, leaves)
    <3>1. M = [i \in 0 .. k + 1 |-> M[i]]
      OBVIOUS
    <3> HIDE DEF M
    <3> QED BY <2>3, <3>1 DEF Storeys
  <2>5. k + 1 \in 0 .. n
    OBVIOUS
  <2> QED BY <2>4, <2>5
<1>3. n \in Q
  <2> HIDE DEF Q
  <2>1. \A k \in 0 .. n : k \in Q
    BY <1>1, <1>2, UpTo
  <2> QED BY <2>1
<1> QED BY <1>3

\* merkle_levels has the leaves at the bottom and hashes pairs on every level.
LEMMA MerkleLevels ==
  ASSUME NEW leaves
  PROVE  /\ merkle_levels(leaves)[0] = leaves
         /\ \A k \in 1 .. N_LOG2 :
              \A i \in 0 .. 2^(N_LOG2 - k) - 1 :
                merkle_levels(leaves)[k][i]
                  = node_hash(merkle_levels(leaves)[k - 1][2 * i],
                              merkle_levels(leaves)[k - 1][2 * i + 1])
<1> DEFINE L == merkle_levels(leaves)
<1>1. N_LOG2 \in Nat
  BY UsefulWorkAssumption
<1>2. L = CHOOSE level : Storeys(level, N_LOG2, leaves)
  BY DEF merkle_levels, Storeys, Above
<1>3. Storeys(L, N_LOG2, leaves)
  BY <1>1, <1>2, StoreysExist
<1> HIDE DEF L
<1>4. \A k \in 0 .. N_LOG2 : L[k] = IF k = 0 THEN leaves ELSE Above(L[k - 1], k)
  BY <1>3 DEF Storeys
<1>5. L[0] = leaves
  BY <1>1, <1>4
<1>6. \A k \in 1 .. N_LOG2 : L[k] = Above(L[k - 1], k)
  BY <1>1, <1>4
<1> QED BY <1>5, <1>6 DEF Above, L

\* What merkle_verify goes through from a leaf, with the siblings of a proof.
Climb(index, level, sibling, k) ==
  IF IsLeft(index, k) THEN node_hash(level, sibling) ELSE node_hash(sibling, level)

Climbs(cur, n, index, leaf, proof) ==
  cur = [k \in 0 .. n |-> IF k = 0 THEN leaf ELSE Climb(index, cur[k - 1], proof[k], k)]

LEMMA ClimbsExist ==
  ASSUME NEW n \in Nat, NEW index, NEW leaf, NEW proof
  PROVE  \E cur : Climbs(cur, n, index, leaf, proof)
<1> DEFINE Q == {k \in 0 .. n : \E cur : Climbs(cur, k, index, leaf, proof)}
<1>1. 0 \in Q
  <2> DEFINE cur == [k \in 0 .. 0 |-> leaf]
  <2>1. Climbs(cur, 0, index, leaf, proof)
    BY DEF Climbs
  <2> QED BY <2>1
<1>2. ASSUME NEW k \in 0 .. n - 1, k \in Q
      PROVE  k + 1 \in Q
  <2>1. PICK L : Climbs(L, k, index, leaf, proof)
    BY <1>2
  <2> DEFINE M == [i \in 0 .. k + 1 |->
                     IF i = k + 1 THEN Climb(index, L[k], proof[i], i) ELSE L[i]]
  <2>2. \A i \in 0 .. k :
          L[i] = IF i = 0 THEN leaf ELSE Climb(index, L[i - 1], proof[i], i)
    BY <2>1 DEF Climbs
  <2>3. \A i \in 0 .. k + 1 :
          M[i] = IF i = 0 THEN leaf ELSE Climb(index, M[i - 1], proof[i], i)
    <3> SUFFICES ASSUME NEW i \in 0 .. k + 1
                 PROVE  M[i] = IF i = 0 THEN leaf ELSE Climb(index, M[i - 1], proof[i], i)
      OBVIOUS
    <3>1. CASE i = 0
      BY <2>2, <3>1
    <3>2. CASE i = k + 1
      <4>1. i - 1 = k /\ k \in 0 .. k + 1 /\ k # k + 1 /\ i # 0
        BY <3>2
      <4>2. M[i - 1] = L[k] /\ M[i] = Climb(index, L[k], proof[i], i)
        BY <3>2, <4>1
      <4> QED BY <4>1, <4>2
    <3>3. CASE i # 0 /\ i # k + 1
      <4>1. i \in 0 .. k /\ i - 1 \in 0 .. k + 1 /\ i - 1 # k + 1
        BY <3>3
      <4>2. M[i - 1] = L[i - 1] /\ M[i] = L[i]
        BY <3>3, <4>1
      <4> QED BY <2>2, <3>3, <4>1, <4>2
    <3> QED BY <3>1, <3>2, <3>3
  <2>4. Climbs(M, k + 1, index, leaf, proof)
    <3>1. M = [i \in 0 .. k + 1 |-> M[i]]
      OBVIOUS
    <3> HIDE DEF M
    <3> QED BY <2>3, <3>1 DEF Climbs
  <2>5. k + 1 \in 0 .. n
    OBVIOUS
  <2> QED BY <2>4, <2>5
<1>3. n \in Q
  <2> HIDE DEF Q
  <2>1. \A k \in 0 .. n : k \in Q
    BY <1>1, <1>2, UpTo
  <2> QED BY <2>1
<1> QED BY <1>3

LEMMA MerkleVerify ==
  ASSUME NEW root, NEW index, NEW leaf, NEW proof
  PROVE  \E cur :
           /\ cur[0] = leaf
           /\ \A k \in 1 .. N_LOG2 : cur[k] = Climb(index, cur[k - 1], proof[k], k)
           /\ merkle_verify(root, index, leaf, proof)
                <=> Len(proof) = N_LOG2 /\ index \in Row /\ cur[N_LOG2] = root
<1> DEFINE cur == CHOOSE c : Climbs(c, N_LOG2, index, leaf, proof)
<1>1. N_LOG2 \in Nat
  BY UsefulWorkAssumption
<1>2. Climbs(cur, N_LOG2, index, leaf, proof)
  BY <1>1, ClimbsExist
<1>3. merkle_verify(root, index, leaf, proof)
        <=> Len(proof) = N_LOG2 /\ index \in Row /\ cur[N_LOG2] = root
  BY DEF merkle_verify, Climbs, Climb
<1> HIDE DEF cur
<1>4. \A k \in 0 .. N_LOG2 :
        cur[k] = IF k = 0 THEN leaf ELSE Climb(index, cur[k - 1], proof[k], k)
  BY <1>2 DEF Climbs
<1>5. cur[0] = leaf
  BY <1>1, <1>4
<1>6. \A k \in 1 .. N_LOG2 : cur[k] = Climb(index, cur[k - 1], proof[k], k)
  BY <1>1, <1>4
<1> QED BY <1>3, <1>5, <1>6

\* The place on level k above a leaf.
Over(index, k) == index \div 2^k

LEMMA PathToRoot ==
  ASSUME NEW index \in Row
  PROVE  /\ Over(index, 0) = index /\ Over(index, N_LOG2) = 0
         /\ \A k \in 0 .. N_LOG2 : Over(index, k) \in 0 .. 2^(N_LOG2 - k) - 1
         /\ \A k \in 1 .. N_LOG2 :
              /\ IsLeft(index, k) => Over(index, k - 1) = 2 * Over(index, k)
              /\ ~IsLeft(index, k) => Over(index, k - 1) = 2 * Over(index, k) + 1
<1>1. N_LOG2 \in Nat
  BY UsefulWorkAssumption
<1>2. index \in Nat /\ index < 2^N_LOG2 /\ 2^N_LOG2 \in Nat
  BY <1>1, PowerOfTwo DEF Row, N
<1>3. \A k \in 0 .. N_LOG2 : Over(index, k) \in Nat
  <2> SUFFICES ASSUME NEW k \in 0 .. N_LOG2 PROVE Over(index, k) \in Nat
    OBVIOUS
  <2> DEFINE q == 2^k
  <2>1. q \in Nat /\ q > 0
    BY <1>1, PowerOfTwo
  <2> HIDE DEF q
  <2>2. index \div q \in Nat
    BY <1>2, <2>1
  <2> QED BY <2>2 DEF Over, q
<1>4. ASSUME NEW k \in 1 .. N_LOG2
      PROVE  Over(index, k) = Over(index, k - 1) \div 2
  <2> DEFINE q == 2^(k - 1)
  <2>1. q \in Nat /\ q > 0 /\ 2^k = 2 * q
    <3>1. k - 1 \in Nat /\ (k - 1) + 1 = k
      BY <1>1
    <3>2. 2^((k - 1) + 1) = 2 * 2^(k - 1)
      BY <3>1, PowerOfTwo
    <3> QED BY <3>1, <3>2, PowerOfTwo
  <2> HIDE DEF q
  <2>2. index \div (2 * q) = (index \div q) \div 2
    BY <1>2, <2>1, QuotientTwice
  <2> QED BY <2>1, <2>2 DEF Over, q
<1>5. Over(index, 0) = index
  BY <1>2, PowerOfTwo DEF Over
<1>6. \A k \in 0 .. N_LOG2 : Over(index, k) \in 0 .. 2^(N_LOG2 - k) - 1
  <2> DEFINE Q == {k \in 0 .. N_LOG2 : Over(index, k) <= 2^(N_LOG2 - k) - 1}
  <2>1. 0 \in Q
    <3>1. N_LOG2 - 0 = N_LOG2 /\ 0 \in 0 .. N_LOG2
      BY <1>1
    <3> QED BY <1>2, <1>5, <3>1
  <2>2. ASSUME NEW k \in 0 .. N_LOG2 - 1, k \in Q
        PROVE  k + 1 \in Q
    <3> DEFINE h == 2^(N_LOG2 - (k + 1))
    <3>1. h \in Nat /\ h > 0 /\ 2^(N_LOG2 - k) = 2 * h
      <4>1. N_LOG2 - (k + 1) \in Nat /\ (N_LOG2 - (k + 1)) + 1 = N_LOG2 - k
        BY <1>1
      <4>2. 2^((N_LOG2 - (k + 1)) + 1) = 2 * 2^(N_LOG2 - (k + 1))
        BY <4>1, PowerOfTwo
      <4> QED BY <4>1, <4>2, PowerOfTwo
    <3>2. k + 1 \in 1 .. N_LOG2 /\ (k + 1) - 1 = k /\ k + 1 \in 0 .. N_LOG2
      BY <1>1
    <3>3. Over(index, k + 1) = Over(index, k) \div 2
      BY <1>4, <3>2
    <3>4. Over(index, k) \in Nat /\ Over(index, k) <= 2 * h - 1
      BY <1>3, <2>2, <3>1
    <3> HIDE DEF h
    <3>5. Over(index, k + 1) <= h - 1
      BY <3>1, <3>3, <3>4
    <3> QED BY <3>2, <3>5 DEF h
  <2>3. \A k \in 0 .. N_LOG2 : k \in Q
    <3> HIDE DEF Q
    <3> QED BY <1>1, <2>1, <2>2, UpTo
  <2> SUFFICES ASSUME NEW k \in 0 .. N_LOG2
               PROVE  Over(index, k) \in 0 .. 2^(N_LOG2 - k) - 1
    OBVIOUS
  <2>4. N_LOG2 - k \in Nat
    BY <1>1
  <2>5. 2^(N_LOG2 - k) \in Nat
    BY <2>4, PowerOfTwo
  <2>6. Over(index, k) <= 2^(N_LOG2 - k) - 1 /\ Over(index, k) \in Nat
    BY <1>3, <2>3
  <2> QED BY <2>5, <2>6
<1>7. Over(index, N_LOG2) = 0
  <2>1. N_LOG2 \in 0 .. N_LOG2 /\ N_LOG2 - N_LOG2 = 0
    BY <1>1
  <2>2. Over(index, N_LOG2) \in 0 .. 2^0 - 1
    BY <1>6, <2>1
  <2> QED BY <2>2
<1>8. ASSUME NEW k \in 1 .. N_LOG2
      PROVE  /\ IsLeft(index, k) => Over(index, k - 1) = 2 * Over(index, k)
             /\ ~IsLeft(index, k) => Over(index, k - 1) = 2 * Over(index, k) + 1
  <2> DEFINE a == Over(index, k - 1)
  <2>1. a \in Nat
    BY <1>1, <1>3
  <2>2. Over(index, k) = a \div 2
    BY <1>4
  <2>3. IsLeft(index, k) <=> a % 2 = 0
    BY DEF IsLeft, Over
  <2> HIDE DEF a
  <2>4. /\ a % 2 = 0 => a = 2 * (a \div 2)
        /\ a % 2 # 0 => a = 2 * (a \div 2) + 1
    BY <2>1
  <2> QED BY <2>2, <2>3, <2>4 DEF a
<1> QED BY <1>5, <1>6, <1>7, <1>8

\* One level up, the tree holds the hash of what is on the path and beside it.
LEMMA OneLevelUp ==
  ASSUME NEW leaves, NEW index \in Row, NEW k \in 1 .. N_LOG2
  PROVE  merkle_levels(leaves)[k][Over(index, k)]
           = Climb(index, merkle_levels(leaves)[k - 1][Over(index, k - 1)],
                   merkle_proof(leaves, index)[k], k)
<1> DEFINE L == merkle_levels(leaves)
           a == Over(index, k - 1)
           b == Over(index, k)
<1>1. N_LOG2 \in Nat
  BY UsefulWorkAssumption
<1>2. /\ b \in 0 .. 2^(N_LOG2 - k) - 1
      /\ IsLeft(index, k) => a = 2 * b
      /\ ~IsLeft(index, k) => a = 2 * b + 1
  <2>1. k \in 0 .. N_LOG2
    BY <1>1
  <2> QED BY <2>1, PathToRoot
<1>3. L[k][b] = node_hash(L[k - 1][2 * b], L[k - 1][2 * b + 1])
  <2> HIDE DEF a, b
  <2> QED BY <1>2, MerkleLevels
<1>4. b \in Nat
  <2>1. N_LOG2 - k \in Nat
    BY <1>1
  <2>2. 2^(N_LOG2 - k) \in Nat
    BY <2>1, PowerOfTwo
  <2> HIDE DEF b
  <2> QED BY <1>2, <2>2
<1>5. merkle_proof(leaves, index)[k] = L[k - 1][IF IsLeft(index, k) THEN a + 1 ELSE a - 1]
  BY DEF merkle_proof, Over
<1> HIDE DEF L, a, b
<1>6. CASE IsLeft(index, k)
  BY <1>2, <1>3, <1>5, <1>6 DEF Climb, L, a, b
<1>7. CASE ~IsLeft(index, k)
  <2>1. a = 2 * b + 1 /\ a - 1 = 2 * b
    BY <1>2, <1>4, <1>7
  <2> QED BY <1>3, <1>5, <1>7, <2>1 DEF Climb, L, a, b
<1> QED BY <1>6, <1>7

LEMMA ClimbIsInjective ==
  ASSUME NEW index, NEW k, NEW a, NEW b, NEW s, NEW t,
         Climb(index, a, s, k) = Climb(index, b, t, k)
  PROVE  a = b /\ s = t
<1>1. \A v, w, x, y : <<"node", v, w>> = <<"node", x, y>> => v = x /\ w = y
  OBVIOUS
<1>2. CASE IsLeft(index, k)
  <2>1. <<"node", a, s>> = <<"node", b, t>>
    BY <1>2 DEF Climb, node_hash
  <2> QED BY <1>1, <2>1
<1>3. CASE ~IsLeft(index, k)
  <2>1. <<"node", s, a>> = <<"node", t, b>>
    BY <1>3 DEF Climb, node_hash
  <2> QED BY <1>1, <2>1
<1> QED BY <1>2, <1>3

LEMMA ProofType ==
  ASSUME NEW leaves, NEW index
  PROVE  /\ merkle_proof(leaves, index)
              = [k \in 1 .. N_LOG2 |-> merkle_proof(leaves, index)[k]]
         /\ Len(merkle_proof(leaves, index)) = N_LOG2
<1> DEFINE f == merkle_proof(leaves, index)
           S == {f[k] : k \in 1 .. N_LOG2}
<1>1. N_LOG2 \in Nat
  BY UsefulWorkAssumption
<1>2. f = [k \in 1 .. N_LOG2 |-> f[k]]
  BY DEF merkle_proof
<1> HIDE DEF f
<1>3. f \in [1 .. N_LOG2 -> S]
  BY <1>2
<1>4. f \in Seq(S)
  BY <1>1, <1>3, SeqDef
<1>5. DOMAIN f = 1 .. N_LOG2
  BY <1>3
<1> HIDE DEF S
<1>6. Len(f) = N_LOG2
  BY <1>1, <1>4, <1>5, LenProperties
<1> QED BY <1>2, <1>6 DEF f

\* The siblings on the path open the leaf, whichever it is ...
LEMMA OwnPathVerifies ==
  ASSUME NEW leaves, NEW index \in Row
  PROVE  merkle_verify(merkle_root(leaves), index, leaves[index], merkle_proof(leaves, index))
<1> DEFINE L == merkle_levels(leaves)
           path == merkle_proof(leaves, index)
           on(k) == L[k][Over(index, k)]
           root == merkle_root(leaves)
           leaf == leaves[index]
<1>1. N_LOG2 \in Nat
  BY UsefulWorkAssumption
<1>2. PICK cur :
        /\ cur[0] = leaf
        /\ \A k \in 1 .. N_LOG2 : cur[k] = Climb(index, cur[k - 1], path[k], k)
        /\ merkle_verify(root, index, leaf, path)
             <=> Len(path) = N_LOG2 /\ index \in Row /\ cur[N_LOG2] = root
  <2> HIDE DEF root, leaf, path
  <2> QED BY MerkleVerify
<1>3. \A k \in 1 .. N_LOG2 : on(k) = Climb(index, on(k - 1), path[k], k)
  BY OneLevelUp
<1>4. on(0) = leaf /\ on(N_LOG2) = root
  BY MerkleLevels, PathToRoot DEF merkle_root
<1>5. Len(path) = N_LOG2
  BY ProofType
<1> HIDE DEF L, path, on, root, leaf
<1> DEFINE Q == {k \in 0 .. N_LOG2 : cur[k] = on(k)}
<1>6. 0 \in Q
  BY <1>1, <1>2, <1>4
<1>7. ASSUME NEW k \in 0 .. N_LOG2 - 1, k \in Q
      PROVE  k + 1 \in Q
  <2>1. k + 1 \in 1 .. N_LOG2 /\ k + 1 \in 0 .. N_LOG2 /\ (k + 1) - 1 = k
    BY <1>1
  <2>2. cur[k + 1] = Climb(index, cur[k], path[k + 1], k + 1)
    BY <1>2, <2>1
  <2>3. on(k + 1) = Climb(index, on(k), path[k + 1], k + 1)
    BY <1>3, <2>1
  <2> QED BY <1>7, <2>1, <2>2, <2>3
<1>8. \A k \in 0 .. N_LOG2 : k \in Q
  <2> HIDE DEF Q
  <2> QED BY <1>1, <1>6, <1>7, UpTo
<1>9. cur[N_LOG2] = on(N_LOG2)
  BY <1>1, <1>8
<1> QED BY <1>2, <1>4, <1>5, <1>9 DEF path, root, leaf

\* ... and nothing else opens it under its index.
LEMMA OnlyOwnPathVerifies ==
  ASSUME NEW leaves, NEW index, NEW leaf, NEW proof,
         merkle_verify(merkle_root(leaves), index, leaf, proof)
  PROVE  /\ index \in Row /\ leaf = leaves[index]
         /\ Len(proof) = N_LOG2
         /\ \A k \in 1 .. N_LOG2 : proof[k] = merkle_proof(leaves, index)[k]
<1> DEFINE L == merkle_levels(leaves)
           path == merkle_proof(leaves, index)
           on(k) == L[k][Over(index, k)]
<1>1. N_LOG2 \in Nat
  BY UsefulWorkAssumption
<1>2. PICK cur :
        /\ cur[0] = leaf
        /\ \A k \in 1 .. N_LOG2 : cur[k] = Climb(index, cur[k - 1], proof[k], k)
        /\ Len(proof) = N_LOG2 /\ index \in Row /\ cur[N_LOG2] = merkle_root(leaves)
  BY MerkleVerify
<1>3. \A k \in 1 .. N_LOG2 : on(k) = Climb(index, on(k - 1), path[k], k)
  BY <1>2, OneLevelUp
<1>4. on(0) = leaves[index] /\ on(N_LOG2) = merkle_root(leaves)
  BY <1>2, MerkleLevels, PathToRoot DEF merkle_root
<1> HIDE DEF L, path, on
<1>5. \A k \in 1 .. N_LOG2 : cur[k] = on(k) => cur[k - 1] = on(k - 1) /\ proof[k] = path[k]
  <2> SUFFICES ASSUME NEW k \in 1 .. N_LOG2, cur[k] = on(k)
               PROVE  cur[k - 1] = on(k - 1) /\ proof[k] = path[k]
    OBVIOUS
  <2>1. Climb(index, cur[k - 1], proof[k], k) = Climb(index, on(k - 1), path[k], k)
    BY <1>2, <1>3
  <2> QED BY <2>1, ClimbIsInjective
<1> DEFINE Q == {j \in 0 .. N_LOG2 : cur[N_LOG2 - j] = on(N_LOG2 - j)}
<1>6. 0 \in Q
  BY <1>1, <1>2, <1>4
<1>7. ASSUME NEW j \in 0 .. N_LOG2 - 1, j \in Q
      PROVE  j + 1 \in Q
  <2>1. /\ N_LOG2 - j \in 1 .. N_LOG2 /\ (N_LOG2 - j) - 1 = N_LOG2 - (j + 1)
        /\ j + 1 \in 0 .. N_LOG2
    BY <1>1
  <2> QED BY <1>5, <1>7, <2>1
<1>8. \A j \in 0 .. N_LOG2 : j \in Q
  <2> HIDE DEF Q
  <2> QED BY <1>1, <1>6, <1>7, UpTo
<1>9. \A k \in 0 .. N_LOG2 : cur[k] = on(k)
  <2> SUFFICES ASSUME NEW k \in 0 .. N_LOG2 PROVE cur[k] = on(k)
    OBVIOUS
  <2>1. N_LOG2 - k \in 0 .. N_LOG2 /\ N_LOG2 - (N_LOG2 - k) = k
    BY <1>1
  <2>2. N_LOG2 - k \in Q
    BY <1>8, <2>1
  <2>3. cur[N_LOG2 - (N_LOG2 - k)] = on(N_LOG2 - (N_LOG2 - k))
    BY <2>2
  <2> QED BY <2>1, <2>3
<1>10. \A k \in 1 .. N_LOG2 : proof[k] = path[k]
  BY <1>1, <1>5, <1>9
<1>11. leaf = leaves[index]
  BY <1>1, <1>2, <1>4, <1>9
<1> QED BY <1>2, <1>10, <1>11 DEF path

-----------------------------------------------------------------------------
(* Right and wrong rows, and what opens them *)

LEMMA RowIsFinite == IsFiniteSet(Row) /\ 0 \in Row
<1>1. N \in Nat /\ N > 0
  BY UsefulWorkAssumption, PowerOfTwo DEF N
<1>2. IsFiniteSet(0 .. N - 1)
  BY <1>1, FS_Interval
<1> QED BY <1>1, <1>2 DEF Row

\* The values of a row are elements of the field.
LEMMA ValuesInField ==
  ASSUME NEW seed \in Seeds, NEW i \in Row, NEW j \in Row
  PROVE  Product(seed)[i][j] \in 0 .. P - 1
<1> DEFINE A == gen_matrix(seed, "matA")
           B == gen_matrix(seed, "matB")
           terms == [k \in Row |-> A[i][k] * B[k][j]]
<1>1. P \in Nat /\ P > 1
  BY UsefulWorkAssumption, WorkAssumption
<1>2. ASSUME NEW domain \in {"matA", "matB"}, NEW x \in Row, NEW y \in Row
      PROVE  gen_matrix(seed, domain)[x][y] \in Nat
  <2> DEFINE v == Xof(seed, domain, x * N + y)
  <2>1. v \in Nat
    BY WorkAssumption
  <2>2. gen_matrix(seed, domain)[x][y] = v % P
    BY DEF gen_matrix
  <2> HIDE DEF v
  <2> QED BY <1>1, <2>1, <2>2
<1>3. \A k \in Row : A[i][k] \in Nat /\ B[k][j] \in Nat
  BY <1>2
<1> HIDE DEF A, B
<1>4. \A k \in Row : terms[k] \in Nat
  <2> SUFFICES ASSUME NEW k \in Row PROVE terms[k] \in Nat
    OBVIOUS
  <2> DEFINE a == A[i][k]
             b == B[k][j]
  <2>1. a \in Nat /\ b \in Nat
    BY <1>3
  <2>2. terms[k] = a * b
    OBVIOUS
  <2> HIDE DEF a, b, terms
  <2> QED BY <2>1, <2>2
<1>5. SumFunction(terms) \in Nat
  <2>1. Counts(terms, Row) /\ DOMAIN terms = Row
    BY <1>4 DEF Counts
  <2> HIDE DEF terms
  <2>2. SumFunctionOnSet(terms, Row) \in Nat
    BY <2>1, RowIsFinite, SumType
  <2> QED BY <2>1, <2>2 DEF SumFunction
<1>6. Product(seed)[i][j] = SumFunction(terms) % P
  BY DEF Product, matmul_row, A, B
<1> HIDE DEF terms
<1> QED BY <1>1, <1>5, <1>6

\* A committed row is the row of the product, or it is wrong.
LEMMA WrongRowsDiffer ==
  ASSUME NEW seed \in Seeds, NEW wrong \in Roots, NEW i \in Row
  PROVE  Computed[seed][wrong][i]
             = matmul_row(gen_matrix(seed, "matA")[i], gen_matrix(seed, "matB"))
           <=> i \notin wrong
<1> DEFINE right == Product(seed)[i]
           row == Computed[seed][wrong][i]
<1>1. right = matmul_row(gen_matrix(seed, "matA")[i], gen_matrix(seed, "matB"))
  BY DEF Product
<1>2. right = [j \in Row |-> right[j]]
  BY DEF Product, matmul_row
<1>3. row = [j \in Row |-> IF i \in wrong THEN (right[j] + 1) % P ELSE right[j]]
  BY DEF Computed
<1>4. right[0] \in 0 .. P - 1 /\ P \in Nat /\ P > 1 /\ 0 \in Row
  BY RowIsFinite, ValuesInField, UsefulWorkAssumption, WorkAssumption
<1> HIDE DEF right, row
<1>5. CASE i \in wrong
  <2>1. row[0] = (right[0] + 1) % P
    BY <1>3, <1>4, <1>5
  <2>2. (right[0] + 1) % P # right[0]
    <3> DEFINE v == right[0]
    <3>1. v \in 0 .. P - 1
      BY <1>4
    <3> HIDE DEF v
    <3>2. CASE v = P - 1
      <4>1. (v + 1) % P = 0
        BY <1>4, <3>2
      <4> QED BY <1>4, <3>2, <4>1
    <3>3. CASE v < P - 1
      <4>1. (v + 1) % P = v + 1
        BY <1>4, <3>1, <3>3
      <4> QED BY <1>4, <3>1, <4>1
    <3>4. (v + 1) % P # v
      BY <1>4, <3>1, <3>2, <3>3
    <3> QED BY <3>4 DEF v
  <2> QED BY <1>1, <1>5, <2>1, <2>2 DEF row
<1>6. CASE i \notin wrong
  <2>1. row = right
    BY <1>2, <1>3, <1>6
  <2> QED BY <1>1, <1>6, <2>1 DEF row
<1> QED BY <1>5, <1>6

\* What verify_row accepts: the challenged row as it was committed, with its own
\* path, if it is right.
LEMMA AcceptedRow ==
  ASSUME NEW seed \in Seeds, NEW wrong \in Roots, NEW want, NEW o,
         verify_row(seed, RootOf(seed, wrong), want, o)
  PROVE  /\ want \in Row /\ want \notin wrong
         /\ o.index = want /\ o.values = Computed[seed][wrong][want]
         /\ Len(o.proof) = N_LOG2
         /\ \A k \in 1 .. N_LOG2 :
              o.proof[k] = merkle_proof(build_leaves(Computed[seed][wrong]), want)[k]
<1> DEFINE c == Computed[seed][wrong]
           leaves == build_leaves(c)
           right == matmul_row(gen_matrix(seed, "matA")[want], gen_matrix(seed, "matB"))
<1>1. /\ o.index = want
      /\ merkle_verify(merkle_root(leaves), want, leaf_hash(want, o.values), o.proof)
      /\ o.values = right
  BY DEF verify_row, RootOf
<1> HIDE DEF leaves, right, c
<1>2. /\ want \in Row /\ leaf_hash(want, o.values) = leaves[want]
      /\ Len(o.proof) = N_LOG2
      /\ \A k \in 1 .. N_LOG2 : o.proof[k] = merkle_proof(leaves, want)[k]
  BY <1>1, OnlyOwnPathVerifies
<1>3. o.values = c[want]
  <2>1. <<"leaf", want, o.values>> = <<"leaf", want, c[want]>>
    BY <1>2 DEF leaves, build_leaves, leaf_hash
  <2>2. \A u, v, w, x : <<"leaf", u, v>> = <<"leaf", w, x>> => v = x
    OBVIOUS
  <2> QED BY <2>1, <2>2
<1>4. want \notin wrong
  BY <1>1, <1>2, <1>3, WrongRowsDiffer DEF right, c
<1> QED BY <1>1, <1>2, <1>3, <1>4 DEF leaves, c

\* The miner's own answer for one row is accepted exactly if the row is right.
LEMMA OwnAnswer ==
  ASSUME NEW seed \in Seeds, NEW wrong \in Roots, NEW want \in Row,
         NEW o, o = [index  |-> want,
                     values |-> Computed[seed][wrong][want],
                     proof  |-> merkle_proof(build_leaves(Computed[seed][wrong]), want)]
  PROVE  verify_row(seed, RootOf(seed, wrong), want, o) <=> want \notin wrong
<1> DEFINE c == Computed[seed][wrong]
           leaves == build_leaves(c)
<1>1. merkle_verify(merkle_root(leaves), want, leaves[want], merkle_proof(leaves, want))
  BY OwnPathVerifies
<1>2. leaves[want] = leaf_hash(want, c[want])
  BY DEF build_leaves
<1>3. o.index = want /\ o.values = c[want] /\ o.proof = merkle_proof(leaves, want)
  OBVIOUS
<1>4. merkle_verify(RootOf(seed, wrong), o.index, leaf_hash(o.index, o.values), o.proof)
  BY <1>1, <1>2, <1>3 DEF RootOf
<1>5. c[want] = matmul_row(gen_matrix(seed, "matA")[want], gen_matrix(seed, "matB"))
        <=> want \notin wrong
  BY WrongRowsDiffer
<1> HIDE DEF c, leaves
<1> QED BY <1>3, <1>4, <1>5 DEF verify_row

LEMMA ChallengeType ==
  ASSUME NEW challenge \in challenge_rows
  PROVE  /\ Len(challenge) = CHALLENGE_ROWS
         /\ DOMAIN challenge = 1 .. CHALLENGE_ROWS
         /\ \A slot \in 1 .. CHALLENGE_ROWS : challenge[slot] \in Row
<1>1. CHALLENGE_ROWS \in Nat
  BY UsefulWorkAssumption
<1>2. challenge \in [1 .. CHALLENGE_ROWS -> Row]
  BY DEF challenge_rows
<1>3. challenge \in Seq(Row)
  BY <1>1, <1>2, SeqDef
<1>4. DOMAIN challenge = 1 .. CHALLENGE_ROWS
  BY <1>2
<1>5. Len(challenge) = CHALLENGE_ROWS
  BY <1>1, <1>3, <1>4, LenProperties
<1> QED BY <1>2, <1>4, <1>5

\* The miner's own answer passes the challenges that spare its wrong rows.
LEMMA OwnAnswersPass ==
  ASSUME NEW seed \in Seeds, NEW wrong \in Roots, NEW challenge \in challenge_rows
  PROVE  verify_rows(seed, RootOf(seed, wrong), challenge,
                     answer_reveals(Computed[seed][wrong], challenge))
           <=> \A slot \in DOMAIN challenge : challenge[slot] \notin wrong
<1> DEFINE c == Computed[seed][wrong]
           rows == answer_reveals(c, challenge)
           slots == 1 .. CHALLENGE_ROWS
<1>1. /\ Len(challenge) = CHALLENGE_ROWS /\ DOMAIN challenge = slots
      /\ \A slot \in slots : challenge[slot] \in Row
  BY ChallengeType
<1>2. rows = [slot \in slots |->
                [index  |-> challenge[slot],
                 values |-> c[challenge[slot]],
                 proof  |-> merkle_proof(build_leaves(c), challenge[slot])]]
  BY <1>1 DEF answer_reveals
<1>3. DOMAIN rows = slots
  BY <1>2
<1>4. Len(rows) = CHALLENGE_ROWS
  <2> DEFINE S == {rows[slot] : slot \in slots}
  <2>1. CHALLENGE_ROWS \in Nat
    BY UsefulWorkAssumption
  <2>2. rows = [slot \in slots |-> rows[slot]]
    BY <1>2
  <2> HIDE DEF rows
  <2>3. rows \in [slots -> S]
    BY <2>2
  <2>4. rows \in Seq(S)
    BY <2>1, <2>3, SeqDef
  <2> HIDE DEF S
  <2> QED BY <1>3, <2>1, <2>4, LenProperties
<1>5. \A slot \in slots :
        verify_row(seed, RootOf(seed, wrong), challenge[slot], rows[slot])
          <=> challenge[slot] \notin wrong
  <2> SUFFICES ASSUME NEW slot \in slots
               PROVE  verify_row(seed, RootOf(seed, wrong), challenge[slot], rows[slot])
                        <=> challenge[slot] \notin wrong
    OBVIOUS
  <2> DEFINE want == challenge[slot]
             o == rows[slot]
  <2>1. want \in Row
    BY <1>1
  <2>2. o = [index  |-> want,
             values |-> Computed[seed][wrong][want],
             proof  |-> merkle_proof(build_leaves(Computed[seed][wrong]), want)]
    BY <1>2
  <2> HIDE DEF want, o, rows
  <2>3. verify_row(seed, RootOf(seed, wrong), want, o) <=> want \notin wrong
    BY <2>1, <2>2, OwnAnswer
  <2> QED BY <2>3 DEF want, o
<1> HIDE DEF rows, c
<1> QED BY <1>1, <1>3, <1>4, <1>5 DEF verify_rows, rows, c

\* Of the openings tried, at most the committed one is accepted.
LEMMA AcceptedOpening ==
  ASSUME NEW seed \in Seeds, NEW wrong \in Roots, NEW want \in Row,
         NEW o \in Opened[seed][wrong][want]
  PROVE  /\ want \notin wrong
         /\ o = answer_reveals(Computed[seed][wrong], <<want>>)[1]
<1> DEFINE c == Computed[seed][wrong]
           path == merkle_proof(build_leaves(c), want)
<1>1. o \in Openings(seed) /\ verify_row(seed, RootOf(seed, wrong), want, o)
  BY DEF Opened
<1>2. /\ want \notin wrong /\ o.index = want /\ o.values = c[want]
      /\ Len(o.proof) = N_LOG2
      /\ \A k \in 1 .. N_LOG2 : o.proof[k] = path[k]
  BY <1>1, AcceptedRow
<1>3. N_LOG2 \in Nat
  BY UsefulWorkAssumption
<1>4. o.proof = [k \in 1 .. N_LOG2 |-> o.proof[k]]
  <2> DEFINE tables == {Computed[s][w] : s \in {1, seed}, w \in Roots}
             proofs == {merkle_proof(build_leaves(t), i) : t \in tables, i \in Row}
  <2>1. o.proof \in proofs \cup {SubSeq(proof, 1, N_LOG2 - 1) : proof \in proofs}
    BY <1>1 DEF Openings
  <2>2. CASE o.proof \in proofs
    <3>1. PICK t \in tables, i \in Row : o.proof = merkle_proof(build_leaves(t), i)
      BY <2>2
    <3> QED BY <3>1, ProofType
  <2>3. CASE o.proof \in {SubSeq(proof, 1, N_LOG2 - 1) : proof \in proofs}
    <3>1. PICK proof \in proofs : o.proof = SubSeq(proof, 1, N_LOG2 - 1)
      BY <2>3
    <3> DEFINE S == {proof[k] : k \in 1 .. N_LOG2}
    <3>2. \A k \in 1 .. N_LOG2 - 1 : proof[k] \in S
      BY <1>3
    <3>3. 1 \in Int /\ N_LOG2 - 1 \in Int
      BY <1>3
    <3> DEFINE short == SubSeq(proof, 1, N_LOG2 - 1)
    <3> HIDE DEF S, proofs
    <3>4. short \in Seq(S) /\ Len(short) = N_LOG2
      BY <1>2, <3>1, <3>2, <3>3, SubSeqProperties
    <3> HIDE DEF short
    <3>5. short \in [1 .. N_LOG2 -> S]
      BY <3>4, LenProperties
    <3> QED BY <3>1, <3>5 DEF short
  <2> QED BY <2>1, <2>2, <2>3
<1>5. path = [k \in 1 .. N_LOG2 |-> path[k]]
  BY ProofType
<1>6. o.proof = path
  <2> HIDE DEF path
  <2> QED BY <1>2, <1>4, <1>5
<1>7. o = [index |-> o.index, values |-> o.values, proof |-> o.proof]
  BY <1>1 DEF Openings
<1>8. answer_reveals(c, <<want>>)[1] = [index |-> want, values |-> c[want], proof |-> path]
  <2> HIDE DEF c
  <2>1. Len(<<want>>) = 1 /\ <<want>>[1] = want /\ 1 \in 1 .. 1
    OBVIOUS
  <2> QED BY <2>1 DEF answer_reveals, path
<1> QED BY <1>2, <1>6, <1>7, <1>8

\* What is pending was committed at a height of the branch, with a matrix a
\* miner can have computed.
WorkInv ==
  /\ height \in Nat
  /\ \A id \in DOMAIN pending : id.height \in Seeds /\ id.root \in Roots

LEMMA InitEstablishesWork == Init => WorkInv
BY DEF Init, WorkInv

LEMMA NextKeepsWork == WorkInv /\ [Next]_vars => WorkInv'
<1> SUFFICES ASSUME WorkInv, [Next]_vars PROVE WorkInv'
  OBVIOUS
<1>1. CASE UNCHANGED vars
  BY <1>1 DEF vars, WorkInv
<1>2. CASE Block
  <2>1. PICK miner \in Address, root \in Roots, txs \in SeqOf(Tx, MaxBlockTxs),
             opened \in Reveals : apply_block(miner, root, txs, opened)
    BY <1>2 DEF Block
  <2>2. /\ height' = height + 1
        /\ DOMAIN pending' = Surviving(opened) \cup {CommitFor(miner, root)}
    BY <2>1 DEF apply_block
  <2>3. Surviving(opened) \subseteq DOMAIN pending
    BY DEF Surviving
  <2>4. height + 1 \in Seeds
    BY <1>2, GenesisAssumption DEF Block, WorkInv, Seeds
  <2>5. CommitFor(miner, root).height \in Seeds /\ CommitFor(miner, root).root \in Roots
    BY <2>4 DEF CommitFor
  <2>6. height' \in Nat
    BY <2>2 DEF WorkInv
  <2> QED BY <2>2, <2>3, <2>5, <2>6 DEF WorkInv, Seeds
<1> QED BY <1>1, <1>2 DEF Next, BranchFull

\* The invariant of the work: every commitment that is pending names a height of
\* the branch and a matrix.
THEOREM WorkInvariant == Spec => []WorkInv
BY InitEstablishesWork, NextKeepsWork, PTL DEF Spec

\* Whatever the size of the matrices, the number of rows opened and the streams
\* they are derived from: the miner's answer to a challenge passes exactly if the
\* challenge spares the rows it got wrong (pouw.rs, verify_reveal).
THEOREM OnlyWrongRowsFail == Spec => []WrongRowsDecide
<1>1. WorkInv => WrongRowsDecide
  <2> SUFFICES ASSUME WorkInv, NEW id \in DOMAIN pending
               PROVE  Passed[id.height][id.root] =
                        {challenge \in challenge_rows :
                           \A slot \in DOMAIN challenge : challenge[slot] \notin id.root}
    BY DEF WrongRowsDecide
  <2> DEFINE seed == id.height
             wrong == id.root
  <2>1. seed \in Seeds /\ wrong \in Roots
    BY DEF WorkInv
  <2>2. Passed[seed][wrong] =
          {challenge \in challenge_rows :
             verify_rows(seed, RootOf(seed, wrong), challenge,
                         answer_reveals(Computed[seed][wrong], challenge))}
    BY <2>1 DEF Passed
  <2> HIDE DEF seed, wrong
  <2>3. Passed[seed][wrong] =
          {challenge \in challenge_rows :
             \A slot \in DOMAIN challenge : challenge[slot] \notin wrong}
    BY <2>1, <2>2, OwnAnswersPass
  <2> QED BY <2>3 DEF seed, wrong
<1> QED BY <1>1, WorkInvariant, PTL

\* Nothing but the row that was committed opens a challenged row: the tree is
\* binding, and no opening that is tried makes a wrong row right.
THEOREM CommittedRowsOnly == Spec => []OnlyCommittedRowsOpen
<1>1. WorkInv => OnlyCommittedRowsOpen
  <2> SUFFICES ASSUME WorkInv, NEW id \in DOMAIN pending, NEW want \in Row,
                      NEW o \in Opened[id.height][id.root][want]
               PROVE  /\ want \notin id.root
                      /\ o = answer_reveals(Computed[id.height][id.root], <<want>>)[1]
    BY DEF OnlyCommittedRowsOpen
  <2> DEFINE seed == id.height
             wrong == id.root
  <2>1. seed \in Seeds /\ wrong \in Roots /\ o \in Opened[seed][wrong][want]
    BY DEF WorkInv
  <2> HIDE DEF seed, wrong
  <2>2. want \notin wrong /\ o = answer_reveals(Computed[seed][wrong], <<want>>)[1]
    BY <2>1, AcceptedOpening
  <2> QED BY <2>2 DEF seed, wrong
<1> QED BY <1>1, WorkInvariant, PTL

-----------------------------------------------------------------------------
(* Amounts as text: what is written is what is read *)

LEMMA PowerSteps ==
  /\ Power[0] = 1
  /\ \A n \in Nat : /\ Power[n] \in Nat /\ Power[n] > 0
                    /\ Power[n + 1] = BASE * Power[n]
<1> DEFINE S == Nat \ {0}
           parent == [n \in S |-> n - 1]
           step == [p \in Nat \X S |-> BASE * p[1]]
           Powers(f) == f = [n \in Nat |-> IF n = 0 THEN 1 ELSE BASE * f[n - 1]]
<1>1. BASE \in Nat /\ BASE > 1
  BY AmountAssumption
<1>2. parent \in [S -> S \cup {0}] /\ S \cup {0} = Nat /\ 0 \notin S
  OBVIOUS
<1>3. Grounded(S, parent)
  <2> SUFFICES ASSUME NEW T \in (SUBSET S) \ {{}}
               PROVE  \E b \in T : parent[b] \notin T
    BY DEF Grounded
  <2>1. PICK b \in T : \A c \in T : ~(<<c, b>> \in OpToRel(<, Nat))
    <3>1. T \subseteq Nat /\ T # {}
      OBVIOUS
    <3> QED BY <3>1, NatLessThanWellFounded, WFMin
  <2>2. b \in Nat /\ b > 0 /\ parent[b] = b - 1
    OBVIOUS
  <2>3. parent[b] \in T => <<parent[b], b>> \in OpToRel(<, Nat)
    BY <2>2 DEF OpToRel
  <2> QED BY <2>1, <2>3
<1>4. \A p \in Nat \X S : step[p] \in Nat
  BY <1>1
<1>5. step \in [Nat \X S -> Nat]
  <2>1. step = [p \in Nat \X S |-> step[p]]
    OBVIOUS
  <2> HIDE DEF step
  <2> QED BY <1>4, <2>1
<1>6. PICK f \in [Nat -> Nat] : Recurs(f, Nat, 0, parent, 1, step)
  <2>1. 1 \in Nat
    OBVIOUS
  <2> HIDE DEF S, parent, step
  <2>2. \E f \in [S \cup {0} -> Nat] : Recurs(f, S \cup {0}, 0, parent, 1, step)
    BY <1>2, <1>3, <1>5, <2>1, TreeRecursion
  <2> QED BY <1>2, <2>2
<1>7. \A n \in Nat : f[n] = IF n = 0 THEN 1 ELSE BASE * f[n - 1]
  <2> SUFFICES ASSUME NEW n \in Nat
               PROVE  f[n] = IF n = 0 THEN 1 ELSE BASE * f[n - 1]
    OBVIOUS
  <2>1. f[n] = IF n = 0 THEN 1 ELSE step[<<f[parent[n]], n>>]
    BY <1>6 DEF Recurs
  <2>2. n # 0 => parent[n] = n - 1 /\ n - 1 \in Nat /\ n \in S
    OBVIOUS
  <2>3. n # 0 => f[n - 1] \in Nat /\ <<f[n - 1], n>> \in Nat \X S
    BY <2>2
  <2>4. n # 0 => step[<<f[n - 1], n>>] = BASE * f[n - 1]
    BY <2>3
  <2> HIDE DEF step, parent, S
  <2> QED BY <2>1, <2>2, <2>4
<1>8. Powers(f)
  BY <1>7
<1>9. Powers(Power)
  <2>1. Power = CHOOSE g : Powers(g)
    BY DEF Power
  <2> HIDE DEF Powers
  <2> QED BY <1>8, <2>1
<1>10. \A n \in Nat : Power[n] = IF n = 0 THEN 1 ELSE BASE * Power[n - 1]
  BY <1>9
<1>11. \A n \in Nat : Power[n] \in Nat /\ Power[n] > 0
  <2> SUFFICES ASSUME NEW n \in Nat PROVE Power[n] \in Nat /\ Power[n] > 0
    OBVIOUS
  <2> DEFINE Q == {k \in 0 .. n : Power[k] \in Nat /\ Power[k] > 0}
  <2>1. 0 \in Q
    BY <1>10
  <2>2. ASSUME NEW k \in 0 .. n - 1, k \in Q
        PROVE  k + 1 \in Q
    <3>1. k + 1 \in Nat /\ k + 1 # 0 /\ (k + 1) - 1 = k /\ k + 1 \in 0 .. n
      OBVIOUS
    <3>2. Power[k + 1] = BASE * Power[k] /\ Power[k] \in Nat /\ Power[k] > 0
      BY <1>10, <2>2, <3>1
    <3>3. BASE * Power[k] \in Nat /\ BASE * Power[k] > 0
      <4> DEFINE q == Power[k]
      <4> HIDE DEF q
      <4>1. q \in Nat /\ q > 0 => BASE * q \in Nat /\ BASE * q > 0
        BY <1>1
      <4> QED BY <3>2, <4>1 DEF q
    <3> QED BY <3>1, <3>2, <3>3
  <2>3. \A k \in 0 .. n : k \in Q
    <3> HIDE DEF Q
    <3> QED BY <2>1, <2>2, UpTo
  <2>4. n \in Q
    BY <2>3
  <2> QED BY <2>4
<1>12. \A n \in Nat : Power[n + 1] = BASE * Power[n]
  <2> SUFFICES ASSUME NEW n \in Nat PROVE Power[n + 1] = BASE * Power[n]
    OBVIOUS
  <2>1. n + 1 \in Nat /\ n + 1 # 0 /\ (n + 1) - 1 = n
    OBVIOUS
  <2> QED BY <1>10, <2>1
<1> QED BY <1>10, <1>11, <1>12

\* Every number is below some power, and the first one has as many places as
\* the number.
LEMMA PowersGrow ==
  ASSUME NEW x \in Nat
  PROVE  \E n \in 1 .. x + 1 :
           x < Power[n] /\ \A k \in 1 .. n - 1 : x >= Power[k]
<1>1. BASE \in Nat /\ BASE > 1
  BY AmountAssumption
<1>2. x < Power[x + 1]
  <2> DEFINE Q == {k \in 0 .. x + 1 : k <= Power[k] - 1}
  <2>1. 0 \in Q
    BY PowerSteps
  <2>2. ASSUME NEW k \in 0 .. (x + 1) - 1, k \in Q
        PROVE  k + 1 \in Q
    <3> DEFINE p == Power[k]
    <3>1. k \in Nat /\ k + 1 \in 0 .. x + 1
      OBVIOUS
    <3>2. p \in Nat /\ Power[k + 1] = BASE * p /\ k <= p - 1
      BY <2>2, <3>1, PowerSteps
    <3> HIDE DEF p
    <3>3. BASE * p >= 2 * p
      BY <1>1, <3>2
    <3>4. BASE * p \in Nat
      BY <1>1, <3>2
    <3> QED BY <3>1, <3>2, <3>3, <3>4
  <2>3. x + 1 \in Nat
    OBVIOUS
  <2>4. \A k \in 0 .. x + 1 : k \in Q
    <3> HIDE DEF Q
    <3> QED BY <2>1, <2>2, <2>3, UpTo
  <2>5. x + 1 \in Q
    BY <2>4
  <2>6. x + 1 <= Power[x + 1] - 1 /\ Power[x + 1] \in Nat
    BY <2>3, <2>5, PowerSteps
  <2> QED BY <2>6
<1> DEFINE Enough == {n \in 1 .. x + 1 : x < Power[n]}
<1>3. PICK n \in Enough : \A k \in Enough : ~(<<k, n>> \in OpToRel(<, Nat))
  <2>1. Enough \subseteq Nat /\ Enough # {}
    BY <1>2
  <2> HIDE DEF Enough
  <2> QED BY <2>1, NatLessThanWellFounded, WFMin
<1>4. \A k \in 1 .. n - 1 : x >= Power[k]
  <2> SUFFICES ASSUME NEW k \in 1 .. n - 1, ~(x >= Power[k])
               PROVE  FALSE
    OBVIOUS
  <2>1. k \in 1 .. x + 1 /\ k \in Nat /\ n \in Nat /\ k < n
    OBVIOUS
  <2>2. x < Power[k]
    BY <2>1, PowerSteps
  <2>3. k \in Enough /\ <<k, n>> \in OpToRel(<, Nat)
    BY <2>1, <2>2 DEF OpToRel
  <2> HIDE DEF Enough
  <2> QED BY <1>3, <2>3
<1> QED BY <1>4

\* A number is read digit by digit.
LEMMA ValueRuns ==
  ASSUME NEW digits \in Seq(Nat)
  PROVE  \E run \in [0 .. Len(digits) -> Nat] :
           /\ run[0] = 0
           /\ \A k \in 1 .. Len(digits) : run[k] = BASE * run[k - 1] + digits[k]
           /\ Value(digits) = run[Len(digits)]
<1> DEFINE n == Len(digits)
           step == [p \in (1 .. n) \X Nat |-> BASE * p[2] + digits[p[1]]]
           Folds(it) == it = [s \in SUBSET (1 .. n) |->
                               IF s = {} THEN 0
                               ELSE BASE * it[s \ {Max(s)}] + digits[Max(s)]]
           fold == CHOOSE it : Folds(it)
<1>1. n \in Nat /\ DOMAIN digits = 1 .. n /\ BASE \in Nat
  BY LenProperties, AmountAssumption
<1>2. \A k \in 1 .. n : digits[k] \in Nat
  BY ElementOfSeq
<1>3. step \in [(1 .. n) \X Nat -> Nat]
  <2>1. \A p \in (1 .. n) \X Nat : BASE * p[2] + digits[p[1]] \in Nat
    BY <1>1, <1>2
  <2> QED BY <2>1
<1>4. PICK it \in [SUBSET (1 .. n) -> Nat] : FoldsLeft(it, n, 0, step)
  <2>1. 0 \in Nat
    OBVIOUS
  <2> HIDE DEF step, n
  <2> QED BY <1>1, <1>3, <2>1, LeftFoldExists
<1>5. ASSUME NEW s \in SUBSET (1 .. n), s # {}
      PROVE  step[<<Max(s), it[s \ {Max(s)}]>>] = BASE * it[s \ {Max(s)}] + digits[Max(s)]
  <2>1. Max(s) \in 1 .. n
    <3> HIDE DEF n
    <3> QED BY <1>1, <1>5, LargestIndex
  <2>2. it[s \ {Max(s)}] \in Nat
    OBVIOUS
  <2> QED BY <2>1, <2>2
<1>6. Folds(it)
  <2> HIDE DEF step
  <2> QED BY <1>4, <1>5 DEF FoldsLeft
<1>7. Folds(fold)
  <2> HIDE DEF Folds
  <2> QED BY <1>6
<1>8. Value(digits) = fold[1 .. n]
  BY <1>1 DEF Value, FoldLeft, MapThenFoldSet
<1> HIDE DEF fold
<1>9. fold[{}] = 0
  BY <1>7
<1>10. ASSUME NEW k \in 1 .. n
       PROVE  fold[1 .. k] = BASE * fold[1 .. (k - 1)] + digits[k]
  <2>1. /\ 1 .. k \in SUBSET (1 .. n) /\ 1 .. k # {}
        /\ Max(1 .. k) = k
        /\ (1 .. k) \ {k} = 1 .. (k - 1)
    <3> HIDE DEF n
    <3> QED BY <1>1, PrefixGrows
  <2> QED BY <1>7, <2>1
<1>11. \A k \in 1 .. n :
         fold[1 .. (k - 1)] \in Nat => fold[1 .. k] = step[<<k, fold[1 .. (k - 1)]>>]
  BY <1>10
<1>12. StepsThrough(fold, n, Nat, 0, step)
  BY <1>9, <1>11 DEF StepsThrough
<1>13. PICK run \in [0 .. n -> Nat] : RunsTo(run, n, 0, step, fold[1 .. n])
  <2>1. 0 \in Nat
    OBVIOUS
  <2> HIDE DEF step, n
  <2> QED BY <1>1, <1>3, <1>12, <2>1, FoldRuns
<1>14. ASSUME NEW k \in 1 .. n
       PROVE  run[k] = BASE * run[k - 1] + digits[k]
  <2>1. k - 1 \in 0 .. n
    BY <1>1
  <2>2. run[k] = step[<<k, run[k - 1]>>] /\ run[k - 1] \in Nat
    BY <1>13, <2>1 DEF RunsTo
  <2> QED BY <2>2
<1> QED BY <1>8, <1>13, <1>14 DEF RunsTo

LEMMA DigitsAreRead ==
  ASSUME NEW n \in Nat, NEW x \in Nat, x < Power[n]
  PROVE  /\ Digits(x, n) \in Seq(Nat) /\ Len(Digits(x, n)) = n
         /\ Value(Digits(x, n)) = x
<1> DEFINE digits == Digits(x, n)
           part(k) == x \div Power[n - k]
<1>1. BASE \in Nat /\ BASE > 1
  BY AmountAssumption
<1>2. ASSUME NEW k \in 0 .. n
      PROVE  n - k \in Nat /\ Power[n - k] \in Nat /\ Power[n - k] > 0 /\ part(k) \in Nat
  <2> DEFINE q == Power[n - k]
  <2>1. n - k \in Nat
    OBVIOUS
  <2>2. q \in Nat /\ q > 0
    BY <2>1, PowerSteps
  <2> HIDE DEF q
  <2>3. x \div q \in Nat
    BY <2>2, Quotient
  <2> QED BY <2>1, <2>2, <2>3 DEF q
<1>3. \A k \in 1 .. n : digits[k] = part(k) % BASE
  BY DEF Digits
<1>4. \A k \in 1 .. n : digits[k] \in Nat
  <2> SUFFICES ASSUME NEW k \in 1 .. n PROVE digits[k] \in Nat
    OBVIOUS
  <2> DEFINE a == part(k)
  <2>1. a \in Nat /\ digits[k] = a % BASE
    BY <1>2, <1>3
  <2> HIDE DEF a, digits
  <2> QED BY <1>1, <2>1, Quotient
<1>5. digits = [k \in 1 .. n |-> digits[k]]
  BY DEF Digits
<1> HIDE DEF digits
<1>6. digits \in Seq(Nat)
  <2>1. digits \in [1 .. n -> Nat]
    BY <1>4, <1>5
  <2> QED BY <2>1, SeqDef
<1>7. Len(digits) = n
  <2>1. DOMAIN digits = 1 .. n
    BY <1>5
  <2> QED BY <1>6, <2>1, LenProperties
<1>8. PICK run \in [0 .. n -> Nat] :
        /\ run[0] = 0
        /\ \A k \in 1 .. n : run[k] = BASE * run[k - 1] + digits[k]
        /\ Value(digits) = run[n]
  BY <1>6, <1>7, ValueRuns
<1>9. part(0) = 0
  <2> DEFINE q == Power[n]
  <2>1. n - 0 = n
    OBVIOUS
  <2>5. q \in Nat /\ q > 0 /\ x < q
    BY PowerSteps
  <2> HIDE DEF q
  <2>2. x = q * 0 + x /\ x \in 0 .. q - 1 /\ 0 \in Nat
    BY <2>5
  <2>3. (q * 0 + x) \div q = 0
    BY <2>5, <2>2, QuotientIs
  <2>4. x \div q = 0
    BY <2>2, <2>3
  <2> QED BY <2>1, <2>4 DEF q
<1>10. ASSUME NEW k \in 0 .. n - 1
       PROVE  part(k) = part(k + 1) \div BASE
  <2> DEFINE q == Power[n - (k + 1)]
  <2>1. n - (k + 1) \in Nat /\ (n - (k + 1)) + 1 = n - k
    OBVIOUS
  <2>2. Power[(n - (k + 1)) + 1] = BASE * q /\ q \in Nat /\ q > 0
    BY <2>1, PowerSteps
  <2> HIDE DEF q
  <2>3. x \div (BASE * q) = (x \div q) \div BASE
    <3>1. BASE > 0
      BY <1>1
    <3> QED BY <1>1, <2>2, <3>1, QuotientTwice
  <2> QED BY <2>1, <2>2, <2>3 DEF q
<1> DEFINE Q == {k \in 0 .. n : run[k] = part(k)}
<1>11. 0 \in Q
  BY <1>8, <1>9
<1>12. ASSUME NEW k \in 0 .. n - 1, k \in Q
       PROVE  k + 1 \in Q
  <2> DEFINE a == part(k + 1)
  <2>1. k + 1 \in 1 .. n /\ (k + 1) - 1 = k /\ k + 1 \in 0 .. n
    OBVIOUS
  <2>2. a \in Nat
    BY <1>2, <2>1
  <2>3. run[k + 1] = BASE * run[k] + digits[k + 1]
    BY <1>8, <2>1
  <2>4. run[k] = a \div BASE /\ digits[k + 1] = a % BASE
    BY <1>3, <1>10, <1>12, <2>1
  <2> HIDE DEF a
  <2>5. a = BASE * (a \div BASE) + (a % BASE)
    BY <1>1, <2>2, Quotient
  <2>6. run[k + 1] = a
    BY <2>3, <2>4, <2>5
  <2> QED BY <2>1, <2>6 DEF a
<1>13. \A k \in 0 .. n : k \in Q
  <2> HIDE DEF Q
  <2> QED BY <1>11, <1>12, UpTo
<1>14. run[n] = part(n)
  BY <1>13
<1>15. part(n) = x
  <2>1. n - n = 0 /\ Power[0] = 1
    BY PowerSteps
  <2>2. x \div 1 = x
    OBVIOUS
  <2> QED BY <2>1, <2>2
<1> HIDE DEF part
<1> QED BY <1>6, <1>7, <1>8, <1>14, <1>15 DEF digits

LEMMA WrittenIsRead ==
  ASSUME NEW x \in Nat
  PROVE  Value(Written(x)) = x
<1> DEFINE Places(n) == x < Power[n] /\ \A k \in 1 .. n - 1 : x >= Power[k]
           places == CHOOSE n \in 1 .. x + 1 : Places(n)
<1>1. \E n \in 1 .. x + 1 : Places(n)
  BY PowersGrow
<1>2. places \in 1 .. x + 1 /\ Places(places)
  <2> HIDE DEF Places
  <2> QED BY <1>1
<1>3. Written(x) = Digits(x, places)
  BY DEF Written
<1> HIDE DEF places
<1>4. places \in Nat /\ x < Power[places]
  BY <1>2
<1> QED BY <1>3, <1>4, DigitsAreRead

\* The zeros that parse_cog appends are those that were left away.
LEMMA PaddedFraction ==
  ASSUME NEW frac \in Seq(Nat), NEW n \in 0 .. Len(frac),
         \A i \in n + 1 .. Len(frac) : frac[i] = 0
  PROVE  /\ Len(SubSeq(frac, 1, n)) = n
         /\ SubSeq(frac, 1, n) \o [i \in 1 .. Len(frac) - n |-> 0] = frac
<1> DEFINE d == Len(frac)
           short == SubSeq(frac, 1, n)
           zeros == [i \in 1 .. d - n |-> 0]
<1>1. d \in Nat /\ n \in Nat /\ n <= d /\ \A i \in 1 .. d : frac[i] \in Nat
  BY LenProperties, ElementOfSeq
<1>2. 1 \in Int /\ n \in Int /\ \A i \in 1 .. n : frac[i] \in Nat
  BY <1>1
<1>3. /\ short \in Seq(Nat)
      /\ Len(short) = IF 1 <= n THEN n - 1 + 1 ELSE 0
      /\ \A i \in 1 .. n - 1 + 1 : short[i] = frac[1 + i - 1]
  <2> HIDE DEF d
  <2> QED BY <1>2, SubSeqProperties
<1> HIDE DEF short
<1>4. Len(short) = n /\ \A i \in 1 .. n : short[i] = frac[i]
  BY <1>1, <1>3
<1>5. zeros \in Seq(Nat) /\ Len(zeros) = d - n
  <2>1. d - n \in Nat
    BY <1>1
  <2>2. zeros \in [1 .. d - n -> Nat] /\ DOMAIN zeros = 1 .. d - n
    OBVIOUS
  <2> HIDE DEF zeros, d
  <2>3. zeros \in Seq(Nat)
    BY <2>1, <2>2, SeqDef
  <2> QED BY <2>1, <2>2, <2>3, LenProperties
<1>6. \A i \in 1 .. d - n : zeros[i] = 0
  OBVIOUS
<1> HIDE DEF zeros
<1>7. /\ short \o zeros \in Seq(Nat) /\ Len(short \o zeros) = d
      /\ \A i \in 1 .. d : (short \o zeros)[i] = IF i <= n THEN short[i] ELSE zeros[i - n]
  <2>1. Len(short) + Len(zeros) = d
    BY <1>1, <1>4, <1>5
  <2> HIDE DEF d
  <2> QED BY <1>3, <1>4, <1>5, <2>1, ConcatProperties
<1>8. ASSUME NEW i \in 1 .. d
      PROVE  (short \o zeros)[i] = frac[i]
  <2>1. CASE i <= n
    BY <1>1, <1>4, <1>7, <2>1
  <2>2. CASE ~(i <= n)
    <3>1. i - n \in 1 .. d - n /\ i \in n + 1 .. d
      BY <1>1, <2>2
    <3> QED BY <1>6, <1>7, <2>2, <3>1
  <2> QED BY <2>1, <2>2
<1>9. short \o zeros = frac
  BY <1>7, <1>8, SeqEqual
<1> QED BY <1>4, <1>9 DEF short, zeros

\* Every text of an amount is read as the amount.
LEMMA TextIsRead ==
  ASSUME NEW x \in Nat, x < 2^WIDTH, NEW text \in Texts(x)
  PROVE  parse_cog(text) = x
<1> DEFINE high == x \div COG
           low == x % COG
           frac == Digits(low, DECIMALS)
<1>1. DECIMALS \in Nat /\ WIDTH \in Nat
  BY AmountAssumption
<1>2. COG \in Nat /\ COG > 0 /\ COG = Power[DECIMALS]
  BY <1>1, PowerSteps DEF COG
<1>3. high \in Nat /\ low \in Nat /\ low < COG /\ x = COG * high + low
  <2>1. high \in Nat /\ low \in 0 .. COG - 1 /\ x = COG * high + low
    BY <1>2, Quotient
  <2> HIDE DEF high, low
  <2> QED BY <1>2, <2>1
<1> HIDE DEF high, low
<1>4. frac \in Seq(Nat) /\ Len(frac) = DECIMALS /\ Value(frac) = low
  BY <1>1, <1>2, <1>3, DigitsAreRead
<1>5. format_cog(x) = [whole |-> Written(high), frac |-> frac]
  BY DEF format_cog, high, low
<1> HIDE DEF frac
<1>6. PICK n \in 0 .. Len(frac) :
        /\ \A i \in n + 1 .. Len(frac) : frac[i] = 0
        /\ text = [whole |-> Written(high), frac |-> SubSeq(frac, 1, n)]
  <2> DEFINE whole == Written(high)
             full == format_cog(x)
  <2>1. full = [whole |-> whole, frac |-> frac]
    BY <1>5
  <2>2. \E n \in 0 .. Len(full.frac) :
          /\ \A i \in n + 1 .. Len(full.frac) : full.frac[i] = 0
          /\ text = [full EXCEPT !.frac = SubSeq(@, 1, n)]
    BY DEF Texts
  <2> HIDE DEF whole, full
  <2>3. \A n : [full EXCEPT !.frac = SubSeq(@, 1, n)]
                 = [whole |-> whole, frac |-> SubSeq(frac, 1, n)]
    <3> SUFFICES ASSUME NEW n
                 PROVE  [full EXCEPT !.frac = SubSeq(full.frac, 1, n)]
                          = [whole |-> whole, frac |-> SubSeq(frac, 1, n)]
      OBVIOUS
    <3> DEFINE cut == SubSeq(full.frac, 1, n)
    <3>1. cut = SubSeq(frac, 1, n)
      BY <2>1
    <3> HIDE DEF cut
    <3>2. [full EXCEPT !.frac = cut] = [whole |-> whole, frac |-> cut]
      BY <2>1
    <3> QED BY <3>1, <3>2 DEF cut
  <2>4. full.frac = frac
    BY <2>1
  <2> QED BY <2>2, <2>3, <2>4 DEF whole
<1>7. text.whole = Written(high) /\ text.frac = SubSeq(frac, 1, n)
  BY <1>6
<1>8. /\ Len(text.frac) = n
      /\ text.frac \o [i \in 1 .. DECIMALS - n |-> 0] = frac
  BY <1>4, <1>6, <1>7, PaddedFraction
<1>9. Value(text.whole) = high
  BY <1>3, <1>7, WrittenIsRead
<1>10. high * COG + low = x
  BY <1>2, <1>3
<1>11. n \in Nat /\ n <= DECIMALS
  BY <1>1, <1>4
<1>12. 2^WIDTH \in Nat
  BY <1>1, PowerOfTwo
<1>13. parse_cog(text) = IF n > DECIMALS \/ x >= 2^WIDTH THEN Refused ELSE x
  BY <1>4, <1>8, <1>9, <1>10 DEF parse_cog
<1> DEFINE top == 2^WIDTH
<1>14. top \in Nat /\ x < top /\ parse_cog(text) = IF n > DECIMALS \/ x >= top THEN Refused ELSE x
  BY <1>12, <1>13
<1> HIDE DEF top
<1> QED BY <1>1, <1>11, <1>14

\* The amounts that a node hands out are no larger than the supply.
LEMMA AmountsFit ==
  ASSUME LedgerInv, ScheduleInv
  PROVE  /\ minted \in 0 .. SupplyCap /\ SupplyCap - minted \in 0 .. SupplyCap
         /\ block_reward(tasks_completed) \in 0 .. SupplyCap
         /\ \A a \in Address : accounts[a].balance \in 0 .. SupplyCap
<1> DEFINE t == tasks_completed
<1>1. minted \in 0 .. SupplyCap /\ t \in Nat /\ SupplyCap \in Nat
  BY GenesisAssumption DEF LedgerInv, IndInv
<1>2. /\ Unissued(t) \in Nat /\ Unissued(t + 1) \in Nat
      /\ Unissued(t) = block_reward(t) + Unissued(t + 1)
      /\ block_reward(t) \in Nat
  BY <1>1, ScheduleCountsDown, RewardIsNat
<1>3. minted + Unissued(t) <= SupplyCap
  BY DEF ScheduleInv
<1>4. block_reward(t) \in 0 .. SupplyCap
  <2> HIDE DEF t
  <2> QED BY <1>1, <1>2, <1>3
<1>5. ASSUME NEW a \in Address
      PROVE  accounts[a].balance \in 0 .. SupplyCap
  <2> DEFINE f == Balances(accounts)
             rest == SumFunctionOnSet(f, Address \ {a})
  <2>1. accounts \in Accounts /\ Money(accounts) = minted
    BY DEF LedgerInv
  <2>2. Counts(f, Address) /\ IsFiniteSet(Address)
    BY <2>1, MoneyIsNat, TransfersAssumption
  <2>3. f[a] = accounts[a].balance /\ f[a] \in Nat
    BY <2>2 DEF Balances, Counts
  <2>4. minted = f[a] + rest
    <3> HIDE DEF f
    <3> QED BY <2>1, <2>2, SumRemove DEF Money, f
  <2>5. rest \in Nat
    <3>1. IsFiniteSet(Address \ {a}) /\ Counts(f, Address \ {a})
      BY <2>2, FS_RemoveElement DEF Counts
    <3> HIDE DEF f
    <3> QED BY <3>1, SumType
  <2> HIDE DEF f, rest
  <2> QED BY <1>1, <2>3, <2>4, <2>5
<1>6. SupplyCap - minted \in 0 .. SupplyCap
  BY <1>1
<1> QED BY <1>1, <1>4, <1>5, <1>6

\* Every amount that a node writes, in full or without the zeros at its end, is
\* read back as the same amount (types.rs, format_cog and parse_cog), for every
\* base, number of decimals and supply that a u64 holds.
THEOREM AmountsSurviveTheWire == Spec => []WireKeepsAmounts
<1>1. LedgerInv /\ ScheduleInv => WireKeepsAmounts
  <2> SUFFICES ASSUME LedgerInv, ScheduleInv,
                      NEW x \in {minted, SupplyCap - minted, block_reward(tasks_completed)}
                                  \cup {accounts[a].balance : a \in Address},
                      NEW text \in Texts(x)
               PROVE  parse_cog(text) = x
    BY DEF WireKeepsAmounts
  <2>1. x \in 0 .. SupplyCap /\ SupplyCap \in Nat
    BY AmountsFit, GenesisAssumption
  <2> DEFINE top == 2^WIDTH
  <2>2. top \in Nat /\ SupplyCap < top
    BY WireAssumption, AmountAssumption, PowerOfTwo
  <2> HIDE DEF top
  <2>3. x \in Nat /\ x < top
    BY <2>1, <2>2
  <2> QED BY <2>3, TextIsRead DEF top
<1>2. Spec => []ScheduleInv
  BY InitEstablishesSchedule, NextKeepsSchedule, PTL DEF Spec
<1> QED BY <1>1, <1>2, AccountsInvariant, PTL
=============================================================================
