------------------------------- MODULE Ledger -------------------------------
(***************************************************************************)
(* The replicated state machine along one branch: state.rs, with the       *)
(* genesis checks and the reward schedule of genesis.rs.  A block is       *)
(* executed on a copy of the state that is kept only if every part of it   *)
(* succeeds (Chain::validate_block), so apply_block is one atomic step and *)
(* a block that fails is a step that changes nothing.                      *)
(*                                                                         *)
(* Abstractions.                                                           *)
(*  - An address that was never touched is an account with balance and     *)
(*    nonce 0, which is how State::balance and State::nonce read it.       *)
(*  - Amounts are natural numbers.  The u64 checks of credit and of the    *)
(*    fee accumulator cannot fail as long as the balances add up to        *)
(*    minted <= supply_cap (Conserved below), and a transaction whose      *)
(*    amount + fee overflows asks for more than any balance.               *)
(*  - Signature, chain id, memo length and minimum fee of a transaction    *)
(*    are fixed checks on its data: the transactions offered pass them.    *)
(*  - A commitment is named by its height and solution: on one branch the  *)
(*    height fixes prev_hash, which is what the task seed binds.           *)
(***************************************************************************)
EXTENDS Transfers, FiniteSets, Functions

CONSTANTS
  Premine,              \* genesis allocations: Address -> amount
  SupplyCap,            \* params.max_supply
  InitialReward,        \* params.initial_reward
  HalvingInterval,      \* params.halving_interval_tasks
  EPOCHS,               \* halvings before the reward is 0: 64, the width of u64
  MaxBlockTxs,          \* params.max_block_txs
  Roots,                \* the matrices a miner may commit to (matmul_root)
  SoundRoots,           \* those that are the product the task seed asks for
  MaxHeight             \* bound: height of the branch

REVEAL_WINDOW == 1

VARIABLES
  height,           \* header.height of the last block executed
  accounts,         \* state.accounts
  minted,           \* state.minted
  tasks_completed,  \* state.tasks_completed
  pending,          \* state.pending: commit id -> PendingCommit
  executed          \* the transactions in the blocks of the branch

vars == <<height, accounts, minted, tasks_completed, pending, executed>>

-----------------------------------------------------------------------------
(* Genesis: the reward schedule and the checks of GenesisConfig::validate *)

\* x >> e for unsigned x: how many multiples of 2^e there are up to x.
ShiftRight(x, e) == Cardinality({k \in 1 .. x : k * 2^e <= x})

\* Mutant: the reward falls linearly from epoch to epoch.
block_rewardLinear(tasks) == InitialReward \div ((tasks \div HalvingInterval) + 1)

block_reward(tasks) ==
  LET epoch == tasks \div HalvingInterval
  IN  IF epoch >= EPOCHS THEN 0 ELSE ShiftRight(InitialReward, epoch)

\* The sum over the halving epochs; the loop of validate stops at the first
\* epoch whose reward is 0: the later ones add nothing.
EpochReward == [e \in 0 .. EPOCHS - 1 |-> HalvingInterval * ShiftRight(InitialReward, e)]
Emission == SumFunction(EpochReward)

PremineTotal == SumFunction(Premine)

ASSUME GenesisAssumption ==
  /\ Premine \in [Address -> Nat]
  /\ SupplyCap \in Nat
  /\ InitialReward \in Nat
  /\ HalvingInterval \in Nat \ {0}
  /\ EPOCHS \in Nat
  /\ MaxBlockTxs \in Nat \ {0}
  /\ SoundRoots \subseteq Roots
  /\ MaxHeight \in Nat

\* GenesisConfig::validate
ASSUME GenesisValid ==
  /\ PremineTotal \in Nat /\ PremineTotal <= SupplyCap
  /\ Emission + PremineTotal <= SupplyCap

-----------------------------------------------------------------------------
(* Transactions *)

ApplyTransactions(txs) == RunTransactions(accounts, txs)

-----------------------------------------------------------------------------
(* Reveals and commitments *)

\* A reveal opens at most one commitment: opened is {} or {its id}.  The row
\* checks of verify_reveal pass exactly for a sound matrix.
verify_reveal(opened) ==
  /\ opened \subseteq DOMAIN pending
  /\ Cardinality(opened) <= 1
  /\ \A c \in opened : /\ pending[c].height + REVEAL_WINDOW = height + 1
                       /\ c.root \in SoundRoots

\* mint: what is left under the cap, if that is less than the reward.
Minted(amount) == IF amount <= SupplyCap - minted THEN amount ELSE SupplyCap - minted

\* The reward that the opened commitment recorded when it was made.
RewardFor(opened) ==
  IF opened = {} THEN 0 ELSE pending[CHOOSE c \in opened : TRUE].reward

Credit(accts, a, amount) == [accts EXCEPT ![a].balance = @ + amount]

CommitFor(miner, root) == [height |-> height + 1, miner |-> miner, root |-> root]

\* Mutant: a commitment may still be opened one block late.
SurvivingLate(opened) ==
  {c \in DOMAIN pending \ opened : pending[c].expires_at >= height + 1}

\* The commitments whose window is still open after this block.
Surviving(opened) ==
  {c \in DOMAIN pending \ opened : pending[c].expires_at > height + 1}

\* Mutant: the reward is fixed before the reveal in the same block settles.
NewCommitStaleReward(miner, tasks) ==
  [height |-> height + 1, miner |-> miner,
   reward |-> IF tasks = 0 THEN block_reward(0) ELSE block_reward(tasks - 1),
   expires_at |-> height + 1 + REVEAL_WINDOW]

\* The commitment of the new block, its reward fixed by the tasks settled so
\* far, the one settled in this block included.
NewCommit(miner, tasks) ==
  [height |-> height + 1, miner |-> miner, reward |-> block_reward(tasks),
   expires_at |-> height + 1 + REVEAL_WINDOW]

\* The credits of a block: the settled reward to whoever committed, the fees
\* to whoever produced the block.
PayOut(accts, opened, fees, miner) ==
  LET settled == IF opened = {} THEN accts
                 ELSE LET c == CHOOSE c \in opened : TRUE
                      IN  Credit(accts, pending[c].miner, Minted(pending[c].reward))
  IN  Credit(settled, miner, fees)

apply_block(miner, root, txs, opened) ==
  LET run   == ApplyTransactions(txs)
      tasks == tasks_completed + Cardinality(opened)
      id    == CommitFor(miner, root)
  IN  /\ Len(txs) <= MaxBlockTxs
      /\ run.ok
      /\ verify_reveal(opened)
      /\ minted' = IF opened = {} THEN minted ELSE minted + Minted(RewardFor(opened))
      /\ minted' <= SupplyCap
      /\ tasks_completed' = tasks
      /\ accounts' = PayOut(run.accounts, opened, run.fees, miner)
      /\ pending' = [c \in Surviving(opened) \cup {id} |->
                       IF c = id THEN NewCommit(miner, tasks) ELSE pending[c]]
      /\ height' = height + 1
      /\ executed' = executed \cup ToSet(txs)

\* The reveals a block can carry: none, or one that opens a known commitment.
Reveals == {{}} \cup {{c} : c \in DOMAIN pending}

Block ==
  /\ height < MaxHeight
  /\ \E miner \in Address, root \in Roots, txs \in SeqOf(Tx, MaxBlockTxs),
        opened \in Reveals :
       apply_block(miner, root, txs, opened)

\* The bound is reached; below it some block can always be executed.
BranchFull == height = MaxHeight /\ UNCHANGED vars

Next == Block \/ BranchFull

\* genesis_state: the allocations, all of them minted.
Init ==
  /\ height = 0
  /\ accounts = [a \in Address |-> [balance |-> Premine[a], nonce |-> 0]]
  /\ minted = PremineTotal
  /\ tasks_completed = 0
  /\ pending = [c \in {} |-> {}]
  /\ executed = {}

Spec == Init /\ [][Next]_vars

-----------------------------------------------------------------------------
(* Properties *)

\* Type invariant of the state.
PendingCommit == [height: Nat, miner: Address, reward: Nat, expires_at: Nat]
TypeOK ==
  /\ height \in Nat
  /\ accounts \in [Address -> [balance: Nat, nonce: Nat]]
  /\ minted \in 0 .. SupplyCap
  /\ tasks_completed \in Nat
  /\ \A c \in DOMAIN pending : pending[c] \in PendingCommit

\* No coin is created or lost outside mint: fees, transfers within one block
\* and rewards always leave the balances adding up to what was minted.
Conserved == SumFunction([a \in Address |-> accounts[a].balance]) = minted

\* A transaction takes effect at most once on a branch, however often it is
\* offered again: an account's nonce counts the distinct transactions it sent.
ExecutedOnce ==
  \A a \in Address :
    Cardinality({t \in executed : t.from = a}) = accounts[a].nonce

\* After any block but genesis exactly one commitment is open, the block's own,
\* and its reward is what the schedule names for the next task: it cannot be
\* settled late, twice, or at the rate of another task.
OnlyTipIsPending ==
  IF height = 0 THEN DOMAIN pending = {}
  ELSE \E c \in DOMAIN pending :
         /\ DOMAIN pending = {c}
         /\ c.height = height
         /\ pending[c].height = height
         /\ pending[c].expires_at = height + REVEAL_WINDOW
         /\ pending[c].reward = block_reward(tasks_completed)

\* The check of GenesisConfig::validate makes the clipping in mint unreachable:
\* every sound reveal is paid its reward in full.
RewardsPaidInFull ==
  \A c \in DOMAIN pending : minted + pending[c].reward <= SupplyCap

\* Issuance follows the schedule of Supply, whatever the blocks carry.
Issuance == INSTANCE Supply WITH
  Premine <- PremineTotal, Cap <- SupplyCap, RewardOf <- block_reward,
  issued <- minted, settled <- tasks_completed

ImplementsSupply == Issuance!Spec
=============================================================================
