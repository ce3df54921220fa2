------------------------------ MODULE Mempool ------------------------------
(***************************************************************************)
(* The transaction pool of one node on top of its chain: mempool.rs, the   *)
(* calls that chain.rs makes to it, and cog_sendTransaction (rpc.rs).  All *)
(* of it runs under the lock of the chain, one handler at a time.          *)
(*                                                                         *)
(* Abstractions.                                                           *)
(*  - The chain is the sequence of canonical blocks, a block its producer  *)
(*    and its transactions.  Which branch is heavier is the business of    *)
(*    Chain.tla: a reorganisation may leave any suffix for any other.      *)
(*  - Rewards are left out; they only add to balances.                     *)
(*  - As in Ledger, the transactions offered carry the right chain id, a   *)
(*    good signature, a short memo and at least the minimum fee.           *)
(*  - The hash of a transaction is a number of its own.                    *)
(*  - A refused transaction changes nothing.                               *)
(***************************************************************************)
EXTENDS Transfers, FiniteSets

CONSTANTS
  Funds,          \* genesis allocations: Address -> amount
  Miners,         \* addresses that produce blocks
  hash,           \* tx.hash(): Tx -> number
  MAX_POOL_SIZE,
  NonceGap,       \* how far ahead of the account a nonce may be: 16
  Passes,         \* passes of select over its candidates: 8
  MaxBlockTxs,    \* params.max_block_txs
  MaxPeerTxs,     \* bound: transactions in a block of a peer
  MaxSuffix,      \* bound: new blocks in a reorganisation
  MaxHeight       \* bound: length of the chain

ASSUME MempoolAssumption ==
  /\ Funds \in [Address -> Nat]
  /\ Miners \subseteq Address
  /\ hash \in [Tx -> Nat]
  /\ \A s, t \in Tx : hash[s] = hash[t] => s = t
  /\ {NonceGap, MaxPeerTxs} \subseteq Nat
  /\ {MAX_POOL_SIZE, Passes, MaxBlockTxs} \subseteq Nat \ {0}
  /\ {MaxSuffix, MaxHeight} \subseteq Nat

VARIABLES
  txs,        \* Mempool.txs
  chain,      \* the canonical blocks above genesis
  accounts    \* Chain.state.accounts

vars == <<txs, chain, accounts>>

-----------------------------------------------------------------------------
(* Blocks *)

GenesisAccounts == [a \in Address |-> [balance |-> Funds[a], nonce |-> 0]]

Blocks(n) == [miner: Miners, txs: SeqOf(Tx, n)]

\* apply_block: the transactions in order, then the fees to the producer.
ApplyBlock(run, block) ==
  LET after == FoldLeft(apply_transaction, run, block.txs)
  IN  [after EXCEPT !.accounts[block.miner].balance = @ + after.fees, !.fees = 0]

\* Mutant: an odd one out is dropped.
PairedTruncated(level) == [i \in 1 .. Len(level) \div 2 |-> <<level[2 * i - 1], level[2 * i]>>]

\* One level of the transaction tree; an odd one out is paired with itself.
Paired(level) ==
  [i \in 1 .. (Len(level) + 1) \div 2 |->
     <<level[2 * i - 1], level[IF 2 * i > Len(level) THEN 2 * i - 1 ELSE 2 * i]>>]

\* The root, as a one-element sequence: empty for no transactions.  A pair is
\* the hash of the two, a transaction its own hash.
tx_root(list) ==
  LET up(level, i) == IF Len(level) > 1 THEN Paired(level) ELSE level
  IN  FoldLeft(up, [i \in 1 .. Len(list) |-> <<list[i]>>], [i \in 1 .. Len(list) |-> i])

Execution(blocks) == FoldLeft(ApplyBlock, Scratch(GenesisAccounts), blocks)

Included(blocks) == UNION {ToSet(blocks[i].txs) : i \in DOMAIN blocks}

-----------------------------------------------------------------------------
(* Mempool *)

\* Mutant: the pool is not checked for room.
insertUnbounded(t) ==
  LET from == accounts[t.from]
  IN  /\ t.amount > 0
      /\ t.nonce \in from.nonce .. from.nonce + NonceGap
      /\ from.balance >= t.amount + t.fee
      /\ txs' = txs \cup {t}

insert(t) ==
  LET from == accounts[t.from]
  IN  /\ Cardinality(txs) < MAX_POOL_SIZE
      /\ t.amount > 0
      /\ t.nonce >= from.nonce
      /\ t.nonce <= from.nonce + NonceGap
      /\ from.balance >= t.amount + t.fee
      /\ txs' = txs \cup {t}

\* Highest fee first, then lowest nonce, then lowest hash.
Before(s, t) ==
  \/ s.fee > t.fee
  \/ s.fee = t.fee /\ s.nonce < t.nonce
  \/ s.fee = t.fee /\ s.nonce = t.nonce /\ hash[s] < hash[t]
Candidates ==
  CHOOSE list \in SetToSeqs(txs) :
    \A i, j \in DOMAIN list : i < j => Before(list[i], list[j])

\* What select has chosen so far, with the next nonce and the money spent of
\* every sender.
NothingChosen == [chosen |-> <<>>,
                  next_nonce |-> [a \in Address |-> accounts[a].nonce],
                  spent |-> [a \in Address |-> 0]]

\* Mutant: what the sender has spent in the batch is forgotten.
FitsAlone(choice, t) ==
  /\ Len(choice.chosen) < MaxBlockTxs
  /\ t \notin ToSet(choice.chosen)
  /\ t.nonce = choice.next_nonce[t.from]
  /\ t.amount + t.fee <= accounts[t.from].balance

Fits(choice, t) ==
  /\ Len(choice.chosen) < MaxBlockTxs
  /\ t \notin ToSet(choice.chosen)
  /\ t.nonce = choice.next_nonce[t.from]
  /\ choice.spent[t.from] + t.amount + t.fee <= accounts[t.from].balance

Consider(choice, t) ==
  IF ~Fits(choice, t) THEN choice
  ELSE [chosen |-> Append(choice.chosen, t),
        next_nonce |-> [choice.next_nonce EXCEPT ![t.from] = @ + 1],
        spent |-> [choice.spent EXCEPT ![t.from] = @ + t.amount + t.fee]]

\* Mutant: the candidates are gone through once.
SelectionOnce == FoldLeft(Consider, NothingChosen, Candidates)

\* The loop stops after a pass that chose nothing; another one would not either.
Selection ==
  LET pass(choice, i) == FoldLeft(Consider, choice, Candidates)
  IN  FoldLeft(pass, NothingChosen, [i \in 1 .. Passes |-> i])

select == Selection.chosen

\* Mutants: only what the block names is taken out; a nonce off by one.
PrunedByName(included, accts) == txs \ ToSet(included)
PrunedAhead(included, accts) ==
  {t \in txs \ ToSet(included) : t.nonce > accts[t.from].nonce}

\* What is left of the pool on the new accounts.
Pruned(included, accts) ==
  {t \in txs \ ToSet(included) : t.nonce >= accts[t.from].nonce}

prune(included) == txs' = Pruned(included, accounts')

-----------------------------------------------------------------------------
(* Handlers *)

cog_sendTransaction ==
  /\ \E t \in Tx : insert(t)
  /\ UNCHANGED <<chain, accounts>>

Extend(block) ==
  LET run == ApplyBlock(Scratch(accounts), block)
  IN  /\ Len(chain) < MaxHeight
      /\ run.ok
      /\ chain' = Append(chain, block)
      /\ accounts' = run.accounts
      /\ prune(block.txs)

\* submit_solution: the own block carries what select picks.
submit_solution == \E m \in Miners : Extend([miner |-> m, txs |-> select])

AcceptBlock == \E block \in Blocks(MaxPeerTxs) : Extend(block)

\* A block that makes another branch the heaviest: prune is told of no
\* transaction, whatever the new branch contains and the old one contained.
Reorganise ==
  \E fork \in 0 .. Len(chain) - 1, suffix \in SeqOf(Blocks(MaxPeerTxs), MaxSuffix) :
    LET branch == SubSeq(chain, 1, fork) \o suffix
        run == Execution(branch)
    IN  /\ suffix # <<>>
        /\ suffix[1] # chain[fork + 1]
        /\ Len(branch) <= MaxHeight
        /\ run.ok
        /\ chain' = branch
        /\ accounts' = run.accounts
        /\ prune(<<>>)

\* The pool is in memory only.
Restart ==
  /\ txs' = {}
  /\ UNCHANGED <<chain, accounts>>

Init ==
  /\ txs = {}
  /\ chain = <<>>
  /\ accounts = GenesisAccounts

Next ==
  cog_sendTransaction \/ submit_solution \/ AcceptBlock \/ Reorganise \/ Restart

Spec == Init /\ [][Next]_vars

-----------------------------------------------------------------------------
(* Properties *)

TypeOK ==
  /\ txs \subseteq Tx
  /\ Cardinality(txs) <= MAX_POOL_SIZE
  /\ chain \in Seq([miner: Miners, txs: Seq(Tx)])
  /\ accounts \in [Address -> [balance: Nat, nonce: Nat]]

\* mempool.rs:86: "always in per-sender nonce order so the batch applies
\* cleanly".  Whatever is in the pool - rivals with one nonce, gaps, senders who
\* can pay for each of their transactions but not for all of them - a node never
\* fails to build on its own tip because of its own selection.
OwnBatchApplies ==
  /\ Len(select) <= MaxBlockTxs
  /\ RunTransactions(accounts, select).ok

\* The header of a block commits to its transactions by their root alone, which
\* does not tell a list from one that repeats its last transactions.  The nonces
\* make up for it: of the lists with the root of the node's own batch no other
\* one can be executed, so its block's hash stands for one block.
BatchHasItsRoot ==
  \A other \in SeqOf(ToSet(select), MaxBlockTxs + 1) :
    /\ tx_root(other) = tx_root(select)
    /\ RunTransactions(accounts, other).ok
    => other = select

\* A transaction is left out of a block with room only if it does not fit after
\* the chosen ones, or if its sender already has one in for every pass.
BatchIsExhaustive ==
  \A t \in txs :
    Fits(Selection, t) =>
      Cardinality({i \in DOMAIN select : select[i].from = t.from}) >= Passes

\* Nothing that is in the chain stays in the pool to be selected again, though
\* after a reorganisation nobody takes the new branch's transactions out by name.
IncludedLeaves == txs \cap Included(chain) = {}

\* EXCHANGE.md:145: an admitted transaction is either included, or lost with the
\* restart of the node.  No step takes it out of the pool unless its nonce is then
\* used on the chain, by itself or by a rival.  (That a later reorganisation takes
\* it off the chain again, and does not bring it back, is the exception.)
OnlyUsedNoncesLeave ==
  [][ \/ Restart
      \/ \A t \in txs \ txs' :
           \E s \in Included(chain') : s.from = t.from /\ s.nonce = t.nonce ]_vars
=============================================================================
