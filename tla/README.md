# A TLA+ model of CognitiveChain

CognitiveChain is a proof-of-useful-work chain: a miner multiplies two matrices,
block `T` commits to the product, block `T+1` opens some of its rows, and only
then is the reward of block `T` created. The repository holds a node (Rust), a
mining pool (Rust) and a miner (Python). This directory models the parts whose
correctness depends on the order of events - the block store and fork choice, the
ledger and its issuance, crashes between writes, gossip between nodes, the
mempool, the pool's books and payouts, the pool's handling of challenges - and
the algorithms those parts rest on: row trees and challenges, targets, transaction
roots, amounts as text. TLC checks the models on small instances;
TLAPS proves for all parameters what the checked instances suggest: every safety
property that holds in them, and both refinements.

Run a model with `tlc -config MCChainFork.cfg MCChain` and the proofs of a module
with `tlapm ChainProofs.tla`. The modules with proofs are `ChainProofs`,
`LedgerProofs`, `TransfersProofs`, `MempoolProofs`, `PoolLedgerProofs`,
`PoolSharesProofs`, `GossipProofs` and `FoldLemmas`.

## 1. Inventory

| Component | State | Operations | Interacts with |
|---|---|---|---|
| Chain (`chain.rs`, `store.rs`, `types.rs`) | sled trees blocks, work, by_height, states and the recorded tip; in memory the ledger, tip, tip work, reveal buffer, mempool | open, accept_block (extend, side branch, reorganise), build_block, submit_solution, submit_reveal, rebuild_state_to, save_snapshot | one mutex, shared by RPC and P2P tasks; calls the ledger |
| Ledger (`state.rs`, `genesis.rs`) | accounts, minted, tasks_completed, pending commitments | apply_block (transactions, reveal, expiry, new commitment, fees) | executed on a copy by validate_block |
| Useful work (`pouw.rs`, `protocol.py`) | none | operands, product, row tree and paths, challenge rows, row checks | pure functions, called by ledger, pool and miner |
| Mempool (`mempool.rs`) | transactions by hash | insert, select, prune | inside Chain's mutex |
| Gossip (`p2p.rs`) | per connection: handshake done, half-read frame; a broadcast channel | Hello, NewBlock, GetBlocks, Blocks, dial, listen | accept_block, block_at_height |
| RPC (`rpc.rs`) | none | cog_* methods | Chain, announcement channel |
| Pool (`pool.rs`, `client.rs`, `bin/pool.rs`) | ledger file; in memory credits, paid, strikes, share window, pending shares, node challenges, finders | JSON-RPC methods, follow_node, account_rewards, pay_miners, save | the node over RPC; miners over RPC; tasks share one mutex that no task holds across an await |
| Miner (`cog_miner`) | the last four solved tasks | mine, submit, answer challenges | a node or a pool over RPC |
| Node program, wallet, explorer (`main.rs`, `wallet_ui.rs`, `crypto.rs`, html) | key files | commands, signing | RPC |

What is hard in this code, and what must hold:

- **Chain.** Blocks come in any order that keeps parents first, competing
  branches differ in difficulty, snapshots of abandoned branches remain in the
  store, the reveal buffer depends on the tip. Must hold: the tip is the heaviest
  stored block, ties stay with the first; the ledger in memory is the one its
  ancestry produces; the store is closed and consistent; no stale reveal; the
  height index names the tip's branch; reopening restores everything.
- **Crashes.** A handler makes several writes that no transaction groups. Must hold:
  after a reopen the ledger belongs to the tip, and work already recorded is kept.
- **Ledger.** The reward is fixed in one block and created in the next, from a
  counter the first of them may change. Must hold: coins are conserved, no
  transfer runs twice, the k-th task earns the k-th reward, the cap is respected.
- **Pool.** Two background tasks and all request handlers change one ledger; they
  read before an await and write after it; saves run outside the lock. Must hold:
  the books balance, no block is lost or credited twice, nobody is paid twice,
  what is recorded as paid arrives, the file is always whole, and honest miners
  keep their rewards and their reputation.
- **Gossip.** Blocks are announced outside the lock, to whoever has subscribed by
  then; a task that lags loses announcements, `select!` may drop half a frame,
  connections break. Must hold: the handshake comes first, requests and answers
  end, and connected nodes then share their blocks.
- **Mempool.** Rivals with one nonce, gaps, senders who can afford some of their
  transactions only, reorganisations. Must hold: a node's own batch executes, is as
  full as it can be, and transactions leave the pool only when they are spent.
- **Useful work.** Five functions agree on the shape of one tree. Must hold: right
  rows always open, wrong or foreign ones never.

## 2. Modules

| Module | Models | Composition |
|---|---|---|
| `Chain` | `chain.rs` and the store it writes | instantiates `ForkChoice` |
| `ForkChoice` | abstract: learn blocks one by one, keep the heaviest, first among equals | – |
| `ChainWork` | the work of a chain measured in attempts | extends `Chain`, `Target` |
| `ChainProofs` | theorems about `Chain`, `ChainCrash` and `ChainWork` | extends `ChainCrash`, `ChainWork`, `FoldLemmas` |
| `ChainCrash` | `Chain` with every handler cut short after any write | extends `Chain` |
| `Target` | `meets_difficulty`, the arithmetic of a target | joined to `Chain` in `ChainWork` |
| `Gossip` | `p2p.rs`, the announcement in `rpc.rs`, the wiring in `main.rs` | each node a `ForkChoice` |
| `Transfers` | `apply_transaction` and a batch of transactions | extended by `Ledger` and `Mempool` |
| `Ledger` | `state.rs`, reward schedule and genesis checks | instantiates `Supply` |
| `Supply` | abstract: the k-th task creates the k-th reward | – |
| `FoldLemmas` | lemmas: sums over finite sets, folds over sequences, recursion on trees | – |
| `TransfersProofs` | lemmas about batches of transactions | extends `Transfers`, `FoldLemmas` |
| `LedgerWork` | the ledger with the work it settles and the text of its amounts | extends `Ledger`, `UsefulWork`, `Amount` |
| `LedgerProofs` | theorems about `Ledger` and `LedgerWork` | extends `LedgerWork`, `TransfersProofs` |
| `UsefulWork` | `pouw.rs` and the miner's side of it | joined to `Ledger` in `LedgerWork` |
| `Amount` | `format_cog`, `parse_cog` | joined to `Ledger` in `LedgerWork` |
| `Mempool` | `mempool.rs` on a chain that reorganises, `tx_root` | extends `Transfers` |
| `MempoolProofs` | theorems about `Mempool` | extends `Mempool`, `TransfersProofs` |
| `GossipProofs` | theorems about `Gossip` | extends `Gossip`, `FoldLemmas` |
| `PoolLedger` | `account_rewards`, `pay_miners`, `credit_block`, `save`, restart | node as external part |
| `LedgerFile` | `save` as truncate, write, rename | – |
| `PoolShares` | share submission, spot-checks, node challenges, the miner's answers, lost calls, restarts | node as external part |
| `PoolLedgerProofs` | theorems about `PoolLedger` | extends `PoolLedger`, `FoldLemmas` |
| `PoolSharesProofs` | theorems about `PoolShares` | extends `PoolShares`, `FoldLemmas` |
| `MC*` | instances for TLC | extend the modules they name |

### Chain

A hash is modelled by what it commits to: the sequence of headers from block 1
to the block. `blocks`, `work`, `by_height`, `stored_tip` and `states` are the
store; `state`, `tip_hash`, `tip_work` and `reveal_buffer` the fields of `Chain`.
The ledger is free: a state is the sequence of blocks executed, so that two
states are equal only if every deterministic `apply_block` makes them so. A node
holds its chain behind one mutex, so a handler is one step: `AcceptBlock` is
`accept_block` (with `Extend`, `StoreSideBranch` and `Reorganise` for its three
paths), `submit_solution` mines on the tip with the buffered reveal if it has
one, `submit_reveal` fills the buffer, `Reopen` is a clean stop and
`Chain::open`. Blocks that are duplicates, orphans or invalid change nothing and
are steps that stutter. `expected_difficulty` is translated with its window of
`interval - 1` gaps and its clamping: to a quarter and to four times the old
difficulty, to at least 1, and to `MaxDifficulty`, the largest `u64`.

### ChainCrash

Each handler's effect on the store is spelled out as its sequence of single
writes (`ExtendWrites`, `RebuildWrites`, `AcceptWrites`); a crash leaves a prefix
of it. sled keeps one log for all trees, so a prefix in program order is what can
survive. `Open` is `Chain::open` on whatever is there and may crash too. A block
without recorded work (a crash inside `put_block`) cannot be built upon:
`Weighable`. `torn` is history: the blocks whose acceptance a crash cut short.

### Target

`meets_difficulty` with its carry from limb to limb, for any number of limbs of any
size (`LIMBS`, `LimbSize`; four of 2^64 in the code). `ChainWork` relates it to the
work of a chain: a block weighs as many attempts as, on average, it takes to find a
hash that meets its difficulty.

### Gossip

The blocks that exist form a constant tree, finite or not, in which every set of
blocks has one whose parent is not in it (a block names a block that was there
before); a node's chain is what it knows of the
tree and a tip chosen as in `ForkChoice`, which `Chain` is shown to implement.
Each link has two ends, and an end is one `run_peer` task: `peer` holds the task's
locals (its place in the code, the announcements it has received, the blocks of a
message it is still ingesting), `stream` what is on its way to it. `Mine` and
`Announce` are two actions because `cog_submitSolution` sends to the channel after
it released the chain's lock; `SendHello` and `Subscribe` are two because a block
may be announced in between. `IngestNext` takes one block of a `Blocks` message,
since `ingest` takes the lock once per block. `TearFrame` is the half-read frame
that `select!` drops when an announcement is ready: the end is `misframed` from then
on, and swallows what comes or gives up. A task does not read while it writes, and
`Written` says when a write is over: when no more is unread than the sockets of that
direction hold. Histories (`missed`, `reordered`, `told`)
record what a connection could not deliver, so that the properties can say that
nothing else is lost: `reordered` are the blocks announced before one of their
ancestors, which two miners' tasks of one node may do.

`QuietMeansCaughtUp` is about two nodes with one connection between them and no fork,
and neither condition can be dropped. A third node's block may arrive between a request
and its answer, so that the answer brings no news and `ingest` asks for nothing more,
though a greater height was announced. And a height that was told may be the height of
a branch that the teller has left since.

### Ledger

One branch, one block per step: `apply_block` runs the batch of transactions on a
copy, settles at most one reveal, drops what expired and registers the block's
own commitment; a block that fails in any part is refused whole.
`GenesisValid` holds what `GenesisConfig::validate` demands of the emission;
theorems assume no more than that. `BranchFull` is a stuttering step at the
height bound so that TLC sees no deadlock there. What runs on accounts alone is in
`Transfers`.

### UsefulWork, Amount

Hashes are free constructors: the hash of something is that thing with a tag, so
equal hashes have equal inputs, and the stream of the extendable hash is a constant
operator. `Ledger` knows a committed matrix by a root that is sound or not; in
`LedgerWork` the root is the set of rows the miner got wrong, and a sound root is one
whose challenge met no wrong row. `WrongRowsDecide` and `OnlyCommittedRowsOpen`
justify that: with the tree, the paths and the checks as in the code, which rows
were wrong when they were committed is all that matters, and no later choice of
rows, paths or indices changes it. `Amount` writes and reads the text that carries
balances and rewards between programs.

### Mempool

The chain is a sequence of blocks and may leave any suffix for any other that
executes: which one is heavier is `Chain`'s affair. `insert`, `Selection` (the passes
of `select` over its candidates) and `Pruned` are the three operations; `prune` runs
on the new accounts inside the step that accepts a block, with that block's
transactions after an extension and with none after a reorganisation. Candidates of
one fee and one nonce are taken in the order of their hashes; `hash` is a constant
that gives each transaction a number of its own, in any order. `tx_root` pairs
an odd last hash with itself, as the code does.

### PoolLedger, LedgerFile

Between two awaits a task runs one critical section, and each is one action.
`save` is a step of its own after the lock is released, on the copy taken under
it, so saves overtake each other; `LedgerFile` takes that step apart. The node is
external: a mempool that admits by nonce and prunes, a chain nonce, and balances
received. `CrashAndRestart` reads back the last saved copy; it also stands for
stopping the pool, which aborts tasks at any await. `LosePayoutReply` is a
connection that breaks after the node admitted a payout. Three history fields of
the ledger record (`payments`, `gross`, `times`) and the variable `unheard` (payouts
whose reply was lost) say what was done and are read by properties only.

### PoolShares

Honest miners only: they answer each request with the rows it asks for. Each
miner has one request in service at a time, and handlers give up the lock while
they call the node. `RouteReveal` goes by commit id alone, as the code does. A
miner that gives up on a call (`GiveUp`, the timeout of `rpc.py`) goes on while the
pool finishes serving it (the handler `Late`); `Restart` keeps nothing but the
ledger. `found_by` is trimmed at its limit as in the code, by whichever entries the
map yields first. The node is external: it owes a reveal for its newest block until
the right rows come or another block closes the window.

## 3. Runs

| Run | Question | Result |
|---|---|---|
| `chain_fork` | Does the node implement fork choice, with an exact ledger and fresh reveals, through forks, retargets that make short branches heavy, snapshots, pruning and restarts? Does a block weigh what it takes to find it? | yes |
| `chain_index` | Does the height index name the tip's branch? | no |
| `chain_crash` | Is every prefix of a handler's writes recoverable to a sound node, and which blocks may be passed over? | yes; only those cut short |
| `ledger` | Conservation, replay protection, settlement, issuance; row openings and amounts as text | yes |
| `mempool` | Does the node's own batch always execute, is it exhaustive, has it a root of its own, and do transactions leave only when spent? | yes |
| `gossip` | Do connected nodes share what they mine, catch up and settle, but for losses that are named? | yes |
| `gossip_fork` | Does a node that meets an orphan end up on the heavier branch? | no |
| `gossip_frame` | Does a node that is far behind catch up? | no |
| `pool_ledger` | Do the books balance, is nothing skipped, does a crash repeat one credit at most, and is, until one, nobody paid twice? | yes |
| `ledger_file` | Is the ledger file always a whole copy? | no |
| `pool_shares` | Are challenges for found blocks answered, do shares count once, and how often is a correct miner struck? | yes; at most once per block found and call given up |
| `pool_strikes` | Are strikes a sign of wrong rows? | no |

The five negative results, each against a comment or a document of the
repository:

1. **Height index** (`chain.rs:233`). Replay rewrites the index only above the
   snapshot it starts from. Reorganise away from a branch and back onto it, with
   one of its snapshots above the fork, and the heights between the fork and the
   snapshot name the wrong branch. Peers, explorers and the pool read by height.
2. **Ancestors are not requested** (`p2p.rs:109`). `chain.rs:39` leaves it to the
   caller to ask for an orphan's ancestors; the caller logs the orphan, and
   `GetBlocks` never asks below the own height. Two nodes that mined different
   blocks while apart do not converge, whichever branch is heavier, until blocks
   reach one of them by another way.
3. **Answers above the frame limit** (`p2p.rs:182`). `collect_blocks` counts 128
   blocks, `write_message` refuses more than 8 MiB. Blocks with reveals are large
   enough for the second limit to be met first; the connection ends, and again after
   every dial, for the late node asks for the same blocks.
4. **Shared temporary file** (`pool.rs:188`). Concurrent saves truncate and
   rename each other's file, so the ledger file may be empty for a moment.
5. **Strikes for correct rows** (`pool.rs:537`). The share that wins a block has two
   challenges under one commit id, the pool's and the node's, and `cog_submitReveal`
   passes on whatever comes while the node's is open, then forgets it. The answer to
   the spot-check goes to the node, the answer to the node is judged as the spot-check,
   and a miner with correct rows gets a strike. `docs/POOL.md:134-136` tells it that
   its miner computes incorrectly; three strikes are a ban. What remains true is
   `StrikesAreExplained`.

### Further counterexamples

Five more configurations each end in a counterexample. They are not runs of
`PROJECT.json`; `tlc -config <cfg> <module>` shows them in seconds.

| Configuration, module | Property | What happens |
|---|---|---|
| `MCPoolNonce.cfg`, `MCPoolLedger` | `PaidCanArrive` | A payout round starts from the nonce on the chain although the previous round's payouts may be unmined (`pool.rs:950`). Of two payouts of one nonce only one can be mined (equal ones are even one entry of the mempool, `mempool.rs:84-86`), and both are recorded as paid, against the comment at `pool.rs:941`. |
| `MCPoolEras.cfg`, `MCPoolLedger` | `CreditedExactly` | `account_rewards` reads the reward of the next block once (`pool.rs:812`) and credits every block of the scan with it, also those of the era before; `pool.rs:23` and `docs/POOL.md:64` promise exactly the block's own. |
| `MCPoolRecredit.cfg`, `MCPoolLedger` | `CreditedExactly` | A pool that stops after saving a credit (`pool.rs:898`) and before saving the height credits the block again. What remains true is `RecreditsAreBounded`. |
| `MCPoolStale.cfg`, `MCPoolLedger` | `FileKeepsUp` | Each task saves its copy after it has released the lock (`pool.rs:1019`). The older copy may be written last, and until the next save the file lacks a payout, though `docs/POOL.md:76` has it saved at every change. A stop in that time brings a paid credit back. |
| `MCGossipStall.cfg`, `MCGossip` | `FramesAreRead` | `run_peer` does not read while it writes and has no time-out (`p2p.rs:213`). Two ends that write more to each other than the sockets hold - an answer against announcements - stop for ever, with the connection up. With `SocketBuffer = 9` the same instance passes. |

### Exceptions

Five properties that hold name an exception that is worth knowing:

- `OnlyTornBlocksOutweigh`: after a crash between storing a block and recording it
  as the tip (`chain.rs:411-413`) the node stores a heavier block and ignores it;
  offering it again is a `Duplicate`. It heals when a child of it arrives.
- `Settles` excepts ends that wait for each other (`Stalled`, shown by `MCGossipStall.cfg`) and lost framing.
- `QuietMeansShared` and `QuietMeansCaughtUp` except blocks announced before their
  parents (`reordered`, from `rpc.rs:192`): a node may come to rest below a height it was
  told. The former also excepts announcements that were lost (`missed`), the latter does
  not need to: the next one makes up for them.
- `NeverOverpays` counts a payout whose reply was lost as received but not recorded
  (`unheard`): the credit is kept and paid again (`pool.rs:1022`). It says nothing after
  a crash, which may take a payout off the record (`MCPoolStale.cfg`).
- `SharesCountOnce`: a call that timed out at the miner and is made again may count
  one share twice (`pool.rs:602`).

### Bounds

- `chain_fork`: 7 blocks, height 4, one sound solution, a retarget every 2 blocks,
  snapshots every 2 blocks kept for 2: room for two reorganisations, the second
  back onto a branch with a snapshot of its own, and for snapshots that are pruned.
  Gaps of 1 and 16 seconds quadruple or quarter the difficulty, which starts at 3 and
  cannot exceed 40, so all clamps are reached (3, 12, 40), a short branch outweighs a
  long one, and the difficulties do not divide the number of hashes (two limbs of 64
  values). `chain_index` has steady difficulty and 8 blocks.
- `chain_crash`: 6 blocks, height 4, any number of crashes.
- `ledger`: two accounts, five blocks, batches of two, a cap reached exactly with
  the third settled task; both orders of a batch and gaps in nonces occur. Matrices
  of 4 by 4 over a field of 5 and challenges of 2 rows: the tree has an inner level,
  and every challenge is tried, with repeated rows among them. Amounts are written to
  the base 2 with 2 digits behind the point, so that amounts below, at and above one
  coin occur, with and without zeros at either end.
- `mempool`: two senders, three fees, nonces up to 2 (one more than the gap), a pool
  of 3, two passes, a chain of 2: rivals, gaps, successors that pay more than their
  predecessors, a sender who cannot pay for all, and a reorganisation all fit.
- `gossip`: two nodes, a tree of three blocks in a row and one heavy rival, a channel
  of one announcement, one fault (a broken connection or a torn frame). A batch of
  2 is less than the longer branch, so catching up takes two requests; the channel
  overflows with two blocks mined in a row; the sockets hold one block with a reveal
  or two without, so that writers wait and both may. The other two runs have
  sockets that hold everything. `gossip_fork` needs no fault.
  `gossip_frame` has one branch, in which two blocks carry reveals and together
  exceed a frame. `MCGossipStall.cfg` has two branches of two blocks, sockets that hold two
  blocks without a reveal and no faults: one end's answer and the other's two
  announcements are both more than that.
- `pool_ledger`: two miners weighted 2:1 (each division leaves a remainder), two
  settled blocks of one reward, one payout per round, one crash and one lost reply.
  Of the further configurations only `MCPoolRecredit.cfg` has a fault, one crash, and
  `MCPoolEras.cfg` halves the reward.
- `ledger_file`: two savers and three changes are enough for every overlap of two
  calls.
- `pool_shares`: one miner with three shares, two of them blocks, one block of
  others, one fault (a call given up, or a restart), a ban after one strike, room for
  two tasks in its cache and for one entry in `found_by`, so that both run over.
  `pool_strikes` has room for everything, no faults, and the ban at three strikes.

### Fairness

`PoolShares` assumes weak fairness of each miner's answering loop, of the handlers,
of `follow_node`, and of the expiry of shares. The loops are unconditional in the
code (`mine_forever`, `follow_node`), handlers run to the end, and expiry is a matter
of elapsed time. Finding shares and blocks is not fair: nobody need be lucky.

`Gossip` assumes weak fairness of each `run_peer` task, of the sending of its
announcements (tokio polls both branches of the `select!`), of announcements that were
started, and of dialling, for `dial_forever` retries for ever. Nobody need mine, and
a misframed end need not give up: what it reads may be a length it waits for.

All other properties are safety.

## 4. Proofs

What is proved holds for all values of the constants that the named assumptions of
the modules admit. These say what the code says: types of the constants, and further
only

- `GenesisValid`: the checks of `GenesisConfig::validate` on the emission;
- finitely many addresses and miners, so that balances and credits have sums;
- different transactions have different hashes (`MempoolAssumption`);
- the block tree is grounded, as described above (`GossipAssumption`);
- the field has more than one element, so that a wrong value is not the right one, and
  operand streams are numbers (`WorkAssumption`);
- the cap fits the width of an amount (`WireAssumption`: in the code, a `u64`).

One theorem has a hypothesis of its own, `TwoNodes` (see Gossip below).

### How the proofs go

Each module has an inductive invariant that holds initially and is kept by each
action, one lemma per action or per part of the state an action disturbs, and the
theorems listed in `PROJECT.json` are its consequences. Induction over data - sums,
lists of transactions, branches - is done without a theorem about predicates: the
claim is the emptiness of the set of its counterexamples, which would have a minimal
member, and a minimal member is refuted by one step (`MinimalSubset` for sets,
`LargestIndex` for numbers, `GossipAssumption` for blocks). `FoldLemmas` derives from
that what the folds of the community modules compute: a sum changes with its
summands, a left fold executes its list one by one, a recursive function from parent
to child exists.

### Chain and crashes (`ChainProofs`)

- `ChainInvariant`: `IndInv` conjoins the type invariant (`ChainTypeCorrect`), the soundness of the store,
  `TipIsHeaviest`, `StateIsReplay`, `RevealsAreFresh` and `IndexEndsAtTip`. None of
  the state properties is inductive alone: the ledger after a replay is exact because
  snapshots are post-states, which needs them saved from an exact ledger; the tip is
  heaviest because `tip_work` is the tip's recorded work, which needs memory to match
  the store.
- `ChainImplementsForkChoice`: every step of `Chain` is a step of `ForkChoice` or
  leaves known blocks, weights and tip alone. `StepCases` reduces the next-state
  relation to one offered block (taken by one of three paths), a reveal, or a
  reopening; each path stores the block with its parent's work plus its own, and
  moves the tip exactly if that is more than before.
- `ReopeningRestores`, which needs `IndexFromSnapshot`: the height index may be stale,
  but never above all saved states of the tip's branch, and `Chain::open` rewrites it
  from the nearest one.
- `CrashInvariant` for `ChainCrash`, where stored blocks may lack their work and tips
  their successors. A prefix of a handler's writes is a run of the store, one write at
  a time; `CrashInv` says what a write may leave undone: a block without work, a
  heavier block that is not the tip and is in `torn`. `RecoveryIsReplay`,
  `StoreSurvivesCrashes`, `ForkChoiceSurvivesCrashes` and `RecordedTipNeverRetreats`
  follow.
- `WorkCountsEffort`: among all hashes, the number of those that meet the difficulty of
  a stored block, times what the block adds to the work of its branch, is the number of
  hashes rounded up. A hash is read as a number, limb by limb from the last
  (`Scale`, `Worth`). The carry into a limb is the quotient of what lies behind the
  limb times the difficulty (`CarryGoesOn`), so a hash meets the difficulty exactly if
  its product with it is below the number of hashes (`MeetsIsProduct`). Hashes and
  the numbers below that bound correspond one to one (`HashesAreNumbers`), and the
  numbers whose product with a difficulty is below it can be counted. That the
  difficulty is never 0 and never more than `MaxDifficulty` is part of the type
  invariant, and needs the clamps.
- `RetargetsFollowPace`: the blocks of a window are `RetargetInterval - 1` steps apart, so
  if every step took at least the target time the window took at least the ideal one
  (`PaceAddsUp`), and the quotient is at most the old difficulty; the other way
  round likewise. A window one block too wide breaks it, which the weights of branches
  cannot tell, since every node weighs with the same difficulties.

### Ledger (`LedgerProofs`, `TransfersProofs`)

Three invariants, each resting on the one before. `IndInv` (only the last block's
commitment is pending, at the rate of the next task) gives `OnlyTheTipIsPending`,
`SupplyIsCapped` and `LedgerImplementsSupply`: the reward minted was fixed a block
earlier, and it is the scheduled one because no other task can have settled in between.
`LedgerInv` adds the accounts: their balances sum to `minted`, and a sender's nonce
counts its executed transactions; from it `CoinsAreConserved` and
`TransactionsExecuteOnce`. `ScheduleInv` adds that what is minted and what the
schedule has still to mint fit under the cap together. It needs the sum over the
epochs to count down by one reward with each task, and gives
`EveryRewardIsPaidInFull`.

`WorkInv` (what is pending was committed at a height that has a task; no balance or
reward exceeds the cap) carries the three theorems about the algorithms:

- `OnlyWrongRowsFail` and `CommittedRowsOnly`, for a matrix of any size, any field, any
  stream of operands and any number of challenged rows. The tree of
  `UsefulWork` is built level by level, each half as long as the one below (the number
  of leaves is a power of two, which is where `PowerOfTwo` and the lemmas on quotients
  come in). Walking up a path gives the committed root only if at each level the hash
  walked so far is the node at that place and the path's entry is its sibling: a hash
  has one pair of inputs. At the leaves that leaves the committed row and its own path.
  That a right row has an accepted answer is the same walk the other way.
- `AmountsSurviveTheWire`: an amount is the quotient and the remainder of itself by one
  coin, digits written in any base are read back, and zeros that were dropped from the
  end of the fraction are the zeros that padding puts back.

### Mempool (`MempoolProofs`)

`MempoolInv`: on every branch the chain has used exactly the nonces below those of the
accounts, and the pool holds later ones only, within its bound. About `Selection` the
proof shows, pass by pass, that the batch stays executable, and that every pass takes
one of a sender's transactions as long as the next of them is there and fits. Theorems:
`OwnBatchAlwaysApplies`, `RootsNameBatches`, `BatchesAreExhaustive`, `IncludedTransactionsLeave`,
`OnlyUsedNoncesEverLeave`.

`RootsNameBatches` is about trees of any size. Two lists with the same root have levels
that agree from the root down; where one list ends the other can only repeat its own
last transactions, for an odd last hash is paired with itself. A list that repeats a
transaction cannot execute, for its nonce is used up: so the two lists have the same
length and the same hashes, and hashes name transactions.

### Pool (`PoolLedgerProofs`, `PoolSharesProofs`)

`PoolInv` says of the ledger in memory, of the file and of every copy in a save alike
that it balances, has skipped nothing, has repeated at most one credit per crash, and has
credited no block beyond the one after its recorded height; then where the two tasks
stand, with what they read before an await; and, until the first crash, that what the
node has paid or will pay is recorded as paid, in flight or unheard. A save that overtakes another one is harmless because every copy
is good, not because the newest one is written last. `OneRecreditPerCrash`: after
`n` crashes the pool has repeated at most `n` credits in all. Whichever copy is read
back, only the block after its recorded height can be credited in it already, so the
new scan repeats one credit at most, however many heights it goes over again.

`SharesInv` charges each strike and each place in the window to something spent once:
a share that left `pending`, or a call that its miner gave up on. From it
`StrikesAreBounded` and `PlacesAreBounded`.

### Gossip (`GossipProofs`)

`GossipInv` says where the Hello of each end is - unwritten, in the stream, or read -
for any number of nodes and links; `HelloComesFirst` follows.

`FlowInv` is about both directions of each connection: whatever the writer knows the
reader knows, is about to be told, or depends on a block that was lost or overtaken;
and what is on its way is in an order in which parents come first. It gives
`TwoNodesShare`, under the hypothesis that the network has two nodes (with any number
of links between them, in either direction). With a third one the property does not
hold of the code: `run_peer` announces what its own node mines and passes nothing on.

`CatchInv` adds requests and answers; `ToldHeightsAreReached` follows, for any network.
It says that tips are heaviest (`TipsAreHeaviest`) and, for each direction
of a connection whose ends have no other one (`Direction`):

- a height was told only by a Hello that was read, and nothing precedes a Hello
  (`Speaks`); a block is announced once (`Once`);
- without a fork, a block is known by its height, and no height was told that the
  writer has not (`Informed`);
- blocks come in the order of their heights, and the last to come is the writer's tip
  (`InOrder`, `LastToAnnounce`, `LastToCome`): a receiver that lags loses the oldest
  announcements, never the newest;
- a reader below what it was told has the writer's tip on its way, or a request for the
  block above its own tip, or an answer that begins with that block, or is inside an
  answer that has moved its tip (`CatchesUp`).

At rest nothing is on its way, so the height is reached. The hard steps are
announcements that overtake an answer: the reader's tip moves after it has asked, the
answer no longer begins above the tip, and it is the announced tip itself, or the end of an
answer that brought progress, that keeps the reader going.

### Not proved

- `Settles` and `BlockIsRevealed`: liveness under fairness, beyond the prover.
- What the runs with a negative result are about: TLC shows that it fails.

Every other property of a run is stated by a theorem.

## 5. Not modelled, and why

- Hash functions and signatures: hashes are free constructors, and offered
  transactions are well signed.
- Read-only RPC methods, command line, wallet and explorer pages, miner display: no
  state of their own. Loading the genesis file and building its block: done once,
  before anything else.
- The miner's floating-point kernels: what they compute is the product `UsefulWork`
  defines; how they round is out of reach.
- Peers of another chain, blocks from the future, and bytes that decode to something
  else after a torn frame: a refusal or the end of the connection.
- Reorganisations of blocks the pool has already credited, and calls of the pool to
  its node that fail other than by a lost payout reply.
- A ban's effect on money: `pool.rs:17-18` and `docs/POOL.md:39-40` say that a banned
  miner forfeits its unpaid credit. The code does nothing of the kind - `pay_miners`
  pays it like any other - and `PoolLedger` has no strikes, so no property is about it.
- A block that fails half-way in `apply_block`: it runs on a copy that the callers drop
  on an error, which is one step of `Ledger`.

## 6. Plan

Modelled: all modules of section 2. Proved: section 4.

The safety properties of section 3 are proved; none is left. What would extend the
project, in this order:

1. The pool across reorganisations and bans (section 5): blocks that are credited and
   then abandoned, and credits of miners that were banned.
2. Transactions in the mempool whose sender can no longer pay (`mempool.rs:150`):
   `prune` keeps them, and no property says for how long.
3. `Chain` and `Ledger` in one model, with `Mempool` inside the chain's mutex: that
   any deterministic `apply_block` is replayed exactly is shown for the free ledger.
