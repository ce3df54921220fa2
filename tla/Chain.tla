------------------------------- MODULE Chain -------------------------------
(***************************************************************************)
(* Block store, fork choice and state replay of one node: chain.rs with    *)
(* the part of store.rs it writes to.  The node holds its chain behind one *)
(* mutex, so every handler is one atomic step.                             *)
(*                                                                         *)
(* Abstractions.                                                           *)
(*  - A hash commits to a block and, through prev_hash, to its whole       *)
(*    ancestry.  It is modelled by exactly what it commits to: the         *)
(*    sequence of headers from block 1 up to the block.  Genesis is <<>>,  *)
(*    the height of h is Len(h), its parent is h without its last element. *)
(*  - The ledger is the free one: a State is the sequence of the blocks    *)
(*    that were executed to reach it.  Every deterministic apply_block is  *)
(*    a function of that sequence, so two free states are equal only if    *)
(*    the real ones are, and State::root is the sequence itself.           *)
(*    Ledger.tla models the accounts.                                      *)
(*  - A block offered by a peer differs from its siblings in its timestamp,*)
(*    its solution and whether it opens its parent's commitment.  A block  *)
(*    that is a duplicate, an orphan or invalid leaves the chain as it is: *)
(*    those early returns are steps that change nothing.  The clock only   *)
(*    decides whether a block from the future is refused for now, which is *)
(*    again such a step.                                                   *)
(*  - The mempool is left out (Chain only prunes it).                      *)
(***************************************************************************)
EXTENDS Integers, Sequences, FiniteSets

CONSTANTS
  Solutions,            \* what a miner submits: nonce, salt, matmul_root
  Sound,                \* the solutions whose committed product is right
  Gaps,                 \* seconds a block's timestamp may lie after its parent's
  InitialDifficulty,    \* genesis: params.initial_difficulty
  MaxDifficulty,        \* u64::MAX
  RetargetInterval,     \* genesis: params.retarget_interval
  TargetBlockTime,      \* genesis: params.target_block_time_secs
  SnapshotInterval,     \* SNAPSHOT_INTERVAL
  SnapshotRetention,    \* SNAPSHOT_RETENTION
  MaxBlocks,            \* bound: blocks a node ever stores
  MaxHeight             \* bound: height of a block it stores

ASSUME ChainAssumption ==
  /\ Sound \subseteq Solutions
  /\ Gaps \subseteq Nat \ {0}
  /\ MaxDifficulty \in Nat \ {0} /\ InitialDifficulty \in 1 .. MaxDifficulty
  /\ RetargetInterval \in Nat \ {0}
  /\ TargetBlockTime \in Nat \ {0}
  /\ SnapshotInterval \in Nat \ {0}
  /\ SnapshotRetention \in Nat
  /\ MaxBlocks \in Nat
  /\ MaxHeight \in Nat

VARIABLES
  blocks,         \* store.blocks: the hashes of the stored blocks
  work,           \* store.work: hash -> cumulative work
  by_height,      \* store.by_height: height -> canonical hash
  stored_tip,     \* store.meta[TIP_KEY]
  states,         \* store.states: hash -> saved post-state
  state,          \* Chain.state
  tip_hash,       \* Chain.tip_hash (and Chain.tip: the hash is the block)
  tip_work,       \* Chain.tip_work
  reveal_buffer   \* Chain.reveal_buffer: commit_id -> the opened rows

store == <<blocks, work, by_height, stored_tip, states>>
vars == <<blocks, work, by_height, stored_tip, states,
          state, tip_hash, tip_work, reveal_buffer>>

-----------------------------------------------------------------------------
(* Blocks *)

BlockHeader == [timestamp: Nat, difficulty: 1 .. MaxDifficulty,
                solution: Solutions, reveal: BOOLEAN]
Hash == Seq(BlockHeader)
Genesis == <<>>

Height(h) == Len(h)
Ancestor(h, n) == SubSeq(h, 1, n)            \* the ancestor of h at height n
Parent(h) == Ancestor(h, Len(h) - 1)
Ancestors(h) == {Ancestor(h, n) : n \in 0 .. Height(h)}

Timestamp(h) == IF h = Genesis THEN 0 ELSE h[Len(h)].timestamp
Difficulty(h) == IF h = Genesis THEN InitialDifficulty ELSE h[Len(h)].difficulty

\* The identifier of the commitment that block h carries: its task seed binds
\* prev_hash, so it is shared by siblings with the same solution.
CommitId(h) == [prev |-> Parent(h), solution |-> h[Len(h)].solution]

Larger(a, b) == IF a > b THEN a ELSE b
Smaller(a, b) == IF a < b THEN a ELSE b

\* Mutant: the window starts one block too early.
expected_difficultyWideWindow(parent) ==
  LET height == Height(parent) + 1
      steps  == RetargetInterval - 1
      first  == Ancestor(parent, Larger(Height(parent) - RetargetInterval, 0))
      actual == Larger(Timestamp(parent) - Timestamp(first), 1)
      old    == Difficulty(parent)
      next   == (old * (steps * TargetBlockTime)) \div actual
  IN  IF height % RetargetInterval # 0 \/ height < RetargetInterval
      THEN old
      ELSE Smaller(Larger(Smaller(next, 4 * old), Larger(old \div 4, 1)),
                   MaxDifficulty)

\* The window is RetargetInterval blocks, its first one is at height
\* Height(parent) - steps; it always exists because Height(parent) >= steps.
expected_difficulty(parent) ==
  LET height == Height(parent) + 1
      steps  == RetargetInterval - 1
      first  == Ancestor(parent, Height(parent) - steps)
      actual == Larger(Timestamp(parent) - Timestamp(first), 1)
      old    == Difficulty(parent)
      next   == (old * (steps * TargetBlockTime)) \div actual
  IN  IF height % RetargetInterval # 0 \/ height < RetargetInterval
      THEN old
      ELSE Smaller(Larger(Smaller(next, 4 * old), Larger(old \div 4, 1)),
                   MaxDifficulty)

-----------------------------------------------------------------------------
(* The ledger *)

GenesisState == <<>>

\* What still owes a reveal: after any block but genesis, exactly the
\* commitment of that block (state.rs drops every older one).
Pending(st) == IF st = GenesisState THEN {} ELSE {CommitId(st)}

Execute(st, h) == Append(st, h[Len(h)])

\* verify_reveal: the opened commitment is pending, the rows are those that
\* prev_hash demands (so st must be the state of the parent), and they are
\* rows of the true product.
RevealVerifies(st, h) ==
  /\ Pending(st) # {}
  /\ st[Len(st)].solution \in Sound

validate_block(parent, st, h) ==
  /\ Parent(h) = parent
  /\ Timestamp(h) > Timestamp(parent)
  /\ Difficulty(h) = expected_difficulty(parent)
  /\ h[Len(h)].reveal => RevealVerifies(st, h)
  /\ Execute(st, h) = h                       \* state_root

\* The child of parent with the given contents.
Child(parent, gap, sol, opens) ==
  Append(parent, [timestamp  |-> Timestamp(parent) + gap,
                  difficulty |-> expected_difficulty(parent),
                  solution   |-> sol,
                  reveal     |-> opens])

-----------------------------------------------------------------------------
(* Store *)

put_block(h, w) ==
  /\ blocks' = blocks \cup {h}
  /\ work' = [x \in DOMAIN work \cup {h} |-> IF x = h THEN w ELSE work[x]]

\* put_state followed by prune_states; saturating_sub does not matter, no
\* height is below zero.
SavedSnapshot(h, st) ==
  LET put  == [x \in DOMAIN states \cup {h} |-> IF x = h THEN st ELSE states[x]]
      kept == {x \in DOMAIN put : Height(x) >= Height(h) - SnapshotRetention}
  IN  [x \in kept |-> put[x]]

\* The height of the nearest ancestor of h whose post-state was saved, -1 if
\* there is none down to genesis.
SnapshotHeights(h) == {n \in 0 .. Height(h) : Ancestor(h, n) \in DOMAIN states}
NearestSnapshot(h) ==
  IF SnapshotHeights(h) = {} THEN -1
  ELSE CHOOSE n \in SnapshotHeights(h) : \A m \in SnapshotHeights(h) : m <= n

\* Executing the blocks of h above height n, starting from st.
Replay(st, h, n) == st \o SubSeq(h, n + 1, Height(h))

\* Mutant: the suffix is replayed on the state in memory.
RebuiltStateFromMemory(h) == Replay(state, h, Larger(NearestSnapshot(h), 0))

\* The state reached by replaying h from the nearest snapshot.  Genesis is in
\* the replayed suffix when no snapshot is found, but executes nothing.
RebuiltState(h) ==
  LET n == NearestSnapshot(h)
  IN  IF n = -1 THEN Replay(GenesisState, h, 0)
      ELSE Replay(states[Ancestor(h, n)], h, n)

\* Mutant: truncate_canonical_above is forgotten.
RewrittenIndexUntruncated(h) ==
  LET replayed == NearestSnapshot(h) + 1 .. Height(h)
  IN  [k \in DOMAIN by_height \cup replayed |->
         IF k \in replayed THEN Ancestor(h, k) ELSE by_height[k]]

\* Only the replayed blocks are written to the index, then everything above
\* the new tip is removed.
RewrittenIndex(h) ==
  LET n == NearestSnapshot(h)
      replayed == n + 1 .. Height(h)
  IN  [k \in {j \in DOMAIN by_height : j <= Height(h)} \cup replayed |->
         IF k \in replayed THEN Ancestor(h, k) ELSE by_height[k]]

\* w is the cumulative work on record for h.
rebuild_state_to(h, w) ==
  /\ state' = RebuiltState(h)
  /\ by_height' = RewrittenIndex(h)
  /\ stored_tip' = h
  /\ tip_hash' = h
  /\ tip_work' = w
  /\ states' = SavedSnapshot(h, state')

-----------------------------------------------------------------------------
(* Handlers *)

\* Mutant: a change of tip leaves the buffer alone.
RetainAllReveals(buffer, st) == IF st \in Hash THEN buffer ELSE <<>>

\* The commitments that survive in the buffer next to the state st.
RetainReveals(buffer, st) ==
  [c \in DOMAIN buffer \cap Pending(st) |-> buffer[c]]

Extend(h) ==
  /\ validate_block(tip_hash, state, h)
  /\ put_block(h, tip_work + Difficulty(h))
  /\ by_height' = [k \in DOMAIN by_height \cup {Height(h)} |->
                     IF k = Height(h) THEN h ELSE by_height[k]]
  /\ stored_tip' = h
  /\ state' = Execute(state, h)
  /\ tip_hash' = h
  /\ tip_work' = tip_work + Difficulty(h)
  /\ states' = IF Height(h) % SnapshotInterval = 0
               THEN SavedSnapshot(h, state') ELSE states
  /\ reveal_buffer' = RetainReveals(reveal_buffer, state')

\* Mutant: a branch is weighed from the tip instead of its own parent.
CandidateWorkOnTip(h) == tip_work + Difficulty(h)

\* A block that does not extend the tip is validated on a state replayed from
\* genesis; it is adopted only if its branch is strictly heavier.
CandidateWork(h) == work[Parent(h)] + Difficulty(h)

OffTip(h) ==
  /\ Parent(h) # tip_hash
  /\ validate_block(Parent(h), Replay(GenesisState, Parent(h), 0), h)
  /\ put_block(h, CandidateWork(h))

\* Mutant: the tip is recorded before the branch is weighed.
StoreSideBranchAsTip(h) ==
  /\ OffTip(h)
  /\ CandidateWork(h) <= tip_work
  /\ stored_tip' = h
  /\ UNCHANGED <<by_height, states, state, tip_hash, tip_work, reveal_buffer>>

StoreSideBranch(h) ==
  /\ OffTip(h)
  /\ CandidateWork(h) <= tip_work
  /\ UNCHANGED <<by_height, stored_tip, states,
                 state, tip_hash, tip_work, reveal_buffer>>

\* Mutants: a tie moves the tip; the longer branch wins.
ReorganiseOnTie(h) ==
  /\ OffTip(h)
  /\ CandidateWork(h) >= tip_work
  /\ rebuild_state_to(h, CandidateWork(h))
  /\ reveal_buffer' = RetainReveals(reveal_buffer, state')
ReorganiseToLonger(h) ==
  /\ OffTip(h)
  /\ Height(h) > Height(tip_hash)
  /\ rebuild_state_to(h, CandidateWork(h))
  /\ reveal_buffer' = RetainReveals(reveal_buffer, state')

Reorganise(h) ==
  /\ OffTip(h)
  /\ CandidateWork(h) > tip_work
  /\ rebuild_state_to(h, CandidateWork(h))
  /\ reveal_buffer' = RetainReveals(reveal_buffer, state')

\* Duplicate and Orphan return before anything is written.
New(h) ==
  /\ h \notin blocks
  /\ Parent(h) \in blocks
  /\ Cardinality(blocks) < MaxBlocks
  /\ Height(h) <= MaxHeight

\* accept_block for a block that a peer sends: any block somebody could mine.
AcceptBlock ==
  \E parent \in blocks, gap \in Gaps, sol \in Solutions, opens \in BOOLEAN :
    LET h == Child(parent, gap, sol, opens)
    IN  New(h) /\ (Extend(h) \/ StoreSideBranch(h) \/ Reorganise(h))

\* build_block: a buffered reveal of a commitment that expires with this block
\* goes in; if it turns out not to verify, the block is built without it.
UsableReveal ==
  \E c \in Pending(state) \cap DOMAIN reveal_buffer :
    /\ reveal_buffer[c] = tip_hash
    /\ c.solution \in Sound

build_block(gap, sol) == Child(tip_hash, gap, sol, UsableReveal)

submit_solution ==
  \E gap \in Gaps, sol \in Solutions :
    LET h == build_block(gap, sol)
    IN  New(h) /\ Extend(h)

\* A reveal is stored with the challenge it answers, the hash of the tip it was
\* checked against.  Only its Merkle proofs are checked here, not the product.
submit_reveal ==
  \E c \in Pending(state) :
    /\ reveal_buffer' = [x \in DOMAIN reveal_buffer \cup {c} |->
                           IF x = c THEN tip_hash ELSE reveal_buffer[x]]
    /\ UNCHANGED <<blocks, work, by_height, stored_tip, states,
                   state, tip_hash, tip_work>>

\* Mutant: the newest saved state on the tip's branch is taken for the tip.
ReopenAtSnapshot ==
  LET h == Ancestor(stored_tip, Larger(NearestSnapshot(stored_tip), 0))
  IN  /\ rebuild_state_to(h, work[h])
      /\ reveal_buffer' = <<>>
      /\ UNCHANGED <<blocks, work>>

\* Chain::open on an existing store, after the process was stopped between two
\* handlers.
Reopen ==
  /\ rebuild_state_to(stored_tip, work[stored_tip])
  /\ reveal_buffer' = <<>>
  /\ UNCHANGED <<blocks, work>>

\* Chain::open on an empty directory: genesis is stored with no work, then
\* rebuild_state_to saves its state.
Init ==
  /\ blocks = {Genesis}
  /\ work = [h \in {Genesis} |-> 0]
  /\ by_height = [k \in {0} |-> Genesis]
  /\ stored_tip = Genesis
  /\ states = [h \in {Genesis} |-> GenesisState]
  /\ state = GenesisState
  /\ tip_hash = Genesis
  /\ tip_work = 0
  /\ reveal_buffer = <<>>

Next == AcceptBlock \/ submit_solution \/ submit_reveal \/ Reopen

Spec == Init /\ [][Next]_vars

-----------------------------------------------------------------------------
(* Properties *)

\* Type invariant: the store maps hashes and heights to what chain.rs reads
\* back from it.
TypeOK ==
  /\ blocks \subseteq Hash
  /\ work \in [blocks -> Nat]
  /\ DOMAIN by_height \subseteq Nat
  /\ \A k \in DOMAIN by_height : by_height[k] \in blocks
  /\ stored_tip \in blocks
  /\ DOMAIN states \subseteq blocks
  /\ \A h \in DOMAIN states : states[h] \in Hash
  /\ state \in Hash
  /\ tip_hash \in blocks
  /\ tip_work \in Nat
  /\ DOMAIN reveal_buffer \subseteq [prev: Hash, solution: Solutions]
  /\ \A c \in DOMAIN reveal_buffer : reveal_buffer[c] \in Hash

\* Fork choice (accept_block): no block that was ever stored is heavier than
\* the tip, whatever the order in which the blocks arrived.
TipIsHeaviest == \A h \in blocks : work[h] <= work[tip_hash]

\* The in-memory ledger is the execution of the tip's ancestry, however it was
\* reached: block by block, from a snapshot after a reorganisation, or from a
\* snapshot after a restart (rebuild_state_to, save_snapshot).
StateIsReplay == state = tip_hash

\* What the store holds is consistent: the ancestry of a stored block is stored
\* (so neither branch_to nor rebuild_state_to meets a missing block), work adds
\* up along every branch, and a snapshot is the post-state of its block.
ClosedUnderAncestors == \A h \in blocks : Ancestors(h) \subseteq blocks
WorkAccumulates ==
  /\ work[Genesis] = 0
  /\ \A h \in blocks \ {Genesis} :
       /\ Difficulty(h) = expected_difficulty(Parent(h))
       /\ work[h] = work[Parent(h)] + Difficulty(h)
SnapshotsAreReplays == \A h \in DOMAIN states : states[h] = h
MemoryMatchesStore == tip_hash = stored_tip /\ tip_work = work[stored_tip]

StoreIsSound ==
  /\ Genesis \in blocks
  /\ ClosedUnderAncestors
  /\ WorkAccumulates
  /\ SnapshotsAreReplays
  /\ MemoryMatchesStore

\* Difficulty follows the pace of the blocks (docs/PROTOCOL.md:188-204): a stored
\* block at a retarget height is no harder than its parent if none of the
\* RetargetInterval blocks before it came early after the one before, no easier if
\* none came late - whatever came before that window - and at other heights
\* difficulty stays.  (An interval of one block leaves nothing to measure.)
Gap(h, k) == Timestamp(Ancestor(h, k)) - Timestamp(Ancestor(h, k - 1))
WindowGaps(h) == {Gap(h, k) : k \in Height(h) - RetargetInterval + 1 .. Height(h) - 1}
RetargetFollowsPace ==
  \A h \in blocks \ {Genesis} :
    LET old == Difficulty(Parent(h)) IN
    IF Height(h) % RetargetInterval # 0 THEN Difficulty(h) = old
    ELSE RetargetInterval > 1 =>
           /\ (\A gap \in WindowGaps(h) : gap >= TargetBlockTime) => Difficulty(h) <= old
           /\ (\A gap \in WindowGaps(h) : gap <= TargetBlockTime) => Difficulty(h) >= old

\* A buffered reveal answers the challenge of the current tip and belongs to a
\* commitment that is still pending: a reorganisation, a sibling with the same
\* commitment or a restart never leaves a stale one behind.
RevealsAreFresh ==
  \A c \in DOMAIN reveal_buffer :
    c \in Pending(state) /\ reveal_buffer[c] = tip_hash

\* The height index ends exactly at the tip (cog_getBlock and the sync
\* protocol read it by height).
IndexEndsAtTip ==
  /\ Height(tip_hash) \in DOMAIN by_height
  /\ by_height[Height(tip_hash)] = tip_hash
  /\ \A k \in DOMAIN by_height : k <= Height(tip_hash)

\* chain.rs:231: "The canonical index is rewritten only for what was replayed;
\* anything above the new tip belonged to a branch we just left" - so that
\* what remains below the replayed blocks is the tip's own branch, height by
\* height (block_at_height, cog_getBlock, p2p GetBlocks and the pool read it).
IndexIsTipBranch ==
  by_height = [k \in 0 .. Height(tip_hash) |-> Ancestor(tip_hash, k)]

\* Fork choice as a whole: the store and the tip behave as ForkChoice says,
\* whichever of the three paths of accept_block a block takes. In particular a
\* tie never moves the tip, and reopening the store never does.
Abstract == INSTANCE ForkChoice WITH
  Block <- {h \in Hash : h # Genesis}, Root <- Genesis,
  ParentOf <- Parent, DifficultyOf <- Difficulty,
  known <- blocks, weight <- work, tip <- tip_hash

ImplementsForkChoice == Abstract!Spec

\* Stopping and reopening the node restores tip, work and state.
ReopenRestores ==
  [][Reopen => UNCHANGED <<state, tip_hash, tip_work, by_height>>]_vars
=============================================================================
