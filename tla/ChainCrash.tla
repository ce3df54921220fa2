----------------------------- MODULE ChainCrash -----------------------------
(***************************************************************************)
(* Chain with a process that may die inside a handler.  accept_block and   *)
(* Chain::open write to the store one record at a time, and no transaction *)
(* groups the writes: a crash leaves a prefix of them.                     *)
(*                                                                         *)
(* The store is sled (external): one log for all trees, so what survives   *)
(* of the writes is always a prefix in program order, the explicit flushes *)
(* included.  A crash that also loses the tail of an earlier handler is    *)
(* the same as a crash in that handler.                                    *)
(*                                                                         *)
(* The reveal buffer lives in memory only: submit_reveal is left to Chain. *)
(* A block mined here goes through accept_block like any other.            *)
(***************************************************************************)
EXTENDS Chain, SequencesExt

VARIABLES
  running,      \* FALSE from a crash until Chain::open has finished
  torn          \* history: blocks whose acceptance a crash cut short

crashVars == <<vars, running, torn>>

-----------------------------------------------------------------------------
(* Single writes *)

Database ==
  [blocks |-> [h \in blocks |-> h], work |-> work, by_height |-> by_height,
   meta |-> [k \in {"tip"} |-> stored_tip], states |-> states]

Write(table, key, value) ==
  [table |-> table, key |-> key, value |-> value, removes |-> FALSE]
Delete(table, key) ==
  [table |-> table, key |-> key, value |-> Genesis, removes |-> TRUE]

Written(db, w) ==
  LET t == db[w.table]
  IN  [db EXCEPT ![w.table] =
         IF w.removes THEN [k \in DOMAIN t \ {w.key} |-> t[k]]
         ELSE [k \in DOMAIN t \cup {w.key} |-> IF k = w.key THEN w.value ELSE t[k]]]

\* The store after the first n of the writes.
Cut(writes, n) ==
  LET db == FoldLeft(Written, Database, SubSeq(writes, 1, n))
  IN  /\ blocks' = DOMAIN db.blocks
      /\ work' = db.work
      /\ by_height' = db.by_height
      /\ stored_tip' = db.meta["tip"]
      /\ states' = db.states

-----------------------------------------------------------------------------
(* The writes of the handlers, in program order *)

\* Mutant: the state saved is the one before the block.
SnapshotWritesEarly(h, st) ==
  <<Write("states", h, SubSeq(st, 1, Len(st) - 1))>>

\* put_state, then prune_states removes what is too old, in the order of the
\* (unpredictable) hashes: some order.
SnapshotWrites(h, st) ==
  LET stale == {x \in DOMAIN states : Height(x) < Height(h) - SnapshotRetention}
  IN  <<Write("states", h, st)>>
        \o SetToSeq({Delete("states", x) : x \in stale})

BlockWrites(h, w) == <<Write("blocks", h, h), Write("work", h, w)>>

\* Mutant: the tip is recorded before the block it names.
ExtendWritesTipFirst(h) ==
  <<Write("meta", "tip", h)>> \o BlockWrites(h, tip_work + Difficulty(h))
    \o <<Write("by_height", Height(h), h)>>

ExtendWrites(h) ==
  BlockWrites(h, tip_work + Difficulty(h))
    \o <<Write("by_height", Height(h), h), Write("meta", "tip", h)>>
    \o (IF Height(h) % SnapshotInterval = 0
        THEN SnapshotWrites(h, Execute(state, h)) ELSE <<>>)

RebuildWrites(h) ==
  LET n     == NearestSnapshot(h)
      above == {k \in DOMAIN by_height : k > Height(h)}
  IN  [i \in 1 .. Height(h) - n |-> Write("by_height", n + i, Ancestor(h, n + i))]
        \o SetToSeq({Delete("by_height", k) : k \in above})
        \o <<Write("meta", "tip", h)>>
        \o SnapshotWrites(h, RebuiltState(h))

AcceptWrites(h) ==
  IF Parent(h) = tip_hash THEN ExtendWrites(h)
  ELSE BlockWrites(h, CandidateWork(h))
         \o (IF CandidateWork(h) > tip_work THEN RebuildWrites(h) ELSE <<>>)

-----------------------------------------------------------------------------
(* Handlers and crashes *)

\* "parent block has no recorded work": such a block is refused with an error.
Weighable(h) == Parent(h) = tip_hash \/ Parent(h) \in DOMAIN work

Offered(h) ==
  /\ running
  /\ New(h)
  /\ Weighable(h)
  /\ \/ validate_block(tip_hash, state, h)
     \/ validate_block(Parent(h), Replay(GenesisState, Parent(h), 0), h)

AnyChild(P(_)) ==
  \E parent \in blocks, gap \in Gaps, sol \in Solutions, opens \in BOOLEAN :
    P(Child(parent, gap, sol, opens))

Accept(h) ==
  /\ Offered(h)
  /\ Extend(h) \/ StoreSideBranch(h) \/ Reorganise(h)
  /\ UNCHANGED <<running, torn>>

\* What Chain::open starts from before it has read the store.
MemoryLost ==
  /\ state' = GenesisState
  /\ tip_hash' = Genesis
  /\ tip_work' = 0
  /\ reveal_buffer' = <<>>

CrashInAccept(h) ==
  /\ Offered(h)
  /\ \E n \in 1 .. Len(AcceptWrites(h)) : Cut(AcceptWrites(h), n)
  /\ MemoryLost
  /\ running' = FALSE
  /\ torn' = torn \cup {h}

CrashAtRest ==
  /\ running
  /\ MemoryLost
  /\ running' = FALSE
  /\ UNCHANGED <<store, torn>>

\* Mutants: the work of the tip is not read back; the node resumes at the newest
\* saved state and forgets the rest.
OpenUnweighed ==
  /\ ~running
  /\ rebuild_state_to(stored_tip, 0)
  /\ reveal_buffer' = <<>>
  /\ running' = TRUE
  /\ UNCHANGED <<blocks, work, torn>>
OpenAtSnapshot ==
  /\ ~running
  /\ LET h == Ancestor(stored_tip, NearestSnapshot(stored_tip))
     IN  rebuild_state_to(h, work[h])
  /\ reveal_buffer' = <<>>
  /\ running' = TRUE
  /\ UNCHANGED <<blocks, work, torn>>

\* cumulative_work(hash).unwrap_or(0)
Open ==
  /\ ~running
  /\ rebuild_state_to(stored_tip,
       IF stored_tip \in DOMAIN work THEN work[stored_tip] ELSE 0)
  /\ reveal_buffer' = <<>>
  /\ running' = TRUE
  /\ UNCHANGED <<blocks, work, torn>>

CrashInOpen ==
  /\ ~running
  /\ \E n \in 1 .. Len(RebuildWrites(stored_tip)) :
       Cut(RebuildWrites(stored_tip), n)
  /\ UNCHANGED <<state, tip_hash, tip_work, reveal_buffer, running, torn>>

CrashInit == Init /\ running = TRUE /\ torn = {}

CrashNext ==
  \/ AnyChild(Accept)
  \/ AnyChild(CrashInAccept)
  \/ CrashAtRest
  \/ Open
  \/ CrashInOpen

CrashSpec == CrashInit /\ [][CrashNext]_crashVars

-----------------------------------------------------------------------------
(* Properties *)

\* Whatever write a crash fell on, the ledger a reopened node works with is the
\* execution of its tip's ancestry (rebuild_state_to on a torn store).
RecoveredStateIsReplay == running => StateIsReplay

\* A torn store never misleads rebuild_state_to or branch_to: ancestors are
\* there, the work on record adds up, the tip was stored and weighed before it
\* was named, and a snapshot is the post-state of its block.
TornStoreIsSound ==
  /\ ClosedUnderAncestors
  /\ DOMAIN work \subseteq blocks
  /\ \A h \in DOMAIN work \ {Genesis} :
       /\ Parent(h) \in DOMAIN work
       /\ work[h] = work[Parent(h)] + Difficulty(h)
  /\ stored_tip \in DOMAIN work
  /\ DOMAIN states \subseteq blocks
  /\ SnapshotsAreReplays
  /\ running => MemoryMatchesStore

\* No crash and no recovery makes the recorded tip lighter than it was.
TipNeverRetreats == [][work'[stored_tip'] >= work[stored_tip]]_crashVars

\* Fork choice survives crashes but for one gap: a block is stored before it is
\* recorded as the tip, Chain::open looks at no other block than the recorded
\* tip, and the block itself is then a Duplicate.  So a stored block may outweigh
\* the tip only if a crash cut short its own acceptance; none that was accepted
\* before, after or between crashes does, and no child of such a block is lost.
BranchWork(h) == FoldLeft(LAMBDA sum, b : sum + b.difficulty, 0, h)
OnlyTornBlocksOutweigh ==
  running =>
    \A h \in blocks : BranchWork(h) > BranchWork(tip_hash) => h \in torn
=============================================================================
