----------------------------- MODULE UsefulWork -----------------------------
(***************************************************************************)
(* The useful work itself: the product of two matrices that a task seed    *)
(* names, the Merkle tree over its rows, and the rows that a challenge     *)
(* opens (pouw.rs, verify_reveal in state.rs; the miner's side in          *)
(* cog_miner/protocol.py and cli.py).                                      *)
(*                                                                         *)
(* Hashes are free constructors: a hash is the tuple of what was hashed,   *)
(* with its tag, so equal hashes have equal inputs.  The output of the     *)
(* extendable hash is any stream: Xof names one for each seed and domain,  *)
(* and a challenge is any choice of rows, repetitions included.            *)
(***************************************************************************)
EXTENDS Integers, Sequences, Functions

CONSTANTS
  N_LOG2,           \* depth of the row tree; 10 in the code
  P,                \* field prime: 65521
  CHALLENGE_ROWS,   \* rows opened: 32
  Xof(_, _, _)      \* the i-th 16-bit number of the stream of (seed, domain)

N == 2^N_LOG2
Row == 0 .. N - 1

ASSUME UsefulWorkAssumption ==
  /\ N_LOG2 \in Nat /\ P \in Nat \ {0} /\ CHALLENGE_ROWS \in Nat

-----------------------------------------------------------------------------
(* The task *)

gen_matrix(seed, domain) ==
  [i \in Row |-> [j \in Row |-> Xof(seed, domain, i * N + j) % P]]

matmul_row(a_row, b) ==
  [j \in Row |-> SumFunction([k \in Row |-> a_row[k] * b[k][j]]) % P]

-----------------------------------------------------------------------------
(* The tree over the rows *)

leaf_hash(index, values) == <<"leaf", index, values>>
node_hash(left, right) == <<"node", left, right>>

build_leaves(c) == [i \in Row |-> leaf_hash(i, c[i])]

\* All levels, from the leaves (0) to the root (N_LOG2).
merkle_levels(leaves) ==
  LET level[k \in 0 .. N_LOG2] ==
        IF k = 0 THEN leaves
        ELSE [i \in 0 .. 2^(N_LOG2 - k) - 1 |->
                node_hash(level[k - 1][2 * i], level[k - 1][2 * i + 1])]
  IN  level

merkle_root(leaves) == merkle_levels(leaves)[N_LOG2][0]

IsLeft(index, k) == (index \div 2^(k - 1)) % 2 = 0

\* Mutant: the sibling is taken to be on the right.
merkle_proofRight(leaves, index) ==
  [k \in 1 .. N_LOG2 |->
     merkle_levels(leaves)[k - 1][((index \div 2^(k - 1)) + 1) % 2^(N_LOG2 - k + 1)]]

\* The siblings on the way from leaf index to the root.
merkle_proof(leaves, index) ==
  [k \in 1 .. N_LOG2 |->
     LET idx == index \div 2^(k - 1)
     IN  merkle_levels(leaves)[k - 1][IF IsLeft(index, k) THEN idx + 1 ELSE idx - 1]]

merkle_verify(root, index, leaf, proof) ==
  LET cur[k \in 0 .. N_LOG2] ==
        IF k = 0 THEN leaf
        ELSE IF IsLeft(index, k) THEN node_hash(cur[k - 1], proof[k])
        ELSE node_hash(proof[k], cur[k - 1])
  IN  Len(proof) = N_LOG2 /\ index \in Row /\ cur[N_LOG2] = root

-----------------------------------------------------------------------------
(* Challenge and reveal *)

challenge_rows == [1 .. CHALLENGE_ROWS -> Row]

\* The miner's answer: the rows of the matrix it kept, each with its path.
answer_reveals(c, challenge) ==
  [slot \in 1 .. Len(challenge) |->
     [index  |-> challenge[slot],
      values |-> c[challenge[slot]],
      proof  |-> merkle_proof(build_leaves(c), challenge[slot])]]

\* Mutants of the check of one row: any row will do; the row need not be the
\* committed one.
verify_rowAnyIndex(seed, root, want_index, opened) ==
  /\ merkle_verify(root, opened.index, leaf_hash(opened.index, opened.values), opened.proof)
  /\ opened.values = matmul_row(gen_matrix(seed, "matA")[opened.index],
                                gen_matrix(seed, "matB"))

verify_rowUncommitted(seed, root, want_index, opened) ==
  /\ opened.index = want_index
  /\ opened.values = matmul_row(gen_matrix(seed, "matA")[opened.index],
                                gen_matrix(seed, "matB"))

\* One row of verify_reveal: the challenged one, in the tree, and right.
verify_row(seed, root, want_index, opened) ==
  /\ opened.index = want_index
  /\ merkle_verify(root, opened.index, leaf_hash(opened.index, opened.values), opened.proof)
  /\ opened.values = matmul_row(gen_matrix(seed, "matA")[opened.index],
                                gen_matrix(seed, "matB"))

verify_rows(seed, root, expected_rows, rows) ==
  /\ Len(rows) = Len(expected_rows)
  /\ \A slot \in DOMAIN rows : verify_row(seed, root, expected_rows[slot], rows[slot])
=============================================================================
