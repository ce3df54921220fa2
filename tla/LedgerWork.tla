----------------------------- MODULE LedgerWork -----------------------------
(***************************************************************************)
(* The ledger together with the work it settles and with the text its      *)
(* amounts travel as.                                                      *)
(*                                                                         *)
(* Ledger knows a committed matrix by a name and calls it sound or not.    *)
(* Here the name is the set of rows the miner got wrong, and UsefulWork    *)
(* says what opening such a matrix comes to.                               *)
(***************************************************************************)
EXTENDS Ledger, UsefulWork, Amount

-----------------------------------------------------------------------------
(* Work and its opening.  A task seed stands for the height it was taken at: *)
(* on one branch that fixes the parent the seed binds.                       *)

Seeds == 1 .. MaxHeight

\* A wrong value is one more than the right one, in a field of more than one
\* element.
ASSUME WorkAssumption ==
  /\ P > 1
  /\ \A wrong \in Roots : wrong \subseteq Row
  /\ \A seed \in Seeds, domain \in {"matA", "matB"}, i, j \in Row :
       Xof(seed, domain, i * N + j) \in Nat

\* Every amount of the ledger is a u64.
ASSUME WireAssumption == SupplyCap < 2^WIDTH

Product(seed) ==
  [i \in Row |-> matmul_row(gen_matrix(seed, "matA")[i], gen_matrix(seed, "matB"))]

\* What the miner computed and committed to: every row of wrong is off.
Computed == [seed \in Seeds |-> [wrong \in Roots |->
  [i \in Row |-> [j \in Row |->
     IF i \in wrong THEN (Product(seed)[i][j] + 1) % P ELSE Product(seed)[i][j]]]]]

RootOf(seed, wrong) == merkle_root(build_leaves(Computed[seed][wrong]))

\* The challenges that the miner's own answer passes.
Passed == [seed \in Seeds |-> [wrong \in Roots |->
  {challenge \in challenge_rows :
     verify_rows(seed, RootOf(seed, wrong), challenge,
                 answer_reveals(Computed[seed][wrong], challenge))}]]

\* Other answers to a challenge for one row: any row and any path of this or
\* of another computation, under any index, the path whole or cut short.
Openings(seed) ==
  LET tables == {Computed[s][wrong] : s \in {1, seed}, wrong \in Roots}
      proofs == {merkle_proof(build_leaves(c), i) : c \in tables, i \in Row}
  IN  [index: Row, values: {c[i] : c \in tables, i \in Row},
       proof: proofs \cup {SubSeq(proof, 1, N_LOG2 - 1) : proof \in proofs}]

\* The openings among these that pass when row want is challenged.
Opened == [seed \in Seeds |-> [wrong \in Roots |-> [want \in Row |->
  {o \in Openings(seed) : verify_row(seed, RootOf(seed, wrong), want, o)}]]]

\* Which rows of its matrix a miner got wrong is all that decides whether its
\* commitment can be settled: every challenge that spares them passes, one that
\* meets them never does.  So a correct miner is always paid (pouw.rs:30-36), and
\* calling a root of Ledger sound means that its challenge met no wrong row.
WrongRowsDecide ==
  \A id \in DOMAIN pending :
    Passed[id.height][id.root] =
      {challenge \in challenge_rows :
         \A slot \in DOMAIN challenge : challenge[slot] \notin id.root}

\* Nothing but the row that was committed, under its own index, opens a
\* challenged row: what was wrong when it was committed cannot be put right, or
\* replaced by another row or another task's, once the challenge is known.
OnlyCommittedRowsOpen ==
  \A id \in DOMAIN pending : \A want \in Row :
    \A o \in Opened[id.height][id.root][want] :
      /\ want \notin id.root
      /\ o = answer_reveals(Computed[id.height][id.root], <<want>>)[1]

-----------------------------------------------------------------------------
(* Amounts on the wire *)

\* The texts of an amount: as format_cog writes it, and with some of the zeros
\* at its end left away.
Texts(amount) ==
  LET text == format_cog(amount)
  IN  {[text EXCEPT !.frac = SubSeq(@, 1, n)] :
         n \in {k \in 0 .. Len(text.frac) :
                  \A i \in k + 1 .. Len(text.frac) : text.frac[i] = 0}}

\* What a client reads is what the ledger holds: the pool credits the reward that
\* it parses from cog_getSupply (pool.rs:812-817), wallets pay from the balances
\* they parse.  Below one coin every zero behind the point counts.
WireKeepsAmounts ==
  \A x \in {minted, SupplyCap - minted, block_reward(tasks_completed)}
            \cup {accounts[a].balance : a \in Address} :
    \A text \in Texts(x) : parse_cog(text) = x
=============================================================================
