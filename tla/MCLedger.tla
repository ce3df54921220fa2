------------------------------ MODULE MCLedger ------------------------------
(***************************************************************************)
(* An instance of Ledger for TLC: two accounts, one of which starts with   *)
(* nothing; a reward that halves with every settled task, so that an error *)
(* of one task shows in the amount minted; a cap that the schedule reaches *)
(* exactly.  A matrix is right, or wrong in its second row.                *)
(***************************************************************************)
EXTENDS LedgerWork

CONSTANTS alice, bob

MCPremine == [a \in Address |-> IF a = alice THEN 4 ELSE 0]
MCInitialReward == 4
MCHalvingInterval == 1
MCSupplyCap == 4 + (4 + 2 + 1)

MCRoots == {{}, {1}}
MCSoundRoots == {{}}

\* Streams that differ for all seeds and domains, with zeros and with numbers
\* that the reduction changes.
MCXof(seed, domain, i) == (IF domain = "matA" THEN i * i + seed ELSE i * (seed + 1)) % 8
=============================================================================
