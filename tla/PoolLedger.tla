----------------------------- MODULE PoolLedger -----------------------------
(***************************************************************************)
(* The money of the mining pool: pool.rs, account_rewards and pay_miners,  *)
(* two tasks that run side by side on one ledger behind a mutex.           *)
(*                                                                         *)
(* Between two awaits a task runs one critical section.  save runs later,  *)
(* without the lock, on the copy of the ledger taken under it: saves may   *)
(* overtake each other.  Here a save replaces the file in one step;        *)
(* LedgerFile.tla takes that step apart.                                   *)
(*                                                                         *)
(* External part: the node, a chain that grows and a mempool that admits   *)
(* transactions by nonce, as mempool.rs does.                              *)
(*                                                                         *)
(* Abstractions.                                                           *)
(*  - The PPLNS window is any of Windows, the weight of each miner in it.  *)
(*  - The chain only grows; every block it holds is canonical for good.    *)
(*    How much of it the node has when the pool asks for the reward, and   *)
(*    how much follow_node has seen (PoolState.height), are any heights up *)
(*    to MaxHeight; blocks above carry payouts but are not the pool's.     *)
(*  - The pool's own balance is enough; a payout the node refuses for      *)
(*    whatever reason is one action.                                       *)
(*  - Amounts stay far below 2^64.                                         *)
(***************************************************************************)
EXTENDS Integers, Sequences, FiniteSets, Functions, SequencesExt

CONSTANTS
  Miner,
  Windows,          \* weights of the miners in the share window: Miner -> Nat
  FeePercent,       \* config.fee_percent
  MinPayout,        \* config.min_payout
  PayoutFee,        \* config.payout_fee
  MAX_PAYOUTS_PER_ROUND,
  SAVE_EVERY,       \* heights between two saves of a long scan: 200
  RewardAt,         \* the reward of the block at each height
  FeesAt,           \* the transaction fees of the block at each height
  Settled,          \* heights of the pool's blocks whose commitment was opened
  NoFile,           \* there is no ledger file yet
  NoCopy,           \* a task is not saving
  MaxHeight,        \* bound: height up to which the pool scans the chain
  MaxCrashes,       \* bound: crashes of the pool
  MaxLostReplies    \* bound: replies of the node that never arrive

ASSUME PoolLedgerAssumption ==
  /\ IsFiniteSet(Miner)
  /\ Windows \subseteq [Miner -> Nat]
  /\ FeePercent \in 0 .. 100
  /\ {MinPayout, PayoutFee, MaxHeight, MaxCrashes, MaxLostReplies} \subseteq Nat
  /\ {MAX_PAYOUTS_PER_ROUND, SAVE_EVERY} \subseteq Nat \ {0}
  /\ RewardAt \in [1 .. MaxHeight + 1 -> Nat]
  /\ FeesAt \in [1 .. MaxHeight -> Nat]
  /\ Settled \subseteq 1 .. MaxHeight - 1

VARIABLES
  ledger,       \* PoolState.ledger
  scan,         \* locals of account_rewards
  pay,          \* locals of pay_miners
  task,         \* where each task is, and its call of save
  disk,         \* the ledger file
  nonce,        \* external: the pool account's nonce on the chain
  mempool,      \* external: payouts the node admitted and has not mined
  received,     \* external: what each miner was paid on the chain
  crashes, lost_replies,
  unheard       \* history: what each miner was paid by payouts whose reply was lost

node == <<nonce, mempool, received>>
faults == <<crashes, lost_replies, unheard>>
vars == <<ledger, scan, pay, task, disk, nonce, mempool, received,
          crashes, lost_replies, unheard>>

Total(f) == SumFunction(f)
Zero == [m \in Miner |-> 0]

\* Ledger; payments, gross and times are history: how many payouts were
\* recorded, what each block was credited with and how often.
EmptyLedger ==
  [credits |-> Zero, paid |-> Zero, last_scanned_height |-> 0, fees_earned |-> 0,
   payments |-> 0, gross |-> [h \in 1 .. MaxHeight |-> 0],
   times |-> [h \in 1 .. MaxHeight |-> 0]]

Task == {"account_rewards", "pay_miners"}

-----------------------------------------------------------------------------
(* save *)

At(t, where) == task[t].at = where
Goto(t, where) == task' = [task EXCEPT ![t].at = where]

\* The copy is taken under the lock; where is what follows the save.
BeginSave(t, copy, where) ==
  task' = [task EXCEPT ![t] = [at |-> "save", copy |-> copy, then |-> where]]

save(t) ==
  /\ At(t, "save")
  /\ disk' = task[t].copy
  /\ task' = [task EXCEPT ![t] = [at |-> @.then, copy |-> NoCopy, then |-> "idle"]]
  /\ UNCHANGED <<ledger, scan, pay, node, faults>>

-----------------------------------------------------------------------------
(* account_rewards *)

\* Mutant: the remainder of the division is dropped.
credit_blockNoRemainder(led, amount, h, w) ==
  LET fee == (amount * FeePercent) \div 100
      cut == [m \in Miner |-> ((amount - fee) * w[m]) \div Total(w)]
  IN  IF Total(w) = 0 \/ amount = fee
      THEN [led EXCEPT !.fees_earned = @ + amount,
                       !.gross[h] = @ + amount, !.times[h] = @ + 1]
      ELSE [led EXCEPT !.credits = [m \in Miner |-> @[m] + cut[m]],
                       !.fees_earned = @ + fee,
                       !.gross[h] = @ + amount, !.times[h] = @ + 1]

credit_block(led, amount, h, w) ==
  LET fee == (amount * FeePercent) \div 100
      net == amount - fee
      cut == [m \in Miner |-> (net * w[m]) \div Total(w)]
  IN  IF Total(w) = 0 \/ net = 0
      THEN [led EXCEPT !.fees_earned = @ + amount,
                       !.gross[h] = @ + amount, !.times[h] = @ + 1]
      ELSE [led EXCEPT !.credits = [m \in Miner |-> @[m] + cut[m]],
                       !.fees_earned = @ + fee + (net - Total(cut)),
                       !.gross[h] = @ + amount, !.times[h] = @ + 1]

\* cog_getSupply tells the reward of the next block; the range to scan ends at
\* the height the pool knows.
StartScan ==
  /\ At("account_rewards", "idle")
  /\ \E node_tip, tip \in 0 .. MaxHeight :
       scan' = [reward |-> RewardAt[node_tip + 1],
                height |-> ledger.last_scanned_height + 1, tip |-> tip]
  /\ Goto("account_rewards", "block")
  /\ UNCHANGED <<ledger, pay, disk, node, faults>>

CreditBlock ==
  /\ At("account_rewards", "block")
  /\ scan.height < scan.tip
  /\ IF scan.height \in Settled
     THEN \E w \in Windows :
            /\ ledger' = credit_block(ledger, scan.reward + FeesAt[scan.height],
                                      scan.height, w)
            /\ BeginSave("account_rewards", ledger', "advance")
     ELSE Goto("account_rewards", "advance") /\ UNCHANGED ledger
  /\ UNCHANGED <<scan, pay, disk, node, faults>>

\* Mutant: the block looked at next is marked as scanned as well.
AdvanceScanTwo ==
  /\ At("account_rewards", "advance")
  /\ ledger' = [ledger EXCEPT !.last_scanned_height = scan.height + 1]
  /\ scan' = [scan EXCEPT !.height = @ + 1]
  /\ Goto("account_rewards", "block")
  /\ UNCHANGED <<pay, disk, node, faults>>

\* Mutant: what was scanned is not recorded.
AdvanceScanUnrecorded ==
  /\ At("account_rewards", "advance")
  /\ scan' = [scan EXCEPT !.height = @ + 1]
  /\ Goto("account_rewards", "block")
  /\ UNCHANGED <<ledger, pay, disk, node, faults>>

AdvanceScan ==
  /\ At("account_rewards", "advance")
  /\ ledger' = [ledger EXCEPT !.last_scanned_height = scan.height]
  /\ scan' = [scan EXCEPT !.height = @ + 1]
  /\ IF scan'.height % SAVE_EVERY = 0
     THEN BeginSave("account_rewards", ledger', "block")
     ELSE Goto("account_rewards", "block")
  /\ UNCHANGED <<pay, disk, node, faults>>

\* The tip is reached, or a block could not be fetched.
FinishScan ==
  /\ At("account_rewards", "block")
  /\ BeginSave("account_rewards", ledger, "idle")
  /\ scan' = [reward |-> 0, height |-> 0, tip |-> 0]
  /\ UNCHANGED <<ledger, pay, disk, node, faults>>

-----------------------------------------------------------------------------
(* pay_miners *)

NotPaying == [due |-> <<>>, nonce |-> 0]

\* The miners above the minimum with their credit, in the order of the map,
\* as many as one round pays.
DueNow ==
  LET due == SetToSeq({m \in Miner : ledger.credits[m] >= MinPayout})
      n   == IF Len(due) <= MAX_PAYOUTS_PER_ROUND THEN Len(due)
             ELSE MAX_PAYOUTS_PER_ROUND
  IN  [i \in 1 .. n |-> [to |-> due[i], credit |-> ledger.credits[due[i]]]]

BeginRound ==
  /\ At("pay_miners", "idle")
  /\ DueNow # <<>>
  /\ pay' = [due |-> DueNow, nonce |-> 0]
  /\ Goto("pay_miners", "nonce")
  /\ UNCHANGED <<ledger, scan, disk, node, faults>>

\* cog_getBalance: the nonce on the chain.
ReadNonce ==
  /\ At("pay_miners", "nonce")
  /\ \/ pay' = [pay EXCEPT !.nonce = nonce] /\ Goto("pay_miners", "payout")
     \/ pay' = NotPaying /\ Goto("pay_miners", "idle")
  /\ UNCHANGED <<ledger, scan, disk, node, faults>>

Payee == Head(pay.due).to
Owed == Head(pay.due).credit

\* Mutant: the fee is not taken off the payout.
PayoutGross == [to |-> Payee, amount |-> Owed, nonce |-> pay.nonce]

Payout == [to |-> Payee, amount |-> Owed - PayoutFee, nonce |-> pay.nonce]
Paying == At("pay_miners", "payout") /\ pay.due # <<>>
NextPayee == pay' = [pay EXCEPT !.due = Tail(@)]

\* The node admits the transaction; its reply is on the way.
SendPayout ==
  /\ Paying
  /\ Owed > PayoutFee
  /\ pay.nonce >= nonce
  /\ mempool' = mempool \cup {Payout}
  /\ Goto("pay_miners", "reply")
  /\ UNCHANGED <<ledger, scan, pay, disk, nonce, received, faults>>

\* Too small to pay, or refused by the node: the credit is kept.
SkipPayee ==
  /\ Paying
  /\ NextPayee
  /\ UNCHANGED <<ledger, scan, task, disk, node, faults>>

Minus(a, b) == IF a > b THEN a - b ELSE 0

RecordPayout(m, credit, amount) ==
  [ledger EXCEPT !.credits[m] = Minus(@, credit), !.paid[m] = @ + amount,
                 !.payments = @ + 1]

SettlePayout ==
  /\ At("pay_miners", "reply")
  /\ ledger' = RecordPayout(Payee, Owed, Owed - PayoutFee)
  /\ pay' = [due |-> Tail(pay.due), nonce |-> pay.nonce + 1]
  /\ BeginSave("pay_miners", ledger', "payout")
  /\ UNCHANGED <<scan, disk, node, faults>>

\* The connection breaks after the node has admitted the transaction.
LosePayoutReply ==
  /\ At("pay_miners", "reply")
  /\ lost_replies < MaxLostReplies
  /\ lost_replies' = lost_replies + 1
  /\ unheard' = [unheard EXCEPT ![Payee] = @ + (Owed - PayoutFee)]
  /\ NextPayee
  /\ Goto("pay_miners", "payout")
  /\ UNCHANGED <<ledger, scan, disk, node, crashes>>

EndRound ==
  /\ At("pay_miners", "payout")
  /\ pay.due = <<>>
  /\ pay' = NotPaying
  /\ Goto("pay_miners", "idle")
  /\ UNCHANGED <<ledger, scan, disk, node, faults>>

-----------------------------------------------------------------------------
(* The node, crash and restart *)

\* A block that carries a payout; the mempool drops what became too old.
MinePayout ==
  \E tx \in mempool :
    /\ tx.nonce = nonce
    /\ nonce' = nonce + 1
    /\ received' = [received EXCEPT ![tx.to] = @ + tx.amount]
    /\ mempool' = {t \in mempool : t.nonce > nonce}
    /\ UNCHANGED <<ledger, scan, pay, task, disk, faults>>

Quiet == [at |-> "idle", copy |-> NoCopy, then |-> "idle"]

\* The process stops (or is stopped: the tasks are aborted at any await) and
\* Pool::new reads the ledger back.
CrashAndRestart ==
  /\ crashes < MaxCrashes
  /\ crashes' = crashes + 1
  /\ ledger' = IF disk = NoFile THEN EmptyLedger ELSE disk
  /\ scan' = [reward |-> 0, height |-> 0, tip |-> 0]
  /\ pay' = NotPaying
  /\ task' = [t \in Task |-> Quiet]
  /\ UNCHANGED <<disk, node, lost_replies, unheard>>

Init ==
  /\ ledger = EmptyLedger
  /\ scan = [reward |-> 0, height |-> 0, tip |-> 0]
  /\ pay = NotPaying
  /\ task = [t \in Task |-> Quiet]
  /\ disk = NoFile
  /\ nonce = 0
  /\ mempool = {}
  /\ received = Zero
  /\ crashes = 0
  /\ lost_replies = 0
  /\ unheard = Zero

account_rewards ==
  StartScan \/ CreditBlock \/ AdvanceScan \/ FinishScan
pay_miners ==
  BeginRound \/ ReadNonce \/ SendPayout \/ SkipPayee \/ SettlePayout
    \/ LosePayoutReply \/ EndRound

Next ==
  \/ account_rewards
  \/ pay_miners
  \/ \E t \in Task : save(t)
  \/ MinePayout
  \/ CrashAndRestart

Spec == Init /\ [][Next]_vars

-----------------------------------------------------------------------------
(* Properties *)

\* Every acog the pool credited is owed to a miner, was paid to one, went into
\* a payout fee or to the operator (credit_block, pay_miners) - also when a
\* credit grows while its payout is in flight, and after a restart from a copy.
LedgerBalances ==
  Total(ledger.gross) =
    Total(ledger.credits) + Total(ledger.paid) + PayoutFee * ledger.payments
      + ledger.fees_earned

\* No earnings are lost: a block behind last_scanned_height has been credited,
\* in memory and in every copy that may be read back after a crash.
SettledIsCredited(led) ==
  \A h \in Settled : h <= led.last_scanned_height => led.times[h] >= 1
NothingIsSkipped ==
  /\ SettledIsCredited(ledger)
  /\ disk # NoFile => SettledIsCredited(disk)

\* A crash makes the pool credit at most one block again - the one whose credit
\* reached the file before last_scanned_height did - and no other way leads to a
\* second credit: account_rewards and save, whatever copy of whichever task is
\* read back, and however many heights the scan then repeats.
Recredits(led) == Total([h \in 1 .. MaxHeight |-> Minus(led.times[h], 1)])
RecreditsAreBounded == Recredits(ledger) <= crashes

\* Until the pool crashes, no miner receives more on the chain than the ledger
\* says it was paid, beyond the payout in flight and those whose reply was lost
\* (pay_miners clears the credit of exactly what it sent).
InFlight(m) == IF At("pay_miners", "reply") /\ Payee = m THEN Owed - PayoutFee ELSE 0
NeverOverpays ==
  crashes = 0 =>
    \A m \in Miner : received[m] <= ledger.paid[m] + InFlight(m) + unheard[m]

-----------------------------------------------------------------------------
(* What the documents promise and the code does not keep *)

\* pool.rs:941: "Re-reading the node's nonce for each payout would hand the same
\* value to two transactions, and only one of them could ever be mined - while
\* both miners had already had their credit cleared": what the ledger says was
\* paid has arrived or can still arrive.
PaidCanArrive ==
  \A m \in Miner :
    ledger.paid[m] <= received[m]
      + SumFunction([tx \in {t \in mempool : t.to = m} |-> tx.amount])

\* pool.rs:23: the pool "credits exactly that block's reward plus its fees"; so
\* does docs/POOL.md:64.
CreditedExactly ==
  \A h \in 1 .. MaxHeight : ledger.gross[h] \in {0, RewardAt[h] + FeesAt[h]}

\* docs/POOL.md:76: the ledger "jest zapisywana przy każdej zmianie", is saved at
\* every change: with no save under way, the file holds the credits and payouts
\* that the ledger holds.
FileKeepsUp ==
  (disk # NoFile /\ \A t \in Task : ~At(t, "save"))
    => disk.credits = ledger.credits /\ disk.paid = ledger.paid
=============================================================================
