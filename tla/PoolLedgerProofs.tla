-------------------------- MODULE PoolLedgerProofs --------------------------
(***************************************************************************)
(* Theorems about PoolLedger, for any miners, windows, fees, rewards and   *)
(* settled heights, any bounds, and any number of crashes and lost replies.*)
(*                                                                         *)
(* PoolInv is inductive.  What must hold of the ledger in memory must hold *)
(* of every copy that can replace it: of the file, and of the copies the   *)
(* two tasks are saving.  The scanning task is always at the height after  *)
(* the last one recorded, and what it has credited there already is the    *)
(* only block ahead of the record: the one that a crash can make it credit *)
(* again, so such a block costs one of the crashes.  That a payout never   *)
(* takes more than the credit rests on no miner being due twice in a round.*)
(***************************************************************************)
EXTENDS PoolLedger, FoldLemmas

-----------------------------------------------------------------------------
(* The inductive invariant *)

Ledgers ==
  [credits: [Miner -> Nat], paid: [Miner -> Nat], last_scanned_height: Nat,
   fees_earned: Nat, payments: Nat,
   gross: [1 .. MaxHeight -> Nat], times: [1 .. MaxHeight -> Nat]]

Dues == [to: Miner, credit: Nat]
Payouts == [to: Miner, amount: Nat, nonce: Nat]
Places == {"idle", "block", "advance", "save", "nonce", "payout", "reply"}
AfterSave == {"idle", "block", "advance", "payout"}
Tasks == [at: Places, copy: Ledgers \cup {NoCopy}, then: AfterSave]

PoolTypeOK ==
  /\ scan \in [reward: Nat, height: Nat, tip: 0 .. MaxHeight]
  /\ pay \in [due: Seq(Dues), nonce: Nat]
  /\ task \in [Task -> Tasks]
  /\ nonce \in Nat
  /\ mempool \subseteq Payouts /\ IsFiniteSet(mempool)
  /\ received \in [Miner -> Nat]
  /\ crashes \in Nat /\ lost_replies \in Nat
  /\ unheard \in [Miner -> Nat]

Balanced(led) ==
  Total(led.gross)
    = Total(led.credits) + Total(led.paid) + PayoutFee * led.payments
        + led.fees_earned

\* A ledger of a pool that has crashed n times.
GoodLedger(led, n) ==
  /\ led \in Ledgers
  /\ Balanced(led)
  /\ SettledIsCredited(led)
  /\ Recredits(led) <= n
  /\ \A h \in 1 .. MaxHeight : h > led.last_scanned_height + 1 => led.times[h] = 0

Saved(tk, n) == tk.at = "save" => GoodLedger(tk.copy, n)

LedgersInv ==
  /\ GoodLedger(ledger, crashes)
  /\ disk # NoFile => GoodLedger(disk, crashes)
  /\ \A t \in Task : Saved(task[t], crashes)

\* Where a task is, or will be after its save.
Place(tk) == IF tk.at = "save" THEN tk.then ELSE tk.at

\* A block ahead of the record has been credited: the next one.
Ahead(led) ==
  IF \E h \in 1 .. MaxHeight : h > led.last_scanned_height /\ led.times[h] >= 1
  THEN 1 ELSE 0

Scanning(led, sc, place, n) ==
  /\ place \in {"idle", "block", "advance"}
  /\ place # "idle" => sc.height = led.last_scanned_height + 1
  /\ place = "advance" => /\ sc.height \in 1 .. MaxHeight
                          /\ sc.height \in Settled => led.times[sc.height] >= 1
  /\ place # "advance" => Recredits(led) + Ahead(led) <= n

ScanInv == Scanning(ledger, scan, Place(task["account_rewards"]), crashes)

\* No miner twice, and none for more than its credit.
Due(due, led) ==
  /\ \A i, j \in DOMAIN due : due[i].to = due[j].to => i = j
  /\ \A i \in DOMAIN due : due[i].credit <= led.credits[due[i].to]

PayInv ==
  /\ Due(pay.due, ledger)
  /\ At("pay_miners", "reply") => pay.due # <<>> /\ Owed > PayoutFee

\* What the payouts a mempool holds will pay a miner.
OnTheirWay(pool, m) == {t \in pool : t.to = m}
Coming(pool, m) == SumFunction([t \in OnTheirWay(pool, m) |-> t.amount])

PaidInv ==
  crashes = 0 => \A m \in Miner :
    received[m] + Coming(mempool, m) <= ledger.paid[m] + InFlight(m) + unheard[m]

PoolInv == PoolTypeOK /\ LedgersInv /\ ScanInv /\ PayInv /\ PaidInv

-----------------------------------------------------------------------------
(* Totals *)

LEMMA TotalIsNat ==
  ASSUME NEW S, IsFiniteSet(S), NEW f \in [S -> Nat]
  PROVE  Total(f) \in Nat
<1>1. Counts(f, S) /\ DOMAIN f = S
  BY DEF Counts
<1> QED BY <1>1, SumType DEF Total, SumFunction

LEMMA TotalUpdate ==
  ASSUME NEW S, IsFiniteSet(S), NEW f \in [S -> Nat], NEW x \in S, NEW v \in Nat
  PROVE  Total([f EXCEPT ![x] = v]) = Total(f) - f[x] + v
<1> DEFINE g == [f EXCEPT ![x] = v]
<1>1. /\ Counts(f, S) /\ DOMAIN f = S /\ Counts(g, S) /\ DOMAIN g = S /\ g[x] = v
      /\ \A y \in S \ {x} : g[y] = f[y]
  BY DEF Counts
<1> HIDE DEF g
<1>2. Total(g) = Total(f) - f[x] + g[x]
  BY <1>1, SumUpdate DEF Total, SumFunction
<1> QED BY <1>1, <1>2 DEF g

LEMMA TotalAdd ==
  ASSUME NEW S, IsFiniteSet(S), NEW f \in [S -> Nat], NEW g \in [S -> Nat]
  PROVE  Total([x \in S |-> f[x] + g[x]]) = Total(f) + Total(g)
<1> DEFINE h == [x \in S |-> f[x] + g[x]]
<1>1. /\ Counts(f, S) /\ DOMAIN f = S /\ Counts(g, S) /\ DOMAIN g = S
      /\ DOMAIN h = S /\ \A x \in S : h[x] = f[x] + g[x]
  BY DEF Counts
<1> HIDE DEF h
<1>2. Total(h) = Total(f) + Total(g)
  BY <1>1, SumAdd DEF Total, SumFunction
<1> QED BY <1>2 DEF h

LEMMA TotalOfNothing ==
  ASSUME NEW S, IsFiniteSet(S)
  PROVE  Total([x \in S |-> 0]) = 0
<1> DEFINE z == [x \in S |-> 0]
<1>1. z \in [S -> Nat] /\ z = [x \in S |-> z[x] + z[x]]
  OBVIOUS
<1> HIDE DEF z
<1>2. Total(z) = Total(z) + Total(z) /\ Total(z) \in Nat
  BY <1>1, TotalAdd, TotalIsNat
<1> DEFINE total == Total(z)
<1>3. total = 0
  <2> HIDE DEF total
  <2>1. \A k \in Nat : k = k + k => k = 0
    OBVIOUS
  <2> QED BY <1>2, <2>1 DEF total
<1> QED BY <1>3 DEF z

LEMMA HeightsAreFinite == IsFiniteSet(1 .. MaxHeight)
  BY PoolLedgerAssumption, FS_Interval

-----------------------------------------------------------------------------
(* Credits of a block that had been credited *)

LEMMA RecreditsIsNat ==
  ASSUME NEW led \in Ledgers
  PROVE  Recredits(led) \in Nat /\ Ahead(led) \in {0, 1}
<1> DEFINE H == 1 .. MaxHeight
           t == led.times
           f == [h \in H |-> Minus(t[h], 1)]
<1>1. t \in [H -> Nat] /\ IsFiniteSet(H)
  BY HeightsAreFinite DEF Ledgers
<1>2. f \in [H -> Nat]
  <2> HIDE DEF H, t
  <2> QED BY <1>1 DEF Minus
<1>3. Total(f) \in Nat
  <2> HIDE DEF f, H
  <2> QED BY <1>1, <1>2, TotalIsNat
<1> QED BY <1>3 DEF Recredits, Ahead

LEMMA HeightUpdate ==
  ASSUME NEW f \in [1 .. MaxHeight -> Nat], NEW h \in 1 .. MaxHeight, NEW v \in Nat
  PROVE  Total([f EXCEPT ![h] = v]) = Total(f) - f[h] + v /\ Total(f) \in Nat
BY HeightsAreFinite, TotalUpdate, TotalIsNat

LEMMA OneMoreCredit ==
  ASSUME NEW led \in Ledgers, NEW new, NEW h \in 1 .. MaxHeight,
         new.times = [led.times EXCEPT ![h] = @ + 1]
  PROVE  Recredits(new) = Recredits(led) + (IF led.times[h] >= 1 THEN 1 ELSE 0)
<1> DEFINE H == 1 .. MaxHeight
           t == led.times
           u == new.times
           f == [k \in H |-> Minus(t[k], 1)]
           g == [k \in H |-> Minus(u[k], 1)]
<1>1. t \in [H -> Nat] /\ IsFiniteSet(H) /\ h \in H /\ u = [t EXCEPT ![h] = @ + 1]
  BY HeightsAreFinite DEF Ledgers
<1>2. Recredits(led) = Total(f) /\ Recredits(new) = Total(g)
  BY DEF Recredits
<1> HIDE DEF H, t, u
<1>3. f \in [H -> Nat] /\ t[h] \in Nat
  BY <1>1 DEF Minus
<1>4. g = [f EXCEPT ![h] = t[h]] /\ f[h] = IF t[h] >= 1 THEN t[h] - 1 ELSE 0
  <2>1. u[h] = t[h] + 1 /\ \A k \in H \ {h} : u[k] = t[k]
    BY <1>1
  <2>2. Minus(t[h] + 1, 1) = t[h]
    BY <1>3 DEF Minus
  <2>3. f[h] = IF t[h] >= 1 THEN t[h] - 1 ELSE 0
    BY <1>1, <1>3 DEF Minus
  <2>4. \A k \in H : g[k] = IF k = h THEN t[h] ELSE f[k]
    BY <2>1, <2>2
  <2>5. g = [k \in H |-> g[k]] /\ [f EXCEPT ![h] = t[h]]
          = [k \in H |-> IF k = h THEN t[h] ELSE f[k]]
    BY <1>3
  <2> HIDE DEF f, g
  <2> QED BY <2>3, <2>4, <2>5
<1> HIDE DEF f, g
<1>5. Total(g) = Total(f) - f[h] + t[h] /\ Total(f) \in Nat
  BY <1>3, <1>4, HeightUpdate DEF H
<1>6. Total(g) = Total(f) + (IF t[h] >= 1 THEN 1 ELSE 0)
  BY <1>3, <1>4, <1>5
<1> QED BY <1>2, <1>6 DEF t

-----------------------------------------------------------------------------
(* credit_block *)

\* The pool's fee is a part of the amount.
LEMMA FeeFits ==
  ASSUME NEW amount \in Nat
  PROVE  (amount * FeePercent) \div 100 \in 0 .. amount
<1>1. FeePercent \in 0 .. 100
  BY PoolLedgerAssumption
<1> DEFINE part == amount * FeePercent
<1>2. part \in Nat /\ part <= amount * 100
  BY <1>1
<1> HIDE DEF part
<1>3. part \div 100 \in 0 .. amount
  BY <1>2
<1> QED BY <1>3 DEF part

LEMMA QuotientFits ==
  ASSUME NEW a \in Nat, NEW t \in Nat, t > 0
  PROVE  a \div t \in Nat /\ t * (a \div t) <= a
  OBVIOUS

LEMMA FactorCancels ==
  ASSUME NEW a \in Nat, NEW n \in Nat, NEW t \in Nat, t > 0, t * a <= n * t
  PROVE  a <= n
<1> SUFFICES ASSUME a >= n + 1 PROVE FALSE
  OBVIOUS
<1>1. t * a >= t * (n + 1)
  OBVIOUS
<1>2. t * (n + 1) = n * t + t
  OBVIOUS
<1>3. t * a \in Nat /\ n * t \in Nat
  OBVIOUS
<1> QED BY <1>1, <1>2, <1>3

\* The shares of a block, rounded down, are no more than the block: the
\* remainder that goes to the operator is not negative.
LEMMA SharesFit ==
  ASSUME NEW net \in Nat, NEW w \in [Miner -> Nat], Total(w) > 0,
         NEW cut, cut = [m \in Miner |-> (net * w[m]) \div Total(w)]
  PROVE  cut \in [Miner -> Nat] /\ Total(cut) \in 0 .. net
<1> DEFINE t == Total(w)
<1>1. IsFiniteSet(Miner)
  BY PoolLedgerAssumption
<1>2. t \in Nat /\ t > 0
  BY <1>1, TotalIsNat
<1> HIDE DEF t
<1>3. ASSUME NEW m \in Miner
      PROVE  cut[m] \in Nat /\ t * cut[m] <= net * w[m]
  <2> DEFINE a == net * w[m]
  <2>1. a \in Nat
    OBVIOUS
  <2>2. cut[m] = a \div t
    BY DEF t
  <2> HIDE DEF a
  <2>3. cut[m] \in Nat /\ t * cut[m] <= a
    BY <1>2, <2>1, <2>2, QuotientFits
  <2> QED BY <2>3 DEF a
<1>4. cut \in [Miner -> Nat]
  BY <1>3
<1>5. Counts(cut, Miner) /\ Counts(w, Miner) /\ DOMAIN cut = Miner /\ DOMAIN w = Miner
  BY <1>4 DEF Counts
<1>6. \A m \in Miner : t * cut[m] <= net * w[m]
  BY <1>3
<1>7. t * SumFunctionOnSet(cut, Miner) <= net * SumFunctionOnSet(w, Miner)
  BY <1>1, <1>2, <1>5, <1>6, SumScaled
<1>8. t * Total(cut) <= net * t
  BY <1>5, <1>7 DEF t, Total, SumFunction
<1>9. Total(cut) \in Nat
  BY <1>1, <1>4, TotalIsNat
<1>10. Total(cut) <= net
  BY <1>2, <1>8, <1>9, FactorCancels
<1> QED BY <1>4, <1>9, <1>10

\* Crediting a block changes the ledger's totals by what the block is worth,
\* and the count of the block by one.
LEMMA CreditKeepsLedger ==
  ASSUME NEW led \in Ledgers, Balanced(led), NEW amount \in Nat,
         NEW h \in 1 .. MaxHeight, NEW w \in Windows,
         NEW new, new = credit_block(led, amount, h, w)
  PROVE  /\ new \in Ledgers /\ Balanced(new)
         /\ new.last_scanned_height = led.last_scanned_height
         /\ new.times = [led.times EXCEPT ![h] = @ + 1]
         /\ new.paid = led.paid
         /\ \A m \in Miner : new.credits[m] >= led.credits[m]
<1> DEFINE fee == (amount * FeePercent) \div 100
           net == amount - fee
           cut == [m \in Miner |-> (net * w[m]) \div Total(w)]
           gross == [led.gross EXCEPT ![h] = @ + amount]
           times == [led.times EXCEPT ![h] = @ + 1]
           credits == [m \in Miner |-> led.credits[m] + cut[m]]
           kept == Total(cut)
           alone == [led EXCEPT !.fees_earned = @ + amount,
                                !.gross[h] = @ + amount, !.times[h] = @ + 1]
           shared == [led EXCEPT !.credits = credits,
                                 !.fees_earned = @ + fee + (net - kept),
                                 !.gross[h] = @ + amount, !.times[h] = @ + 1]
<1>1. new = IF Total(w) = 0 \/ net = 0 THEN alone ELSE shared
  BY DEF credit_block
<1>2. /\ IsFiniteSet(Miner) /\ w \in [Miner -> Nat] /\ PayoutFee \in Nat
      /\ IsFiniteSet(1 .. MaxHeight) /\ MaxHeight \in Nat
  BY PoolLedgerAssumption, HeightsAreFinite
<1>3. fee \in 0 .. amount /\ net \in Nat /\ fee \in Nat /\ fee + net = amount
  BY FeeFits
<1>4. /\ led.credits \in [Miner -> Nat] /\ led.paid \in [Miner -> Nat]
      /\ led.last_scanned_height \in Nat /\ led.fees_earned \in Nat
      /\ led.payments \in Nat /\ led.gross \in [1 .. MaxHeight -> Nat]
      /\ led.times \in [1 .. MaxHeight -> Nat]
  BY DEF Ledgers
<1>11. led = [credits |-> led.credits, paid |-> led.paid,
              last_scanned_height |-> led.last_scanned_height,
              fees_earned |-> led.fees_earned, payments |-> led.payments,
              gross |-> led.gross, times |-> led.times]
  BY DEF Ledgers
<1>5. /\ Total(led.gross) \in Nat /\ Total(led.credits) \in Nat
      /\ Total(led.paid) \in Nat /\ PayoutFee * led.payments \in Nat
  <2>1. PayoutFee * led.payments \in Nat
    BY <1>2, <1>4
  <2> QED BY <2>1, <1>2, <1>4, TotalIsNat
<1> HIDE DEF fee, net, cut, credits, kept
<1>6. /\ gross \in [1 .. MaxHeight -> Nat] /\ times \in [1 .. MaxHeight -> Nat]
      /\ Total(gross) = Total(led.gross) + amount
  <2>1. led.gross[h] \in Nat /\ led.gross[h] + amount \in Nat
    BY <1>2, <1>4
  <2>2. Total(gross) = Total(led.gross) - led.gross[h] + (led.gross[h] + amount)
    BY <1>2, <1>4, <2>1, TotalUpdate
  <2>3. gross \in [1 .. MaxHeight -> Nat] /\ times \in [1 .. MaxHeight -> Nat]
    <3> DEFINE g == led.gross
               t == led.times
               H == 1 .. MaxHeight
    <3>1. g \in [H -> Nat] /\ t \in [H -> Nat] /\ h \in H /\ H \subseteq Nat
      BY <1>2, <1>4
    <3>2. gross = [g EXCEPT ![h] = @ + amount] /\ times = [t EXCEPT ![h] = @ + 1]
      OBVIOUS
    <3> HIDE DEF g, t, H, gross, times
    <3>3. gross \in [H -> Nat] /\ times \in [H -> Nat]
      BY <3>1, <3>2
    <3> QED BY <3>3 DEF H
  <2> HIDE DEF gross, times
  <2> QED BY <1>5, <2>1, <2>2, <2>3
<1>7. /\ alone = [credits |-> led.credits, paid |-> led.paid,
                  last_scanned_height |-> led.last_scanned_height,
                  fees_earned |-> led.fees_earned + amount,
                  payments |-> led.payments, gross |-> gross, times |-> times]
      /\ shared = [credits |-> credits, paid |-> led.paid,
                   last_scanned_height |-> led.last_scanned_height,
                   fees_earned |-> led.fees_earned + fee + (net - kept),
                   payments |-> led.payments, gross |-> gross, times |-> times]
  <2> HIDE DEF gross, times
  <2>1. /\ alone = [led EXCEPT !.fees_earned = @ + amount,
                               !.gross = gross, !.times = times]
        /\ shared = [led EXCEPT !.credits = credits,
                                !.fees_earned = @ + fee + (net - kept),
                                !.gross = gross, !.times = times]
    BY <1>11 DEF gross, times
  <2> HIDE DEF alone, shared
  <2> QED BY <1>11, <2>1
<1> HIDE DEF gross, times, alone, shared
<1>8. CASE Total(w) = 0 \/ net = 0
  <2>1. /\ new.credits = led.credits /\ new.paid = led.paid
        /\ new.last_scanned_height = led.last_scanned_height
        /\ new.fees_earned = led.fees_earned + amount
        /\ new.payments = led.payments /\ new.gross = gross /\ new.times = times
    BY <1>1, <1>7, <1>8
  <2>2. led.fees_earned + amount \in Nat
    BY <1>4
  <2>3. new \in Ledgers
    BY <1>1, <1>4, <1>6, <1>7, <1>8, <2>2 DEF Ledgers
  <2>4. Balanced(new)
    BY <2>1, <1>4, <1>5, <1>6 DEF Balanced
  <2>5. \A m \in Miner : new.credits[m] >= led.credits[m]
    BY <2>1, <1>4
  <2> QED BY <2>1, <2>3, <2>4, <2>5 DEF times
<1>9. CASE Total(w) # 0 /\ net # 0
  <2>1. /\ new.credits = credits /\ new.paid = led.paid
        /\ new.last_scanned_height = led.last_scanned_height
        /\ new.fees_earned = led.fees_earned + fee + (net - kept)
        /\ new.payments = led.payments /\ new.gross = gross /\ new.times = times
    BY <1>1, <1>7, <1>9
  <2>2. Total(w) \in Nat /\ Total(w) > 0
    BY <1>2, <1>9, TotalIsNat
  <2>3. cut \in [Miner -> Nat] /\ kept \in 0 .. net
    BY <1>2, <1>3, <2>2, SharesFit DEF cut, kept
  <2>4. credits \in [Miner -> Nat] /\ Total(credits) = Total(led.credits) + kept
    <3> DEFINE had == led.credits
    <3>1. had \in [Miner -> Nat] /\ credits = [m \in Miner |-> had[m] + cut[m]]
      BY <1>4 DEF credits
    <3> HIDE DEF had
    <3>2. credits \in [Miner -> Nat]
      BY <3>1, <2>3
    <3>3. Total(credits) = Total(had) + Total(cut)
      BY <1>2, <3>1, <2>3, TotalAdd
    <3> QED BY <3>2, <3>3 DEF had, kept
  <2>5. \A m \in Miner : credits[m] >= led.credits[m]
    BY <1>4, <2>3 DEF credits
  <2>6. led.fees_earned + fee + (net - kept) \in Nat
    BY <1>3, <1>4, <2>3
  <2>7. new \in Ledgers
    BY <1>1, <1>4, <1>6, <1>7, <1>9, <2>4, <2>6 DEF Ledgers
  <2>8. Balanced(new)
    <3>1. Total(led.gross)
            = Total(led.credits) + Total(led.paid) + PayoutFee * led.payments
                + led.fees_earned
      BY DEF Balanced
    <3>2. Total(led.gross) + amount
            = (Total(led.credits) + kept) + Total(led.paid)
                + PayoutFee * led.payments
                + (led.fees_earned + fee + (net - kept))
      <4> DEFINE P == PayoutFee * led.payments
                 G == Total(led.gross)
                 C == Total(led.credits)
                 D == Total(led.paid)
      <4>1. P \in Nat /\ G \in Nat /\ C \in Nat /\ D \in Nat
        BY <1>5
      <4>2. G = C + D + P + led.fees_earned
        BY <3>1
      <4>3. led.fees_earned \in Nat /\ kept \in Nat
        BY <1>4, <2>3
      <4> HIDE DEF P, G, C, D
      <4>4. G + amount
              = (C + kept) + D + P + (led.fees_earned + fee + (net - kept))
        BY <4>1, <4>2, <4>3, <1>3
      <4> QED BY <4>4 DEF P, G, C, D
    <3> QED BY <3>2, <1>6, <2>1, <2>4 DEF Balanced
  <2> QED BY <2>1, <2>5, <2>7, <2>8 DEF times
<1> QED BY <1>8, <1>9

-----------------------------------------------------------------------------
(* pay_miners *)

\* A payout of no more than the credit moves it from credit to paid and fee.
LEMMA PayoutKeepsLedger ==
  ASSUME ledger \in Ledgers, Balanced(ledger), NEW m \in Miner, NEW credit \in Nat,
         credit <= ledger.credits[m], credit > PayoutFee,
         NEW new, new = RecordPayout(m, credit, credit - PayoutFee)
  PROVE  /\ new \in Ledgers /\ Balanced(new)
         /\ new.last_scanned_height = ledger.last_scanned_height
         /\ new.times = ledger.times
         /\ new.paid = [ledger.paid EXCEPT ![m] = @ + (credit - PayoutFee)]
         /\ \A n \in Miner \ {m} : new.credits[n] = ledger.credits[n]
<1> DEFINE left == ledger.credits[m] - credit
           got == ledger.paid[m] + (credit - PayoutFee)
           credits == [ledger.credits EXCEPT ![m] = left]
           paid == [ledger.paid EXCEPT ![m] = got]
<1>1. /\ IsFiniteSet(Miner) /\ PayoutFee \in Nat
  BY PoolLedgerAssumption
<1>2. /\ ledger.credits \in [Miner -> Nat] /\ ledger.paid \in [Miner -> Nat]
      /\ ledger.last_scanned_height \in Nat /\ ledger.fees_earned \in Nat
      /\ ledger.payments \in Nat /\ ledger.gross \in [1 .. MaxHeight -> Nat]
      /\ ledger.times \in [1 .. MaxHeight -> Nat]
  BY DEF Ledgers
<1>10. ledger = [credits |-> ledger.credits, paid |-> ledger.paid,
                 last_scanned_height |-> ledger.last_scanned_height,
                 fees_earned |-> ledger.fees_earned,
                 payments |-> ledger.payments,
                 gross |-> ledger.gross, times |-> ledger.times]
  BY DEF Ledgers
<1>3. left \in Nat /\ got \in Nat /\ Minus(ledger.credits[m], credit) = left
  BY <1>1, <1>2 DEF Minus
<1>4. new = [credits |-> credits, paid |-> paid,
             last_scanned_height |-> ledger.last_scanned_height,
             fees_earned |-> ledger.fees_earned,
             payments |-> ledger.payments + 1,
             gross |-> ledger.gross, times |-> ledger.times]
  <2>1. new = [ledger EXCEPT !.credits[m] = left, !.paid[m] = got,
                             !.payments = @ + 1]
    BY <1>3 DEF RecordPayout
  <2> HIDE DEF left, got
  <2> QED BY <1>10, <2>1
<1>5. /\ credits \in [Miner -> Nat] /\ paid \in [Miner -> Nat]
      /\ Total(credits) = Total(ledger.credits) - ledger.credits[m] + left
      /\ Total(paid) = Total(ledger.paid) - ledger.paid[m] + got
  <2> HIDE DEF left, got
  <2> QED
    <3>1. credits \in [Miner -> Nat] /\ paid \in [Miner -> Nat]
      BY <1>2, <1>3
    <3>2. Total(credits) = Total(ledger.credits) - ledger.credits[m] + left
      BY <1>1, <1>2, <1>3, TotalUpdate
    <3>3. Total(paid) = Total(ledger.paid) - ledger.paid[m] + got
      BY <1>1, <1>2, <1>3, TotalUpdate
    <3> QED BY <3>1, <3>2, <3>3
<1>6. \A n \in Miner \ {m} : credits[n] = ledger.credits[n]
  BY <1>2
<1> HIDE DEF credits, paid
<1>7. new \in Ledgers
  BY <1>2, <1>4, <1>5 DEF Ledgers
<1>8. /\ Total(ledger.gross) \in Nat /\ Total(ledger.credits) \in Nat
      /\ Total(ledger.paid) \in Nat /\ PayoutFee * ledger.payments \in Nat
      /\ ledger.credits[m] \in Nat /\ ledger.paid[m] \in Nat
  <2>1. PayoutFee * ledger.payments \in Nat
    BY <1>1, <1>2
  <2>2. IsFiniteSet(1 .. MaxHeight)
    BY HeightsAreFinite
  <2> QED BY <2>1, <2>2, <1>1, <1>2, TotalIsNat
<1>9. Balanced(new)
  <2>1. PayoutFee * (ledger.payments + 1) = PayoutFee * ledger.payments + PayoutFee
    BY <1>1, <1>2
  <2>2. /\ Total(credits) = Total(ledger.credits) - credit
        /\ Total(paid) = Total(ledger.paid) + (credit - PayoutFee)
    BY <1>1, <1>5, <1>8
  <2>3. Total(ledger.gross)
          = Total(ledger.credits) + Total(ledger.paid)
              + PayoutFee * ledger.payments + ledger.fees_earned
    BY DEF Balanced
  <2>4. Total(ledger.gross)
          = Total(credits) + Total(paid) + PayoutFee * (ledger.payments + 1)
              + ledger.fees_earned
    <3> DEFINE P == PayoutFee * ledger.payments
               G == Total(ledger.gross)
               C == Total(ledger.credits)
               D == Total(ledger.paid)
    <3>1. P \in Nat /\ G \in Nat /\ C \in Nat /\ D \in Nat
      BY <1>8
    <3>2. G = C + D + P + ledger.fees_earned /\ ledger.fees_earned \in Nat
      BY <2>3, <1>2
    <3> HIDE DEF P, G, C, D
    <3>3. G = (C - credit) + (D + (credit - PayoutFee)) + (P + PayoutFee)
                + ledger.fees_earned
      BY <3>1, <3>2, <1>1
    <3>4. P + PayoutFee = PayoutFee * (ledger.payments + 1)
      BY <2>1 DEF P
    <3> QED BY <2>2, <3>3, <3>4 DEF G, C, D
  <2> QED BY <1>4, <2>4 DEF Balanced
<1> QED BY <1>4, <1>6, <1>7, <1>9 DEF paid

\* A round pays no miner twice, and each what it is owed now.
LEMMA RoundIsDue ==
  ASSUME ledger \in Ledgers
  PROVE  DueNow \in Seq(Dues) /\ Due(DueNow, ledger)
<1> DEFINE owed == {m \in Miner : ledger.credits[m] >= MinPayout}
           listed == SetToSeq(owed)
           n == IF Len(listed) <= MAX_PAYOUTS_PER_ROUND THEN Len(listed)
                ELSE MAX_PAYOUTS_PER_ROUND
           due == [i \in 1 .. n |-> [to |-> listed[i],
                                     credit |-> ledger.credits[listed[i]]]]
<1>1. DueNow = due
  BY DEF DueNow
<1>2. IsFiniteSet(owed) /\ owed \subseteq Miner
  <2>1. IsFiniteSet(Miner) /\ owed \subseteq Miner
    BY PoolLedgerAssumption
  <2> HIDE DEF owed
  <2> QED BY <2>1, FS_Subset
<1> HIDE DEF owed
<1>3. /\ listed \in Seq(Miner)
      /\ \A i, j \in DOMAIN listed : listed[i] = listed[j] => i = j
  BY <1>2, SetToSeqHasElements, SetToSeqIsInjective
<1> HIDE DEF listed
<1>4. n \in Nat /\ 1 .. n \subseteq DOMAIN listed
  BY <1>3, PoolLedgerAssumption
<1> HIDE DEF n
<1>5. \A i \in 1 .. n : listed[i] \in Miner
  BY <1>3, <1>4
<1>6. ledger.credits \in [Miner -> Nat]
  BY DEF Ledgers
<1>7. \A i \in 1 .. n : /\ due[i] \in Dues /\ due[i].to = listed[i]
                        /\ due[i].credit = ledger.credits[listed[i]]
                        /\ due[i].credit \in Nat
  BY <1>5, <1>6 DEF Dues
<1>8. DOMAIN due = 1 .. n /\ due \in [1 .. n -> Dues]
  BY <1>7
<1> HIDE DEF due
<1>9. due \in Seq(Dues)
  BY <1>4, <1>8, SeqDef
<1>10. Due(due, ledger)
  BY <1>3, <1>4, <1>7, <1>8 DEF Due
<1> QED BY <1>1, <1>9, <1>10

\* The payees of a round that are left.
LEMMA RestIsDue ==
  ASSUME NEW due \in Seq(Dues), due # <<>>, NEW led, Due(due, led)
  PROVE  /\ Tail(due) \in Seq(Dues) /\ Due(Tail(due), led)
         /\ Head(due) \in Dues /\ Head(due).credit <= led.credits[Head(due).to]
         /\ \A i \in DOMAIN Tail(due) : Tail(due)[i].to # Head(due).to
<1>1. /\ Tail(due) \in Seq(Dues) /\ Head(due) = due[1] /\ 1 \in DOMAIN due
      /\ \A i \in DOMAIN Tail(due) : i + 1 \in DOMAIN due /\ Tail(due)[i] = due[i + 1]
      /\ \A i \in DOMAIN Tail(due) : i \in Nat \ {0}
  OBVIOUS
<1> DEFINE rest == Tail(due)
<1> HIDE DEF rest
<1>2. Due(rest, led)
  BY <1>1 DEF Due, rest
<1>3. Head(due) \in Dues /\ Head(due).credit <= led.credits[Head(due).to]
  BY <1>1 DEF Due
<1>4. \A i \in DOMAIN rest : rest[i].to # Head(due).to
  <2>1. ASSUME NEW i \in DOMAIN rest, rest[i].to = Head(due).to
        PROVE  FALSE
    <3>1. i + 1 \in DOMAIN due /\ due[i + 1].to = due[1].to /\ i \in Nat \ {0}
      BY <1>1, <2>1 DEF rest
    <3>2. i + 1 = 1
      BY <1>1, <3>1 DEF Due
    <3> QED BY <3>1, <3>2
  <2> QED BY <2>1
<1> QED BY <1>1, <1>2, <1>3, <1>4 DEF rest

\* What a payout adds to what is on its way.
LEMMA ComingAdds ==
  ASSUME NEW pool, pool \subseteq Payouts, IsFiniteSet(pool), NEW tx \in Payouts,
         NEW m \in Miner
  PROVE  /\ Coming(pool, m) \in Nat
         /\ Coming(pool \cup {tx}, m)
              <= Coming(pool, m) + (IF tx.to = m THEN tx.amount ELSE 0)
<1> DEFINE old == OnTheirWay(pool, m)
           new == OnTheirWay(pool \cup {tx}, m)
           f == [t \in old |-> t.amount]
           g == [t \in new |-> t.amount]
<1>1. IsFiniteSet(old) /\ old \subseteq Payouts
  BY FS_Subset DEF OnTheirWay
<1>2. Coming(pool, m) = SumFunctionOnSet(f, old) /\ DOMAIN f = old
  BY DEF Coming, SumFunction
<1>3. Coming(pool \cup {tx}, m) = SumFunctionOnSet(g, new) /\ DOMAIN g = new
  BY DEF Coming, SumFunction
<1>4. Counts(f, old)
  BY <1>1 DEF Counts, Payouts
<1> DEFINE sum == SumFunctionOnSet(f, old)
<1>5. sum \in Nat
  <2> HIDE DEF f, old
  <2> QED BY <1>1, <1>4, SumType
<1>6. tx.amount \in Nat
  BY DEF Payouts
<1>7. CASE tx \in pool \/ tx.to # m
  <2>1. new = old
    BY <1>7 DEF OnTheirWay
  <2>2. f = g
    BY <2>1
  <2> HIDE DEF f, g, old, new, sum
  <2> QED BY <1>2, <1>3, <1>5, <1>6, <2>1, <2>2 DEF sum
<1>8. CASE tx \notin pool /\ tx.to = m
  <2>1. new = old \cup {tx} /\ tx \notin old
    BY <1>8 DEF OnTheirWay
  <2>2. \A t \in old : f[t] = g[t]
    BY <2>1
  <2>3. g[tx] = tx.amount
    BY <2>1
  <2>4. Counts(g, new)
    BY <1>1, <2>1 DEF Counts, Payouts
  <2>5. IsFiniteSet(new) /\ new \ {tx} = old
    BY <1>1, <2>1, FS_AddElement
  <2> HIDE DEF f, g, old, new
  <2>6. tx \in new
    BY <2>1
  <2>7. SumFunctionOnSet(g, new) = g[tx] + SumFunctionOnSet(g, new \ {tx})
    BY <2>4, <2>5, <2>6, SumRemove
  <2>8. SumFunctionOnSet(g, old) = sum
    BY <1>1, <1>4, <2>2, SumEqual
  <2> HIDE DEF sum
  <2>9. Coming(pool \cup {tx}, m) = tx.amount + sum
    BY <1>3, <2>3, <2>5, <2>7, <2>8
  <2> QED BY <1>2, <1>5, <1>6, <1>8, <2>9 DEF sum
<1> QED BY <1>7, <1>8

\* What one that leaves takes with it.
LEMMA ComingLeaves ==
  ASSUME NEW pool, pool \subseteq Payouts, IsFiniteSet(pool), NEW tx \in pool,
         NEW rest, rest \subseteq pool \ {tx}, NEW m \in Miner
  PROVE  /\ Coming(rest, m) \in Nat
         /\ Coming(rest, m) + (IF tx.to = m THEN tx.amount ELSE 0) <= Coming(pool, m)
<1> DEFINE new == OnTheirWay(rest, m)
           g == [t \in new |-> t.amount]
           whole == OnTheirWay(pool, m)
           w == [t \in whole |-> t.amount]
<1>1. /\ IsFiniteSet(whole) /\ whole \subseteq Payouts
      /\ IsFiniteSet(new) /\ new \subseteq whole
  <2>1. whole \subseteq pool /\ new \subseteq whole /\ whole \subseteq Payouts
    BY DEF OnTheirWay
  <2> HIDE DEF whole, new
  <2> QED BY <2>1, FS_Subset
<1>2. Counts(w, whole) /\ Counts(g, new)
  BY <1>1 DEF Counts, Payouts
<1>3. /\ Coming(pool, m) = SumFunctionOnSet(w, whole)
      /\ Coming(rest, m) = SumFunctionOnSet(g, new)
  BY DEF Coming, SumFunction
<1>4. \A t \in new : g[t] = w[t]
  BY <1>1
<1>5. tx \in whole <=> tx.to = m
  BY DEF OnTheirWay
<1>6. tx \in whole => w[tx] = tx.amount
  OBVIOUS
<1>7. new \subseteq whole \ {tx}
  BY DEF OnTheirWay
<1>8. tx.amount \in Nat
  BY DEF Payouts
<1> HIDE DEF w, g, new, whole
<1>9. SumFunctionOnSet(g, new) = SumFunctionOnSet(w, new)
  BY <1>1, <1>2, <1>4, SumEqual
<1>10. SumFunctionOnSet(g, new) \in Nat
  BY <1>1, <1>2, SumType
<1>11. CASE tx.to = m
  <2> DEFINE less == whole \ {tx}
  <2>1. IsFiniteSet(less) /\ Counts(w, less) /\ new \in SUBSET less
    BY <1>1, <1>2, <1>7, FS_RemoveElement DEF Counts
  <2>2. SumFunctionOnSet(w, whole) = w[tx] + SumFunctionOnSet(w, less)
    BY <1>1, <1>2, <1>5, <1>11, SumRemove
  <2> HIDE DEF less
  <2>3. SumFunctionOnSet(w, new) <= SumFunctionOnSet(w, less)
    BY <2>1, SumSubset
  <2>4. SumFunctionOnSet(w, less) \in Nat
    BY <2>1, SumType
  <2> QED BY <1>3, <1>5, <1>6, <1>8, <1>9, <1>10, <1>11, <2>2, <2>3, <2>4
<1>12. CASE tx.to # m
  <2>1. new \in SUBSET whole
    BY <1>1
  <2>2. SumFunctionOnSet(w, new) <= SumFunctionOnSet(w, whole)
    BY <1>1, <1>2, <2>1, SumSubset
  <2> QED BY <1>3, <1>9, <1>10, <1>12, <2>2
<1> QED BY <1>11, <1>12

-----------------------------------------------------------------------------
(* What a step of one task leaves alone *)

LEMMA TaskGoes ==
  ASSUME task \in [Task -> Tasks], NEW t \in Task, NEW where \in Places,
         Goto(t, where)
  PROVE  /\ task' \in [Task -> Tasks] /\ task'[t].at = where
         /\ \A u \in Task \ {t} : task'[u] = task[u]
<1>1. /\ task[t] \in Tasks /\ task' = [task EXCEPT ![t].at = where]
  BY DEF Goto
<1>2. task'[t] = [task[t] EXCEPT !.at = where]
  BY <1>1
<1>3. task'[t] \in Tasks /\ task'[t].at = where
  BY <1>1, <1>2 DEF Tasks
<1> QED BY <1>1, <1>3

LEMMA TaskSaves ==
  ASSUME task \in [Task -> Tasks], NEW t \in Task, NEW copy \in Ledgers,
         NEW where \in AfterSave, BeginSave(t, copy, where)
  PROVE  /\ task' \in [Task -> Tasks]
         /\ task'[t].at = "save" /\ task'[t].copy = copy /\ task'[t].then = where
         /\ \A u \in Task \ {t} : task'[u] = task[u]
<1> DEFINE saving == [at |-> "save", copy |-> copy, then |-> where]
<1>1. task' = [task EXCEPT ![t] = saving] /\ saving \in Tasks
  BY DEF BeginSave, Tasks, Places
<1>2. saving.at = "save" /\ saving.copy = copy /\ saving.then = where
  OBVIOUS
<1> HIDE DEF saving
<1> QED BY <1>1, <1>2

LEMMA TwoTasks ==
  /\ "account_rewards" \in Task /\ "pay_miners" \in Task
  /\ "pay_miners" \in Task \ {"account_rewards"}
  /\ "account_rewards" \in Task \ {"pay_miners"}
  BY DEF Task

LEMMA LedgersStay ==
  ASSUME LedgersInv, disk' = disk, crashes' = crashes, NEW t \in Task,
         GoodLedger(ledger', crashes), Saved(task'[t], crashes),
         \A u \in Task \ {t} : task'[u] = task[u]
  PROVE  LedgersInv'
<1>1. \A u \in Task : Saved(task'[u], crashes)
  BY DEF LedgersInv
<1> QED BY <1>1 DEF LedgersInv

LEMMA ScannerStays ==
  ASSUME ScanInv, scan' = scan, crashes' = crashes,
         task'["account_rewards"] = task["account_rewards"],
         ledger'.last_scanned_height = ledger.last_scanned_height,
         ledger'.times = ledger.times
  PROVE  ScanInv'
  BY DEF ScanInv, Scanning, Recredits, Ahead

LEMMA PayerStays ==
  ASSUME PayInv, PoolTypeOK, pay' = pay, task'["pay_miners"] = task["pay_miners"],
         ledger \in Ledgers, ledger' \in Ledgers,
         \A m \in Miner : ledger'.credits[m] >= ledger.credits[m]
  PROVE  PayInv'
<1> DEFINE due == pay.due
<1>1. due \in Seq(Dues)
  BY DEF PoolTypeOK
<1>2. \A i \in DOMAIN due : due[i].to \in Miner /\ due[i].credit \in Nat
  <2>1. \A i \in DOMAIN due : due[i] \in Dues
    BY <1>1
  <2> QED BY <2>1 DEF Dues
<1>3. \A m \in Miner : ledger.credits[m] \in Nat /\ ledger'.credits[m] \in Nat
  BY DEF Ledgers
<1>4. Due(due, ledger)
  BY DEF PayInv
<1> HIDE DEF due
<1>5. Due(due, ledger')
  <2>1. ASSUME NEW i \in DOMAIN due
        PROVE  due[i].credit <= ledger'.credits[due[i].to]
    <3> DEFINE m == due[i].to
    <3>1. m \in Miner /\ due[i].credit \in Nat /\ due[i].credit <= ledger.credits[m]
      BY <1>2, <1>4 DEF Due
    <3> HIDE DEF m
    <3>2. due[i].credit <= ledger'.credits[m]
      BY <1>3, <3>1
    <3> QED BY <3>2 DEF m
  <2> QED BY <1>4, <2>1 DEF Due
<1> QED BY <1>5 DEF PayInv, At, Owed, due

LEMMA PaidStays ==
  ASSUME PaidInv, crashes' = crashes, unheard' = unheard,
         received' = received, mempool' = mempool, ledger'.paid = ledger.paid,
         \A m \in Miner : InFlight(m)' = InFlight(m)
  PROVE  PaidInv'
  BY DEF PaidInv

LEMMA FlightStays ==
  ASSUME pay' = pay, task'["pay_miners"] = task["pay_miners"]
  PROVE  \A m \in Miner : InFlight(m)' = InFlight(m)
  BY DEF InFlight, At, Payee, Owed

LEMMA NoFlight ==
  ASSUME ~At("pay_miners", "reply"), ~At("pay_miners", "reply")'
  PROVE  \A m \in Miner : InFlight(m)' = 0 /\ InFlight(m) = 0
  BY DEF InFlight

-----------------------------------------------------------------------------
(* account_rewards keeps the invariant *)

LEMMA StartScanKeeps == PoolInv /\ StartScan => PoolInv'
<1> SUFFICES ASSUME PoolInv, StartScan PROVE PoolInv'
  OBVIOUS
<1> DEFINE me == "account_rewards"
<1>1. /\ ledger' = ledger /\ pay' = pay /\ disk' = disk /\ nonce' = nonce
      /\ mempool' = mempool /\ received' = received /\ crashes' = crashes
      /\ lost_replies' = lost_replies /\ unheard' = unheard /\ task[me].at = "idle"
      /\ task \in [Task -> Tasks] /\ Goto(me, "block")
  BY DEF StartScan, node, faults, PoolInv, PoolTypeOK, At
<1>2. /\ task' \in [Task -> Tasks] /\ task'[me].at = "block"
      /\ \A u \in Task \ {me} : task'[u] = task[u]
  <2>1. "block" \in Places
    BY DEF Places
  <2> QED BY <1>1, <2>1, TaskGoes, TwoTasks
<1>3. PICK node_tip, tip \in 0 .. MaxHeight :
        scan' = [reward |-> RewardAt[node_tip + 1],
                 height |-> ledger.last_scanned_height + 1, tip |-> tip]
  BY DEF StartScan
<1>4. ledger \in Ledgers /\ ledger.last_scanned_height \in Nat
  BY DEF PoolInv, LedgersInv, GoodLedger, Ledgers
<1>5. PoolTypeOK'
  <2>1. RewardAt[node_tip + 1] \in Nat
    <3>1. node_tip + 1 \in 1 .. MaxHeight + 1 /\ MaxHeight \in Nat
      BY PoolLedgerAssumption
    <3> QED BY <3>1, PoolLedgerAssumption
  <2>2. scan' \in [reward: Nat, height: Nat, tip: 0 .. MaxHeight]
    BY <1>3, <1>4, <2>1
  <2> QED BY <1>1, <1>2, <2>2 DEF PoolInv, PoolTypeOK
<1>6. LedgersInv'
  <2>1. GoodLedger(ledger', crashes) /\ Saved(task'[me], crashes)
    BY <1>1, <1>2 DEF PoolInv, LedgersInv, Saved
  <2> QED BY <1>1, <1>2, <2>1, LedgersStay, TwoTasks DEF PoolInv
<1>7. ScanInv'
  <2>1. Place(task[me]) = "idle" /\ Place(task'[me]) = "block"
    BY <1>1, <1>2 DEF Place
  <2>2. scan'.height = ledger'.last_scanned_height + 1
    BY <1>1, <1>3
  <2>3. Recredits(ledger) + Ahead(ledger) <= crashes
    BY <2>1 DEF PoolInv, ScanInv, Scanning
  <2> QED BY <1>1, <2>1, <2>2, <2>3 DEF ScanInv, Scanning
<1>8. PayInv' /\ PaidInv'
  <2>1. task'["pay_miners"] = task["pay_miners"]
    BY <1>2, TwoTasks
  <2>2. \A m \in Miner : ledger'.credits[m] >= ledger.credits[m]
    BY <1>1, <1>4 DEF Ledgers
  <2> QED BY <1>1, <1>4, <2>1, <2>2, PayerStays, PaidStays, FlightStays DEF PoolInv
<1> QED BY <1>5, <1>6, <1>7, <1>8 DEF PoolInv

LEMMA CreditBlockKeeps == PoolInv /\ CreditBlock => PoolInv'
<1> SUFFICES ASSUME PoolInv, CreditBlock PROVE PoolInv'
  OBVIOUS
<1> DEFINE me == "account_rewards"
           h == scan.height
<1>1. /\ scan' = scan /\ pay' = pay /\ disk' = disk /\ nonce' = nonce
      /\ mempool' = mempool /\ received' = received /\ crashes' = crashes
      /\ lost_replies' = lost_replies /\ unheard' = unheard /\ task[me].at = "block"
      /\ task \in [Task -> Tasks] /\ h < scan.tip
  BY DEF CreditBlock, node, faults, PoolInv, PoolTypeOK, At
<1>2. /\ ledger \in Ledgers /\ Balanced(ledger) /\ SettledIsCredited(ledger)
      /\ \A k \in 1 .. MaxHeight :
           k > ledger.last_scanned_height + 1 => ledger.times[k] = 0
      /\ crashes \in Nat
  BY DEF PoolInv, LedgersInv, GoodLedger, PoolTypeOK
<1>3. /\ ledger.times \in [1 .. MaxHeight -> Nat] /\ ledger.last_scanned_height \in Nat
      /\ ledger.credits \in [Miner -> Nat]
  BY <1>2 DEF Ledgers
<1>4. Place(task[me]) = "block"
  BY <1>1 DEF Place
<1>5. h = ledger.last_scanned_height + 1 /\ Recredits(ledger) + Ahead(ledger) <= crashes
  BY <1>4 DEF PoolInv, ScanInv, Scanning
<1>6. h \in 1 .. MaxHeight /\ scan.reward + FeesAt[h] \in Nat
  <2>1. scan.reward \in Nat /\ scan.tip \in 0 .. MaxHeight
    BY DEF PoolInv, PoolTypeOK
  <2>2. h \in 1 .. MaxHeight
    BY <1>1, <1>3, <1>5, <2>1, PoolLedgerAssumption
  <2>3. FeesAt[h] \in Nat
    BY <2>2, PoolLedgerAssumption
  <2> QED BY <2>1, <2>2, <2>3
<1>7. /\ ledger' \in Ledgers /\ Balanced(ledger')
      /\ ledger'.last_scanned_height = ledger.last_scanned_height
      /\ ledger'.paid = ledger.paid
      /\ \A m \in Miner : ledger'.credits[m] >= ledger.credits[m]
      /\ IF h \in Settled
         THEN /\ ledger'.times = [ledger.times EXCEPT ![h] = @ + 1]
              /\ BeginSave(me, ledger', "advance")
         ELSE ledger'.times = ledger.times /\ Goto(me, "advance")
  <2>1. CASE h \in Settled
    <3>1. PICK w \in Windows :
            /\ ledger' = credit_block(ledger, scan.reward + FeesAt[h], h, w)
            /\ BeginSave(me, ledger', "advance")
      BY <2>1 DEF CreditBlock
    <3> DEFINE amount == scan.reward + FeesAt[h]
    <3>2. amount \in Nat
      BY <1>6
    <3> HIDE DEF amount, h
    <3>3. /\ ledger' \in Ledgers /\ Balanced(ledger')
          /\ ledger'.last_scanned_height = ledger.last_scanned_height
          /\ ledger'.times = [ledger.times EXCEPT ![h] = @ + 1]
          /\ ledger'.paid = ledger.paid
          /\ \A m \in Miner : ledger'.credits[m] >= ledger.credits[m]
      BY <1>2, <1>6, <3>1, <3>2, CreditKeepsLedger DEF amount
    <3> QED BY <2>1, <3>1, <3>3
  <2>2. CASE h \notin Settled
    <3>1. ledger' = ledger /\ Goto(me, "advance")
      BY <2>2 DEF CreditBlock
    <3> QED BY <1>2, <1>3, <2>2, <3>1
  <2> QED BY <2>1, <2>2
<1>8. /\ task' \in [Task -> Tasks] /\ Place(task'[me]) = "advance"
      /\ task'[me].at = "save" => task'[me].copy = ledger'
      /\ \A u \in Task \ {me} : task'[u] = task[u]
  <2>1. "advance" \in AfterSave /\ "advance" \in Places
    BY DEF AfterSave, Places
  <2>2. CASE h \in Settled
    <3>1. BeginSave(me, ledger', "advance")
      BY <2>2, <1>7
    <3> QED BY <1>1, <1>7, <2>1, <3>1, TaskSaves, TwoTasks DEF Place
  <2>3. CASE h \notin Settled
    <3>1. Goto(me, "advance")
      BY <2>3, <1>7
    <3> QED BY <1>1, <2>1, <3>1, TaskGoes, TwoTasks DEF Place
  <2> QED BY <2>2, <2>3
<1>9. /\ Recredits(ledger') <= crashes
      /\ h \in Settled => ledger'.times[h] >= 1
      /\ \A k \in (1 .. MaxHeight) \ {h} : ledger'.times[k] = ledger.times[k]
  <2> DEFINE H == 1 .. MaxHeight
             t == ledger.times
  <2>1. h \in H /\ h > ledger.last_scanned_height /\ t \in [H -> Nat]
    BY <1>3, <1>5, <1>6
  <2>2. /\ h \in Settled => ledger'.times = [t EXCEPT ![h] = @ + 1]
        /\ h \notin Settled => ledger'.times = t
    BY <1>7
  <2>3. Recredits(ledger') <= Recredits(ledger) + Ahead(ledger)
    <3>1. Ahead(ledger) = 1 \/ t[h] = 0
      <4>1. t[h] \in Nat
        <5> HIDE DEF H, t, h
        <5> QED BY <2>1
      <4>2. t[h] >= 1 => Ahead(ledger) = 1
        <5> HIDE DEF h
        <5> QED BY <2>1 DEF Ahead
      <4> HIDE DEF t, h
      <4> QED BY <4>1, <4>2
    <3>2. Recredits(ledger) \in Nat /\ Ahead(ledger) \in {0, 1}
      BY <1>2, RecreditsIsNat
    <3>3. h \in Settled =>
            Recredits(ledger') = Recredits(ledger) + (IF t[h] >= 1 THEN 1 ELSE 0)
      BY <1>2, <2>1, <2>2, OneMoreCredit
    <3>4. h \notin Settled => Recredits(ledger') = Recredits(ledger)
      BY <2>2 DEF Recredits
    <3> HIDE DEF t, h
    <3> QED BY <3>1, <3>2, <3>3, <3>4
  <2>4. Recredits(ledger') <= crashes
    <3>1. Recredits(ledger) \in Nat /\ Ahead(ledger) \in {0, 1}
      BY <1>2, RecreditsIsNat
    <3>2. Recredits(ledger') \in Nat
      BY <1>7, RecreditsIsNat
    <3> QED BY <1>2, <1>5, <2>3, <3>1, <3>2
  <2> HIDE DEF H, t, h
  <2>5. h \in Settled => ledger'.times[h] >= 1
    <3>1. t[h] \in Nat
      BY <2>1
    <3>2. h \in Settled => ledger'.times[h] = t[h] + 1
      BY <2>1, <2>2
    <3> QED BY <3>1, <3>2
  <2>6. \A k \in H \ {h} : ledger'.times[k] = t[k]
    BY <2>1, <2>2
  <2> QED BY <2>4, <2>5, <2>6 DEF H, t
<1> HIDE DEF h
<1>10. GoodLedger(ledger', crashes)
  <2>1. SettledIsCredited(ledger')
    <3>1. \A k \in Settled : k <= ledger.last_scanned_height
            => k \in (1 .. MaxHeight) \ {h} /\ ledger.times[k] >= 1
      BY <1>2, <1>3, <1>5, PoolLedgerAssumption DEF SettledIsCredited
    <3> QED BY <1>7, <1>9, <3>1 DEF SettledIsCredited
  <2>2. \A k \in 1 .. MaxHeight :
          k > ledger'.last_scanned_height + 1 => ledger'.times[k] = 0
    BY <1>2, <1>3, <1>5, <1>7, <1>9
  <2> QED BY <1>7, <1>9, <2>1, <2>2 DEF GoodLedger
<1>11. PoolTypeOK'
  BY <1>1, <1>8 DEF PoolInv, PoolTypeOK
<1>12. LedgersInv'
  <2>1. Saved(task'[me], crashes)
    BY <1>8, <1>10 DEF Saved
  <2> QED BY <1>1, <1>8, <1>10, <2>1, LedgersStay, TwoTasks DEF PoolInv
<1>13. ScanInv'
  <2>1. scan'.height = h
    BY <1>1 DEF h
  <2> QED BY <1>1, <1>5, <1>6, <1>7, <1>8, <1>9, <2>1 DEF ScanInv, Scanning
<1>14. PayInv' /\ PaidInv'
  <2>1. task'["pay_miners"] = task["pay_miners"]
    BY <1>8, TwoTasks
  <2> QED BY <1>1, <1>2, <1>7, <2>1, PayerStays, PaidStays, FlightStays DEF PoolInv
<1> QED BY <1>10, <1>11, <1>12, <1>13, <1>14 DEF PoolInv

LEMMA AdvanceScanKeeps == PoolInv /\ AdvanceScan => PoolInv'
<1> SUFFICES ASSUME PoolInv, AdvanceScan PROVE PoolInv'
  OBVIOUS
<1> DEFINE me == "account_rewards"
           h == scan.height
<1>1. /\ pay' = pay /\ disk' = disk /\ nonce' = nonce
      /\ mempool' = mempool /\ received' = received /\ crashes' = crashes
      /\ lost_replies' = lost_replies /\ unheard' = unheard /\ task[me].at = "advance"
      /\ task \in [Task -> Tasks] /\ scan' = [scan EXCEPT !.height = @ + 1]
      /\ ledger' = [ledger EXCEPT !.last_scanned_height = h]
      /\ scan \in [reward: Nat, height: Nat, tip: 0 .. MaxHeight]
  BY DEF AdvanceScan, node, faults, PoolInv, PoolTypeOK, At
<1>2. /\ ledger \in Ledgers /\ Balanced(ledger) /\ SettledIsCredited(ledger)
      /\ Recredits(ledger) <= crashes /\ crashes \in Nat
      /\ \A k \in 1 .. MaxHeight :
           k > ledger.last_scanned_height + 1 => ledger.times[k] = 0
  BY DEF PoolInv, LedgersInv, GoodLedger, PoolTypeOK
<1>3. Place(task[me]) = "advance"
  BY <1>1 DEF Place
<1>4. /\ h = ledger.last_scanned_height + 1 /\ h \in 1 .. MaxHeight
      /\ h \in Settled => ledger.times[h] >= 1
  BY <1>3 DEF PoolInv, ScanInv, Scanning
<1>5. /\ ledger'.last_scanned_height = h /\ ledger'.times = ledger.times
      /\ ledger'.paid = ledger.paid /\ ledger'.credits = ledger.credits
      /\ ledger'.gross = ledger.gross /\ ledger'.payments = ledger.payments
      /\ ledger'.fees_earned = ledger.fees_earned /\ ledger' \in Ledgers
  <2> HIDE DEF h
  <2>1. h \in Nat
    BY <1>4
  <2> QED BY <1>1, <1>2, <2>1 DEF Ledgers
<1>6. scan' \in [reward: Nat, height: Nat, tip: 0 .. MaxHeight] /\ scan'.height = h + 1
  BY <1>1
<1>7. GoodLedger(ledger', crashes)
  <2>1. Balanced(ledger')
    BY <1>2, <1>5 DEF Balanced
  <2>2. SettledIsCredited(ledger')
    <3>1. ledger.last_scanned_height \in Nat
      BY <1>2 DEF Ledgers
    <3>2. ASSUME NEW k \in Settled, k <= h
          PROVE  ledger.times[k] >= 1
      <4>1. k \in Nat
        BY PoolLedgerAssumption
      <4>2. k = h \/ k <= ledger.last_scanned_height
        BY <3>1, <3>2, <4>1, <1>4
      <4> QED BY <1>2, <1>4, <4>2 DEF SettledIsCredited
    <3> QED BY <1>5, <3>2 DEF SettledIsCredited
  <2>3. \A k \in 1 .. MaxHeight :
          k > ledger'.last_scanned_height + 1 => ledger'.times[k] = 0
    <3>1. ledger.last_scanned_height \in Nat
      BY <1>2 DEF Ledgers
    <3> QED BY <3>1, <1>2, <1>4, <1>5
  <2>4. Recredits(ledger') <= crashes
    BY <1>2, <1>5 DEF Recredits
  <2> QED BY <1>5, <2>1, <2>2, <2>3, <2>4 DEF GoodLedger
<1>8. /\ task' \in [Task -> Tasks] /\ Place(task'[me]) = "block"
      /\ task'[me].at = "save" => task'[me].copy = ledger'
      /\ \A u \in Task \ {me} : task'[u] = task[u]
  <2>1. "block" \in AfterSave /\ "block" \in Places
    BY DEF AfterSave, Places
  <2>2. BeginSave(me, ledger', "block") \/ Goto(me, "block")
    BY DEF AdvanceScan
  <2>3. CASE BeginSave(me, ledger', "block")
    BY <1>1, <1>5, <2>1, <2>3, TaskSaves, TwoTasks DEF Place
  <2>4. CASE Goto(me, "block")
    BY <1>1, <2>1, <2>4, TaskGoes, TwoTasks DEF Place
  <2> QED BY <2>2, <2>3, <2>4
<1>9. PoolTypeOK'
  BY <1>1, <1>6, <1>8 DEF PoolInv, PoolTypeOK
<1>10. LedgersInv'
  <2>1. Saved(task'[me], crashes)
    BY <1>7, <1>8 DEF Saved
  <2> QED BY <1>1, <1>7, <1>8, <2>1, LedgersStay, TwoTasks DEF PoolInv
<1>11. ScanInv'
  <2>1. Recredits(ledger') + Ahead(ledger') <= crashes
    <3>1. Ahead(ledger') = 0
      BY <1>2, <1>4, <1>5 DEF Ahead
    <3>2. Recredits(ledger') = Recredits(ledger) /\ Recredits(ledger) \in Nat
      BY <1>2, <1>5, RecreditsIsNat DEF Recredits
    <3> QED BY <1>2, <3>1, <3>2
  <2> HIDE DEF h
  <2> QED BY <1>1, <1>5, <1>6, <1>8, <2>1 DEF ScanInv, Scanning
<1>12. PayInv' /\ PaidInv'
  <2>1. task'["pay_miners"] = task["pay_miners"]
    BY <1>8, TwoTasks
  <2>2. \A m \in Miner : ledger'.credits[m] >= ledger.credits[m]
    BY <1>2, <1>5 DEF Ledgers
  <2> QED BY <1>1, <1>2, <1>5, <2>1, <2>2, PayerStays, PaidStays, FlightStays
      DEF PoolInv
<1> QED BY <1>9, <1>10, <1>11, <1>12 DEF PoolInv

LEMMA FinishScanKeeps == PoolInv /\ FinishScan => PoolInv'
<1> SUFFICES ASSUME PoolInv, FinishScan PROVE PoolInv'
  OBVIOUS
<1> DEFINE me == "account_rewards"
<1>1. /\ ledger' = ledger /\ pay' = pay /\ disk' = disk /\ nonce' = nonce
      /\ mempool' = mempool /\ received' = received /\ crashes' = crashes
      /\ lost_replies' = lost_replies /\ unheard' = unheard /\ task[me].at = "block"
      /\ task \in [Task -> Tasks] /\ BeginSave(me, ledger, "idle")
      /\ scan' = [reward |-> 0, height |-> 0, tip |-> 0]
  BY DEF FinishScan, node, faults, PoolInv, PoolTypeOK, At
<1>2. ledger \in Ledgers /\ GoodLedger(ledger, crashes)
  BY DEF PoolInv, LedgersInv, GoodLedger
<1>3. /\ task' \in [Task -> Tasks] /\ task'[me].at = "save"
      /\ task'[me].then = "idle" /\ task'[me].copy = ledger
      /\ \A u \in Task \ {me} : task'[u] = task[u]
  <2>1. "idle" \in AfterSave
    BY DEF AfterSave
  <2> QED BY <1>1, <1>2, <2>1, TaskSaves, TwoTasks
<1>4. PoolTypeOK'
  <2>1. scan' \in [reward: Nat, height: Nat, tip: 0 .. MaxHeight]
    BY <1>1, PoolLedgerAssumption
  <2> QED BY <1>1, <1>3, <2>1 DEF PoolInv, PoolTypeOK
<1>5. LedgersInv'
  <2>1. GoodLedger(ledger', crashes) /\ Saved(task'[me], crashes)
    BY <1>1, <1>2, <1>3 DEF Saved
  <2> QED BY <1>1, <1>3, <2>1, LedgersStay, TwoTasks DEF PoolInv
<1>6. ScanInv'
  <2>1. Place(task[me]) = "block" /\ Place(task'[me]) = "idle"
    BY <1>1, <1>3 DEF Place
  <2>2. Recredits(ledger) + Ahead(ledger) <= crashes
    BY <2>1 DEF PoolInv, ScanInv, Scanning
  <2> QED BY <1>1, <2>1, <2>2 DEF ScanInv, Scanning
<1>7. PayInv' /\ PaidInv'
  <2>1. task'["pay_miners"] = task["pay_miners"]
    BY <1>3, TwoTasks
  <2>2. \A m \in Miner : ledger'.credits[m] >= ledger.credits[m]
    BY <1>1, <1>2 DEF Ledgers
  <2> QED BY <1>1, <1>2, <2>1, <2>2, PayerStays, PaidStays, FlightStays DEF PoolInv
<1> QED BY <1>4, <1>5, <1>6, <1>7 DEF PoolInv

-----------------------------------------------------------------------------
(* pay_miners keeps the invariant *)

\* A step of pay_miners that leaves the ledger alone and goes to a place that
\* is not a save.
LEMMA PayerMoves ==
  ASSUME PoolInv, NEW where \in Places \ {"save"},
         Goto("pay_miners", where) \/ (task' = task /\ At("pay_miners", where)),
         UNCHANGED <<ledger, scan, disk, crashes>>
  PROVE  /\ task' \in [Task -> Tasks] /\ task'["pay_miners"].at = where
         /\ LedgersInv' /\ ScanInv'
<1> DEFINE me == "pay_miners"
<1>1. task \in [Task -> Tasks]
  BY DEF PoolInv, PoolTypeOK
<1>2. /\ task' \in [Task -> Tasks] /\ task'[me].at = where
      /\ \A u \in Task \ {me} : task'[u] = task[u]
  BY <1>1, TaskGoes, TwoTasks DEF At
<1>3. LedgersInv'
  <2>1. GoodLedger(ledger', crashes) /\ Saved(task'[me], crashes)
    BY <1>2 DEF PoolInv, LedgersInv, Saved
  <2> QED BY <1>2, <2>1, LedgersStay, TwoTasks DEF PoolInv
<1>4. ScanInv'
  BY <1>2, ScannerStays, TwoTasks DEF PoolInv
<1> QED BY <1>2, <1>3, <1>4

\* Between rounds nobody is due.
LEMMA NobodyIsDue == \A led : Due(<<>>, led)
  BY DEF Due

LEMMA BeginRoundKeeps == PoolInv /\ BeginRound => PoolInv'
<1> SUFFICES ASSUME PoolInv, BeginRound PROVE PoolInv'
  OBVIOUS
<1>1. /\ UNCHANGED <<ledger, scan, disk, nonce, mempool, received, crashes, lost_replies,
                     unheard>>
      /\ At("pay_miners", "idle") /\ Goto("pay_miners", "nonce")
      /\ pay' = [due |-> DueNow, nonce |-> 0]
  BY DEF BeginRound, node, faults
<1>2. "nonce" \in Places \ {"save"}
  BY DEF Places
<1>3. /\ task' \in [Task -> Tasks] /\ task'["pay_miners"].at = "nonce"
      /\ LedgersInv' /\ ScanInv'
  BY <1>1, <1>2, PayerMoves
<1>4. DueNow \in Seq(Dues) /\ Due(DueNow, ledger)
  BY RoundIsDue DEF PoolInv, LedgersInv, GoodLedger
<1>5. PoolTypeOK'
  BY <1>1, <1>3, <1>4 DEF PoolInv, PoolTypeOK
<1>6. PayInv'
  BY <1>1, <1>3, <1>4 DEF PayInv, At
<1>7. PaidInv'
  <2>1. ~At("pay_miners", "reply") /\ ~At("pay_miners", "reply")'
    BY <1>1, <1>3 DEF At
  <2> QED BY <1>1, <2>1, NoFlight, PaidStays DEF PoolInv
<1> QED BY <1>3, <1>5, <1>6, <1>7 DEF PoolInv

LEMMA ReadNonceKeeps == PoolInv /\ ReadNonce => PoolInv'
<1> SUFFICES ASSUME PoolInv, ReadNonce PROVE PoolInv'
  OBVIOUS
<1>1. /\ UNCHANGED <<ledger, scan, disk, nonce, mempool, received, crashes, lost_replies,
                     unheard>>
      /\ At("pay_miners", "nonce")
  BY DEF ReadNonce, node, faults
<1>2. PICK where \in {"payout", "idle"} :
        /\ Goto("pay_miners", where)
        /\ pay' = [pay EXCEPT !.nonce = nonce] \/ pay' = NotPaying
  BY DEF ReadNonce
<1>3. where \in Places \ {"save"}
  BY DEF Places
<1>4. /\ task' \in [Task -> Tasks] /\ task'["pay_miners"].at = where
      /\ LedgersInv' /\ ScanInv'
  BY <1>1, <1>2, <1>3, PayerMoves
<1>5. /\ pay' \in [due: Seq(Dues), nonce: Nat]
      /\ pay'.due = pay.due \/ pay'.due = <<>>
  <2>1. pay \in [due: Seq(Dues), nonce: Nat] /\ nonce \in Nat
    BY DEF PoolInv, PoolTypeOK
  <2>2. CASE pay' = [pay EXCEPT !.nonce = nonce]
    BY <2>1, <2>2
  <2>3. CASE pay' = NotPaying
    <3>1. <<>> \in Seq(Dues)
      OBVIOUS
    <3> QED BY <2>3, <3>1 DEF NotPaying
  <2> QED BY <1>2, <2>2, <2>3
<1>6. PoolTypeOK'
  BY <1>1, <1>4, <1>5 DEF PoolInv, PoolTypeOK
<1>7. PayInv'
  <2>1. Due(pay'.due, ledger)
    BY <1>5, NobodyIsDue DEF PoolInv, PayInv
  <2>2. ~At("pay_miners", "reply")'
    BY <1>2, <1>4 DEF At
  <2> QED BY <1>1, <2>1, <2>2 DEF PayInv
<1>8. PaidInv'
  <2>1. ~At("pay_miners", "reply") /\ ~At("pay_miners", "reply")'
    BY <1>1, <1>2, <1>4 DEF At
  <2> QED BY <1>1, <2>1, NoFlight, PaidStays DEF PoolInv
<1> QED BY <1>4, <1>6, <1>7, <1>8 DEF PoolInv

LEMMA EndRoundKeeps == PoolInv /\ EndRound => PoolInv'
<1> SUFFICES ASSUME PoolInv, EndRound PROVE PoolInv'
  OBVIOUS
<1>1. /\ UNCHANGED <<ledger, scan, disk, nonce, mempool, received, crashes, lost_replies,
                     unheard>>
      /\ At("pay_miners", "payout") /\ Goto("pay_miners", "idle") /\ pay' = NotPaying
  BY DEF EndRound, node, faults
<1>2. "idle" \in Places \ {"save"}
  BY DEF Places
<1>3. /\ task' \in [Task -> Tasks] /\ task'["pay_miners"].at = "idle"
      /\ LedgersInv' /\ ScanInv'
  BY <1>1, <1>2, PayerMoves
<1>4. pay' \in [due: Seq(Dues), nonce: Nat] /\ pay'.due = <<>>
  BY <1>1 DEF NotPaying
<1>5. PoolTypeOK'
  BY <1>1, <1>3, <1>4 DEF PoolInv, PoolTypeOK
<1>6. PayInv'
  BY <1>3, <1>4, NobodyIsDue DEF PayInv, At
<1>7. PaidInv'
  <2>1. ~At("pay_miners", "reply") /\ ~At("pay_miners", "reply")'
    BY <1>1, <1>3 DEF At
  <2> QED BY <1>1, <2>1, NoFlight, PaidStays DEF PoolInv
<1> QED BY <1>3, <1>5, <1>6, <1>7 DEF PoolInv

LEMMA SkipPayeeKeeps == PoolInv /\ SkipPayee => PoolInv'
<1> SUFFICES ASSUME PoolInv, SkipPayee PROVE PoolInv'
  OBVIOUS
<1>1. /\ UNCHANGED <<ledger, scan, disk, nonce, mempool, received, crashes, lost_replies,
                     unheard>>
      /\ At("pay_miners", "payout") /\ task' = task /\ pay.due # <<>>
      /\ pay' = [pay EXCEPT !.due = Tail(@)]
  BY DEF SkipPayee, Paying, NextPayee, node, faults
<1>2. "payout" \in Places \ {"save"}
  BY DEF Places
<1>3. /\ task' \in [Task -> Tasks] /\ task'["pay_miners"].at = "payout"
      /\ LedgersInv' /\ ScanInv'
  BY <1>1, <1>2, PayerMoves
<1>4. pay \in [due: Seq(Dues), nonce: Nat] /\ Due(pay.due, ledger)
  BY DEF PoolInv, PoolTypeOK, PayInv
<1>5. Tail(pay.due) \in Seq(Dues) /\ Due(Tail(pay.due), ledger)
  BY <1>1, <1>4, RestIsDue
<1>6. pay' \in [due: Seq(Dues), nonce: Nat] /\ pay'.due = Tail(pay.due)
  BY <1>1, <1>4, <1>5
<1>7. PoolTypeOK'
  BY <1>1, <1>3, <1>6 DEF PoolInv, PoolTypeOK
<1>8. PayInv'
  BY <1>1, <1>3, <1>5, <1>6 DEF PayInv, At
<1>9. PaidInv'
  <2>1. ~At("pay_miners", "reply") /\ ~At("pay_miners", "reply")'
    BY <1>1, <1>3 DEF At
  <2> QED BY <1>1, <2>1, NoFlight, PaidStays DEF PoolInv
<1> QED BY <1>3, <1>7, <1>8, <1>9 DEF PoolInv

LEMMA LosePayoutReplyKeeps == PoolInv /\ LosePayoutReply => PoolInv'
<1> SUFFICES ASSUME PoolInv, LosePayoutReply PROVE PoolInv'
  OBVIOUS
<1>1. /\ UNCHANGED <<ledger, scan, disk, nonce, mempool, received, crashes>>
      /\ At("pay_miners", "reply") /\ Goto("pay_miners", "payout")
      /\ unheard' = [unheard EXCEPT ![Payee] = @ + (Owed - PayoutFee)]
      /\ pay' = [pay EXCEPT !.due = Tail(@)] /\ lost_replies' = lost_replies + 1
  BY DEF LosePayoutReply, NextPayee, node
<1>2. "payout" \in Places \ {"save"}
  BY DEF Places
<1>3. /\ task' \in [Task -> Tasks] /\ task'["pay_miners"].at = "payout"
      /\ LedgersInv' /\ ScanInv'
  BY <1>1, <1>2, PayerMoves
<1>4. /\ pay \in [due: Seq(Dues), nonce: Nat] /\ Due(pay.due, ledger)
      /\ pay.due # <<>> /\ Owed > PayoutFee /\ lost_replies \in Nat
      /\ unheard \in [Miner -> Nat]
  BY <1>1 DEF PoolInv, PoolTypeOK, PayInv
<1>5. /\ Tail(pay.due) \in Seq(Dues) /\ Due(Tail(pay.due), ledger)
      /\ Head(pay.due) \in Dues
  BY <1>4, RestIsDue
<1>6. pay' \in [due: Seq(Dues), nonce: Nat] /\ pay'.due = Tail(pay.due)
  BY <1>1, <1>4, <1>5
<1>7. /\ lost_replies' \in Nat /\ unheard' \in [Miner -> Nat]
      /\ \A m \in Miner : InFlight(m) \in Nat /\ unheard'[m] = unheard[m] + InFlight(m)
  <2> DEFINE sent == Owed - PayoutFee
  <2>1. Payee \in Miner /\ sent \in Nat
    BY <1>4, <1>5, PoolLedgerAssumption DEF Payee, Owed, Dues
  <2>2. \A m \in Miner : InFlight(m) = IF Payee = m THEN sent ELSE 0
    BY <1>1 DEF InFlight
  <2>3. unheard' = [unheard EXCEPT ![Payee] = @ + sent]
    BY <1>1
  <2> HIDE DEF sent
  <2> QED BY <1>1, <1>4, <2>1, <2>2, <2>3
<1>8. PoolTypeOK'
  BY <1>1, <1>3, <1>6, <1>7 DEF PoolInv, PoolTypeOK
<1>9. PayInv'
  BY <1>1, <1>3, <1>5, <1>6 DEF PayInv, At
<1>10. PaidInv'
  <2> SUFFICES ASSUME crashes = 0, NEW m \in Miner
               PROVE  received'[m] + Coming(mempool', m)
                        <= ledger'.paid[m] + InFlight(m)' + unheard'[m]
    BY <1>1 DEF PaidInv
  <2>1. received[m] + Coming(mempool, m) <= ledger.paid[m] + InFlight(m) + unheard[m]
    BY DEF PoolInv, PaidInv
  <2>2. InFlight(m)' = 0
    BY <1>3 DEF InFlight, At
  <2>3. ledger.paid[m] \in Nat /\ unheard[m] \in Nat
    BY <1>4 DEF PoolInv, LedgersInv, GoodLedger, Ledgers
  <2> QED BY <1>1, <1>7, <2>1, <2>2, <2>3
<1> QED BY <1>3, <1>8, <1>9, <1>10 DEF PoolInv

LEMMA SendPayoutKeeps == PoolInv /\ SendPayout => PoolInv'
<1> SUFFICES ASSUME PoolInv, SendPayout PROVE PoolInv'
  OBVIOUS
<1>1. /\ UNCHANGED <<ledger, scan, pay, disk, nonce, received, crashes, lost_replies,
                     unheard>>
      /\ At("pay_miners", "payout") /\ Goto("pay_miners", "reply")
      /\ pay.due # <<>> /\ Owed > PayoutFee
      /\ mempool' = mempool \cup {Payout}
  BY DEF SendPayout, Paying, faults
<1>2. "reply" \in Places \ {"save"}
  BY DEF Places
<1>3. /\ task' \in [Task -> Tasks] /\ task'["pay_miners"].at = "reply"
      /\ LedgersInv' /\ ScanInv'
  BY <1>1, <1>2, PayerMoves
<1>4. /\ pay \in [due: Seq(Dues), nonce: Nat] /\ Due(pay.due, ledger)
      /\ mempool \subseteq Payouts /\ IsFiniteSet(mempool)
      /\ received \in [Miner -> Nat]
  BY DEF PoolInv, PoolTypeOK, PayInv
<1>5. Head(pay.due) \in Dues
  BY <1>1, <1>4, RestIsDue
<1>6. Payee \in Miner /\ Owed - PayoutFee \in Nat
  BY <1>1, <1>5, PoolLedgerAssumption DEF Payee, Owed, Dues
<1>7. /\ Payout \in Payouts /\ Payout.to = Payee /\ Payout.amount = Owed - PayoutFee
  BY <1>4, <1>6 DEF Payout, Payouts
<1>8. PoolTypeOK'
  <2>1. mempool' \subseteq Payouts /\ IsFiniteSet(mempool')
    BY <1>1, <1>4, <1>7, FS_AddElement
  <2> QED BY <1>1, <1>3, <2>1 DEF PoolInv, PoolTypeOK
<1>9. PayInv'
  BY <1>1, <1>4 DEF PayInv, Owed
<1>10. PaidInv'
  <2> SUFFICES ASSUME crashes' = 0, NEW m \in Miner
               PROVE  received'[m] + Coming(mempool', m)
                        <= ledger'.paid[m] + InFlight(m)' + unheard'[m]
    BY DEF PaidInv
  <2>1. crashes = 0
    BY <1>1
  <2>2. received[m] + Coming(mempool, m) <= ledger.paid[m] + InFlight(m) + unheard[m]
    BY <2>1 DEF PoolInv, PaidInv
  <2>3. InFlight(m) = 0
    BY <1>1 DEF InFlight, At
  <2>4. InFlight(m)' = IF Payee = m THEN Owed - PayoutFee ELSE 0
    BY <1>1, <1>3 DEF InFlight, At, Payee, Owed
  <2>5. /\ Coming(mempool, m) \in Nat
        /\ Coming(mempool', m)
             <= Coming(mempool, m) + (IF Payee = m THEN Owed - PayoutFee ELSE 0)
    BY <1>1, <1>4, <1>7, ComingAdds
  <2>6. received[m] \in Nat /\ ledger.paid[m] \in Nat /\ unheard[m] \in Nat
    BY <1>4 DEF PoolInv, PoolTypeOK, LedgersInv, GoodLedger, Ledgers
  <2>7. Coming(mempool', m) \in Nat
    <3>1. mempool' \subseteq Payouts /\ IsFiniteSet(mempool')
      BY <1>8 DEF PoolTypeOK
    <3> DEFINE pool == mempool'
    <3> HIDE DEF pool
    <3>2. Coming(pool, m) \in Nat
      BY <1>7, <3>1, ComingAdds DEF pool
    <3> QED BY <3>2 DEF pool
  <2> DEFINE more == IF Payee = m THEN Owed - PayoutFee ELSE 0
  <2>8. more \in Nat
    BY <1>6
  <2> HIDE DEF more
  <2>9. /\ InFlight(m)' = more /\ Coming(mempool', m) <= Coming(mempool, m) + more
        /\ received[m] + Coming(mempool, m) <= ledger.paid[m] + unheard[m]
    BY <2>2, <2>3, <2>4, <2>5, <2>6 DEF more
  <2> QED BY <1>1, <2>5, <2>6, <2>7, <2>8, <2>9
<1> QED BY <1>3, <1>8, <1>9, <1>10 DEF PoolInv

LEMMA SettlePayoutKeeps == PoolInv /\ SettlePayout => PoolInv'
<1> SUFFICES ASSUME PoolInv, SettlePayout PROVE PoolInv'
  OBVIOUS
<1> DEFINE me == "pay_miners"
<1>1. /\ UNCHANGED <<scan, disk, nonce, mempool, received, crashes, lost_replies,
                     unheard>>
      /\ At(me, "reply")
      /\ ledger' = RecordPayout(Payee, Owed, Owed - PayoutFee)
      /\ pay' = [due |-> Tail(pay.due), nonce |-> pay.nonce + 1]
      /\ BeginSave(me, ledger', "payout")
  BY DEF SettlePayout, node, faults
<1>2. /\ pay \in [due: Seq(Dues), nonce: Nat] /\ Due(pay.due, ledger)
      /\ pay.due # <<>> /\ Owed > PayoutFee
      /\ task \in [Task -> Tasks] /\ received \in [Miner -> Nat]
  BY <1>1 DEF PoolInv, PoolTypeOK, PayInv
<1>3. ledger \in Ledgers /\ Balanced(ledger) /\ GoodLedger(ledger, crashes)
  BY DEF PoolInv, LedgersInv, GoodLedger
<1>4. /\ Tail(pay.due) \in Seq(Dues) /\ Due(Tail(pay.due), ledger)
      /\ Head(pay.due) \in Dues /\ Owed <= ledger.credits[Payee]
      /\ \A i \in DOMAIN Tail(pay.due) : Tail(pay.due)[i].to # Payee
  BY <1>2, RestIsDue DEF Owed, Payee
<1>5. Payee \in Miner /\ Owed \in Nat /\ Owed - PayoutFee \in Nat
  BY <1>2, <1>4, PoolLedgerAssumption DEF Payee, Owed, Dues
<1>6. /\ ledger' \in Ledgers /\ Balanced(ledger')
      /\ ledger'.last_scanned_height = ledger.last_scanned_height
      /\ ledger'.times = ledger.times
      /\ ledger'.paid = [ledger.paid EXCEPT ![Payee] = @ + (Owed - PayoutFee)]
      /\ \A m \in Miner \ {Payee} : ledger'.credits[m] = ledger.credits[m]
  <2> DEFINE m == Payee
             credit == Owed
  <2>1. /\ m \in Miner /\ credit \in Nat /\ credit <= ledger.credits[m]
        /\ credit > PayoutFee /\ ledger' = RecordPayout(m, credit, credit - PayoutFee)
    BY <1>1, <1>2, <1>4, <1>5
  <2> HIDE DEF m, credit
  <2>2. /\ ledger' \in Ledgers /\ Balanced(ledger')
        /\ ledger'.last_scanned_height = ledger.last_scanned_height
        /\ ledger'.times = ledger.times
        /\ ledger'.paid = [ledger.paid EXCEPT ![m] = @ + (credit - PayoutFee)]
        /\ \A n \in Miner \ {m} : ledger'.credits[n] = ledger.credits[n]
    BY <1>3, <2>1, PayoutKeepsLedger
  <2> QED BY <2>2 DEF m, credit
<1>7. GoodLedger(ledger', crashes)
  BY <1>3, <1>6 DEF GoodLedger, SettledIsCredited, Recredits
<1>8. /\ task' \in [Task -> Tasks] /\ task'[me].at = "save"
      /\ task'[me].copy = ledger' /\ \A u \in Task \ {me} : task'[u] = task[u]
  <2>1. "payout" \in AfterSave
    BY DEF AfterSave
  <2> QED BY <1>1, <1>2, <1>6, <2>1, TaskSaves, TwoTasks
<1>9. PoolTypeOK'
  <2>1. pay' \in [due: Seq(Dues), nonce: Nat]
    BY <1>1, <1>2, <1>4
  <2> QED BY <1>1, <1>8, <2>1 DEF PoolInv, PoolTypeOK
<1>10. LedgersInv'
  <2>1. Saved(task'[me], crashes)
    BY <1>7, <1>8 DEF Saved
  <2> QED BY <1>1, <1>7, <1>8, <2>1, LedgersStay, TwoTasks DEF PoolInv
<1>11. ScanInv'
  BY <1>1, <1>6, <1>8, ScannerStays, TwoTasks DEF PoolInv
<1>12. PayInv'
  <2> DEFINE rest == Tail(pay.due)
  <2>1. pay'.due = rest
    BY <1>1
  <2>2. \A i \in DOMAIN rest : rest[i].to \in Miner \ {Payee}
    <3>1. \A i \in DOMAIN rest : rest[i] \in Dues
      <4>1. rest \in Seq(Dues)
        BY <1>4
      <4> HIDE DEF rest
      <4> QED BY <4>1
    <3> QED BY <1>4, <3>1 DEF Dues
  <2>3. Due(rest, ledger)
    BY <1>4
  <2> HIDE DEF rest
  <2>4. Due(rest, ledger')
    BY <1>6, <2>2, <2>3 DEF Due
  <2> QED BY <1>8, <2>1, <2>4 DEF PayInv, At
<1>13. PaidInv'
  <2> SUFFICES ASSUME crashes' = 0, NEW m \in Miner
               PROVE  received'[m] + Coming(mempool', m)
                        <= ledger'.paid[m] + InFlight(m)' + unheard'[m]
    BY DEF PaidInv
  <2>1. crashes = 0
    BY <1>1
  <2>2. received[m] + Coming(mempool, m) <= ledger.paid[m] + InFlight(m) + unheard[m]
    BY <2>1 DEF PoolInv, PaidInv
  <2>3. InFlight(m) = IF Payee = m THEN Owed - PayoutFee ELSE 0
    BY <1>1 DEF InFlight
  <2>4. InFlight(m)' = 0
    BY <1>8 DEF InFlight, At
  <2>5. ledger.paid \in [Miner -> Nat]
    BY <1>3 DEF Ledgers
  <2>6. ledger'.paid[m] = ledger.paid[m] + InFlight(m)
    <3> DEFINE paid == ledger.paid
               got == Owed - PayoutFee
    <3>1. paid \in [Miner -> Nat] /\ got \in Nat
          /\ ledger'.paid = [paid EXCEPT ![Payee] = @ + got]
          /\ InFlight(m) = IF Payee = m THEN got ELSE 0
      BY <1>5, <1>6, <2>3, <2>5
    <3> HIDE DEF paid, got
    <3>2. ledger'.paid[m] = paid[m] + InFlight(m)
      BY <3>1, <1>5
    <3> QED BY <3>2 DEF paid
  <2>7. ledger.paid[m] + InFlight(m) \in Nat /\ unheard[m] \in Nat
    BY <2>3, <2>5, <1>5 DEF PoolInv, PoolTypeOK
  <2> QED BY <1>1, <2>2, <2>4, <2>6, <2>7
<1> QED BY <1>9, <1>10, <1>11, <1>12, <1>13 DEF PoolInv

-----------------------------------------------------------------------------
(* Saves, the node and restarts keep the invariant *)

LEMMA SaveKeeps == \A t \in Task : PoolInv /\ save(t) => PoolInv'
<1> SUFFICES ASSUME NEW t \in Task, PoolInv, save(t) PROVE PoolInv'
  OBVIOUS
<1>1. /\ UNCHANGED <<ledger, scan, pay, nonce, mempool, received, crashes, lost_replies,
                     unheard>>
      /\ task[t].at = "save" /\ disk' = task[t].copy
      /\ task' = [task EXCEPT ![t] =
                    [at |-> @.then, copy |-> NoCopy, then |-> "idle"]]
      /\ task \in [Task -> Tasks]
  BY DEF save, At, node, faults, PoolInv, PoolTypeOK
<1>2. task[t].then \in AfterSave
  BY <1>1 DEF Tasks
<1> DEFINE saved == [at |-> task[t].then, copy |-> NoCopy, then |-> "idle"]
<1>3. /\ saved \in Tasks /\ saved.at = task[t].then
      /\ saved.at # "save" /\ saved.at # "reply"
  BY <1>2 DEF Tasks, AfterSave, Places
<1>4. /\ task' \in [Task -> Tasks] /\ task'[t] = saved
      /\ \A u \in Task \ {t} : task'[u] = task[u]
  BY <1>1, <1>3
<1> HIDE DEF saved
<1>5. \A u \in Task : Place(task'[u]) = Place(task[u])
  BY <1>1, <1>3, <1>4 DEF Place
<1>6. PoolTypeOK'
  BY <1>1, <1>4 DEF PoolInv, PoolTypeOK
<1>7. LedgersInv'
  <2>1. GoodLedger(disk', crashes)
    BY <1>1 DEF PoolInv, LedgersInv, Saved
  <2>2. \A u \in Task : Saved(task'[u], crashes)
    BY <1>3, <1>4 DEF PoolInv, LedgersInv, Saved
  <2> QED BY <1>1, <2>1, <2>2 DEF PoolInv, LedgersInv
<1>8. ScanInv'
  BY <1>1, <1>5, TwoTasks DEF PoolInv, ScanInv
<1>9. \/ task'["pay_miners"] = task["pay_miners"]
      \/ ~At("pay_miners", "reply") /\ ~At("pay_miners", "reply")'
  BY <1>1, <1>3, <1>4, TwoTasks DEF At
<1>10. PayInv'
  BY <1>1, <1>9 DEF PoolInv, PayInv, At, Owed
<1>11. PaidInv'
  BY <1>1, <1>9, FlightStays, NoFlight, PaidStays DEF PoolInv
<1> QED BY <1>6, <1>7, <1>8, <1>10, <1>11 DEF PoolInv

LEMMA MinePayoutKeeps == PoolInv /\ MinePayout => PoolInv'
<1> SUFFICES ASSUME PoolInv, MinePayout PROVE PoolInv'
  OBVIOUS
<1>1. PICK tx \in mempool :
        /\ tx.nonce = nonce /\ nonce' = nonce + 1
        /\ received' = [received EXCEPT ![tx.to] = @ + tx.amount]
        /\ mempool' = {t \in mempool : t.nonce > nonce}
        /\ UNCHANGED <<ledger, scan, pay, task, disk, crashes, lost_replies, unheard>>
  BY DEF MinePayout, faults
<1>2. /\ mempool \subseteq Payouts /\ IsFiniteSet(mempool)
      /\ received \in [Miner -> Nat] /\ nonce \in Nat
  BY DEF PoolInv, PoolTypeOK
<1>3. tx.to \in Miner /\ tx.amount \in Nat
  BY <1>2 DEF Payouts
<1>4. mempool' \subseteq mempool \ {tx}
  BY <1>1, <1>2
<1>5. received' \in [Miner -> Nat]
      /\ \A m \in Miner :
           received'[m] = received[m] + (IF tx.to = m THEN tx.amount ELSE 0)
  BY <1>1, <1>2, <1>3
<1>6. PoolTypeOK'
  <2>1. mempool' \subseteq mempool
    BY <1>4
  <2>2. IsFiniteSet(mempool')
    BY <1>2, <2>1, FS_Subset
  <2>3. mempool' \subseteq Payouts
    BY <1>2, <2>1
  <2> QED BY <1>1, <1>2, <1>5, <2>2, <2>3 DEF PoolInv, PoolTypeOK
<1>7. LedgersInv' /\ ScanInv' /\ PayInv'
  <2>1. LedgersInv'
    BY <1>1 DEF PoolInv, LedgersInv
  <2>2. ScanInv'
    BY <1>1 DEF PoolInv, ScanInv
  <2>3. PayInv'
    BY <1>1 DEF PoolInv, PayInv, At, Owed
  <2> QED BY <2>1, <2>2, <2>3
<1>8. PaidInv'
  <2> SUFFICES ASSUME crashes' = 0, NEW m \in Miner
               PROVE  received'[m] + Coming(mempool', m)
                        <= ledger'.paid[m] + InFlight(m)' + unheard'[m]
    BY DEF PaidInv
  <2>1. crashes = 0
    BY <1>1
  <2>2. received[m] + Coming(mempool, m) <= ledger.paid[m] + InFlight(m) + unheard[m]
    BY <2>1 DEF PoolInv, PaidInv
  <2>3. InFlight(m)' = InFlight(m)
    BY <1>1, FlightStays
  <2>4. /\ Coming(mempool', m) \in Nat
        /\ Coming(mempool', m) + (IF tx.to = m THEN tx.amount ELSE 0)
             <= Coming(mempool, m)
    BY <1>2, <1>4, ComingLeaves
  <2>5. Coming(mempool, m) \in Nat
    <3>1. tx \in Payouts
      BY <1>2
    <3> QED BY <1>2, <3>1, ComingAdds
  <2> DEFINE got == IF tx.to = m THEN tx.amount ELSE 0
  <2>6. got \in Nat /\ received[m] \in Nat /\ received'[m] = received[m] + got
        /\ Coming(mempool', m) + got <= Coming(mempool, m)
    BY <1>2, <1>3, <1>5, <2>4
  <2> HIDE DEF got
  <2> DEFINE bound == ledger.paid[m] + InFlight(m) + unheard[m]
  <2>7. bound \in Int
    <3>1. ledger.paid[m] \in Nat /\ unheard[m] \in Nat
      BY DEF PoolInv, PoolTypeOK, LedgersInv, GoodLedger, Ledgers
    <3>2. InFlight(m) \in Int
      <4>1. At("pay_miners", "reply") => Owed \in Nat
        <5>1. ASSUME At("pay_miners", "reply")
              PROVE  Owed \in Nat
          <6>1. pay.due \in Seq(Dues) /\ pay.due # <<>> /\ Due(pay.due, ledger)
            BY <5>1 DEF PoolInv, PoolTypeOK, PayInv
          <6>2. Head(pay.due) \in Dues
            BY <6>1, RestIsDue
          <6> QED BY <6>2 DEF Owed, Dues
        <5> QED BY <5>1
      <4> QED BY <4>1, PoolLedgerAssumption DEF InFlight
    <3> QED BY <3>1, <3>2
  <2>8. ledger'.paid[m] + InFlight(m)' + unheard'[m] = bound
    BY <1>1, <2>3
  <2>9. received[m] + Coming(mempool, m) <= bound
    BY <2>2
  <2> HIDE DEF bound
  <2> QED BY <2>4, <2>5, <2>6, <2>7, <2>8, <2>9
<1> QED BY <1>6, <1>7, <1>8 DEF PoolInv

\* The empty ledger is in order, however often the pool has crashed.
LEMMA EmptyLedgerIsGood ==
  ASSUME NEW n \in Nat
  PROVE  /\ GoodLedger(EmptyLedger, n) /\ EmptyLedger.last_scanned_height = 0
         /\ Recredits(EmptyLedger) = 0 /\ Ahead(EmptyLedger) = 0
<1>1. EmptyLedger \in Ledgers
  BY DEF EmptyLedger, Ledgers, Zero
<1>2. Balanced(EmptyLedger)
  <2>1. /\ Total(EmptyLedger.gross) = 0 /\ Total(EmptyLedger.credits) = 0
        /\ Total(EmptyLedger.paid) = 0
    BY PoolLedgerAssumption, HeightsAreFinite, TotalOfNothing DEF EmptyLedger, Zero
  <2>2. EmptyLedger.payments = 0 /\ EmptyLedger.fees_earned = 0 /\ PayoutFee \in Nat
    BY PoolLedgerAssumption DEF EmptyLedger
  <2> QED BY <2>1, <2>2 DEF Balanced
<1>3. SettledIsCredited(EmptyLedger)
  <2>1. \A h \in Settled : h \in Nat /\ h >= 1
    BY PoolLedgerAssumption
  <2> QED BY <2>1 DEF SettledIsCredited, EmptyLedger
<1>4. \A h \in 1 .. MaxHeight : EmptyLedger.times[h] = 0
  BY DEF EmptyLedger
<1>5. Recredits(EmptyLedger) = 0
  <2> DEFINE H == 1 .. MaxHeight
             f == [h \in H |-> Minus(EmptyLedger.times[h], 1)]
  <2>1. f = [h \in H |-> 0]
    BY <1>4 DEF Minus
  <2>2. IsFiniteSet(H)
    BY HeightsAreFinite
  <2>3. Total([h \in H |-> 0]) = 0
    <3> HIDE DEF H
    <3> QED BY <2>2, TotalOfNothing
  <2> QED BY <2>1, <2>3 DEF Recredits
<1>6. Ahead(EmptyLedger) = 0
  BY <1>4 DEF Ahead
<1> QED BY <1>1, <1>2, <1>3, <1>4, <1>5, <1>6 DEF GoodLedger, EmptyLedger

\* A pool that has just started: nothing runs, nobody is due.
LEMMA FreshTasks ==
  /\ [t \in Task |-> Quiet] \in [Task -> Tasks]
  /\ Quiet.at = "idle" /\ Place(Quiet) = "idle"
  /\ [reward |-> 0, height |-> 0, tip |-> 0] \in [reward: Nat, height: Nat, tip: 0 .. MaxHeight]
  /\ NotPaying \in [due: Seq(Dues), nonce: Nat] /\ NotPaying.due = <<>>
<1>1. Quiet \in Tasks /\ Quiet.at = "idle" /\ Place(Quiet) = "idle"
  BY DEF Quiet, Tasks, Places, AfterSave, Place
<1>2. 0 \in 0 .. MaxHeight
  BY PoolLedgerAssumption
<1>3. <<>> \in Seq(Dues)
  OBVIOUS
<1> QED BY <1>1, <1>2, <1>3 DEF NotPaying

LEMMA CrashKeeps == PoolInv /\ CrashAndRestart => PoolInv'
<1> SUFFICES ASSUME PoolInv, CrashAndRestart PROVE PoolInv'
  OBVIOUS
<1>1. /\ crashes' = crashes + 1
      /\ ledger' = IF disk = NoFile THEN EmptyLedger ELSE disk
      /\ scan' = [reward |-> 0, height |-> 0, tip |-> 0] /\ pay' = NotPaying
      /\ task' = [t \in Task |-> Quiet]
      /\ UNCHANGED <<disk, nonce, mempool, received, lost_replies, unheard>>
      /\ crashes \in Nat
  BY DEF CrashAndRestart, node, PoolInv, PoolTypeOK
<1>2. ASSUME NEW led, GoodLedger(led, crashes)
      PROVE  GoodLedger(led, crashes + 1) /\ Recredits(led) + Ahead(led) <= crashes + 1
  <2>1. Recredits(led) \in Nat /\ Ahead(led) \in {0, 1} /\ Recredits(led) <= crashes
    BY <1>2, RecreditsIsNat DEF GoodLedger
  <2>2. Recredits(led) <= crashes + 1
    BY <1>1, <2>1
  <2>3. GoodLedger(led, crashes + 1)
    BY <1>2, <2>2 DEF GoodLedger
  <2> QED BY <1>1, <2>1, <2>3
<1>3. GoodLedger(ledger', crashes + 1) /\ Recredits(ledger') + Ahead(ledger') <= crashes + 1
  <2>1. CASE disk = NoFile
    BY <1>1, <2>1, EmptyLedgerIsGood
  <2>2. CASE disk # NoFile
    <3>1. GoodLedger(disk, crashes)
      BY <2>2 DEF PoolInv, LedgersInv
    <3> QED BY <1>1, <1>2, <2>2, <3>1
  <2> QED BY <2>1, <2>2
<1>4. \A t \in Task : task'[t] = Quiet
  BY <1>1
<1>5. PoolTypeOK'
  <2>1. /\ scan' \in [reward: Nat, height: Nat, tip: 0 .. MaxHeight]
        /\ pay' \in [due: Seq(Dues), nonce: Nat] /\ task' \in [Task -> Tasks]
    BY <1>1, FreshTasks
  <2>2. crashes' \in Nat
    BY <1>1
  <2> QED BY <1>1, <2>1, <2>2 DEF PoolInv, PoolTypeOK
<1>6. LedgersInv'
  <2>1. \A t \in Task : Saved(task'[t], crashes')
    BY <1>4, FreshTasks DEF Saved
  <2>2. disk' # NoFile => GoodLedger(disk', crashes')
    BY <1>1, <1>2 DEF PoolInv, LedgersInv
  <2> QED BY <1>1, <1>3, <2>1, <2>2 DEF LedgersInv
<1>7. ScanInv'
  <2>1. Place(task'["account_rewards"]) = "idle"
    BY <1>4, FreshTasks, TwoTasks
  <2> QED BY <1>1, <1>3, <2>1 DEF ScanInv, Scanning
<1>8. PayInv'
  <2>1. task'["pay_miners"].at = "idle" /\ pay'.due = <<>>
    BY <1>1, <1>4, FreshTasks, TwoTasks
  <2> QED BY <2>1, NobodyIsDue DEF PayInv, At
<1>9. PaidInv'
  <2>1. crashes' # 0
    BY <1>1
  <2> QED BY <2>1 DEF PaidInv
<1> QED BY <1>5, <1>6, <1>7, <1>8, <1>9 DEF PoolInv

LEMMA PoolInitEstablishesInvariant == Init => PoolInv
<1> SUFFICES ASSUME Init PROVE PoolInv
  OBVIOUS
<1>1. /\ ledger = EmptyLedger /\ scan = [reward |-> 0, height |-> 0, tip |-> 0]
      /\ pay = NotPaying /\ task = [t \in Task |-> Quiet] /\ disk = NoFile
      /\ nonce = 0 /\ mempool = {} /\ received = Zero
      /\ crashes = 0 /\ lost_replies = 0 /\ unheard = Zero
  BY DEF Init
<1>2. \A t \in Task : task[t] = Quiet
  BY <1>1
<1>3. /\ GoodLedger(ledger, crashes)
      /\ Recredits(ledger) = 0 /\ Ahead(ledger) = 0
      /\ ledger.paid = Zero
  <2>1. ledger.paid = Zero
    BY <1>1 DEF EmptyLedger
  <2> QED BY <1>1, <2>1, EmptyLedgerIsGood
<1>4. PoolTypeOK
  <2>1. received \in [Miner -> Nat] /\ unheard \in [Miner -> Nat]
    BY <1>1 DEF Zero
  <2>2. mempool \subseteq Payouts /\ IsFiniteSet(mempool)
    BY <1>1, FS_EmptySet
  <2>3. /\ scan \in [reward: Nat, height: Nat, tip: 0 .. MaxHeight]
        /\ pay \in [due: Seq(Dues), nonce: Nat] /\ task \in [Task -> Tasks]
    BY <1>1, FreshTasks
  <2> QED BY <1>1, <2>1, <2>2, <2>3 DEF PoolTypeOK
<1>5. LedgersInv
  BY <1>1, <1>2, <1>3, FreshTasks DEF LedgersInv, Saved
<1>6. ScanInv
  <2>1. Place(task["account_rewards"]) = "idle"
    BY <1>2, FreshTasks, TwoTasks
  <2>2. Recredits(ledger) + Ahead(ledger) <= crashes
    BY <1>1, <1>3
  <2> QED BY <2>1, <2>2 DEF ScanInv, Scanning
<1>7. ~At("pay_miners", "reply")
  BY <1>2, FreshTasks, TwoTasks DEF At
<1>8. PayInv
  BY <1>1, <1>7, FreshTasks, NobodyIsDue DEF PayInv
<1>9. PaidInv
  <2> SUFFICES ASSUME NEW m \in Miner
               PROVE  received[m] + Coming(mempool, m)
                        <= ledger.paid[m] + InFlight(m) + unheard[m]
    BY DEF PaidInv
  <2>1. received[m] = 0 /\ ledger.paid[m] = 0 /\ InFlight(m) = 0 /\ unheard[m] = 0
    BY <1>1, <1>3, <1>7 DEF Zero, InFlight
  <2>2. Coming(mempool, m) = 0
    <3>1. OnTheirWay({}, m) = {}
      BY DEF OnTheirWay
    <3> DEFINE f == [t \in {} |-> t.amount]
    <3>2. Counts(f, {}) /\ DOMAIN f = {} /\ IsFiniteSet({})
      BY FS_EmptySet DEF Counts
    <3> HIDE DEF f
    <3>3. SumFunction(f) = 0
      BY <3>2, SumType DEF SumFunction
    <3> QED BY <1>1, <3>1, <3>3 DEF Coming, f
  <2> QED BY <2>1, <2>2
<1> QED BY <1>4, <1>5, <1>6, <1>8, <1>9 DEF PoolInv

LEMMA PoolStepKeepsInvariant == PoolInv /\ [Next]_vars => PoolInv'
<1> SUFFICES ASSUME PoolInv, [Next]_vars PROVE PoolInv'
  OBVIOUS
<1>1. CASE account_rewards
  BY <1>1, StartScanKeeps, CreditBlockKeeps, AdvanceScanKeeps, FinishScanKeeps
     DEF account_rewards
<1>2. CASE pay_miners
  BY <1>2, BeginRoundKeeps, ReadNonceKeeps, SendPayoutKeeps, SkipPayeeKeeps,
     SettlePayoutKeeps, LosePayoutReplyKeeps, EndRoundKeeps DEF pay_miners
<1>3. CASE \E t \in Task : save(t)
  BY <1>3, SaveKeeps
<1>4. CASE MinePayout
  BY <1>4, MinePayoutKeeps
<1>5. CASE CrashAndRestart
  BY <1>5, CrashKeeps
<1>6. CASE UNCHANGED vars
  <2>1. UNCHANGED <<ledger, scan, pay, task, disk, nonce, mempool, received,
                    crashes, lost_replies, unheard>>
    BY <1>6 DEF vars
  <2>2. PoolTypeOK'
    BY <2>1 DEF PoolInv, PoolTypeOK
  <2>3. LedgersInv' /\ ScanInv'
    BY <2>1 DEF PoolInv, LedgersInv, ScanInv
  <2>4. PayInv'
    BY <2>1 DEF PoolInv, PayInv, At, Owed
  <2>5. PaidInv'
    BY <2>1, PaidStays, FlightStays DEF PoolInv
  <2> QED BY <2>2, <2>3, <2>4, <2>5 DEF PoolInv
<1> QED BY <1>1, <1>2, <1>3, <1>4, <1>5, <1>6 DEF Next

-----------------------------------------------------------------------------
(* Theorems *)

\* The ledger in memory, in the file and in the copies being saved is in order
\* at every step of the two tasks, and after every crash.
THEOREM PoolInvariant == Spec => []PoolInv
  BY PoolInitEstablishesInvariant, PoolStepKeepsInvariant, PTL DEF Spec

\* Every acog credited for a block (credit_block) is owed, paid, a payout fee
\* or the operator's (pay_miners), whatever the two tasks do side by side.
THEOREM PoolLedgerBalances == Spec => []LedgerBalances
<1>1. PoolInv => LedgerBalances
  BY DEF PoolInv, LedgersInv, GoodLedger, Balanced, LedgerBalances
<1> QED BY <1>1, PoolInvariant, PTL

\* A block of the pool behind last_scanned_height has been credited, in memory
\* and in the file a restart reads (account_rewards, save).
THEOREM NoBlockIsSkipped == Spec => []NothingIsSkipped
<1>1. PoolInv => NothingIsSkipped
  BY DEF PoolInv, LedgersInv, GoodLedger, NothingIsSkipped
<1> QED BY <1>1, PoolInvariant, PTL

\* After n crashes the pool has credited blocks that had been credited before at
\* most n times in all, and a pool that never crashed none: a block credited ahead
\* of the last_scanned_height of a file is the only one the scan can repeat
\* (account_rewards, save, whatever the copies overtake).
THEOREM OneRecreditPerCrash == Spec => []RecreditsAreBounded
<1>1. PoolInv => RecreditsAreBounded
  BY DEF PoolInv, LedgersInv, GoodLedger, RecreditsAreBounded
<1> QED BY <1>1, PoolInvariant, PTL

\* No miner receives more on the chain than the ledger says it was paid, the
\* payout in flight and the payouts with a lost reply included, as long as no
\* crash takes the ledger back (pay_miners).
THEOREM PoolNeverOverpays == Spec => []NeverOverpays
<1>1. PoolInv => NeverOverpays
  <2> SUFFICES ASSUME PoolInv, crashes = 0, NEW m \in Miner
               PROVE  received[m] <= ledger.paid[m] + InFlight(m) + unheard[m]
    BY DEF NeverOverpays
  <2>1. received[m] + Coming(mempool, m) <= ledger.paid[m] + InFlight(m) + unheard[m]
    BY DEF PoolInv, PaidInv
  <2>2. Coming(mempool, m) \in Nat
    <3>1. mempool \subseteq Payouts /\ IsFiniteSet(mempool)
      BY DEF PoolInv, PoolTypeOK
    <3>2. [to |-> m, amount |-> 0, nonce |-> 0] \in Payouts
      BY DEF Payouts
    <3> QED BY <3>1, <3>2, ComingAdds
  <2>3. received[m] \in Nat /\ ledger.paid[m] \in Nat /\ unheard[m] \in Nat
    BY DEF PoolInv, PoolTypeOK, LedgersInv, GoodLedger, Ledgers
  <2>4. InFlight(m) \in Int
    <3>1. ASSUME At("pay_miners", "reply")
          PROVE  Owed \in Nat
      <4>1. pay.due \in Seq(Dues) /\ pay.due # <<>> /\ Due(pay.due, ledger)
        BY <3>1 DEF PoolInv, PoolTypeOK, PayInv
      <4>2. Head(pay.due) \in Dues
        BY <4>1, RestIsDue
      <4> QED BY <4>2 DEF Owed, Dues
    <3> QED BY <3>1, PoolLedgerAssumption DEF InFlight
  <2> QED BY <2>1, <2>2, <2>3, <2>4
<1> QED BY <1>1, PoolInvariant, PTL
=============================================================================
