--------------------------- MODULE MempoolProofs ---------------------------
(***************************************************************************)
(* What the pool of a node promises, for all parameters: the batch that it *)
(* selects can be executed, and nothing that is on the chain stays in it.  *)
(***************************************************************************)
EXTENDS Mempool, TransfersProofs

-----------------------------------------------------------------------------
(* The order of the candidates *)

LEMMA BeforeIsTotal ==
  ASSUME NEW s \in Tx, NEW t \in Tx, s # t
  PROVE  Before(s, t) \/ Before(t, s)
<1>1. s.fee \in Nat /\ s.nonce \in Nat /\ t.fee \in Nat /\ t.nonce \in Nat
  BY TxType
<1>2. hash[s] \in Nat /\ hash[t] \in Nat /\ hash[s] # hash[t]
  BY MempoolAssumption
<1> QED
  BY <1>1, <1>2 DEF Before

LEMMA BeforeIsTransitive ==
  ASSUME NEW r \in Tx, NEW s \in Tx, NEW t \in Tx, Before(r, s), Before(s, t)
  PROVE  Before(r, t)
<1>1. /\ r.fee \in Nat /\ s.fee \in Nat /\ t.fee \in Nat
      /\ r.nonce \in Nat /\ s.nonce \in Nat /\ t.nonce \in Nat
  BY TxType
<1>2. hash[r] \in Nat /\ hash[s] \in Nat /\ hash[t] \in Nat
  BY MempoolAssumption
<1> QED
  BY <1>1, <1>2 DEF Before

\* A finite set of transactions has one that comes after the others.
LEMMA LastCandidate ==
  ASSUME NEW U \in SUBSET Tx, IsFiniteSet(U), U # {}
  PROVE  \E m \in U : \A t \in U \ {m} : Before(t, m)
<1> DEFINE HasLast(T) == \E m \in T : \A t \in T \ {m} : Before(t, m)
           Bad == {T \in SUBSET U : T # {} /\ ~HasLast(T)}
<1> SUFFICES ASSUME Bad # {} PROVE FALSE
  OBVIOUS
<1>1. PICK T \in Bad : \A V \in Bad : V \subseteq T => V = T
  <2>1. Bad \in SUBSET (SUBSET U)
    OBVIOUS
  <2> HIDE DEF Bad
  <2> QED BY <2>1, MinimalSubset
<1>2. T \in SUBSET Tx /\ T # {} /\ ~HasLast(T)
  OBVIOUS
<1>3. PICK x \in T : TRUE
  BY <1>2
<1>4. CASE T \ {x} = {}
  BY <1>2, <1>4
<1>5. CASE T \ {x} # {}
  <2>1. HasLast(T \ {x})
    <3> HIDE DEF HasLast
    <3>1. T \ {x} \notin Bad /\ T \ {x} \in SUBSET U
      BY <1>1, <1>2
    <3> QED BY <1>5, <3>1
  <2>2. PICK m \in T \ {x} : \A t \in (T \ {x}) \ {m} : Before(t, m)
    BY <2>1
  <2>3. x \in Tx /\ m \in Tx /\ x # m
    BY <1>2
  <2>4. CASE Before(x, m)
    <3>1. \A t \in T \ {m} : Before(t, m)
      BY <2>2, <2>4
    <3> QED BY <1>2, <3>1
  <2>5. CASE Before(m, x)
    <3>1. \A t \in T \ {x} : Before(t, x)
      BY <1>2, <2>2, <2>3, <2>5, BeforeIsTransitive
    <3> QED BY <1>2, <3>1
  <2> QED BY <2>3, <2>4, <2>5, BeforeIsTotal
<1> QED
  BY <1>4, <1>5

Ordered(list) == \A i, j \in DOMAIN list : i < j => Before(list[i], list[j])

\* A finite set of transactions can be listed in order.
LEMMA OrderedListing ==
  ASSUME NEW U \in SUBSET Tx, IsFiniteSet(U)
  PROVE  \E list \in SetToSeqs(U) : Ordered(list)
<1> DEFINE Listed(T) == \E list \in SetToSeqs(T) : Ordered(list)
           Bad == {T \in SUBSET U : ~Listed(T)}
<1> SUFFICES ASSUME Bad # {} PROVE FALSE
  OBVIOUS
<1>1. PICK T \in Bad : \A V \in Bad : V \subseteq T => V = T
  <2>1. Bad \in SUBSET (SUBSET U)
    OBVIOUS
  <2> HIDE DEF Bad
  <2> QED BY <2>1, MinimalSubset
<1>2. T \in SUBSET U /\ ~Listed(T) /\ T \in SUBSET Tx
  OBVIOUS
<1>3. IsFiniteSet(T)
  BY <1>2, FS_Subset
<1>4. CASE T = {}
  <2>1. Cardinality(T) = 0
    BY <1>4, FS_EmptySet
  <2>2. <<>> \in SetToSeqs(T)
    BY <2>1 DEF SetToSeqs
  <2>3. Ordered(<<>>)
    BY DEF Ordered
  <2> QED BY <1>2, <2>2, <2>3
<1>5. CASE T # {}
  <2>1. PICK m \in T : \A t \in T \ {m} : Before(t, m)
    BY <1>2, <1>3, <1>5, LastCandidate
  <2>2. Listed(T \ {m})
    BY <1>1, <2>1
  <2>3. PICK list \in SetToSeqs(T \ {m}) : Ordered(list)
    BY <2>2
  <2> DEFINE n == Cardinality(T \ {m})
             longer == [i \in 1 .. n + 1 |-> IF i = n + 1 THEN m ELSE list[i]]
  <2>4. n \in Nat /\ Cardinality(T) = n + 1
    <3>1. IsFiniteSet(T \ {m}) /\ Cardinality(T \ {m}) = Cardinality(T) - 1
      BY <1>3, <2>1, FS_RemoveElement
    <3>2. Cardinality(T) \in Nat /\ Cardinality(T \ {m}) \in Nat
      BY <1>3, <3>1, FS_CardinalityType
    <3> QED BY <3>1, <3>2
  <2>5. /\ list \in [1 .. n -> T \ {m}]
        /\ \A i, j \in 1 .. n : i # j => list[i] # list[j]
    BY <2>3 DEF SetToSeqs
  <2>6. \A i \in 1 .. n + 1 : i # n + 1 => i \in 1 .. n
    BY <2>4
  <2> HIDE DEF n
  <2>7. longer \in [1 .. n + 1 -> T]
    BY <2>5, <2>6
  <2>8. \A i, j \in 1 .. n + 1 : i # j => longer[i] # longer[j]
    <3> SUFFICES ASSUME NEW i \in 1 .. n + 1, NEW j \in 1 .. n + 1, i # j
                 PROVE  longer[i] # longer[j]
      OBVIOUS
    <3>1. CASE i = n + 1
      BY <2>5, <2>6, <3>1
    <3>2. CASE j = n + 1
      BY <2>5, <2>6, <3>2
    <3>3. CASE i # n + 1 /\ j # n + 1
      BY <2>5, <2>6, <3>3
    <3> QED BY <3>1, <3>2, <3>3
  <2>9. longer \in SetToSeqs(T)
    <3> HIDE DEF longer
    <3> QED BY <2>4, <2>7, <2>8 DEF SetToSeqs
  <2>10. Ordered(longer)
    <3> SUFFICES ASSUME NEW i \in 1 .. n + 1, NEW j \in 1 .. n + 1, i < j
                 PROVE  Before(longer[i], longer[j])
      BY DEF Ordered
    <3>1. i \in 1 .. n /\ longer[i] = list[i]
      BY <2>4
    <3>2. CASE j = n + 1
      <4>1. longer[j] = m /\ list[i] \in T \ {m}
        BY <2>5, <3>1, <3>2
      <4> QED BY <2>1, <3>1, <4>1
    <3>3. CASE j # n + 1
      <4>1. j \in 1 .. n /\ longer[j] = list[j]
        BY <2>6, <3>3
      <4> QED BY <2>3, <2>5, <3>1, <4>1 DEF Ordered
    <3> QED BY <3>2, <3>3
  <2> HIDE DEF longer
  <2> QED BY <1>2, <2>9, <2>10
<1> QED
  BY <1>4, <1>5

\* So the candidates are the transactions of the pool, in order.
LEMMA CandidatesAreOrdered ==
  ASSUME txs \subseteq Tx, IsFiniteSet(txs)
  PROVE  /\ Candidates \in Seq(Tx)
         /\ Candidates \in SetToSeqs(txs)
         /\ Ordered(Candidates)
<1>1. \E list \in SetToSeqs(txs) : Ordered(list)
  BY OrderedListing
<1>2. Candidates \in SetToSeqs(txs) /\ Ordered(Candidates)
  BY <1>1 DEF Candidates, Ordered
<1>3. Cardinality(txs) \in Nat
  BY FS_CardinalityType
<1>4. Candidates \in [1 .. Cardinality(txs) -> Tx]
  BY <1>2 DEF SetToSeqs
<1> QED
  BY <1>2, <1>3, <1>4

-----------------------------------------------------------------------------
(* The batch of a node *)

PartialBatches == [chosen: Seq(Tx), next_nonce: [Address -> Nat], spent: [Address -> Nat]]

ChosenOf(list, a) == {i \in DOMAIN list : list[i].from = a}

\* What has been chosen can be executed, leaves every account with the nonce
\* that comes next, which counts the chosen ones of the sender, and takes no more
\* of it than is noted as spent.
Sound(choice) ==
  LET run == RunTransactions(accounts, choice.chosen)
  IN  /\ choice \in PartialBatches
      /\ Len(choice.chosen) <= MaxBlockTxs
      /\ run.ok
      /\ \A a \in Address :
           /\ run.accounts[a].nonce = choice.next_nonce[a]
           /\ run.accounts[a].balance + choice.spent[a] >= accounts[a].balance
           /\ accounts[a].nonce + Cardinality(ChosenOf(choice.chosen, a))
                = choice.next_nonce[a]

\* One more transaction is one more of its sender and of nobody else.
LEMMA OneMoreChosen ==
  ASSUME NEW list \in Seq(Tx), NEW t \in Tx, NEW a \in Address
  PROVE  /\ Cardinality(ChosenOf(list, a)) \in Nat
         /\ Cardinality(ChosenOf(Append(list, t), a))
              = Cardinality(ChosenOf(list, a)) + (IF t.from = a THEN 1 ELSE 0)
<1> DEFINE n == Len(list)
           longer == Append(list, t)
           S == ChosenOf(list, a)
<1>1. n \in Nat /\ DOMAIN list = 1 .. n
  BY LenProperties
<1>2. longer \in Seq(Tx) /\ Len(longer) = n + 1
  BY AppendProperties
<1>3. DOMAIN longer = 1 .. n + 1
  <2> HIDE DEF longer, n
  <2> QED BY <1>2, LenProperties
<1>4. longer[n + 1] = t /\ \A i \in 1 .. n : longer[i] = list[i]
  BY AppendProperties
<1>5. S \subseteq 1 .. n
  BY <1>1 DEF ChosenOf
<1>6. IsFiniteSet(1 .. n)
  <2> HIDE DEF n
  <2> QED BY <1>1, FS_Interval
<1>7. IsFiniteSet(S) /\ Cardinality(S) \in Nat
  <2> HIDE DEF S
  <2> QED BY <1>5, <1>6, FS_Subset, FS_CardinalityType
<1>8. ChosenOf(longer, a) = IF t.from = a THEN S \cup {n + 1} ELSE S
  <2> HIDE DEF longer, n
  <2>1. 1 .. n + 1 = (1 .. n) \cup {n + 1}
    BY <1>1
  <2> QED BY <1>1, <1>3, <1>4, <2>1 DEF ChosenOf
<1>9. n + 1 \notin S
  BY <1>1, <1>5
<1> HIDE DEF S, longer, n
<1>10. Cardinality(S \cup {n + 1}) = Cardinality(S) + 1
  BY <1>7, <1>9, FS_AddElement
<1> QED
  BY <1>7, <1>8, <1>10 DEF S, longer

SoundChoices == {choice \in PartialBatches : Sound(choice)}

LEMMA NothingChosenIsSound ==
  ASSUME accounts \in Accounts
  PROVE  NothingChosen \in SoundChoices
<1> DEFINE c == NothingChosen
<1>1. \A a \in Address : accounts[a].balance \in Nat /\ accounts[a].nonce \in Nat
  BY DEF Accounts, Account
<1>2. c \in PartialBatches /\ c.chosen = <<>>
  BY <1>1 DEF NothingChosen, PartialBatches
<1>3. Len(c.chosen) = 0 /\ 0 <= MaxBlockTxs
  BY <1>2, MempoolAssumption
<1>4. RunTransactions(accounts, <<>>) = Scratch(accounts)
  <2>1. Scratch(accounts) \in Runs /\ <<>> \in Seq(Tx) /\ Len(<<>>) = 0
    BY DEF Scratch, Runs
  <2>2. PICK run \in [0 .. Len(<<>>) -> Runs] :
          /\ run[0] = Scratch(accounts)
          /\ FoldLeft(apply_transaction, Scratch(accounts), <<>>) = run[Len(<<>>)]
    BY <2>1, TransactionsRunInOrder
  <2> QED BY <2>1, <2>2 DEF RunTransactions
<1>5. \A a \in Address : /\ c.next_nonce[a] = accounts[a].nonce
                         /\ c.spent[a] = 0
  BY DEF NothingChosen
<1>6. \A a \in Address : Cardinality(ChosenOf(<<>>, a)) = 0
  <2>1. \A a \in Address : ChosenOf(<<>>, a) = {}
    BY DEF ChosenOf
  <2> QED BY <2>1, FS_EmptySet
<1> HIDE DEF c
<1>7. Sound(c)
  BY <1>1, <1>2, <1>3, <1>4, <1>5, <1>6 DEF Sound, Scratch
<1> QED
  BY <1>2, <1>7 DEF SoundChoices, c

\* Considering a transaction keeps the choice sound.
LEMMA ConsiderKeepsSound ==
  ASSUME accounts \in Accounts, NEW c \in SoundChoices, NEW t \in Tx
  PROVE  Consider(c, t) \in SoundChoices
<1>1. c \in PartialBatches /\ Sound(c)
  BY DEF SoundChoices
<1>2. CASE ~Fits(c, t)
  BY <1>2 DEF Consider
<1>3. CASE Fits(c, t)
  <2> DEFINE next == Consider(c, t)
             run == RunTransactions(accounts, c.chosen)
             after == apply_transaction(run, t)
             list == Append(c.chosen, t)
             nonces == [c.next_nonce EXCEPT ![t.from] = @ + 1]
             spent == [c.spent EXCEPT ![t.from] = @ + t.amount + t.fee]
  <2>1. next = [chosen |-> list, next_nonce |-> nonces, spent |-> spent]
    BY <1>3 DEF Consider
  <2>2. /\ t.from \in Address /\ t.amount \in Nat /\ t.fee \in Nat /\ t.nonce \in Nat
    BY TxType
  <2>3. /\ c.chosen \in Seq(Tx) /\ c.next_nonce \in [Address -> Nat]
        /\ c.spent \in [Address -> Nat]
    BY <1>1 DEF PartialBatches
  <2>4. list \in Seq(Tx) /\ Len(list) = Len(c.chosen) + 1 /\ Len(c.chosen) \in Nat
    BY <2>3, AppendProperties, LenProperties
  <2>5. Len(list) <= MaxBlockTxs
    <3>1. Len(c.chosen) < MaxBlockTxs /\ MaxBlockTxs \in Nat
      BY <1>3, MempoolAssumption DEF Fits
    <3> HIDE DEF list
    <3> QED BY <2>4, <3>1
  <2>6. run \in Runs /\ RunTransactions(accounts, list) = after
    BY <2>3, TransactionAppended
  <2>7. /\ run.ok
        /\ \A a \in Address :
             /\ run.accounts[a].nonce = c.next_nonce[a]
             /\ run.accounts[a].balance + c.spent[a] >= accounts[a].balance
             /\ accounts[a].nonce + Cardinality(ChosenOf(c.chosen, a)) = c.next_nonce[a]
    BY <1>1 DEF Sound
  <2>8. \A a \in Address : /\ run.accounts[a].nonce \in Nat
                           /\ run.accounts[a].balance \in Nat
                           /\ accounts[a].balance \in Nat /\ accounts[a].nonce \in Nat
                           /\ c.spent[a] \in Nat /\ c.next_nonce[a] \in Nat
    BY <2>3, <2>6 DEF Runs, Accounts, Account
  <2>9. /\ t.nonce = c.next_nonce[t.from]
        /\ c.spent[t.from] + t.amount + t.fee <= accounts[t.from].balance
    BY <1>3 DEF Fits
  <2> HIDE DEF run
  <2>10. /\ t.nonce = run.accounts[t.from].nonce
         /\ t.amount + t.fee <= run.accounts[t.from].balance
    BY <2>2, <2>7, <2>8, <2>9
  <2>11. after.ok
    BY <2>7, <2>10 DEF apply_transaction
  <2> HIDE DEF after
  <2>12. /\ after \in Runs
         /\ after.accounts[t.from].balance
              = run.accounts[t.from].balance - (t.amount + t.fee)
         /\ after.accounts[t.from].nonce = t.nonce + 1
         /\ \A a \in Address \ {t.from} :
              /\ after.accounts[a].nonce = run.accounts[a].nonce
              /\ after.accounts[a].balance >= run.accounts[a].balance
    <3>1. after = apply_transaction(run, t)
      BY DEF after
    <3> QED BY <2>6, <2>11, <3>1, TransactionStep
  <2>13. /\ nonces[t.from] = c.next_nonce[t.from] + 1
         /\ spent[t.from] = c.spent[t.from] + t.amount + t.fee
         /\ \A a \in Address \ {t.from} :
              nonces[a] = c.next_nonce[a] /\ spent[a] = c.spent[a]
    BY <2>2, <2>3
  <2>14. nonces \in [Address -> Nat] /\ spent \in [Address -> Nat]
    BY <2>2, <2>3
  <2>15. \A a \in Address :
           /\ Cardinality(ChosenOf(c.chosen, a)) \in Nat
           /\ Cardinality(ChosenOf(list, a))
                = Cardinality(ChosenOf(c.chosen, a)) + (IF t.from = a THEN 1 ELSE 0)
    BY <2>3, OneMoreChosen
  <2> HIDE DEF nonces, spent, list
  <2>16. \A a \in Address : after.accounts[a].balance \in Nat
    BY <2>12 DEF Runs, Accounts, Account
  <2>17. ASSUME NEW a \in Address
         PROVE  /\ after.accounts[a].nonce = nonces[a]
                /\ after.accounts[a].balance + spent[a] >= accounts[a].balance
                /\ accounts[a].nonce + Cardinality(ChosenOf(list, a)) = nonces[a]
    <3>1. CASE a = t.from
      <4>1. /\ after.accounts[a].nonce = nonces[a]
            /\ after.accounts[a].balance + spent[a] >= accounts[a].balance
        BY <2>2, <2>7, <2>8, <2>9, <2>12, <2>13, <2>16, <3>1
      <4>2. accounts[a].nonce + Cardinality(ChosenOf(list, a)) = nonces[a]
        BY <2>7, <2>8, <2>13, <2>15, <3>1
      <4> QED BY <4>1, <4>2
    <3>2. CASE a # t.from
      <4>1. /\ after.accounts[a].nonce = nonces[a]
            /\ after.accounts[a].balance + spent[a] >= accounts[a].balance
        BY <2>7, <2>8, <2>12, <2>13, <2>16, <3>2
      <4>2. accounts[a].nonce + Cardinality(ChosenOf(list, a)) = nonces[a]
        BY <2>7, <2>8, <2>13, <2>15, <3>2
      <4> QED BY <4>1, <4>2
    <3> QED BY <3>1, <3>2
  <2>18. /\ next \in PartialBatches /\ next.chosen = list
         /\ next.next_nonce = nonces /\ next.spent = spent
    BY <2>1, <2>4, <2>14 DEF PartialBatches
  <2> HIDE DEF next
  <2>19. Sound(next)
    BY <2>5, <2>6, <2>11, <2>17, <2>18 DEF Sound
  <2> QED BY <2>18, <2>19 DEF SoundChoices, next
<1> QED
  BY <1>2, <1>3

\* The transactions of a list are considered one by one.
LEMMA ConsideredInOrder ==
  ASSUME accounts \in Accounts, NEW c \in SoundChoices, NEW list \in Seq(Tx)
  PROVE  \E run \in [0 .. Len(list) -> SoundChoices] :
           /\ run[0] = c
           /\ \A k \in 1 .. Len(list) : run[k] = Consider(run[k - 1], list[k])
           /\ FoldLeft(Consider, c, list) = run[Len(list)]
<1> DEFINE n == Len(list)
           step == [p \in (1 .. n) \X SoundChoices |-> Consider(p[2], list[p[1]])]
           Folds(it) == it = [s \in SUBSET (1 .. n) |->
                               IF s = {} THEN c
                               ELSE Consider(it[s \ {Max(s)}], list[Max(s)])]
           fold == CHOOSE it : Folds(it)
<1>1. n \in Nat /\ DOMAIN list = 1 .. n
  BY LenProperties
<1>2. \A k \in 1 .. n : list[k] \in Tx
  BY ElementOfSeq
<1>3. step \in [(1 .. n) \X SoundChoices -> SoundChoices]
  <2>1. \A p \in (1 .. n) \X SoundChoices : Consider(p[2], list[p[1]]) \in SoundChoices
    BY <1>2, ConsiderKeepsSound
  <2> QED BY <2>1
<1>4. PICK it \in [SUBSET (1 .. n) -> SoundChoices] : FoldsLeft(it, n, c, step)
  <2> HIDE DEF step, n
  <2> QED BY <1>1, <1>3, LeftFoldExists
<1>5. ASSUME NEW s \in SUBSET (1 .. n), s # {}
      PROVE  step[<<Max(s), it[s \ {Max(s)}]>>] = Consider(it[s \ {Max(s)}], list[Max(s)])
  <2>1. Max(s) \in 1 .. n
    <3> HIDE DEF n
    <3> QED BY <1>1, <1>5, LargestIndex
  <2>2. it[s \ {Max(s)}] \in SoundChoices
    OBVIOUS
  <2> QED BY <2>1, <2>2
<1>6. Folds(it)
  <2> HIDE DEF step
  <2> QED BY <1>4, <1>5 DEF FoldsLeft
<1>7. Folds(fold)
  <2> HIDE DEF Folds
  <2> QED BY <1>6
<1>8. FoldLeft(Consider, c, list) = fold[1 .. n]
  BY <1>1 DEF FoldLeft, MapThenFoldSet
<1> HIDE DEF fold
<1>9. fold[{}] = c
  BY <1>7
<1>10. \A k \in 1 .. n :
         fold[1 .. (k - 1)] \in SoundChoices =>
           fold[1 .. k] = step[<<k, fold[1 .. (k - 1)]>>]
  <2> SUFFICES ASSUME NEW k \in 1 .. n, fold[1 .. (k - 1)] \in SoundChoices
               PROVE  fold[1 .. k] = step[<<k, fold[1 .. (k - 1)]>>]
    OBVIOUS
  <2>1. /\ 1 .. k \in SUBSET (1 .. n) /\ 1 .. k # {}
        /\ Max(1 .. k) = k
        /\ (1 .. k) \ {k} = 1 .. (k - 1)
    <3> HIDE DEF n
    <3> QED BY <1>1, PrefixGrows
  <2>2. fold[1 .. k] = Consider(fold[1 .. (k - 1)], list[k])
    BY <1>7, <2>1
  <2> QED BY <2>2
<1>11. StepsThrough(fold, n, SoundChoices, c, step)
  BY <1>9, <1>10 DEF StepsThrough
<1>12. PICK run \in [0 .. n -> SoundChoices] : RunsTo(run, n, c, step, fold[1 .. n])
  <2> HIDE DEF step, n
  <2> QED BY <1>1, <1>3, <1>11, FoldRuns
<1>13. ASSUME NEW k \in 1 .. n
       PROVE  run[k] = Consider(run[k - 1], list[k])
  <2>1. k - 1 \in 0 .. n
    BY <1>1
  <2>2. run[k - 1] \in SoundChoices
    BY <2>1
  <2>3. run[k] = step[<<k, run[k - 1]>>]
    BY <1>12 DEF RunsTo
  <2> QED BY <2>2, <2>3
<1> QED
  BY <1>8, <1>12, <1>13 DEF RunsTo

LEMMA ConsiderAllKeepsSound ==
  ASSUME accounts \in Accounts, NEW c \in SoundChoices, NEW list \in Seq(Tx)
  PROVE  FoldLeft(Consider, c, list) \in SoundChoices
<1>1. PICK run \in [0 .. Len(list) -> SoundChoices] :
        /\ run[0] = c
        /\ \A k \in 1 .. Len(list) : run[k] = Consider(run[k - 1], list[k])
        /\ FoldLeft(Consider, c, list) = run[Len(list)]
  BY ConsideredInOrder
<1>2. Len(list) \in Nat
  BY LenProperties
<1> QED
  BY <1>1, <1>2

\* select makes its passes one after the other.
LEMMA PassesInOrder ==
  ASSUME accounts \in Accounts, txs \subseteq Tx, IsFiniteSet(txs)
  PROVE  \E run \in [0 .. Passes -> SoundChoices] :
           /\ run[0] = NothingChosen
           /\ \A k \in 1 .. Passes : run[k] = FoldLeft(Consider, run[k - 1], Candidates)
           /\ Selection = run[Passes]
<1> DEFINE n == Passes
           passes == [i \in 1 .. n |-> i]
           Pass(choice) == FoldLeft(Consider, choice, Candidates)
           base == NothingChosen
           step == [p \in (1 .. n) \X SoundChoices |-> Pass(p[2])]
           Folds(it) == it = [s \in SUBSET (1 .. n) |->
                               IF s = {} THEN base ELSE Pass(it[s \ {Max(s)}])]
           fold == CHOOSE it : Folds(it)
<1>1. n \in Nat /\ DOMAIN passes = 1 .. n
  BY MempoolAssumption
<1>2. base \in SoundChoices
  BY NothingChosenIsSound
<1>3. \A choice \in SoundChoices : Pass(choice) \in SoundChoices
  BY CandidatesAreOrdered, ConsiderAllKeepsSound
<1>4. Selection = fold[1 .. n]
  BY <1>1 DEF Selection, FoldLeft, MapThenFoldSet
<1> HIDE DEF Pass
<1>5. step \in [(1 .. n) \X SoundChoices -> SoundChoices]
  BY <1>3
<1>6. PICK it \in [SUBSET (1 .. n) -> SoundChoices] : FoldsLeft(it, n, base, step)
  <2> HIDE DEF step, n, base
  <2> QED BY <1>1, <1>2, <1>5, LeftFoldExists
<1>7. ASSUME NEW s \in SUBSET (1 .. n), s # {}
      PROVE  step[<<Max(s), it[s \ {Max(s)}]>>] = Pass(it[s \ {Max(s)}])
  <2>1. Max(s) \in 1 .. n
    <3> HIDE DEF n
    <3> QED BY <1>1, <1>7, LargestIndex
  <2>2. it[s \ {Max(s)}] \in SoundChoices
    OBVIOUS
  <2> QED BY <2>1, <2>2
<1>8. Folds(it)
  <2> HIDE DEF step
  <2> QED BY <1>6, <1>7 DEF FoldsLeft
<1>9. Folds(fold)
  <2> HIDE DEF Folds
  <2> QED BY <1>8
<1> HIDE DEF fold
<1>10. fold[{}] = base
  BY <1>9
<1>11. \A k \in 1 .. n :
         fold[1 .. (k - 1)] \in SoundChoices =>
           fold[1 .. k] = step[<<k, fold[1 .. (k - 1)]>>]
  <2> SUFFICES ASSUME NEW k \in 1 .. n, fold[1 .. (k - 1)] \in SoundChoices
               PROVE  fold[1 .. k] = step[<<k, fold[1 .. (k - 1)]>>]
    OBVIOUS
  <2>1. /\ 1 .. k \in SUBSET (1 .. n) /\ 1 .. k # {}
        /\ Max(1 .. k) = k
        /\ (1 .. k) \ {k} = 1 .. (k - 1)
    <3> HIDE DEF n
    <3> QED BY <1>1, PrefixGrows
  <2>2. fold[1 .. k] = Pass(fold[1 .. (k - 1)])
    BY <1>9, <2>1
  <2> QED BY <2>2
<1>12. StepsThrough(fold, n, SoundChoices, base, step)
  BY <1>10, <1>11 DEF StepsThrough
<1>13. PICK run \in [0 .. n -> SoundChoices] : RunsTo(run, n, base, step, fold[1 .. n])
  <2> HIDE DEF step, n, base
  <2> QED BY <1>1, <1>2, <1>5, <1>12, FoldRuns
<1>14. ASSUME NEW k \in 1 .. n
       PROVE  run[k] = Pass(run[k - 1])
  <2>1. k - 1 \in 0 .. n
    BY <1>1
  <2>2. run[k - 1] \in SoundChoices
    BY <2>1
  <2>3. run[k] = step[<<k, run[k - 1]>>]
    BY <1>13 DEF RunsTo
  <2> QED BY <2>2, <2>3
<1> QED
  BY <1>4, <1>13, <1>14 DEF RunsTo, Pass

LEMMA SelectionIsSound ==
  ASSUME accounts \in Accounts, txs \subseteq Tx, IsFiniteSet(txs)
  PROVE  Selection \in SoundChoices
<1>1. PICK run \in [0 .. Passes -> SoundChoices] :
        /\ run[0] = NothingChosen
        /\ \A k \in 1 .. Passes : run[k] = FoldLeft(Consider, run[k - 1], Candidates)
        /\ Selection = run[Passes]
  BY PassesInOrder
<1>2. Passes \in Nat
  BY MempoolAssumption
<1> QED
  BY <1>1, <1>2

-----------------------------------------------------------------------------
(* What the passes leave behind *)

\* Every transaction of the pool is among the candidates.
LEMMA AllAreCandidates ==
  ASSUME txs \subseteq Tx, IsFiniteSet(txs), NEW t \in txs
  PROVE  \E i \in 1 .. Len(Candidates) : Candidates[i] = t
<1> DEFINE n == Cardinality(txs)
<1>1. n \in Nat /\ IsFiniteSet(1 .. n) /\ Cardinality(1 .. n) = n
  BY FS_CardinalityType, FS_Interval
<1>2. /\ Candidates \in [1 .. n -> txs]
      /\ \A i, j \in 1 .. n : i # j => Candidates[i] # Candidates[j]
  BY CandidatesAreOrdered DEF SetToSeqs
<1>3. Candidates \in Injection(1 .. n, txs)
  BY <1>2 DEF Injection, IsInjective
<1> HIDE DEF n
<1>4. Candidates \in Surjection(1 .. n, txs)
  BY <1>1, <1>3, FS_Injection DEF n
<1>5. Len(Candidates) = n
  BY <1>1, <1>2
<1> QED
  BY <1>4, <1>5 DEF Surjection

\* Choosing more never takes back what was chosen, counted or spent.
Later(c, d) ==
  /\ Len(c.chosen) <= Len(d.chosen)
  /\ ToSet(c.chosen) \subseteq ToSet(d.chosen)
  /\ \A a \in Address : c.next_nonce[a] <= d.next_nonce[a] /\ c.spent[a] <= d.spent[a]

LEMMA PartialBatchType ==
  ASSUME NEW c \in PartialBatches
  PROVE  /\ c.chosen \in Seq(Tx) /\ Len(c.chosen) \in Nat
         /\ \A a \in Address : c.next_nonce[a] \in Nat /\ c.spent[a] \in Nat
BY LenProperties DEF PartialBatches

LEMMA LaterIsTransitive ==
  ASSUME NEW c \in PartialBatches, NEW d \in PartialBatches, NEW e \in PartialBatches,
         Later(c, d), Later(d, e)
  PROVE  Later(c, e)
BY PartialBatchType DEF Later

LEMMA ConsiderIsLater ==
  ASSUME NEW c \in PartialBatches, NEW t \in Tx
  PROVE  /\ Later(c, Consider(c, t))
         /\ Fits(c, t) =>
              Consider(c, t).next_nonce[t.from] = c.next_nonce[t.from] + 1
         /\ \A a \in Address \ {t.from} :
              Consider(c, t).next_nonce[a] = c.next_nonce[a]
         /\ ~Fits(c, t) => Consider(c, t) = c
<1>1. /\ c.chosen \in Seq(Tx) /\ Len(c.chosen) \in Nat
      /\ \A a \in Address : c.next_nonce[a] \in Nat /\ c.spent[a] \in Nat
  BY PartialBatchType
<1>2. CASE ~Fits(c, t)
  BY <1>1, <1>2 DEF Consider, Later
<1>3. CASE Fits(c, t)
  <2> DEFINE list == Append(c.chosen, t)
             nonces == [c.next_nonce EXCEPT ![t.from] = @ + 1]
             spent == [c.spent EXCEPT ![t.from] = @ + t.amount + t.fee]
             next == Consider(c, t)
  <2>1. next.chosen = list /\ next.next_nonce = nonces /\ next.spent = spent
    BY <1>3 DEF Consider
  <2>2. t.from \in Address /\ t.amount \in Nat /\ t.fee \in Nat
    BY TxType
  <2>3. c.next_nonce \in [Address -> Nat] /\ c.spent \in [Address -> Nat]
    BY DEF PartialBatches
  <2>4. \A a \in Address : /\ c.next_nonce[a] <= nonces[a]
                           /\ c.spent[a] <= spent[a]
    BY <2>2, <2>3
  <2>5. Len(list) = Len(c.chosen) + 1
    BY <1>1, AppendProperties
  <2>6. ToSet(c.chosen) \subseteq ToSet(list)
    <3>1. list \in Seq(Tx)
      BY <1>1, AppendProperties
    <3>2. DOMAIN c.chosen = 1 .. Len(c.chosen)
      BY <1>1, LenProperties
    <3>3. DOMAIN list = 1 .. Len(list)
      <4> HIDE DEF list
      <4> QED BY <3>1, LenProperties
    <3>4. \A i \in 1 .. Len(c.chosen) : list[i] = c.chosen[i]
      BY <1>1, AppendProperties
    <3> HIDE DEF list
    <3>5. \A i \in DOMAIN c.chosen : i \in DOMAIN list /\ list[i] = c.chosen[i]
      BY <1>1, <2>5, <3>2, <3>3, <3>4
    <3> QED BY <3>5 DEF ToSet
  <2>7. nonces[t.from] = c.next_nonce[t.from] + 1
    BY <2>2, <2>3
  <2>8. \A a \in Address \ {t.from} : nonces[a] = c.next_nonce[a]
    BY <2>2, <2>3
  <2> HIDE DEF list, nonces, spent, next
  <2>9. Later(c, next)
    BY <1>1, <2>1, <2>4, <2>5, <2>6 DEF Later
  <2> QED BY <1>3, <2>1, <2>7, <2>8, <2>9 DEF next
<1> QED
  BY <1>2, <1>3

\* What fits a choice fits every earlier one that waits for the same nonce.
LEMMA FittedBefore ==
  ASSUME accounts \in Accounts,
         NEW c \in PartialBatches, NEW d \in PartialBatches, NEW t \in Tx,
         Later(c, d), Fits(d, t), t.nonce = c.next_nonce[t.from]
  PROVE  Fits(c, t)
<1>1. /\ Len(c.chosen) \in Nat /\ Len(d.chosen) \in Nat
      /\ \A a \in Address : c.spent[a] \in Nat /\ d.spent[a] \in Nat
  BY PartialBatchType
<1>2. t.from \in Address /\ t.amount \in Nat /\ t.fee \in Nat
  BY TxType
<1>3. MaxBlockTxs \in Nat /\ Len(c.chosen) < MaxBlockTxs
  BY <1>1, MempoolAssumption DEF Later, Fits
<1>4. t \notin ToSet(c.chosen)
  BY DEF Later, Fits
<1>5. accounts[t.from].balance \in Nat
  BY <1>2 DEF Accounts, Account
<1>6. /\ c.spent[t.from] <= d.spent[t.from]
      /\ d.spent[t.from] + t.amount + t.fee <= accounts[t.from].balance
  BY <1>2 DEF Later, Fits
<1>7. c.spent[t.from] + t.amount + t.fee <= accounts[t.from].balance
  BY <1>1, <1>2, <1>5, <1>6
<1> QED
  BY <1>3, <1>4, <1>7 DEF Fits

\* Whatever a later choice has over an earlier one began, for each sender, with
\* a transaction of the pool that the earlier one could have taken.
Raised(e, z) ==
  /\ Later(e, z)
  /\ \A a \in Address :
       z.next_nonce[a] > e.next_nonce[a] =>
         \E u \in txs : u.from = a /\ u.nonce = e.next_nonce[a] /\ Fits(e, u)

LEMMA RaisedByNothing ==
  ASSUME NEW e \in PartialBatches
  PROVE  Raised(e, e)
BY PartialBatchType DEF Raised, Later

LEMMA ConsiderRaises ==
  ASSUME accounts \in Accounts, NEW t \in txs, t \in Tx,
         NEW e \in PartialBatches, NEW z \in PartialBatches,
         Consider(z, t) \in PartialBatches, Raised(e, z)
  PROVE  Raised(e, Consider(z, t))
<1> DEFINE next == Consider(z, t)
<1>1. Later(e, z) /\ Later(z, next)
  BY ConsiderIsLater DEF Raised
<1>2. Later(e, next)
  <2> HIDE DEF next
  <2>1. next \in PartialBatches
    BY DEF next
  <2> QED BY <1>1, <2>1, LaterIsTransitive
<1>3. ASSUME NEW a \in Address, next.next_nonce[a] > e.next_nonce[a],
             ~(z.next_nonce[a] > e.next_nonce[a])
      PROVE  \E u \in txs : u.from = a /\ u.nonce = e.next_nonce[a] /\ Fits(e, u)
  <2>1. z.next_nonce[a] = e.next_nonce[a]
    BY <1>1, <1>3, PartialBatchType DEF Later
  <2>2. next.next_nonce[a] # z.next_nonce[a]
    BY <1>3, <2>1, PartialBatchType
  <2>3. Fits(z, t) /\ t.from = a
    BY <2>2, ConsiderIsLater
  <2>4. t.nonce = e.next_nonce[t.from]
    BY <2>1, <2>3 DEF Fits
  <2>5. Fits(e, t)
    BY <1>1, <2>3, <2>4, FittedBefore
  <2> QED BY <2>3, <2>4, <2>5
<1> HIDE DEF next
<1> QED
  BY <1>2, <1>3 DEF Raised, next

\* So it is along any sequence of such steps.
Raises(run, n) ==
  \A k \in 1 .. n : \A e \in SoundChoices : Raised(e, run[k - 1]) => Raised(e, run[k])

LEMMA RunRaises ==
  ASSUME NEW n \in Nat, NEW run, Raises(run, n), NEW m \in 0 .. n,
         NEW e \in SoundChoices, Raised(e, run[m])
  PROVE  \A k \in m .. n : Raised(e, run[k])
<1> DEFINE Q == {j \in 0 .. n - m : Raised(e, run[m + j])}
<1>1. n - m \in Nat /\ m \in Nat
  OBVIOUS
<1>2. 0 \in Q
  BY <1>1
<1>3. ASSUME NEW j \in 0 .. (n - m) - 1, j \in Q
      PROVE  j + 1 \in Q
  <2>1. m + (j + 1) \in 1 .. n /\ (m + (j + 1)) - 1 = m + j /\ j + 1 \in 0 .. n - m
    BY <1>1
  <2>2. Raised(e, run[m + j])
    BY <1>3
  <2>3. Raised(e, run[m + (j + 1)])
    BY <2>1, <2>2 DEF Raises
  <2> QED BY <2>1, <2>3
<1>4. \A j \in 0 .. n - m : j \in Q
  <2> HIDE DEF Q
  <2> QED BY <1>1, <1>2, <1>3, UpTo
<1>5. ASSUME NEW k \in m .. n
      PROVE  Raised(e, run[k])
  <2>1. k - m \in 0 .. n - m /\ m + (k - m) = k
    BY <1>1
  <2>2. Raised(e, run[m + (k - m)])
    BY <1>4, <2>1
  <2> QED BY <2>1, <2>2
<1> QED
  BY <1>5

LEMMA PassSteps ==
  ASSUME accounts \in Accounts, txs \subseteq Tx, IsFiniteSet(txs), NEW c \in SoundChoices
  PROVE  \E run \in [0 .. Len(Candidates) -> SoundChoices] :
           /\ run[0] = c
           /\ \A k \in 1 .. Len(Candidates) : run[k] = Consider(run[k - 1], Candidates[k])
           /\ FoldLeft(Consider, c, Candidates) = run[Len(Candidates)]
           /\ Raises(run, Len(Candidates))
<1> DEFINE n == Len(Candidates)
<1>1. Candidates \in Seq(Tx) /\ Candidates \in SetToSeqs(txs)
  BY CandidatesAreOrdered
<1>2. n \in Nat /\ \A k \in 1 .. n : Candidates[k] \in txs
  <2>1. n \in Nat /\ DOMAIN Candidates = 1 .. n
    BY <1>1, LenProperties
  <2>2. Candidates \in [1 .. Cardinality(txs) -> txs]
    BY <1>1 DEF SetToSeqs
  <2> QED BY <2>1, <2>2
<1>3. PICK run \in [0 .. n -> SoundChoices] :
        /\ run[0] = c
        /\ \A k \in 1 .. n : run[k] = Consider(run[k - 1], Candidates[k])
        /\ FoldLeft(Consider, c, Candidates) = run[n]
  BY <1>1, ConsideredInOrder
<1>4. Raises(run, n)
  <2> SUFFICES ASSUME NEW k \in 1 .. n, NEW e \in SoundChoices, Raised(e, run[k - 1])
               PROVE  Raised(e, run[k])
    BY DEF Raises
  <2> DEFINE z == run[k - 1]
             t == Candidates[k]
  <2>1. t \in txs /\ t \in Tx
    BY <1>2
  <2>2. k - 1 \in 0 .. n /\ k \in 0 .. n
    BY <1>2
  <2>3. z \in PartialBatches /\ e \in PartialBatches /\ run[k] \in PartialBatches
    BY <2>2 DEF SoundChoices
  <2>4. run[k] = Consider(z, t) /\ Raised(e, z)
    BY <1>3
  <2> HIDE DEF z, t
  <2> QED BY <2>1, <2>3, <2>4, ConsiderRaises
<1> QED
  BY <1>3, <1>4

\* A pass that takes nothing of a sender leaves nothing of it that fits.
LEMMA PassLeavesNothing ==
  ASSUME accounts \in Accounts, txs \subseteq Tx, IsFiniteSet(txs),
         NEW c \in SoundChoices, NEW u \in txs,
         FoldLeft(Consider, c, Candidates).next_nonce[u.from] = c.next_nonce[u.from]
  PROVE  ~Fits(FoldLeft(Consider, c, Candidates), u)
<1> DEFINE n == Len(Candidates)
           d == FoldLeft(Consider, c, Candidates)
           a == u.from
<1>1. PICK run \in [0 .. n -> SoundChoices] :
        /\ run[0] = c
        /\ \A k \in 1 .. n : run[k] = Consider(run[k - 1], Candidates[k])
        /\ d = run[n]
        /\ Raises(run, n)
  BY PassSteps
<1>2. n \in Nat
  BY CandidatesAreOrdered, LenProperties
<1>3. PICK i \in 1 .. n : Candidates[i] = u
  BY AllAreCandidates
<1>4. u \in Tx /\ a \in Address
  BY TxType
<1> SUFFICES ASSUME Fits(d, u) PROVE FALSE
  OBVIOUS
<1> DEFINE w == run[i - 1]
           v == run[i]
<1>5. i - 1 \in 0 .. n /\ i \in 0 .. n /\ i \in i .. n /\ n \in i .. n /\ 0 \in 0 .. n
      /\ i - 1 \in 0 .. n /\ n \in 0 .. n /\ n \in (i - 1) .. n
  BY <1>2
<1>6. c \in SoundChoices /\ d \in SoundChoices /\ w \in SoundChoices /\ v \in SoundChoices
  BY <1>1, <1>5
<1>7. c \in PartialBatches /\ d \in PartialBatches /\ w \in PartialBatches
      /\ v \in PartialBatches
  BY <1>6 DEF SoundChoices
<1> HIDE DEF n, d
<1>8. Later(c, w)
  <2>1. Raised(c, run[0])
    BY <1>1, <1>7, RaisedByNothing
  <2>2. \A k \in 0 .. n : Raised(c, run[k])
    BY <1>1, <1>2, <1>5, <2>1, RunRaises
  <2> QED BY <1>5, <2>2 DEF Raised
<1>9. Later(w, d)
  <2>1. Raised(w, run[i - 1])
    BY <1>7, RaisedByNothing
  <2>2. \A k \in (i - 1) .. n : Raised(w, run[k])
    BY <1>1, <1>2, <1>5, <1>6, <2>1, RunRaises
  <2> QED BY <1>1, <1>5, <2>2 DEF Raised
<1>10. Later(v, d)
  <2>1. Raised(v, run[i])
    BY <1>7, RaisedByNothing
  <2>2. \A k \in i .. n : Raised(v, run[k])
    BY <1>1, <1>2, <1>5, <1>6, <2>1, RunRaises
  <2> QED BY <1>1, <1>5, <2>2 DEF Raised
<1>11. d.next_nonce[a] = c.next_nonce[a]
  BY DEF d
<1> HIDE DEF a
<1>12. w.next_nonce[a] = d.next_nonce[a]
  BY <1>4, <1>7, <1>8, <1>9, <1>11, PartialBatchType DEF Later
<1>13. Fits(w, u)
  <2>1. u.nonce = w.next_nonce[u.from]
    BY <1>12 DEF Fits, a
  <2> HIDE DEF w
  <2> QED BY <1>4, <1>7, <1>9, <2>1, FittedBefore
<1>14. v = Consider(w, u)
  BY <1>1, <1>3
<1> HIDE DEF v, w
<1>15. v.next_nonce[a] = w.next_nonce[a] + 1
  BY <1>4, <1>7, <1>13, <1>14, ConsiderIsLater DEF a
<1>16. v.next_nonce[a] <= d.next_nonce[a]
  BY <1>4, <1>10 DEF Later
<1> QED
  BY <1>4, <1>7, <1>12, <1>15, <1>16, PartialBatchType

\* While something of a sender still fits in the end, every pass took one of its
\* transactions.
LEMMA EveryPassTakesOne ==
  ASSUME accounts \in Accounts, txs \subseteq Tx, IsFiniteSet(txs),
         NEW t \in txs, Fits(Selection, t)
  PROVE  Selection.next_nonce[t.from] >= accounts[t.from].nonce + Passes
<1> DEFINE n == Passes
           a == t.from
           Pass(choice) == FoldLeft(Consider, choice, Candidates)
<1>1. PICK run \in [0 .. n -> SoundChoices] :
        /\ run[0] = NothingChosen
        /\ \A k \in 1 .. n : run[k] = Pass(run[k - 1])
        /\ Selection = run[n]
  BY PassesInOrder
<1>2. n \in Nat
  BY MempoolAssumption
<1>3. t \in Tx /\ a \in Address
  BY TxType
<1>4. accounts[a].nonce \in Nat
  BY <1>3 DEF Accounts, Account
<1> HIDE DEF n
<1>5. Raises(run, n)
  <2> SUFFICES ASSUME NEW k \in 1 .. n, NEW e \in SoundChoices, Raised(e, run[k - 1])
               PROVE  Raised(e, run[k])
    BY DEF Raises
  <2>1. k - 1 \in 0 .. n
    BY <1>2
  <2>2. run[k - 1] \in SoundChoices
    BY <2>1
  <2>3. run[k] = FoldLeft(Consider, run[k - 1], Candidates)
    BY <1>1
  <2> DEFINE z == run[k - 1]
             m == Len(Candidates)
  <2>4. PICK inner \in [0 .. m -> SoundChoices] :
          /\ inner[0] = z
          /\ FoldLeft(Consider, z, Candidates) = inner[m]
          /\ Raises(inner, m)
    BY <2>2, PassSteps
  <2>5. m \in Nat /\ 0 \in 0 .. m /\ m \in 0 .. m
    BY CandidatesAreOrdered, LenProperties
  <2>6. Raised(e, inner[0])
    BY <2>4
  <2> HIDE DEF m
  <2>7. \A j \in 0 .. m : Raised(e, inner[j])
    BY <2>4, <2>5, <2>6, RunRaises
  <2> QED BY <2>3, <2>4, <2>5, <2>7
<1> DEFINE Q == {k \in 0 .. n : run[k].next_nonce[a] >= accounts[a].nonce + k}
<1>6. 0 \in Q
  <2>1. run[0].next_nonce[a] = accounts[a].nonce
    BY <1>1, <1>3 DEF NothingChosen
  <2> QED BY <1>2, <1>4, <2>1
<1>7. ASSUME NEW k \in 0 .. n - 1, k \in Q
      PROVE  k + 1 \in Q
  <2>1. k + 1 \in 1 .. n /\ (k + 1) - 1 = k /\ k + 1 \in 0 .. n /\ k \in 0 .. n
        /\ n \in (k + 1) .. n /\ k + 1 \in Nat /\ n \in 0 .. n
    BY <1>2
  <2> DEFINE c == run[k]
             d == run[k + 1]
             last == run[n]
  <2>2. c \in SoundChoices /\ d \in SoundChoices /\ last \in SoundChoices
    BY <2>1
  <2>3. c \in PartialBatches /\ d \in PartialBatches /\ last \in PartialBatches
    BY <2>2 DEF SoundChoices
  <2>4. d = FoldLeft(Consider, c, Candidates)
    BY <1>1, <2>1
  <2>5. Raised(d, last)
    <3>1. Raised(d, run[k + 1])
      BY <2>3, RaisedByNothing
    <3>2. \A j \in (k + 1) .. n : Raised(d, run[j])
      BY <1>2, <1>5, <2>1, <2>2, <3>1, RunRaises
    <3> QED BY <2>1, <3>2
  <2>6. d.next_nonce[a] >= c.next_nonce[a]
    <3>1. Raised(c, run[k])
      BY <2>3, RaisedByNothing
    <3>2. Raised(c, run[k + 1])
      BY <1>5, <2>1, <2>2, <3>1 DEF Raises
    <3> QED BY <1>3, <2>3, <3>2, PartialBatchType DEF Raised, Later
  <2>7. Fits(last, t)
    BY <1>1
  <2>8. c.next_nonce[a] >= accounts[a].nonce + k
    BY <1>7
  <2> HIDE DEF c, d, last, Q
  <2>9. d.next_nonce[a] # c.next_nonce[a]
    <3> SUFFICES ASSUME d.next_nonce[a] = c.next_nonce[a] PROVE FALSE
      OBVIOUS
    <3>1. \E u \in txs : u.from = a /\ Fits(d, u)
      <4>1. CASE last.next_nonce[a] > d.next_nonce[a]
        BY <1>3, <2>5, <4>1 DEF Raised
      <4>2. CASE ~(last.next_nonce[a] > d.next_nonce[a])
        <5>1. Later(d, last)
          BY <2>5 DEF Raised
        <5>2. last.next_nonce[a] = d.next_nonce[a]
          BY <1>3, <2>3, <4>2, <5>1, PartialBatchType DEF Later
        <5>3. t.nonce = d.next_nonce[t.from]
          BY <2>7, <5>2 DEF Fits
        <5>4. Fits(d, t)
          BY <1>3, <2>3, <2>7, <5>1, <5>3, FittedBefore
        <5> QED BY <5>4
      <4> QED BY <4>1, <4>2
    <3>2. PICK u \in txs : u.from = a /\ Fits(d, u)
      BY <3>1
    <3> HIDE DEF a
    <3>3. FoldLeft(Consider, c, Candidates).next_nonce[u.from] = c.next_nonce[u.from]
      BY <2>4, <3>2
    <3>4. ~Fits(FoldLeft(Consider, c, Candidates), u)
      BY <2>2, <3>3, PassLeavesNothing
    <3> QED BY <2>4, <3>2, <3>4
  <2>10. d.next_nonce[a] \in Nat /\ c.next_nonce[a] \in Nat
    BY <1>3, <2>3, PartialBatchType
  <2>11. d.next_nonce[a] >= accounts[a].nonce + (k + 1)
    BY <1>4, <2>1, <2>6, <2>8, <2>9, <2>10
  <2> QED BY <2>1, <2>11 DEF Q, d
<1>8. n \in Q
  <2> HIDE DEF Q
  <2>1. \A k \in 0 .. n : k \in Q
    BY <1>2, <1>6, <1>7, UpTo
  <2> QED BY <1>2, <2>1
<1> QED
  BY <1>1, <1>8 DEF n

-----------------------------------------------------------------------------
(* Blocks *)

Block == [miner: Miners, txs: Seq(Tx)]

\* A block keeps a run a run; it ends with no fees open, and never makes a
\* failed run good.
LEMMA BlockStep ==
  ASSUME NEW run \in Runs, NEW block \in Block
  PROVE  LET next == ApplyBlock(run, block)
         IN  next \in Runs /\ next.fees = 0 /\ (next.ok => run.ok)
<1> DEFINE n == Len(block.txs)
           after == FoldLeft(apply_transaction, run, block.txs)
           credited == [after.accounts EXCEPT ![block.miner].balance = @ + after.fees]
           next == ApplyBlock(run, block)
<1>1. block.txs \in Seq(Tx) /\ block.miner \in Address
  BY MempoolAssumption DEF Block
<1>2. n \in Nat /\ \A k \in 1 .. n : block.txs[k] \in Tx
  BY <1>1, LenProperties, ElementOfSeq
<1>3. PICK steps \in [0 .. n -> Runs] :
        /\ steps[0] = run
        /\ \A k \in 1 .. n : steps[k] = apply_transaction(steps[k - 1], block.txs[k])
        /\ after = steps[n]
  BY <1>1, TransactionsRunInOrder
<1>4. after \in Runs
  BY <1>2, <1>3
<1>5. next = [after EXCEPT !.accounts = credited, !.fees = 0]
  BY <1>4 DEF ApplyBlock, Runs
<1> HIDE DEF after, n
<1>6. after.accounts \in Accounts /\ after.fees \in Nat /\ after.ok \in BOOLEAN
  BY <1>4 DEF Runs
<1>7. credited \in Accounts
  BY <1>1, <1>6, CreditAdds
<1> HIDE DEF credited
<1>8. next \in Runs /\ next.fees = 0 /\ next.ok = after.ok
  <2> HIDE DEF next
  <2>1. next = [ok |-> after.ok, accounts |-> credited, fees |-> 0]
    BY <1>4, <1>5 DEF Runs
  <2> QED BY <1>6, <1>7, <2>1 DEF Runs
<1>9. after.ok => run.ok
  <2> SUFFICES ASSUME ~run.ok PROVE ~after.ok
    OBVIOUS
  <2> DEFINE Q == {k \in 0 .. n : ~steps[k].ok}
  <2>1. 0 \in Q
    BY <1>2, <1>3
  <2>2. ASSUME NEW k \in 0 .. n - 1, k \in Q
        PROVE  k + 1 \in Q
    <3>1. k + 1 \in 1 .. n /\ (k + 1) - 1 = k /\ k + 1 \in 0 .. n /\ k \in 0 .. n
      BY <1>2
    <3>2. steps[k + 1] = apply_transaction(steps[k], block.txs[k + 1])
      BY <1>3, <3>1
    <3>3. ~steps[k].ok
      BY <2>2
    <3>4. steps[k] \in Runs
      BY <3>1
    <3>5. ~steps[k + 1].ok
      BY <3>2, <3>3, <3>4 DEF apply_transaction, Runs
    <3> QED BY <3>1, <3>5
  <2>3. n \in Q
    <3> HIDE DEF Q
    <3>1. \A k \in 0 .. n : k \in Q
      BY <1>2, <2>1, <2>2, UpTo
    <3> QED BY <1>2, <3>1
  <2> QED BY <1>3, <2>3
<1> HIDE DEF next
<1> QED
  BY <1>8, <1>9 DEF next

\* A block that is good uses the nonces of its transactions.
LEMMA BlockUsesNonces ==
  ASSUME NEW accts \in Accounts, NEW block \in Block,
         ApplyBlock(Scratch(accts), block).ok,
         NEW E, NoncesUsed(E, accts)
  PROVE  LET next == ApplyBlock(Scratch(accts), block)
         IN  /\ next.accounts \in Accounts
             /\ NoncesUsed(E \cup ToSet(block.txs), next.accounts)
<1> DEFINE after == RunTransactions(accts, block.txs)
           credited == [after.accounts EXCEPT ![block.miner].balance = @ + after.fees]
           next == ApplyBlock(Scratch(accts), block)
<1>1. block.txs \in Seq(Tx) /\ block.miner \in Address
  BY MempoolAssumption DEF Block
<1>2. Scratch(accts) \in Runs
  BY DEF Scratch, Runs
<1>3. after \in Runs
  <2>1. PICK steps \in [0 .. Len(block.txs) -> Runs] :
          /\ steps[0] = Scratch(accts)
          /\ \A k \in 1 .. Len(block.txs) :
               steps[k] = apply_transaction(steps[k - 1], block.txs[k])
          /\ FoldLeft(apply_transaction, Scratch(accts), block.txs)
               = steps[Len(block.txs)]
    BY <1>1, <1>2, TransactionsRunInOrder
  <2>2. Len(block.txs) \in Nat
    BY <1>1, LenProperties
  <2> QED BY <2>1, <2>2 DEF RunTransactions
<1>4. next = [after EXCEPT !.accounts = credited, !.fees = 0]
  <2>1. next = [after EXCEPT !.accounts[block.miner].balance = @ + after.fees, !.fees = 0]
    BY DEF ApplyBlock, RunTransactions
  <2> HIDE DEF after, next
  <2> QED BY <1>3, <2>1 DEF Runs
<1> HIDE DEF after
<1>5. after.accounts \in Accounts /\ after.fees \in Nat /\ after.ok \in BOOLEAN
  BY <1>3 DEF Runs
<1>6. /\ credited \in Accounts
      /\ \A a \in Address : credited[a].nonce = after.accounts[a].nonce
  <2> DEFINE before == after.accounts
             m == block.miner
             fees == after.fees
  <2>1. before \in Accounts /\ m \in Address /\ fees \in Nat
    BY <1>1, <1>5
  <2>2. credited = [before EXCEPT ![m].balance = @ + fees]
    OBVIOUS
  <2> HIDE DEF before, m, fees, credited
  <2>3. /\ credited \in Accounts
        /\ \A a \in Address : credited[a].nonce = before[a].nonce
    <3> DEFINE paid == [before EXCEPT ![m].balance = @ + fees]
    <3>1. paid \in Accounts /\ \A a \in Address : paid[a].nonce = before[a].nonce
      BY <2>1, CreditAdds
    <3>2. credited = paid
      BY <2>2
    <3> HIDE DEF paid
    <3> QED BY <3>1, <3>2
  <2> QED BY <2>3 DEF before
<1> HIDE DEF credited
<1>7. next.ok = after.ok /\ next.accounts = credited
  BY <1>3, <1>4 DEF Runs
<1>8. after.ok
  BY <1>5, <1>7
<1>9. NoncesUsed(E \cup ToSet(block.txs), after.accounts)
  BY <1>1, <1>8, TransactionsUseNonces DEF after
<1>10. \A t \in E \cup ToSet(block.txs) : t.from \in Address
  BY <1>9, TxType DEF NoncesUsed
<1>11. NoncesUsed(E \cup ToSet(block.txs), credited)
  BY <1>6, <1>9, <1>10 DEF NoncesUsed
<1> HIDE DEF next
<1> QED
  BY <1>6, <1>7, <1>11 DEF next

\* A branch is executed block by block.
LEMMA BlocksRunInOrder ==
  ASSUME NEW start \in Runs, NEW blocks \in Seq(Block)
  PROVE  \E run \in [0 .. Len(blocks) -> Runs] :
           /\ run[0] = start
           /\ \A k \in 1 .. Len(blocks) : run[k] = ApplyBlock(run[k - 1], blocks[k])
           /\ FoldLeft(ApplyBlock, start, blocks) = run[Len(blocks)]
<1> DEFINE n == Len(blocks)
           step == [p \in (1 .. n) \X Runs |-> ApplyBlock(p[2], blocks[p[1]])]
           Folds(it) == it = [s \in SUBSET (1 .. n) |->
                               IF s = {} THEN start
                               ELSE ApplyBlock(it[s \ {Max(s)}], blocks[Max(s)])]
           fold == CHOOSE it : Folds(it)
<1>1. n \in Nat /\ DOMAIN blocks = 1 .. n
  BY LenProperties
<1>2. \A k \in 1 .. n : blocks[k] \in Block
  BY ElementOfSeq
<1>3. step \in [(1 .. n) \X Runs -> Runs]
  <2>1. \A p \in (1 .. n) \X Runs : ApplyBlock(p[2], blocks[p[1]]) \in Runs
    BY <1>2, BlockStep
  <2> QED BY <2>1
<1>4. PICK it \in [SUBSET (1 .. n) -> Runs] : FoldsLeft(it, n, start, step)
  <2> HIDE DEF step, n
  <2> QED BY <1>1, <1>3, LeftFoldExists
<1>5. ASSUME NEW s \in SUBSET (1 .. n), s # {}
      PROVE  step[<<Max(s), it[s \ {Max(s)}]>>]
               = ApplyBlock(it[s \ {Max(s)}], blocks[Max(s)])
  <2>1. Max(s) \in 1 .. n
    <3> HIDE DEF n
    <3> QED BY <1>1, <1>5, LargestIndex
  <2>2. it[s \ {Max(s)}] \in Runs
    OBVIOUS
  <2> QED BY <2>1, <2>2
<1>6. Folds(it)
  <2> HIDE DEF step
  <2> QED BY <1>4, <1>5 DEF FoldsLeft
<1>7. Folds(fold)
  <2> HIDE DEF Folds
  <2> QED BY <1>6
<1>8. FoldLeft(ApplyBlock, start, blocks) = fold[1 .. n]
  BY <1>1 DEF FoldLeft, MapThenFoldSet
<1> HIDE DEF fold
<1>9. fold[{}] = start
  BY <1>7
<1>10. \A k \in 1 .. n :
         fold[1 .. (k - 1)] \in Runs =>
           fold[1 .. k] = step[<<k, fold[1 .. (k - 1)]>>]
  <2> SUFFICES ASSUME NEW k \in 1 .. n, fold[1 .. (k - 1)] \in Runs
               PROVE  fold[1 .. k] = step[<<k, fold[1 .. (k - 1)]>>]
    OBVIOUS
  <2>1. /\ 1 .. k \in SUBSET (1 .. n) /\ 1 .. k # {}
        /\ Max(1 .. k) = k
        /\ (1 .. k) \ {k} = 1 .. (k - 1)
    <3> HIDE DEF n
    <3> QED BY <1>1, PrefixGrows
  <2>2. fold[1 .. k] = ApplyBlock(fold[1 .. (k - 1)], blocks[k])
    BY <1>7, <2>1
  <2> QED BY <2>2
<1>11. StepsThrough(fold, n, Runs, start, step)
  BY <1>9, <1>10 DEF StepsThrough
<1>12. PICK run \in [0 .. n -> Runs] : RunsTo(run, n, start, step, fold[1 .. n])
  <2> HIDE DEF step, n
  <2> QED BY <1>1, <1>3, <1>11, FoldRuns
<1>13. ASSUME NEW k \in 1 .. n
       PROVE  run[k] = ApplyBlock(run[k - 1], blocks[k])
  <2>1. k - 1 \in 0 .. n
    BY <1>1
  <2>2. run[k - 1] \in Runs
    BY <2>1
  <2>3. run[k] = step[<<k, run[k - 1]>>]
    BY <1>12 DEF RunsTo
  <2> QED BY <2>2, <2>3
<1> QED
  BY <1>8, <1>12, <1>13 DEF RunsTo

LEMMA GenesisIsFresh ==
  /\ GenesisAccounts \in Accounts
  /\ NoncesUsed({}, GenesisAccounts)
<1>1. GenesisAccounts \in Accounts
  BY MempoolAssumption DEF GenesisAccounts, Accounts, Account
<1>2. \A a \in Address : GenesisAccounts[a].nonce = 0
  BY DEF GenesisAccounts
<1>3. \A a \in Address : 0 .. GenesisAccounts[a].nonce - 1 = {}
  BY <1>2
<1> QED
  BY <1>1, <1>3 DEF NoncesUsed

\* A branch that is good uses the nonces of its transactions, each once.
LEMMA ExecutionUsesNonces ==
  ASSUME NEW blocks \in Seq(Block), Execution(blocks).ok
  PROVE  /\ Execution(blocks).accounts \in Accounts
         /\ NoncesUsed(Included(blocks), Execution(blocks).accounts)
<1> DEFINE n == Len(blocks)
           start == Scratch(GenesisAccounts)
           Upto(k) == UNION {ToSet(blocks[i].txs) : i \in 1 .. k}
<1>1. n \in Nat /\ DOMAIN blocks = 1 .. n /\ \A k \in 1 .. n : blocks[k] \in Block
  BY LenProperties, ElementOfSeq
<1>2. start \in Runs
  BY GenesisIsFresh DEF Scratch, Runs
<1>3. PICK run \in [0 .. n -> Runs] :
        /\ run[0] = start
        /\ \A k \in 1 .. n : run[k] = ApplyBlock(run[k - 1], blocks[k])
        /\ FoldLeft(ApplyBlock, start, blocks) = run[n]
  <2> HIDE DEF start
  <2> QED BY <1>2, BlocksRunInOrder
<1>4. Execution(blocks) = run[n] /\ run[n].ok
  BY <1>3 DEF Execution
<1> HIDE DEF n
<1>5. \A k \in 0 .. n : run[k].ok
  <2> DEFINE Q == {j \in 0 .. n : run[n - j].ok}
  <2>1. 0 \in Q
    BY <1>1, <1>4
  <2>2. ASSUME NEW j \in 0 .. n - 1, j \in Q
        PROVE  j + 1 \in Q
    <3>1. /\ n - j \in 1 .. n /\ (n - j) - 1 \in 0 .. n /\ n - (j + 1) = (n - j) - 1
          /\ j + 1 \in 0 .. n
      BY <1>1
    <3> DEFINE r == run[(n - j) - 1]
               b == blocks[n - j]
    <3>2. r \in Runs /\ b \in Block /\ ApplyBlock(r, b).ok
      BY <1>1, <1>3, <2>2, <3>1
    <3>3. r.ok
      <4> HIDE DEF Q, r, b
      <4> QED BY <3>2, BlockStep
    <3> QED BY <3>1, <3>3
  <2>3. \A j \in 0 .. n : j \in Q
    <3> HIDE DEF Q
    <3> QED BY <1>1, <2>1, <2>2, UpTo
  <2> SUFFICES ASSUME NEW k \in 0 .. n PROVE run[k].ok
    OBVIOUS
  <2>4. n - k \in 0 .. n /\ n - (n - k) = k
    BY <1>1
  <2>5. run[n - (n - k)].ok
    BY <2>3, <2>4
  <2> QED BY <2>4, <2>5
<1> DEFINE Q == {k \in 0 .. n : /\ run[k].fees = 0
                                /\ NoncesUsed(Upto(k), run[k].accounts)}
<1>6. 0 \in Q
  <2>1. Upto(0) = {}
    OBVIOUS
  <2>2. run[0].accounts = GenesisAccounts /\ run[0].fees = 0
    BY <1>3 DEF Scratch
  <2> HIDE DEF Upto
  <2> QED BY <1>1, <2>1, <2>2, GenesisIsFresh
<1>7. ASSUME NEW k \in 0 .. n - 1, k \in Q
      PROVE  k + 1 \in Q
  <2> DEFINE b == blocks[k + 1]
             accts == run[k].accounts
             E == Upto(k)
             next == run[k + 1]
  <2>1. k + 1 \in 1 .. n /\ (k + 1) - 1 = k /\ k + 1 \in 0 .. n /\ k \in 0 .. n
    BY <1>1
  <2>2. run[k] \in Runs /\ run[k].ok /\ run[k].fees = 0 /\ NoncesUsed(E, accts)
    BY <1>5, <1>7, <2>1
  <2>3. run[k] = Scratch(accts) /\ accts \in Accounts
    BY <2>2 DEF Runs, Scratch
  <2>4. b \in Block /\ next = ApplyBlock(run[k], b) /\ next.ok
    BY <1>1, <1>3, <1>5, <2>1
  <2>5. Upto(k + 1) = E \cup ToSet(b.txs)
    <3>1. 1 .. (k + 1) = (1 .. k) \cup {k + 1}
      BY <2>1
    <3> QED BY <3>1
  <2> HIDE DEF Upto, Q, b, accts, E, next
  <2>6. NoncesUsed(E \cup ToSet(b.txs), next.accounts)
    BY <2>2, <2>3, <2>4, BlockUsesNonces
  <2>7. next.fees = 0
    BY <2>2, <2>4, BlockStep
  <2> QED BY <2>1, <2>5, <2>6, <2>7 DEF Q, next
<1>8. n \in Q
  <2> HIDE DEF Q
  <2>1. \A k \in 0 .. n : k \in Q
    BY <1>1, <1>6, <1>7, UpTo
  <2> QED BY <1>1, <2>1
<1>9. Upto(n) = Included(blocks)
  BY <1>1 DEF Included
<1>10. NoncesUsed(Upto(n), run[n].accounts)
  <2> HIDE DEF Upto
  <2> QED BY <1>8
<1>11. run[n].accounts \in Accounts
  BY <1>1 DEF Runs
<1> HIDE DEF Upto, Q
<1> QED
  BY <1>4, <1>9, <1>10, <1>11

-----------------------------------------------------------------------------
(* The inductive invariant *)

\* The chain has used exactly the nonces below those of the accounts, each by
\* one transaction, and the pool holds none of them.
Fresh(pool, included, accts) ==
  /\ NoncesUsed(included, accts)
  /\ \A t \in pool : t.nonce >= accts[t.from].nonce

MempoolInv ==
  /\ TypeOK
  /\ IsFiniteSet(txs)
  /\ Fresh(txs, Included(chain), accounts)

\* What prune leaves.
LEMMA PruneLeaves ==
  ASSUME TypeOK, IsFiniteSet(txs), NEW included
  PROVE  \A accts \in Accounts :
           /\ Pruned(included, accts) \subseteq Tx
           /\ IsFiniteSet(Pruned(included, accts))
           /\ Cardinality(Pruned(included, accts)) <= MAX_POOL_SIZE
           /\ \A t \in Pruned(included, accts) : t.nonce >= accts[t.from].nonce
<1> SUFFICES ASSUME NEW accts \in Accounts
             PROVE  /\ Pruned(included, accts) \subseteq Tx
                    /\ IsFiniteSet(Pruned(included, accts))
                    /\ Cardinality(Pruned(included, accts)) <= MAX_POOL_SIZE
                    /\ \A t \in Pruned(included, accts) : t.nonce >= accts[t.from].nonce
  OBVIOUS
<1> DEFINE P == Pruned(included, accts)
<1>1. P \subseteq txs /\ \A t \in P : t.nonce >= accts[t.from].nonce
  BY DEF Pruned
<1> HIDE DEF P
<1>2. IsFiniteSet(P) /\ Cardinality(P) <= Cardinality(txs)
  BY <1>1, FS_Subset
<1>3. Cardinality(P) \in Nat /\ Cardinality(txs) \in Nat
  BY <1>2, FS_CardinalityType
<1>4. Cardinality(txs) <= MAX_POOL_SIZE /\ MAX_POOL_SIZE \in Nat /\ txs \subseteq Tx
  BY MempoolAssumption DEF TypeOK
<1> QED
  BY <1>1, <1>2, <1>3, <1>4 DEF P

\* What prune takes out has its nonce used.
LEMMA PrunedAreUsed ==
  ASSUME TypeOK, NEW accts \in Accounts, NEW E, NoncesUsed(E, accts),
         NEW included, ToSet(included) \subseteq E,
         NEW t \in txs, t \notin Pruned(included, accts)
  PROVE  \E s \in E : s.from = t.from /\ s.nonce = t.nonce
<1>1. t.from \in Address /\ t.nonce \in Nat
  BY TxType DEF TypeOK
<1>2. CASE t \in ToSet(included)
  BY <1>2
<1>3. CASE t \notin ToSet(included)
  <2>1. ~(t.nonce >= accts[t.from].nonce)
    BY <1>3 DEF Pruned
  <2>2. accts[t.from].nonce \in Nat
    BY <1>1 DEF Accounts, Account
  <2>3. t.nonce \in 0 .. accts[t.from].nonce - 1
    BY <1>1, <2>1, <2>2
  <2> QED BY <1>1, <2>3 DEF NoncesUsed
<1> QED
  BY <1>2, <1>3

\* A block at the end of the chain, and a new branch instead of it: in both
\* cases the accounts have used the nonces of the blocks that are now there.
Settles(included) ==
  /\ chain' \in Seq(Block)
  /\ accounts' \in Accounts
  /\ NoncesUsed(Included(chain'), accounts')
  /\ ToSet(included) \subseteq Included(chain')
  /\ prune(included)

\* Whatever the step takes out of the pool has its nonce used on the chain.
LeaveByNonce ==
  \A t \in txs \ txs' :
    \E s \in Included(chain') : s.from = t.from /\ s.nonce = t.nonce

LEMMA SettlingKeeps ==
  ASSUME MempoolInv, NEW included, Settles(included)
  PROVE  MempoolInv' /\ LeaveByNonce
<1> DEFINE accts == accounts'
           E == Included(chain')
           P == Pruned(included, accts)
<1>1. TypeOK /\ IsFiniteSet(txs)
  BY DEF MempoolInv
<1>2. /\ accts \in Accounts /\ NoncesUsed(E, accts) /\ ToSet(included) \subseteq E
      /\ txs' = P /\ chain' \in Seq(Block)
  BY DEF Settles, prune
<1>3. /\ P \subseteq Tx /\ IsFiniteSet(P) /\ Cardinality(P) <= MAX_POOL_SIZE
      /\ \A t \in P : t.nonce >= accts[t.from].nonce
  <2> HIDE DEF accts
  <2> QED BY <1>1, <1>2, PruneLeaves
<1>4. TypeOK'
  BY <1>2, <1>3 DEF TypeOK, Block, Accounts, Account
<1>5. IsFiniteSet(txs)'
  BY <1>2, <1>3
<1>6. Fresh(txs, Included(chain), accounts)'
  BY <1>2, <1>3 DEF Fresh
<1>7. LeaveByNonce
  <2> SUFFICES ASSUME NEW t \in txs, t \notin P
               PROVE  \E s \in E : s.from = t.from /\ s.nonce = t.nonce
    BY <1>2 DEF LeaveByNonce
  <2> HIDE DEF accts, E
  <2> QED BY <1>1, <1>2, PrunedAreUsed
<1> QED
  BY <1>4, <1>5, <1>6, <1>7 DEF MempoolInv

LEMMA ExtendSettles ==
  ASSUME MempoolInv, NEW block \in Block, Extend(block)
  PROVE  Settles(block.txs)
<1> DEFINE next == ApplyBlock(Scratch(accounts), block)
<1>1. next.ok /\ chain' = Append(chain, block) /\ accounts' = next.accounts /\ prune(block.txs)
  BY DEF Extend
<1>2. chain \in Seq(Block) /\ accounts \in Accounts
  BY DEF MempoolInv, TypeOK, Block, Accounts, Account
<1>3. NoncesUsed(Included(chain), accounts)
  BY DEF MempoolInv, Fresh
<1>4. /\ next.accounts \in Accounts
      /\ NoncesUsed(Included(chain) \cup ToSet(block.txs), next.accounts)
  BY <1>1, <1>2, <1>3, BlockUsesNonces
<1> HIDE DEF next
<1>5. chain' \in Seq(Block)
  BY <1>1, <1>2, AppendProperties
<1>6. Included(chain') = Included(chain) \cup ToSet(block.txs)
  <2> DEFINE n == Len(chain)
             longer == Append(chain, block)
  <2>1. n \in Nat /\ DOMAIN chain = 1 .. n
    BY <1>2, LenProperties
  <2>2. /\ DOMAIN longer = 1 .. n + 1 /\ longer[n + 1] = block
        /\ \A i \in 1 .. n : longer[i] = chain[i]
    <3>1. longer \in Seq(Block) /\ Len(longer) = n + 1
      BY <1>2, AppendProperties
    <3>2. DOMAIN longer = 1 .. n + 1
      <4> HIDE DEF longer, n
      <4> QED BY <3>1, LenProperties
    <3>3. longer[n + 1] = block /\ \A i \in 1 .. n : longer[i] = chain[i]
      BY <1>2, AppendProperties
    <3> QED BY <3>2, <3>3
  <2>3. 1 .. n + 1 = (1 .. n) \cup {n + 1}
    BY <2>1
  <2> HIDE DEF n, longer
  <2>4. Included(longer) = Included(chain) \cup ToSet(block.txs)
    BY <2>1, <2>2, <2>3 DEF Included
  <2> QED BY <1>1, <2>4 DEF longer
<1> QED
  BY <1>1, <1>4, <1>5, <1>6 DEF Settles

LEMMA ReorganiseSettles ==
  ASSUME MempoolInv, Reorganise
  PROVE  Settles(<<>>)
<1>1. PICK fork \in 0 .. Len(chain) - 1, suffix \in SeqOf(Blocks(MaxPeerTxs), MaxSuffix) :
        LET branch == SubSeq(chain, 1, fork) \o suffix
            run == Execution(branch)
        IN  /\ run.ok
            /\ chain' = branch
            /\ accounts' = run.accounts
            /\ prune(<<>>)
  BY DEF Reorganise
<1> DEFINE branch == SubSeq(chain, 1, fork) \o suffix
<1>2. chain \in Seq(Block)
  BY DEF MempoolInv, TypeOK, Block
<1>3. SubSeq(chain, 1, fork) \in Seq(Block)
  <2>1. Len(chain) \in Nat /\ \A i \in 1 .. Len(chain) : chain[i] \in Block
    BY <1>2, LenProperties, ElementOfSeq
  <2>2. \A i \in 1 .. fork : chain[i] \in Block
    BY <2>1
  <2> QED BY <1>2, <2>1, <2>2, SubSeqProperties
<1>4. suffix \in Seq(Block)
  <2>1. MaxPeerTxs \in Nat /\ MaxSuffix \in Nat
    BY MempoolAssumption
  <2>2. Blocks(MaxPeerTxs) \subseteq Block
    <3>1. SeqOf(Tx, MaxPeerTxs) \subseteq Seq(Tx)
      BY <2>1 DEF SeqOf
    <3> QED BY <3>1 DEF Blocks, Block
  <2>3. suffix \in Seq(Blocks(MaxPeerTxs))
    BY <2>1 DEF SeqOf
  <2> QED BY <2>2, <2>3
<1>5. branch \in Seq(Block)
  BY <1>3, <1>4, ConcatProperties
<1> HIDE DEF branch
<1>6. /\ Execution(branch).ok /\ chain' = branch
      /\ accounts' = Execution(branch).accounts /\ prune(<<>>)
  BY <1>1 DEF branch
<1>7. /\ Execution(branch).accounts \in Accounts
      /\ NoncesUsed(Included(branch), Execution(branch).accounts)
  BY <1>5, <1>6, ExecutionUsesNonces
<1>8. ToSet(<<>>) = {}
  BY DEF ToSet
<1> QED
  BY <1>5, <1>6, <1>7, <1>8 DEF Settles

\* The own batch of a node is a list of transactions.
LEMMA BatchIsSound ==
  ASSUME MempoolInv
  PROVE  /\ select \in Seq(Tx)
         /\ Len(select) <= MaxBlockTxs
         /\ RunTransactions(accounts, select).ok
<1>1. accounts \in Accounts /\ txs \subseteq Tx /\ IsFiniteSet(txs)
  BY DEF MempoolInv, TypeOK, Accounts, Account
<1>2. Selection \in PartialBatches /\ Sound(Selection)
  BY <1>1, SelectionIsSound DEF SoundChoices
<1> QED
  BY <1>2 DEF Sound, PartialBatches, select

LEMMA InitMempoolInv ==
  ASSUME Init
  PROVE  MempoolInv
<1>1. accounts \in Accounts /\ NoncesUsed({}, accounts)
  BY GenesisIsFresh DEF Init
<1>2. IsFiniteSet({}) /\ Cardinality({}) = 0 /\ MAX_POOL_SIZE \in Nat
  BY FS_EmptySet, MempoolAssumption
<1>3. TypeOK
  BY <1>1, <1>2 DEF Init, TypeOK, Accounts, Account
<1>4. Included(<<>>) = {}
  BY DEF Included
<1> QED
  BY <1>1, <1>2, <1>3, <1>4 DEF Init, MempoolInv, Fresh

LEMMA StepMempoolInv ==
  ASSUME MempoolInv, [Next]_vars
  PROVE  /\ MempoolInv'
         /\ Restart \/ LeaveByNonce
<1>1. CASE cog_sendTransaction
  <2>1. PICK t \in Tx : insert(t)
    BY <1>1 DEF cog_sendTransaction
  <2>2. UNCHANGED <<chain, accounts>>
    BY <1>1 DEF cog_sendTransaction
  <2>3. txs' = txs \cup {t}
    BY <2>1 DEF insert
  <2>4. Cardinality(txs) < MAX_POOL_SIZE /\ t.nonce >= accounts[t.from].nonce
    BY <2>1 DEF insert
  <2>5. IsFiniteSet(txs) /\ TypeOK /\ Fresh(txs, Included(chain), accounts)
    BY DEF MempoolInv
  <2>6. IsFiniteSet(txs') /\ Cardinality(txs') <= MAX_POOL_SIZE
    <3>1. /\ IsFiniteSet(txs')
          /\ Cardinality(txs') = IF t \in txs THEN Cardinality(txs)
                                 ELSE Cardinality(txs) + 1
      BY <2>3, <2>5, FS_AddElement
    <3>2. Cardinality(txs) \in Nat /\ MAX_POOL_SIZE \in Nat
      BY <2>5, FS_CardinalityType, MempoolAssumption
    <3> QED BY <2>4, <3>1, <3>2
  <2>7. TypeOK'
    BY <2>2, <2>3, <2>5, <2>6 DEF TypeOK
  <2>8. Fresh(txs, Included(chain), accounts)'
    BY <2>2, <2>3, <2>4, <2>5 DEF Fresh
  <2>9. LeaveByNonce
    BY <2>3 DEF LeaveByNonce
  <2> QED BY <2>6, <2>7, <2>8, <2>9 DEF MempoolInv
<1>2. CASE submit_solution
  <2>1. PICK m \in Miners : Extend([miner |-> m, txs |-> select])
    BY <1>2 DEF submit_solution
  <2> DEFINE block == [miner |-> m, txs |-> select]
  <2>2. block \in Block
    BY BatchIsSound DEF Block
  <2> HIDE DEF block
  <2>3. Settles(block.txs)
    BY <2>1, <2>2, ExtendSettles DEF block
  <2> QED BY <2>3, SettlingKeeps
<1>3. CASE AcceptBlock
  <2>1. PICK block \in Blocks(MaxPeerTxs) : Extend(block)
    BY <1>3 DEF AcceptBlock
  <2>2. block \in Block
    <3>1. MaxPeerTxs \in Nat
      BY MempoolAssumption
    <3>2. SeqOf(Tx, MaxPeerTxs) \subseteq Seq(Tx)
      BY <3>1 DEF SeqOf
    <3> QED BY <3>2 DEF Blocks, Block
  <2> QED BY <2>1, <2>2, ExtendSettles, SettlingKeeps
<1>4. CASE Reorganise
  BY <1>4, ReorganiseSettles, SettlingKeeps
<1>5. CASE Restart
  <2>1. txs' = {} /\ UNCHANGED <<chain, accounts>>
    BY <1>5 DEF Restart
  <2>2. IsFiniteSet({}) /\ Cardinality({}) = 0 /\ MAX_POOL_SIZE \in Nat
    BY FS_EmptySet, MempoolAssumption
  <2>3. TypeOK'
    BY <2>1, <2>2 DEF MempoolInv, TypeOK
  <2>4. Fresh(txs, Included(chain), accounts)'
    BY <2>1 DEF MempoolInv, Fresh
  <2> QED BY <1>5, <2>1, <2>2, <2>3, <2>4 DEF MempoolInv
<1>6. CASE UNCHANGED vars
  <2>1. txs' = txs /\ chain' = chain /\ accounts' = accounts
    BY <1>6 DEF vars
  <2>2. MempoolInv'
    BY <2>1 DEF MempoolInv, TypeOK, Fresh
  <2> QED BY <2>1, <2>2 DEF LeaveByNonce
<1> QED
  BY <1>1, <1>2, <1>3, <1>4, <1>5, <1>6 DEF Next

-----------------------------------------------------------------------------
(* The root of a list of transactions: what it tells of the list *)

Leaves(list) == [i \in 1 .. Len(list) |-> <<list[i]>>]
Up(level) == IF Len(level) > 1 THEN Paired(level) ELSE level

\* f has the values 1 .. n in order.
Level(f, n) == n \in Nat /\ f = [i \in 1 .. n |-> f[i]]

LEMMA LevelLength ==
  ASSUME NEW n \in Nat, NEW f, Level(f, n)
  PROVE  Len(f) = n
<1> DEFINE S == {f[i] : i \in 1 .. n}
<1>1. f \in [1 .. n -> S]
  BY DEF Level
<1>2. f \in Seq(S)
  BY <1>1, SeqDef
<1>3. Len(f) \in Nat /\ DOMAIN f = 1 .. Len(f)
  BY <1>2, LenProperties
<1>4. DOMAIN f = 1 .. n
  BY <1>1
<1> QED BY <1>2, <1>4, LenProperties

LEMMA UpIsLevel ==
  ASSUME NEW n \in Nat, NEW f, Level(f, n)
  PROVE  /\ Level(Up(f), IF n > 1 THEN (n + 1) \div 2 ELSE n)
         /\ n <= 1 => Up(f) = f
         /\ n > 1 =>
              /\ Up(f) = Paired(f)
              /\ \A i \in 1 .. (n + 1) \div 2 :
                   Paired(f)[i] = <<f[2 * i - 1], f[IF 2 * i > n THEN 2 * i - 1 ELSE 2 * i]>>
<1>1. Len(f) = n
  BY LevelLength
<1>2. CASE n <= 1
  BY <1>1, <1>2 DEF Up
<1>3. CASE n > 1
  <2>1. Up(f) = Paired(f)
    BY <1>1, <1>3 DEF Up
  <2>2. Paired(f) = [i \in 1 .. (n + 1) \div 2 |->
                       <<f[2 * i - 1], f[IF 2 * i > n THEN 2 * i - 1 ELSE 2 * i]>>]
    BY <1>1 DEF Paired
  <2>3. (n + 1) \div 2 \in Nat
    OBVIOUS
  <2>4. Level(Paired(f), (n + 1) \div 2)
    BY <2>2, <2>3 DEF Level
  <2> QED BY <1>3, <2>1, <2>2, <2>4
<1> QED BY <1>2, <1>3

\* The levels of a tree, as many as the list has transactions.
Levels(L, n, base) ==
  L = [k \in 0 .. n |-> IF k = 0 THEN base ELSE Up(L[k - 1])]

LEMMA LevelsExist ==
  ASSUME NEW n \in Nat, NEW base
  PROVE  \E L : Levels(L, n, base)
<1> DEFINE Q == {k \in 0 .. n : \E L : Levels(L, k, base)}
<1>1. 0 \in Q
  <2> DEFINE L == [k \in 0 .. 0 |-> base]
  <2>1. \A k \in 0 .. 0 : k = 0
    OBVIOUS
  <2>2. Levels(L, 0, base)
    BY <2>1 DEF Levels
  <2> QED BY <2>2
<1>2. ASSUME NEW k \in 0 .. n - 1, k \in Q
      PROVE  k + 1 \in Q
  <2>1. PICK L : Levels(L, k, base)
    BY <1>2
  <2> DEFINE M == [i \in 0 .. k + 1 |-> IF i = k + 1 THEN Up(L[k]) ELSE L[i]]
  <2>2. \A i \in 0 .. k : L[i] = IF i = 0 THEN base ELSE Up(L[i - 1])
    BY <2>1 DEF Levels
  <2>3. \A i \in 0 .. k + 1 : M[i] = IF i = 0 THEN base ELSE Up(M[i - 1])
    <3> SUFFICES ASSUME NEW i \in 0 .. k + 1
                 PROVE  M[i] = IF i = 0 THEN base ELSE Up(M[i - 1])
      OBVIOUS
    <3>1. CASE i = 0
      BY <2>2, <3>1
    <3>2. CASE i = k + 1
      <4>1. i - 1 = k /\ k \in 0 .. k + 1 /\ k # k + 1 /\ i # 0
        BY <3>2
      <4>2. M[i - 1] = L[k] /\ M[i] = Up(L[k])
        BY <3>2, <4>1
      <4> QED BY <4>1, <4>2
    <3>3. CASE i # 0 /\ i # k + 1
      <4>1. i \in 0 .. k /\ i - 1 \in 0 .. k + 1 /\ i - 1 # k + 1
        BY <3>3
      <4>2. M[i - 1] = L[i - 1] /\ M[i] = L[i]
        BY <3>3, <4>1
      <4> QED BY <2>2, <3>3, <4>1, <4>2
    <3> QED BY <3>1, <3>2, <3>3
  <2>4. Levels(M, k + 1, base)
    <3>1. M = [i \in 0 .. k + 1 |-> M[i]]
      OBVIOUS
    <3> HIDE DEF M
    <3> QED BY <2>3, <3>1 DEF Levels
  <2>5. k + 1 \in 0 .. n
    OBVIOUS
  <2> QED BY <2>4, <2>5
<1>3. n \in Q
  <2> HIDE DEF Q
  <2>1. \A k \in 0 .. n : k \in Q
    BY <1>1, <1>2, UpTo
  <2> QED BY <2>1
<1> QED BY <1>3

\* The root is the last of the levels.
LEMMA RootIsLastLevel ==
  ASSUME NEW V, NEW list \in Seq(V)
  PROVE  \E L : /\ Levels(L, Len(list), Leaves(list))
                /\ tx_root(list) = L[Len(list)]
<1> DEFINE n == Len(list)
           base == Leaves(list)
           index == [i \in 1 .. n |-> i]
           up(level, i) == IF Len(level) > 1 THEN Paired(level) ELSE level
           Folds(it) == it = [s \in SUBSET (1 .. n) |->
                               IF s = {} THEN base
                               ELSE up(it[s \ {Max(s)}], index[Max(s)])]
           fold == CHOOSE it : Folds(it)
<1>1. n \in Nat
  BY LenProperties
<1>2. PICK L : Levels(L, n, base)
  <2> HIDE DEF n, base
  <2> QED BY <1>1, LevelsExist
<1>3. \A k \in 0 .. n : L[k] = IF k = 0 THEN base ELSE Up(L[k - 1])
  <2> HIDE DEF base
  <2> QED BY <1>2 DEF Levels
<1> DEFINE it == [s \in SUBSET (1 .. n) |-> L[Cardinality(s)]]
<1>4. \A x, i : up(x, i) = Up(x)
  BY DEF Up
<1>5. ASSUME NEW s \in SUBSET (1 .. n)
      PROVE  /\ Cardinality(s) \in 0 .. n
             /\ s = {} => Cardinality(s) = 0
             /\ s # {} => /\ s \ {Max(s)} \in SUBSET (1 .. n)
                          /\ Cardinality(s) # 0
                          /\ Cardinality(s \ {Max(s)}) = Cardinality(s) - 1
  <2>1. IsFiniteSet(1 .. n) /\ Cardinality(1 .. n) = n
    <3> HIDE DEF n
    <3> QED BY <1>1, FS_Interval
  <2>2. IsFiniteSet(s) /\ Cardinality(s) \in Nat /\ Cardinality(s) <= n
    <3> HIDE DEF n
    <3> QED BY <2>1, FS_Subset, FS_CardinalityType
  <2>3. s = {} <=> Cardinality(s) = 0
    BY <2>2, FS_EmptySet
  <2>4. s # {} => Max(s) \in s
    <3> HIDE DEF n
    <3> QED BY <1>1, LargestIndex
  <2>5. s # {} => Cardinality(s \ {Max(s)}) = Cardinality(s) - 1
    <3> HIDE DEF n
    <3> QED BY <2>2, <2>4, FS_RemoveElement
  <2>6. Cardinality(s) \in 0 .. n
    <3> HIDE DEF n
    <3> QED BY <1>1, <2>2
  <2> QED BY <2>3, <2>5, <2>6
<1>6. Folds(it)
  <2>1. ASSUME NEW s \in SUBSET (1 .. n)
        PROVE  it[s] = IF s = {} THEN base ELSE Up(it[s \ {Max(s)}])
    <3>1. CASE s = {}
      BY <1>3, <1>5, <3>1
    <3>2. CASE s # {}
      <4>1. it[s \ {Max(s)}] = L[Cardinality(s) - 1] /\ it[s] = L[Cardinality(s)]
        BY <1>5, <3>2
      <4>2. L[Cardinality(s)] = Up(L[Cardinality(s) - 1])
        <5> HIDE DEF n, base
        <5> QED BY <1>3, <1>5, <3>2
      <4> HIDE DEF it, n, base
      <4> QED BY <3>2, <4>1, <4>2
    <3> QED BY <3>1, <3>2
  <2>2. it = [s \in SUBSET (1 .. n) |-> it[s]]
    OBVIOUS
  <2> HIDE DEF it, up, base, n
  <2>3. it = [s \in SUBSET (1 .. n) |-> IF s = {} THEN base
                               ELSE up(it[s \ {Max(s)}], index[Max(s)])]
    BY <1>4, <2>1, <2>2
  <2> QED BY <2>3
<1>7. Folds(fold)
  <2> HIDE DEF Folds
  <2> QED BY <1>6
<1>8. tx_root(list) = fold[1 .. n]
  <2>1. DOMAIN index = 1 .. n
    OBVIOUS
  <2> QED BY <2>1 DEF tx_root, FoldLeft, MapThenFoldSet, Leaves
<1> HIDE DEF fold, it
<1>9. \A s \in SUBSET (1 .. n) : fold[s] = IF s = {} THEN base ELSE Up(fold[s \ {Max(s)}])
  <2> HIDE DEF up, base, n, index
  <2>1. \A s \in SUBSET (1 .. n) :
          fold[s] = IF s = {} THEN base ELSE up(fold[s \ {Max(s)}], index[Max(s)])
    BY <1>7
  <2> QED BY <1>4, <2>1
<1> HIDE DEF Folds, up, index
<1> DEFINE Q == {k \in 0 .. n : fold[1 .. k] = L[k]}
<1>10. 0 \in Q
  <2>1. 1 .. 0 = {} /\ 0 \in 0 .. n
    BY <1>1
  <2> HIDE DEF n, base
  <2> QED BY <1>3, <1>9, <2>1
<1>11. ASSUME NEW k \in 0 .. n - 1, k \in Q
       PROVE  k + 1 \in Q
  <2>1. k + 1 \in 1 .. n /\ k + 1 \in 0 .. n /\ (k + 1) - 1 = k
    BY <1>1
  <2>2. /\ 1 .. (k + 1) \in SUBSET (1 .. n) /\ 1 .. (k + 1) # {}
        /\ Max(1 .. (k + 1)) = k + 1
        /\ (1 .. (k + 1)) \ {k + 1} = 1 .. k
    <3> HIDE DEF n
    <3> QED BY <1>1, <2>1, PrefixGrows
  <2>3. fold[1 .. (k + 1)] = Up(fold[1 .. k])
    <3> HIDE DEF n, base
    <3> QED BY <1>9, <2>2
  <2>4. L[k + 1] = Up(L[k])
    <3> HIDE DEF n, base
    <3> QED BY <1>3, <2>1
  <2> QED BY <1>11, <2>1, <2>3, <2>4
<1>12. n \in Q
  <2> HIDE DEF Q, n, base
  <2>1. \A k \in 0 .. n : k \in Q
    BY <1>1, <1>10, <1>11, UpTo
  <2> QED BY <1>1, <2>1
<1> QED
  <2>1. fold[1 .. n] = L[n]
    BY <1>12
  <2> QED BY <1>2, <1>8, <2>1

\* The levels of a list have the lengths len, and d of them lead to its root.
Shrinks(L, n, base, len, d) ==
  /\ \A k \in 0 .. n : Level(L[k], len[k])
  /\ len[0] = n /\ len[d] <= 1 /\ (n > 0 => len[d] = 1)
  /\ \A k \in 1 .. d : /\ len[k - 1] > 1
                       /\ len[k] = (len[k - 1] + 1) \div 2
  /\ L[0] = base /\ L[d] = L[n]
  /\ \A k \in 1 .. d : L[k] = Up(L[k - 1])

\* Every level is a sequence; the levels get shorter down to one element, and
\* from then on they stay as they are.
LEMMA LevelsShrink ==
  ASSUME NEW n \in Nat, NEW base, Level(base, n), NEW L, Levels(L, n, base)
  PROVE  \E len \in [0 .. n -> Nat], d \in 0 .. n :
           Shrinks(L, n, base, len, d)
<1>1. \A k \in 0 .. n : L[k] = IF k = 0 THEN base ELSE Up(L[k - 1])
  BY DEF Levels
<1> DEFINE len == [k \in 0 .. n |-> Len(L[k])]
           Q == {k \in 0 .. n :
                   /\ Level(L[k], len[k]) /\ len[k] \in Nat
                   /\ len[k] <= 1 \/ len[k] <= n - k
                   /\ n > 0 => len[k] > 0}
<1>2. L[0] = base /\ Len(base) = n /\ len[0] = n
  BY <1>1, LevelLength
<1>3. 0 \in Q
  BY <1>2
<1>4. ASSUME NEW k \in 0 .. n - 1, k \in Q
      PROVE  /\ k + 1 \in Q
             /\ L[k + 1] = Up(L[k])
             /\ len[k + 1] = IF len[k] > 1 THEN (len[k] + 1) \div 2 ELSE len[k]
  <2> DEFINE m == len[k]
             m2 == IF m > 1 THEN (m + 1) \div 2 ELSE m
  <2>1. /\ k + 1 \in 0 .. n /\ k + 1 # 0 /\ (k + 1) - 1 = k
        /\ L[k + 1] = Up(L[k]) /\ Level(L[k], m) /\ m \in Nat
        /\ m <= 1 \/ m <= n - k
        /\ n > 0 => m > 0
    BY <1>1, <1>4
  <2>2. len[k + 1] = Len(L[k + 1])
    BY <2>1
  <2> HIDE DEF m, len
  <2>3. Level(L[k + 1], m2)
    BY <2>1, UpIsLevel
  <2>4. m2 \in Nat /\ (m2 <= 1 \/ m2 <= n - (k + 1)) /\ (n > 0 => m2 > 0)
    BY <2>1
  <2> HIDE DEF m2
  <2>5. len[k + 1] = m2
    BY <2>2, <2>3, <2>4, LevelLength
  <2> QED BY <2>1, <2>3, <2>4, <2>5 DEF m, m2
<1>5. \A k \in 0 .. n : k \in Q
  <2> HIDE DEF Q
  <2> QED BY <1>3, <1>4, UpTo
<1>6. /\ len \in [0 .. n -> Nat]
      /\ \A k \in 0 .. n : Level(L[k], len[k])
      /\ len[n] <= 1
      /\ n > 0 => \A k \in 0 .. n : len[k] > 0
  <2>1. \A k \in 0 .. n : len[k] \in Nat /\ Level(L[k], len[k])
    BY <1>5
  <2>2. len = [k \in 0 .. n |-> len[k]]
    OBVIOUS
  <2>3. len[n] <= 1 \/ len[n] <= n - n
    BY <1>5
  <2>4. n > 0 => \A k \in 0 .. n : len[k] > 0
    BY <1>5
  <2> HIDE DEF len, Q
  <2> QED BY <2>1, <2>2, <2>3, <2>4
<1>7. \A k \in 0 .. n - 1 :
        /\ L[k + 1] = Up(L[k])
        /\ len[k + 1] = IF len[k] > 1 THEN (len[k] + 1) \div 2 ELSE len[k]
  <2> HIDE DEF Q, len
  <2> QED BY <1>4, <1>5
<1> HIDE DEF Q, len
<1> DEFINE Short == {k \in 0 .. n : len[k] <= 1}
<1>8. PICK d \in Short : \A k \in Short : ~(<<k, d>> \in OpToRel(<, Nat))
  <2>1. Short \subseteq Nat /\ Short # {}
    BY <1>6
  <2> HIDE DEF Short
  <2> QED BY <2>1, NatLessThanWellFounded, WFMin
<1>9. \A k \in 0 .. d - 1 : len[k] > 1
  <2> SUFFICES ASSUME NEW k \in 0 .. d - 1, len[k] <= 1
               PROVE  FALSE
    BY <1>6
  <2>1. k \in Short /\ k \in Nat /\ d \in Nat /\ k < d
    OBVIOUS
  <2>2. <<k, d>> \in OpToRel(<, Nat)
    BY <2>1 DEF OpToRel
  <2> QED BY <1>8, <2>1, <2>2
<1>10. d \in 0 .. n /\ len[d] <= 1
  OBVIOUS
<1> HIDE DEF Short
<1>11. L[n] = L[d]
  <2> DEFINE T == {k \in 0 .. n : k >= d => L[k] = L[d] /\ len[k] <= 1}
  <2>1. 0 \in T
    BY <1>10
  <2>2. ASSUME NEW k \in 0 .. n - 1, k \in T
        PROVE  k + 1 \in T
    <3>1. CASE k + 1 = d \/ k + 1 < d
      BY <1>10, <3>1
    <3>2. CASE k >= d
      <4>1. L[k] = L[d] /\ len[k] <= 1
        BY <2>2, <3>2
      <4>2. Level(L[k], len[k]) /\ len[k] \in Nat
        BY <1>6
      <4>3. Up(L[k]) = L[k]
        BY <4>1, <4>2, UpIsLevel
      <4>4. L[k + 1] = Up(L[k]) /\ len[k + 1] = len[k]
        BY <1>6, <1>7, <4>1
      <4> QED BY <4>1, <4>3, <4>4
    <3> QED BY <1>10, <3>1, <3>2
  <2>3. \A k \in 0 .. n : k \in T
    <3> HIDE DEF T
    <3> QED BY <2>1, <2>2, UpTo
  <2> QED BY <1>10, <2>3
<1>12. \A k \in 1 .. d : /\ len[k - 1] > 1
                         /\ len[k] = (len[k - 1] + 1) \div 2
                         /\ L[k] = Up(L[k - 1])
  <2> SUFFICES ASSUME NEW k \in 1 .. d
               PROVE  /\ len[k - 1] > 1
                      /\ len[k] = (len[k - 1] + 1) \div 2
                      /\ L[k] = Up(L[k - 1])
    OBVIOUS
  <2>1. k - 1 \in 0 .. d - 1 /\ k - 1 \in 0 .. n - 1 /\ (k - 1) + 1 = k
    BY <1>10
  <2> QED BY <1>7, <1>9, <2>1
<1>13. n > 0 => len[d] = 1
  BY <1>6, <1>10
<1> QED BY <1>2, <1>6, <1>10, <1>11, <1>12, <1>13 DEF Shrinks

\* Two levels have the same elements, in the same places as far as both go.
Agree(f, m, g, n) ==
  /\ \A i \in (1 .. m) \cap (1 .. n) : f[i] = g[i]
  /\ \A i \in 1 .. m : \E j \in 1 .. n : f[i] = g[j]
  /\ \A j \in 1 .. n : \E i \in 1 .. m : g[j] = f[i]

LEMMA PairsHaveParts ==
  ASSUME NEW a, NEW b, NEW c, NEW d, <<a, b>> = <<c, d>>
  PROVE  a = c /\ b = d
OBVIOUS

\* If the pairs agree, so do the elements that were paired.
LEMMA AgreeBelow ==
  ASSUME NEW m \in Nat, NEW f, Level(f, m), m > 1,
         NEW n \in Nat, NEW g, Level(g, n), n > 1,
         Agree(Up(f), (m + 1) \div 2, Up(g), (n + 1) \div 2)
  PROVE  Agree(f, m, g, n)
<1> DEFINE a == (m + 1) \div 2
           b == (n + 1) \div 2
           F == Up(f)
           G == Up(g)
           second(i, k) == IF 2 * i > k THEN 2 * i - 1 ELSE 2 * i
<1>1. /\ \A i \in 1 .. a : F[i] = <<f[2 * i - 1], f[second(i, m)]>>
      /\ \A i \in 1 .. b : G[i] = <<g[2 * i - 1], g[second(i, n)]>>
  BY UpIsLevel
<1>2. Agree(F, a, G, b) /\ a \in Nat /\ b \in Nat
  OBVIOUS
<1> DEFINE h(i) == (i + 1) \div 2
<1>3. \A i \in 1 .. m : h(i) \in 1 .. a /\ (i = 2 * h(i) - 1 \/ i = 2 * h(i))
  OBVIOUS
<1>4. \A i \in 1 .. n : h(i) \in 1 .. b /\ (i = 2 * h(i) - 1 \/ i = 2 * h(i))
  OBVIOUS
<1>5. \A i \in 1 .. a : 2 * i - 1 \in 1 .. m /\ second(i, m) \in 1 .. m
  OBVIOUS
<1>6. \A i \in 1 .. b : 2 * i - 1 \in 1 .. n /\ second(i, n) \in 1 .. n
  OBVIOUS
<1>7. ASSUME NEW i \in (1 .. m) \cap (1 .. n)
      PROVE  f[i] = g[i]
  <2>1. F[h(i)] = G[h(i)] /\ h(i) \in 1 .. a /\ h(i) \in 1 .. b
    <3> HIDE DEF F, G, a, b, h
    <3> QED BY <1>2, <1>3, <1>4 DEF Agree
  <2>2. F[h(i)] = <<f[2 * h(i) - 1], f[second(h(i), m)]>>
    <3> HIDE DEF F, a, h, second
    <3> QED BY <1>1, <2>1
  <2>3. G[h(i)] = <<g[2 * h(i) - 1], g[second(h(i), n)]>>
    <3> HIDE DEF G, b, h, second
    <3> QED BY <1>1, <2>1
  <2>4. f[2 * h(i) - 1] = g[2 * h(i) - 1] /\ f[second(h(i), m)] = g[second(h(i), n)]
    <3> DEFINE p1 == f[2 * h(i) - 1]
               p2 == f[second(h(i), m)]
               q1 == g[2 * h(i) - 1]
               q2 == g[second(h(i), n)]
    <3>5. <<p1, p2>> = <<q1, q2>>
      BY <2>1, <2>2, <2>3
    <3> HIDE DEF p1, p2, q1, q2
    <3>6. p1 = q1 /\ p2 = q2
      BY <3>5, PairsHaveParts
    <3> QED BY <3>6 DEF p1, p2, q1, q2
  <2>5. CASE i = 2 * h(i) - 1
    <3> HIDE DEF h
    <3> QED BY <2>4, <2>5
  <2>6. CASE i = 2 * h(i)
    <3>1. second(h(i), m) = i /\ second(h(i), n) = i
      <4> HIDE DEF h
      <4> QED BY <2>6
    <3> HIDE DEF h, second
    <3> QED BY <2>4, <3>1
  <2>7. i = 2 * h(i) - 1 \/ i = 2 * h(i)
    BY <1>3
  <2> QED BY <2>5, <2>6, <2>7
<1>8. ASSUME NEW i \in 1 .. m
      PROVE  \E j \in 1 .. n : f[i] = g[j]
  <2>1. PICK k \in 1 .. b : F[h(i)] = G[k]
    <3> HIDE DEF F, G, a, b, h
    <3> QED BY <1>2, <1>3 DEF Agree
  <2>2. F[h(i)] = <<f[2 * h(i) - 1], f[second(h(i), m)]>>
    <3> HIDE DEF F, a, h, second
    <3> QED BY <1>1, <1>3
  <2>3. f[2 * h(i) - 1] = g[2 * k - 1] /\ f[second(h(i), m)] = g[second(k, n)]
    <3>1. G[k] = <<g[2 * k - 1], g[second(k, n)]>>
      <4> HIDE DEF G, b, second
      <4> QED BY <1>1
    <3> DEFINE p1 == f[2 * h(i) - 1]
               p2 == f[second(h(i), m)]
               q1 == g[2 * k - 1]
               q2 == g[second(k, n)]
    <3>5. <<p1, p2>> = <<q1, q2>>
      BY <2>1, <2>2, <3>1
    <3> HIDE DEF p1, p2, q1, q2
    <3>6. p1 = q1 /\ p2 = q2
      BY <3>5, PairsHaveParts
    <3> QED BY <3>6 DEF p1, p2, q1, q2
  <2>4. i = 2 * h(i) - 1 \/ i = second(h(i), m)
    BY <1>3
  <2>5. 2 * k - 1 \in 1 .. n /\ second(k, n) \in 1 .. n
    <3> HIDE DEF b, second
    <3> QED BY <1>6
  <2>6. f[i] = g[2 * k - 1] \/ f[i] = g[second(k, n)]
    BY <2>3, <2>4
  <2> HIDE DEF h, second, a, b, F, G
  <2> QED BY <2>5, <2>6
<1>9. ASSUME NEW j \in 1 .. n
      PROVE  \E i \in 1 .. m : g[j] = f[i]
  <2>1. PICK k \in 1 .. a : G[h(j)] = F[k]
    <3> HIDE DEF F, G, a, b, h
    <3> QED BY <1>2, <1>4 DEF Agree
  <2>2. G[h(j)] = <<g[2 * h(j) - 1], g[second(h(j), n)]>>
    <3> HIDE DEF G, b, h, second
    <3> QED BY <1>1, <1>4
  <2>3. g[2 * h(j) - 1] = f[2 * k - 1] /\ g[second(h(j), n)] = f[second(k, m)]
    <3>1. F[k] = <<f[2 * k - 1], f[second(k, m)]>>
      <4> HIDE DEF F, a, second
      <4> QED BY <1>1
    <3> DEFINE p1 == g[2 * h(j) - 1]
               p2 == g[second(h(j), n)]
               q1 == f[2 * k - 1]
               q2 == f[second(k, m)]
    <3>5. <<p1, p2>> = <<q1, q2>>
      BY <2>1, <2>2, <3>1
    <3> HIDE DEF p1, p2, q1, q2
    <3>6. p1 = q1 /\ p2 = q2
      BY <3>5, PairsHaveParts
    <3> QED BY <3>6 DEF p1, p2, q1, q2
  <2>4. j = 2 * h(j) - 1 \/ j = second(h(j), n)
    BY <1>4
  <2>5. 2 * k - 1 \in 1 .. m /\ second(k, m) \in 1 .. m
    <3> HIDE DEF a, second
    <3> QED BY <1>5
  <2>6. g[j] = f[2 * k - 1] \/ g[j] = f[second(k, m)]
    BY <2>3, <2>4
  <2> HIDE DEF h, second, a, b, F, G
  <2> QED BY <2>5, <2>6
<1> QED BY <1>7, <1>8, <1>9 DEF Agree

\* The levels of a tree from its leaves to its root, with their lengths.
Tree(L, len, d) ==
  /\ len \in [0 .. d -> Nat]
  /\ \A k \in 0 .. d : Level(L[k], len[k])
  /\ len[d] = 1
  /\ \A k \in 1 .. d : /\ len[k - 1] > 1
                       /\ len[k] = (len[k - 1] + 1) \div 2
                       /\ L[k] = Up(L[k - 1])

LEMMA LeavesAreLevel ==
  ASSUME NEW V, NEW list \in Seq(V)
  PROVE  Level(Leaves(list), Len(list))
<1>1. Len(list) \in Nat
  BY LenProperties
<1> QED BY <1>1 DEF Level, Leaves

LEMMA TreeOfList ==
  ASSUME NEW V, NEW list \in Seq(V), Len(list) # 0
  PROVE  \E d \in Nat : \E L, len :
           /\ Tree(L, len, d)
           /\ L[0] = Leaves(list) /\ len[0] = Len(list) /\ L[d] = tx_root(list)
<1>1. Len(list) \in Nat /\ Level(Leaves(list), Len(list))
  BY LenProperties, LeavesAreLevel
<1>2. PICK L : /\ Levels(L, Len(list), Leaves(list))
               /\ tx_root(list) = L[Len(list)]
  BY RootIsLastLevel
<1> DEFINE n == Len(list)
           base == Leaves(list)
<1>3. n \in Nat /\ n > 0 /\ Level(base, n) /\ Levels(L, n, base)
  BY <1>1, <1>2
<1> HIDE DEF n, base
<1>4. PICK len \in [0 .. n -> Nat], d \in 0 .. n :
           Shrinks(L, n, base, len, d)
  BY <1>3, LevelsShrink
<1> DEFINE short == [k \in 0 .. d |-> len[k]]
<1>5. d \in Nat /\ \A k \in 0 .. d : k \in 0 .. n
  BY <1>3
<1>6. Tree(L, short, d)
  <2>1. \A k \in 1 .. d : k \in 0 .. d /\ k - 1 \in 0 .. d
    BY <1>5
  <2>2. \A k \in 0 .. d : short[k] = len[k]
    OBVIOUS
  <2>3. short \in [0 .. d -> Nat]
    BY <1>5
  <2>4. d \in 0 .. d
    BY <1>5
  <2> HIDE DEF short
  <2> QED BY <1>3, <1>4, <1>5, <2>1, <2>2, <2>3, <2>4 DEF Tree, Shrinks
<1>7. short[0] = n
  BY <1>4, <1>5 DEF Shrinks
<1> HIDE DEF short
<1>8. L[0] = base /\ L[d] = L[n]
  BY <1>4 DEF Shrinks
<1> QED BY <1>2, <1>5, <1>6, <1>7, <1>8 DEF n, base

\* Two trees with one root agree on every level that both have, from the root.
LEMMA TreesAgree ==
  ASSUME NEW d \in Nat, NEW L, NEW len, Tree(L, len, d),
         NEW e \in Nat, NEW M, NEW mel, Tree(M, mel, e),
         d <= e, L[d] = M[e]
  PROVE  Agree(L[0], len[0], M[e - d], mel[e - d])
<1> DEFINE Q == {j \in 0 .. d : Agree(L[d - j], len[d - j], M[e - j], mel[e - j])}
<1>1. 0 \in Q
  <2>1. len[d] = 1 /\ mel[e] = 1
    BY DEF Tree
  <2>2. Agree(L[d], 1, M[e], 1)
    BY DEF Agree
  <2> QED BY <2>1, <2>2
<1>2. ASSUME NEW j \in 0 .. d - 1, j \in Q
      PROVE  j + 1 \in Q
  <2> DEFINE k == d - j
             h == e - j
  <2>1. /\ k \in 1 .. d /\ h \in 1 .. e /\ k - 1 \in 0 .. d /\ h - 1 \in 0 .. e
        /\ d - (j + 1) = k - 1 /\ e - (j + 1) = h - 1 /\ j + 1 \in 0 .. d
    OBVIOUS
  <2>2. Agree(L[k], len[k], M[h], mel[h])
    BY <1>2
  <2> HIDE DEF k, h
  <2>3. /\ len[k - 1] > 1 /\ len[k] = (len[k - 1] + 1) \div 2 /\ L[k] = Up(L[k - 1])
        /\ len[k - 1] \in Nat /\ Level(L[k - 1], len[k - 1])
    BY <2>1 DEF Tree
  <2>4. /\ mel[h - 1] > 1 /\ mel[h] = (mel[h - 1] + 1) \div 2 /\ M[h] = Up(M[h - 1])
        /\ mel[h - 1] \in Nat /\ Level(M[h - 1], mel[h - 1])
    BY <2>1 DEF Tree
  <2> DEFINE f == L[k - 1]
             g == M[h - 1]
             p == len[k - 1]
             q == mel[h - 1]
  <2>5. Agree(Up(f), (p + 1) \div 2, Up(g), (q + 1) \div 2)
    BY <2>2, <2>3, <2>4
  <2>6. p \in Nat /\ p > 1 /\ Level(f, p) /\ q \in Nat /\ q > 1 /\ Level(g, q)
    BY <2>3, <2>4
  <2> HIDE DEF f, g, p, q
  <2>7. Agree(f, p, g, q)
    BY <2>5, <2>6, AgreeBelow
  <2> QED BY <2>1, <2>7 DEF f, g, p, q
<1>3. \A j \in 0 .. d : j \in Q
  <2> HIDE DEF Q
  <2> QED BY <1>1, <1>2, UpTo
<1>4. d \in Q /\ d - d = 0
  BY <1>3
<1> QED BY <1>4

\* A hash of two nodes is no hash of a transaction.
LEMMA LeavesAreNoPairs ==
  ASSUME NEW V, NEW list \in Seq(V),
         NEW e \in Nat, NEW M, NEW mel, Tree(M, mel, e), NEW k \in 1 .. e,
         Agree(Leaves(list), Len(list), M[k], mel[k])
  PROVE  FALSE
<1>1. /\ mel[k - 1] > 1 /\ mel[k] = (mel[k - 1] + 1) \div 2 /\ M[k] = Up(M[k - 1])
      /\ k - 1 \in 0 .. e
  BY DEF Tree
<1> DEFINE g == M[k - 1]
           q == mel[k - 1]
<1>2. q \in Nat /\ q > 1 /\ Level(g, q) /\ 1 \in 1 .. ((q + 1) \div 2)
  BY <1>1 DEF Tree
<1> HIDE DEF g, q
<1>3. Up(g)[1] = <<g[2 * 1 - 1], g[IF 2 * 1 > q THEN 2 * 1 - 1 ELSE 2 * 1]>>
  BY <1>2, UpIsLevel
<1>4. M[k][1] = <<g[2 * 1 - 1], g[IF 2 * 1 > q THEN 2 * 1 - 1 ELSE 2 * 1]>>
  BY <1>1, <1>3 DEF g
<1>5. 1 \in 1 .. mel[k]
  BY <1>1, <1>2 DEF q
<1>6. PICK i \in 1 .. Len(list) : M[k][1] = Leaves(list)[i]
  BY <1>5 DEF Agree
<1>7. M[k][1] = <<list[i]>>
  BY <1>6 DEF Leaves
<1> DEFINE u == g[2 * 1 - 1]
           v == g[IF 2 * 1 > q THEN 2 * 1 - 1 ELSE 2 * 1]
           w == list[i]
<1>8. <<w>> = <<u, v>>
  BY <1>4, <1>7
<1> HIDE DEF u, v, w
<1> QED BY <1>8

LEMMA AgreeIsSymmetric ==
  ASSUME NEW f, NEW m, NEW g, NEW n, Agree(f, m, g, n)
  PROVE  Agree(g, n, f, m)
BY DEF Agree

LEMMA EmptyRoot ==
  ASSUME NEW V, NEW W, NEW a \in Seq(V), NEW b \in Seq(W),
         tx_root(a) = tx_root(b), Len(a) = 0
  PROVE  Len(b) = 0
<1>1. PICK L : /\ Levels(L, Len(a), Leaves(a))
               /\ tx_root(a) = L[Len(a)]
  BY RootIsLastLevel
<1>2. tx_root(a) = Leaves(a)
  BY <1>1 DEF Levels
<1>3. Len(tx_root(a)) = 0
  <2>1. Level(Leaves(a), 0)
    BY LeavesAreLevel
  <2>2. 0 \in Nat
    OBVIOUS
  <2>3. Len(Leaves(a)) = 0
    BY <2>1, <2>2, LevelLength
  <2> QED BY <1>2, <2>3
<1>4. ASSUME Len(b) # 0
      PROVE  FALSE
  <2>1. PICK d \in Nat : \E M, mel : Tree(M, mel, d) /\ M[d] = tx_root(b)
    BY <1>4, TreeOfList
  <2>2. PICK M, mel : Tree(M, mel, d) /\ M[d] = tx_root(b)
    BY <2>1
  <2>3. Level(M[d], 1)
    BY <2>2 DEF Tree
  <2>4. Len(M[d]) = 1
    BY <2>3, LevelLength
  <2> QED BY <1>3, <2>2, <2>4
<1> QED BY <1>4

\* Lists with one root have the same transactions, in the same places as far as
\* both go.
LEMMA RootsAgree ==
  ASSUME NEW V, NEW W, NEW a \in Seq(V), NEW b \in Seq(W), tx_root(a) = tx_root(b)
  PROVE  Agree(a, Len(a), b, Len(b))
<1>1. CASE Len(a) = 0 \/ Len(b) = 0
  <2>1. Len(a) = 0 /\ Len(b) = 0
    BY <1>1, EmptyRoot
  <2>2. 1 .. Len(a) = {} /\ 1 .. Len(b) = {}
    BY <2>1
  <2> QED BY <2>2 DEF Agree
<1>2. CASE Len(a) # 0 /\ Len(b) # 0
  <2>1. PICK d \in Nat : \E L, len :
           /\ Tree(L, len, d)
           /\ L[0] = Leaves(a) /\ len[0] = Len(a) /\ L[d] = tx_root(a)
    BY <1>2, TreeOfList
  <2>2. PICK L, len :
           /\ Tree(L, len, d)
           /\ L[0] = Leaves(a) /\ len[0] = Len(a) /\ L[d] = tx_root(a)
    BY <2>1
  <2>3. PICK e \in Nat : \E M, mel :
           /\ Tree(M, mel, e)
           /\ M[0] = Leaves(b) /\ mel[0] = Len(b) /\ M[e] = tx_root(b)
    BY <1>2, TreeOfList
  <2>4. PICK M, mel :
           /\ Tree(M, mel, e)
           /\ M[0] = Leaves(b) /\ mel[0] = Len(b) /\ M[e] = tx_root(b)
    BY <2>3
  <2>5. CASE d < e
    <3>1. Agree(L[0], len[0], M[e - d], mel[e - d]) /\ e - d \in 1 .. e
      BY <2>2, <2>4, <2>5, TreesAgree
    <3> QED BY <2>2, <2>4, <3>1, LeavesAreNoPairs
  <2>6. CASE e < d
    <3>1. Agree(M[0], mel[0], L[d - e], len[d - e]) /\ d - e \in 1 .. d
      BY <2>2, <2>4, <2>6, TreesAgree
    <3> QED BY <2>2, <2>4, <3>1, LeavesAreNoPairs
  <2>7. CASE d = e
    <3>1. Agree(L[0], len[0], M[e - d], mel[e - d]) /\ e - d = 0
      BY <2>2, <2>4, <2>7, TreesAgree
    <3>2. Agree(Leaves(a), Len(a), Leaves(b), Len(b))
      BY <2>2, <2>4, <3>1
    <3>3. \A u, v : <<u>> = <<v>> => u = v
      OBVIOUS
    <3>4. \A i \in 1 .. Len(a), j \in 1 .. Len(b) :
            Leaves(a)[i] = Leaves(b)[j] => a[i] = b[j]
      BY <3>3 DEF Leaves
    <3> QED BY <3>2, <3>4 DEF Agree
  <2> QED BY <2>5, <2>6, <2>7
<1> QED BY <1>1, <1>2

-----------------------------------------------------------------------------
(* One root, one list *)

\* A list that can be executed has no transaction twice: the first time uses up
\* its nonce.
LEMMA ExecutedOnce ==
  ASSUME NEW accts \in Accounts, NEW list \in Seq(Tx), RunTransactions(accts, list).ok,
         NEW i \in 1 .. Len(list), NEW j \in 1 .. Len(list), i < j
  PROVE  list[i] # list[j]
<1> DEFINE n == Len(list)
           t == list[i]
<1> SUFFICES ASSUME list[j] = t PROVE FALSE
  OBVIOUS
<1>1. n \in Nat /\ \A k \in 1 .. n : list[k] \in Tx
  BY LenProperties, ElementOfSeq
<1>2. PICK run \in [0 .. n -> Runs] :
        /\ run[0] = Scratch(accts)
        /\ \A k \in 1 .. n : run[k] = apply_transaction(run[k - 1], list[k])
        /\ RunTransactions(accts, list) = run[n]
        /\ \A k \in 0 .. n : run[k].ok
  BY SuccessfulRun
<1>3. t \in Tx /\ t.from \in Address /\ t.nonce \in Nat
  BY <1>1, TxType
<1>4. ASSUME NEW k \in 1 .. n
      PROVE  LET s == list[k]
                 before == run[k - 1].accounts
                 after == run[k].accounts
             IN  /\ s.nonce = before[s.from].nonce
                 /\ after[s.from].nonce = s.nonce + 1
                 /\ \A a \in Address \ {s.from} : after[a].nonce = before[a].nonce
                 /\ \A a \in Address : before[a].nonce \in Nat
  <2> DEFINE s == list[k]
             r == run[k - 1]
  <2>1. k - 1 \in 0 .. n /\ k \in 0 .. n
    BY <1>1
  <2>2. r \in Runs /\ s \in Tx /\ run[k] = apply_transaction(r, s) /\ run[k].ok
    BY <1>1, <1>2, <2>1
  <2>3. \A a \in Address : r.accounts[a].nonce \in Nat
    <3> HIDE DEF r
    <3> QED BY <2>2 DEF Runs, Accounts, Account
  <2> DEFINE q == run[k]
  <2>4. r \in Runs /\ s \in Tx /\ q = apply_transaction(r, s) /\ q.ok
    BY <2>2
  <2> HIDE DEF r, s, q
  <2>5. /\ s.nonce = r.accounts[s.from].nonce
        /\ q.accounts[s.from].nonce = s.nonce + 1
        /\ \A a \in Address \ {s.from} : q.accounts[a].nonce = r.accounts[a].nonce
    BY <2>4, TransactionStep
  <2> QED BY <2>3, <2>5 DEF r, s, q
<1> DEFINE later(k) == run[k].accounts[t.from].nonce
           Q == {k \in 0 .. n : k >= i => later(k) \in Nat /\ later(k) > t.nonce}
<1>5. 0 \in Q
  BY <1>1
<1>6. ASSUME NEW k \in 0 .. n - 1, k \in Q
      PROVE  k + 1 \in Q
  <2>1. k + 1 \in 1 .. n /\ (k + 1) - 1 = k /\ k + 1 \in 0 .. n
    BY <1>1
  <2> DEFINE s == list[k + 1]
             before == run[k].accounts
             after == run[k + 1].accounts
  <2>2. /\ s.nonce = before[s.from].nonce
        /\ after[s.from].nonce = s.nonce + 1
        /\ \A a \in Address \ {s.from} : after[a].nonce = before[a].nonce
        /\ \A a \in Address : before[a].nonce \in Nat
    BY <1>4, <2>1
  <2>3. CASE k + 1 = i
    <3>1. s = t
      BY <2>3
    <3>2. after[t.from].nonce = t.nonce + 1
      BY <2>2, <3>1
    <3>3. later(k + 1) \in Nat /\ later(k + 1) > t.nonce
      <4> HIDE DEF t
      <4> QED BY <1>3, <3>2
    <3> QED BY <2>1, <3>3
  <2>4. CASE k >= i
    <3>1. before[t.from].nonce \in Nat /\ before[t.from].nonce > t.nonce
      BY <1>6, <2>4
    <3>2. \/ after[t.from].nonce = before[t.from].nonce
          \/ after[t.from].nonce = before[t.from].nonce + 1
      <4> HIDE DEF t, s, before, after
      <4> QED BY <1>3, <2>2
    <3>3. after[t.from].nonce \in Nat /\ after[t.from].nonce > t.nonce
      <4> HIDE DEF t, s, before, after
      <4> QED BY <1>3, <3>1, <3>2
    <3> QED BY <2>1, <3>3
  <2>5. CASE ~(k + 1 >= i)
    BY <2>1, <2>5
  <2> QED BY <1>1, <2>3, <2>4, <2>5
<1>7. \A k \in 0 .. n : k \in Q
  <2> HIDE DEF Q
  <2> QED BY <1>1, <1>5, <1>6, UpTo
<1>8. j - 1 \in 0 .. n /\ j - 1 >= i
  BY <1>1
<1>9. j - 1 \in Q
  BY <1>7, <1>8
<1>10. later(j - 1) \in Nat /\ later(j - 1) > t.nonce
  BY <1>8, <1>9
<1>11. t.nonce = later(j - 1)
  BY <1>4
<1> HIDE DEF later, t
<1> QED BY <1>3, <1>10, <1>11

\* Of two lists that can be executed, the one is not longer with the same root.
LEMMA NotLonger ==
  ASSUME NEW accts \in Accounts,
         NEW a \in Seq(Tx), NEW b \in Seq(Tx),
         RunTransactions(accts, b).ok, Agree(a, Len(a), b, Len(b))
  PROVE  Len(b) <= Len(a)
<1>1. Len(a) \in Nat /\ Len(b) \in Nat
  BY LenProperties
<1> SUFFICES ASSUME Len(a) < Len(b) PROVE FALSE
  BY <1>1
<1> DEFINE j == Len(a) + 1
<1>2. j \in 1 .. Len(b)
  BY <1>1
<1>3. PICK i \in 1 .. Len(a) : b[j] = a[i]
  BY <1>2 DEF Agree
<1>4. i \in 1 .. Len(b) /\ i < j /\ a[i] = b[i]
  BY <1>1 DEF Agree
<1> QED BY <1>2, <1>3, <1>4, ExecutedOnce

\* The root tells the lists that can be executed apart.
LEMMA RootNamesTheList ==
  ASSUME NEW accts \in Accounts,
         NEW a \in Seq(Tx), NEW b \in Seq(Tx), tx_root(a) = tx_root(b),
         RunTransactions(accts, a).ok, RunTransactions(accts, b).ok
  PROVE  a = b
<1>1. Agree(a, Len(a), b, Len(b))
  BY RootsAgree
<1>2. Agree(b, Len(b), a, Len(a))
  BY <1>1, AgreeIsSymmetric
<1>3. Len(a) \in Nat /\ Len(b) \in Nat
  BY LenProperties
<1>4. Len(a) = Len(b)
  BY <1>1, <1>2, <1>3, NotLonger
<1>5. \A i \in 1 .. Len(a) : a[i] = b[i]
  BY <1>1, <1>4 DEF Agree
<1> QED BY <1>4, <1>5, SeqEqual

-----------------------------------------------------------------------------
(* Theorems *)

\* The invariant of the pool: on every branch the chain has used exactly the
\* nonces below those of the accounts, and the pool holds later ones only.
THEOREM MempoolInvariant == Spec => []MempoolInv
BY InitMempoolInv, StepMempoolInv, PTL DEF Spec

\* The pool, the chain and the accounts keep their types, and the pool its size
\* (mempool.rs, MAX_POOL_SIZE).
THEOREM MempoolTypeCorrect == Spec => []TypeOK
<1>1. MempoolInv => TypeOK
  BY DEF MempoolInv
<1> QED BY <1>1, MempoolInvariant, PTL

\* Whatever the pool holds and whatever the parameters are, the batch that
\* select picks for the node's own block can be executed on its tip.
THEOREM OwnBatchAlwaysApplies == Spec => []OwnBatchApplies
<1>1. MempoolInv => OwnBatchApplies
  BY BatchIsSound DEF OwnBatchApplies
<1> QED BY <1>1, MempoolInvariant, PTL

\* Nothing that is on the chain is in the pool, after any reorganisation.
THEOREM IncludedTransactionsLeave == Spec => []IncludedLeaves
<1>1. MempoolInv => IncludedLeaves
  <2> SUFFICES ASSUME MempoolInv, NEW t \in txs, t \in Included(chain)
               PROVE  FALSE
    BY DEF IncludedLeaves
  <2>1. t.nonce < accounts[t.from].nonce /\ t.nonce >= accounts[t.from].nonce
    BY DEF MempoolInv, Fresh, NoncesUsed
  <2>2. t.nonce \in Nat /\ accounts[t.from].nonce \in Nat
    BY TxType DEF MempoolInv, TypeOK
  <2> QED BY <2>1, <2>2
<1> QED BY <1>1, MempoolInvariant, PTL

\* A transaction leaves the pool only when its nonce is used on the chain, or
\* with the restart of the node (EXCHANGE.md:145).
THEOREM OnlyUsedNoncesEverLeave == Spec => OnlyUsedNoncesLeave
<1>1. MempoolInv /\ [Next]_vars
        => [ \/ Restart
             \/ \A t \in txs \ txs' :
                  \E s \in Included(chain') : s.from = t.from /\ s.nonce = t.nonce ]_vars
  BY StepMempoolInv DEF LeaveByNonce
<1> QED BY <1>1, MempoolInvariant, PTL DEF Spec, OnlyUsedNoncesLeave

\* A transaction that would still fit stays out of the batch only if its sender
\* has as many in it as select makes passes (mempool.rs, select).
THEOREM BatchesAreExhaustive == Spec => []BatchIsExhaustive
<1>1. MempoolInv => BatchIsExhaustive
  <2> SUFFICES ASSUME MempoolInv, NEW t \in txs, Fits(Selection, t)
               PROVE  Cardinality(ChosenOf(select, t.from)) >= Passes
    BY DEF BatchIsExhaustive, ChosenOf
  <2>1. accounts \in Accounts /\ txs \subseteq Tx /\ IsFiniteSet(txs)
    BY DEF MempoolInv, TypeOK, Accounts, Account
  <2>2. t \in Tx /\ t.from \in Address
    BY <2>1, TxType
  <2>3. Selection.next_nonce[t.from] >= accounts[t.from].nonce + Passes
    BY <2>1, EveryPassTakesOne
  <2>4. Selection \in PartialBatches /\ Sound(Selection)
    BY <2>1, SelectionIsSound DEF SoundChoices
  <2>5. accounts[t.from].nonce + Cardinality(ChosenOf(select, t.from))
          = Selection.next_nonce[t.from]
    BY <2>2, <2>4 DEF Sound, select
  <2>6. accounts[t.from].nonce \in Nat /\ Passes \in Nat
    BY <2>1, <2>2, MempoolAssumption DEF Accounts, Account
  <2>7. Cardinality(ChosenOf(select, t.from)) \in Nat
    BY <2>2, <2>4, OneMoreChosen DEF PartialBatches, select
  <2> HIDE DEF ChosenOf
  <2> QED BY <2>3, <2>5, <2>6, <2>7
<1> QED BY <1>1, MempoolInvariant, PTL

\* The header of the node's own block commits to one list of transactions only:
\* no other list of the chosen ones that can be executed has the same root
\* (types.rs, tx_root; mempool.rs, select).
THEOREM RootsNameBatches == Spec => []BatchHasItsRoot
<1>1. MempoolInv => BatchHasItsRoot
  <2> SUFFICES ASSUME MempoolInv,
                      NEW other \in SeqOf(ToSet(select), MaxBlockTxs + 1),
                      tx_root(other) = tx_root(select),
                      RunTransactions(accounts, other).ok
               PROVE  other = select
    BY DEF BatchHasItsRoot
  <2>1. accounts \in Accounts
    BY DEF MempoolInv, TypeOK, Accounts, Account
  <2>2. select \in Seq(Tx) /\ RunTransactions(accounts, select).ok
    BY BatchIsSound
  <2>3. ToSet(select) \subseteq Tx
    BY <2>2, ElementOfSeq, LenProperties DEF ToSet
  <2>4. other \in Seq(Tx)
    <3>1. MaxBlockTxs + 1 \in Nat
      BY MempoolAssumption
    <3>2. other \in Seq(ToSet(select))
      BY <3>1 DEF SeqOf
    <3> QED BY <2>3, <3>2, SeqMonotonic
  <2> QED BY <2>1, <2>2, <2>4, RootNamesTheList
<1> QED BY <1>1, MempoolInvariant, PTL
=============================================================================
