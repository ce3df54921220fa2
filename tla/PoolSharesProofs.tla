-------------------------- MODULE PoolSharesProofs --------------------------
(***************************************************************************)
(* What shares and challenges may cost and earn a miner, for any number of *)
(* miners, shares, faults and restarts: the bounds on strikes and on       *)
(* places in the window.                                                   *)
(*                                                                         *)
(* A share is settled by the handler its miner waits for at most once,     *)
(* because that takes it out of pending for good; and by an abandoned      *)
(* handler at most once per call its miner gave up on.                     *)
(***************************************************************************)
EXTENDS PoolShares, FoldLemmas

-----------------------------------------------------------------------------
(* How often a share is in the window *)

Places(list, s) == {i \in DOMAIN list : list[i] = s}

LEMMA PlacesAreFinite ==
  ASSUME NEW list \in Seq(Share), NEW s
  PROVE  IsFiniteSet(Places(list, s)) /\ Cardinality(Places(list, s)) \in Nat
<1>1. Len(list) \in Nat /\ DOMAIN list = 1 .. Len(list)
  BY LenProperties
<1>2. IsFiniteSet(1 .. Len(list)) /\ Places(list, s) \subseteq 1 .. Len(list)
  BY <1>1, FS_Interval DEF Places
<1> QED
  BY <1>2, FS_Subset, FS_CardinalityType

\* Joining a queue gives a share one place more, and the others none.
LEMMA PushedPlaces ==
  ASSUME NEW list \in Seq(Share), NEW v \in Share, NEW size \in Nat \ {0}, NEW s
  PROVE  /\ Pushed(list, v, size) \in Seq(Share)
         /\ Cardinality(Places(Pushed(list, v, size), s))
              <= Cardinality(Places(list, s)) + (IF s = v THEN 1 ELSE 0)
<1> DEFINE q == Append(list, v)
           n == Len(list)
           P == Places(list, s)
<1>1. n \in Nat /\ DOMAIN list = 1 .. n
  BY LenProperties
<1>2. q \in Seq(Share) /\ Len(q) = n + 1
  BY AppendProperties
<1>3. DOMAIN q = 1 .. n + 1
  <2> HIDE DEF q, n
  <2> QED BY <1>2, LenProperties
<1>4. q[n + 1] = v /\ \A i \in 1 .. n : q[i] = list[i]
  BY AppendProperties
<1>5. \A i \in 1 .. n + 1 : q[i] \in Share
  <2> HIDE DEF q, n
  <2> QED BY <1>2, ElementOfSeq
<1>6. IsFiniteSet(P) /\ Cardinality(P) \in Nat
  BY PlacesAreFinite
<1> HIDE DEF n, q
<1>7. P \subseteq 1 .. n
  BY <1>1 DEF Places
<1>8. Places(q, s) = IF s = v THEN P \cup {n + 1} ELSE P
  <2>1. 1 .. n + 1 = (1 .. n) \cup {n + 1}
    BY <1>1
  <2> QED BY <1>1, <1>3, <1>4, <2>1 DEF Places
<1>9. n + 1 \notin P
  BY <1>1, <1>7
<1> HIDE DEF P
<1>10. Cardinality(Places(q, s)) = Cardinality(P) + (IF s = v THEN 1 ELSE 0)
  <2>1. Cardinality(P \cup {n + 1}) = Cardinality(P) + 1
    BY <1>6, <1>9, FS_AddElement
  <2> QED BY <1>6, <1>8, <2>1
<1>11. CASE ~(n + 1 > size)
  <2>1. Pushed(list, v, size) = q
    BY <1>2, <1>11 DEF Pushed, q
  <2>2. Cardinality(P) + (IF s = v THEN 1 ELSE 0) <= Cardinality(P) + (IF s = v THEN 1 ELSE 0)
    BY <1>6
  <2> QED BY <1>2, <1>10, <2>1, <2>2 DEF P
<1>12. CASE n + 1 > size
  <2> DEFINE d == n + 1 - size
             tail == SubSeq(q, d + 1, n + 1)
             T == Places(tail, s)
             U == Places(q, s)
             f == [i \in T |-> i + d]
  <2>1. Pushed(list, v, size) = tail
    <3>1. Pushed(list, v, size) = SubSeq(q, (n + 1) - size + 1, n + 1)
      BY <1>2, <1>12 DEF Pushed, q
    <3>2. (n + 1) - size + 1 = d + 1
      BY <1>1
    <3> QED BY <3>1, <3>2
  <2>2. d \in Nat /\ d + size = n + 1
    BY <1>1, <1>12
  <2> HIDE DEF d
  <2>3. /\ tail \in Seq(Share) /\ Len(tail) = size
        /\ \A i \in 1 .. size : tail[i] = q[i + d]
    <3>1. d + 1 \in Int /\ n + 1 \in Int /\ d + 1 <= n + 1
          /\ (n + 1) - (d + 1) + 1 = size
      BY <1>1, <2>2
    <3>2. \A i \in (d + 1) .. (n + 1) : q[i] \in Share
      BY <1>1, <1>5, <2>2
    <3>3. /\ tail \in Seq(Share)
          /\ Len(tail) = IF d + 1 <= n + 1 THEN (n + 1) - (d + 1) + 1 ELSE 0
          /\ \A i \in 1 .. (n + 1) - (d + 1) + 1 : tail[i] = q[(d + 1) + i - 1]
      BY <3>1, <3>2, SubSeqProperties
    <3>4. \A i \in 1 .. size : (d + 1) + i - 1 = i + d
      BY <2>2
    <3> HIDE DEF tail
    <3> QED BY <3>1, <3>3, <3>4
  <2>4. DOMAIN tail = 1 .. size
    <3> HIDE DEF tail
    <3> QED BY <2>3, LenProperties
  <2> HIDE DEF tail
  <2>5. \A i \in T : i \in Int /\ i + d \in U
    BY <1>1, <1>3, <2>2, <2>3, <2>4 DEF Places
  <2>6. f \in Injection(T, U)
    <3>1. f \in [T -> U]
      BY <2>5
    <3>2. \A i, j \in T : f[i] = f[j] => i = j
      BY <2>2, <2>5
    <3> HIDE DEF f, T, U
    <3> QED BY <3>1, <3>2 DEF Injection, IsInjective
  <2>7. IsFiniteSet(U) /\ Cardinality(U) \in Nat
    BY <1>2, PlacesAreFinite
  <2>8. IsFiniteSet(T) /\ Cardinality(T) \in Nat
    BY <2>3, PlacesAreFinite
  <2>9. Cardinality(T) <= Cardinality(U)
    <3> HIDE DEF f, T, U
    <3> QED BY <2>6, <2>7, FS_Injection
  <2> HIDE DEF T, U
  <2> QED BY <1>6, <1>10, <2>1, <2>3, <2>7, <2>8, <2>9 DEF T, U, P
<1> QED
  BY <1>11, <1>12

-----------------------------------------------------------------------------
(* The inductive invariant *)

\* The requests a miner may hold: for shares of its own, the node's for winning
\* ones only.
Asked(m, submitted) ==
  {r \in [id: submitted, purpose: {"share", "block"}] :
     FinderOf[r.id] = m /\ (r.purpose = "block" => r.id \in Winning)}

\* What a handler may serve.
Stages == {"forward solution", "recorded", "forward reveal", "reply", "verify"}
CallsOf(m, submitted) ==
  [at: {"forward solution", "recorded"}, miner: {m}, call: Share]
    \cup [at: {"forward reveal", "reply", "verify"}, miner: {m}, call: Asked(m, submitted)]

StoresOK ==
  /\ IsFiniteSet(found) /\ found \subseteq Share
  /\ pending \subseteq found
  /\ found_by \subseteq found \cap Winning
  /\ node_requests \subseteq found \cap Winning

CountersOK ==
  /\ strikes \in [Miner -> Nat] /\ gave_up \in [Miner -> Nat]
  /\ window \in Seq(Share)

QueuesOK ==
  /\ todo = [m \in Miner |-> todo[m]]
  /\ \A m \in Miner : todo[m] \in Seq(Asked(m, found))

HandlersOK ==
  /\ handler = [h \in Handlers |-> handler[h]]
  /\ \A m \in Miner : handler[m] # Idle => handler[m] \in CallsOf(m, found)
  /\ handler[Late] # Idle => \E m \in Miner : handler[Late] \in CallsOf(m, found)

\* A share that its miner's handler may still settle.
Open(s) ==
  \/ s \notin found
  \/ s \in pending
  \/ Serving(FinderOf[s], "verify") /\ handler[FinderOf[s]].call.id = s

\* Whether the abandoned handler serves a call of the miner.
Abandoned(m) == IF handler[Late] # Idle /\ handler[Late].miner = m THEN 1 ELSE 0

\* The winning shares of a miner that its own handler will not settle any more.
Done(m) == {s \in found \cap Winning : FinderOf[s] = m /\ ~Open(s)}

\* Every strike used up a winning share or a call that was given up on, and so
\* did every place in the window beyond the one of each share.
StrikesOK ==
  \A m \in Miner : strikes[m] + Abandoned(m) <= Cardinality(Done(m)) + gave_up[m]

WindowOK ==
  \A s \in Share :
    Cardinality(Places(window, s)) + Abandoned(FinderOf[s])
      <= (IF Open(s) THEN 0 ELSE 1) + gave_up[FinderOf[s]]

SharesOK == StoresOK /\ CountersOK /\ QueuesOK /\ HandlersOK
SharesInv == SharesOK /\ StrikesOK /\ WindowOK

-----------------------------------------------------------------------------
(* What the parts of the invariant say and what keeps them *)

LEMMA AskedGrows ==
  ASSUME NEW m \in Miner, NEW F, NEW G, F \subseteq G
  PROVE  Asked(m, F) \subseteq Asked(m, G) /\ CallsOf(m, F) \subseteq CallsOf(m, G)
<1>1. Asked(m, F) \subseteq Asked(m, G)
  BY DEF Asked
<1> QED
  BY <1>1 DEF CallsOf

LEMMA CallFields ==
  ASSUME NEW m \in Miner, NEW F, NEW c \in CallsOf(m, F)
  PROVE  /\ c # Idle /\ c.miner = m
         /\ c.at \in Stages
         /\ c.at \in {"forward reveal", "reply", "verify"} =>
              /\ c.call \in Asked(m, F)
              /\ c.call.id \in F /\ FinderOf[c.call.id] = m
              /\ (c.call.purpose = "block" => c.call.id \in Winning)
<1>1. CASE c \in [at: {"forward solution", "recorded"}, miner: {m}, call: Share]
  <2>1. c.at \in {"forward solution", "recorded"} /\ c.miner = m
    BY <1>1
  <2>2. c # Idle
    <3>1. Idle.at = "idle"
      BY DEF Idle
    <3> QED BY <2>1, <3>1
  <2> QED BY <2>1, <2>2 DEF Stages
<1>2. CASE c \in [at: {"forward reveal", "reply", "verify"}, miner: {m},
                 call: Asked(m, F)]
  <2>1. /\ c.call \in Asked(m, F) /\ c.miner = m
        /\ c.at \in {"forward reveal", "reply", "verify"}
    BY <1>2
  <2>2. c # Idle
    <3>1. Idle.at = "idle"
      BY DEF Idle
    <3> QED BY <2>1, <3>1
  <2> QED BY <2>1, <2>2 DEF Asked, Stages
<1> QED
  BY <1>1, <1>2 DEF CallsOf

\* A handler that serves a request, and the miner it serves.
LEMMA ServedMiner ==
  ASSUME HandlersOK, NEW h \in Handlers, handler[h] # Idle
  PROVE  \E m \in Miner : /\ handler[h] \in CallsOf(m, found)
                          /\ handler[h].miner = m /\ handler[h].at \in Stages
                          /\ h # Late => h = m
<1>1. CASE h = Late
  BY <1>1, CallFields DEF HandlersOK
<1>2. CASE h # Late
  BY <1>2, CallFields DEF HandlersOK, Handlers
<1> QED
  BY <1>1, <1>2

\* One handler changes.
LEMMA HandlerChanges ==
  ASSUME HandlersOK, NEW h \in Handlers, NEW c, found \subseteq found',
         handler' = [handler EXCEPT ![h] = c],
         \/ c = Idle
         \/ \E m \in Miner : c \in CallsOf(m, found') /\ (h # Late => h = m)
  PROVE  HandlersOK'
<1>1. /\ handler' = [g \in Handlers |-> handler'[g]]
      /\ handler'[h] = c /\ \A g \in Handlers \ {h} : handler'[g] = handler[g]
  BY DEF HandlersOK
<1>2. ASSUME NEW m \in Miner, handler'[m] # Idle
      PROVE  handler'[m] \in CallsOf(m, found')
  <2>1. m \in Handlers /\ m # Late
    BY PoolSharesAssumption DEF Handlers
  <2>2. CASE m = h
    BY <1>1, <1>2, <2>1, <2>2
  <2>3. CASE m # h
    <3>1. handler[m] \in CallsOf(m, found)
      BY <1>1, <1>2, <2>1, <2>3 DEF HandlersOK
    <3> QED BY <1>1, <2>1, <2>3, <3>1, AskedGrows
  <2> QED BY <2>2, <2>3
<1>3. ASSUME handler'[Late] # Idle
      PROVE  \E m \in Miner : handler'[Late] \in CallsOf(m, found')
  <2>1. CASE Late = h
    BY <1>1, <1>3, <2>1
  <2>2. CASE Late # h
    <3>1. Late \in Handlers
      BY DEF Handlers
    <3>2. \E m \in Miner : handler[Late] \in CallsOf(m, found)
      BY <1>1, <1>3, <2>2, <3>1 DEF HandlersOK
    <3> QED BY <1>1, <2>2, <3>1, <3>2, AskedGrows
  <2> QED BY <2>1, <2>2
<1> QED
  BY <1>1, <1>2, <1>3 DEF HandlersOK, Idle

LEMMA QueuesKept ==
  ASSUME QueuesOK, UNCHANGED todo, found \subseteq found'
  PROVE  QueuesOK'
<1>1. \A m \in Miner : todo[m] \in Seq(Asked(m, found'))
  <2> SUFFICES ASSUME NEW m \in Miner PROVE todo[m] \in Seq(Asked(m, found'))
    OBVIOUS
  <2>1. Asked(m, found) \subseteq Asked(m, found')
    BY AskedGrows
  <2> QED BY <2>1 DEF QueuesOK
<1> QED
  BY <1>1 DEF QueuesOK

\* As long as nobody is struck and no share counted, shares only close and calls
\* are only given up on or finished.
LEMMA NothingSettled ==
  ASSUME SharesInv, SharesOK', strikes' = strikes,
         window' \in {window, <<>>},
         found \subseteq found',
         \A s \in Share : Open(s)' => Open(s),
         \A m \in Miner : Abandoned(m)' + gave_up[m] <= Abandoned(m) + gave_up'[m]
  PROVE  SharesInv'
<1>1. /\ strikes \in [Miner -> Nat] /\ gave_up \in [Miner -> Nat]
      /\ gave_up' \in [Miner -> Nat] /\ window \in Seq(Share)
      /\ IsFiniteSet(found) /\ IsFiniteSet(found') /\ found \subseteq Share
  BY DEF SharesInv, SharesOK, CountersOK, StoresOK
<1>2. \A m \in Miner : Abandoned(m) \in 0 .. 1 /\ Abandoned(m)' \in 0 .. 1
  BY DEF Abandoned
<1>3. ASSUME NEW m \in Miner
      PROVE  strikes'[m] + Abandoned(m)' <= Cardinality(Done(m)') + gave_up'[m]
  <2>1. Done(m) \subseteq Done(m)'
    BY <1>1 DEF Done
  <2>2. IsFiniteSet(Done(m)')
    <3>1. Done(m)' \subseteq found'
      BY DEF Done
    <3> QED BY <1>1, <3>1, FS_Subset
  <2>3. /\ Cardinality(Done(m)) <= Cardinality(Done(m)')
        /\ Cardinality(Done(m)) \in Nat /\ Cardinality(Done(m)') \in Nat
    BY <2>1, <2>2, FS_Subset, FS_CardinalityType
  <2>4. strikes[m] + Abandoned(m) <= Cardinality(Done(m)) + gave_up[m]
    BY DEF SharesInv, StrikesOK
  <2>5. strikes[m] \in Nat /\ gave_up[m] \in Nat /\ gave_up'[m] \in Nat
    BY <1>1
  <2>6. Abandoned(m)' + gave_up[m] <= Abandoned(m) + gave_up'[m]
    OBVIOUS
  <2> QED BY <1>2, <2>3, <2>4, <2>5, <2>6
<1>4. ASSUME NEW s \in Share
      PROVE  Cardinality(Places(window', s)) + Abandoned(FinderOf[s])'
               <= (IF Open(s)' THEN 0 ELSE 1) + gave_up'[FinderOf[s]]
  <2> DEFINE m == FinderOf[s]
             was == Cardinality(Places(window, s))
             is == Cardinality(Places(window', s))
             room == IF Open(s) THEN 0 ELSE 1
             now == IF Open(s)' THEN 0 ELSE 1
  <2>1. m \in Miner
    BY PoolSharesAssumption
  <2>2. was \in Nat /\ is \in Nat /\ is <= was
    <3>1. was \in Nat
      BY <1>1, PlacesAreFinite
    <3>2. Places(<<>>, s) = {}
      BY DEF Places
    <3>3. Cardinality(Places(<<>>, s)) = 0
      BY <3>2, FS_EmptySet
    <3> QED BY <3>1, <3>3
  <2>3. room \in 0 .. 1 /\ now \in 0 .. 1 /\ room <= now
    OBVIOUS
  <2>4. was + Abandoned(m) <= room + gave_up[m]
    BY DEF SharesInv, WindowOK
  <2>5. gave_up[m] \in Nat /\ gave_up'[m] \in Nat
    BY <1>1, <2>1
  <2>6. Abandoned(m)' + gave_up[m] <= Abandoned(m) + gave_up'[m]
    BY <2>1
  <2>7. Abandoned(m) \in 0 .. 1 /\ Abandoned(m)' \in 0 .. 1
    BY <1>2, <2>1
  <2>8. is + Abandoned(m)' <= now + gave_up'[m]
    <3> DEFINE A == Abandoned(m)
               B == Abandoned(m)'
    <3> HIDE DEF was, is, room, now, m, A, B
    <3>1. was + A <= room + gave_up[m] /\ B + gave_up[m] <= A + gave_up'[m]
      BY <2>4, <2>6 DEF A, B
    <3>2. A \in 0 .. 1 /\ B \in 0 .. 1
      BY <2>7 DEF A, B
    <3>3. is + B <= now + gave_up'[m]
      BY <2>2, <2>3, <2>5, <3>1, <3>2
    <3> QED BY <3>3 DEF B
  <2> QED BY <2>8
<1> QED
  BY <1>3, <1>4 DEF SharesInv, StrikesOK, WindowOK

LEMMA IdleHandler ==
  ASSUME HandlersOK, NEW h \in Handlers
  PROVE  Serving(h, "idle") <=> handler[h] = Idle
<1>1. CASE handler[h] = Idle
  BY <1>1 DEF Serving, Idle
<1>2. CASE handler[h] # Idle
  <2>1. handler[h].at \in Stages
    BY <1>2, ServedMiner
  <2> QED BY <1>2, <2>1 DEF Serving, Stages
<1> QED
  BY <1>1, <1>2

\* The same when one handler begins, goes on or ends without a verdict.
LEMMA OneHandlerMoves ==
  ASSUME SharesInv, SharesOK', UNCHANGED <<strikes, gave_up>>,
         window' \in {window, <<>>}, found \subseteq found',
         pending' \subseteq pending \cup (Share \ found),
         NEW h \in Handlers, NEW c, handler' = [handler EXCEPT ![h] = c],
         c = handler[h] \/ (c.at = "verify" => c.call.id \in pending),
         h = Late /\ c # Idle => handler[Late] # Idle /\ c.miner = handler[Late].miner
  PROVE  SharesInv'
<1>1. HandlersOK /\ CountersOK
  BY DEF SharesInv, SharesOK
<1>2. handler'[h] = c /\ \A g \in Handlers \ {h} : handler'[g] = handler[g]
  BY <1>1 DEF HandlersOK
<1>3. ASSUME NEW s \in Share, Open(s)'
      PROVE  Open(s)
  <2> DEFINE m == FinderOf[s]
  <2>1. m \in Handlers
    BY PoolSharesAssumption DEF Handlers
  <2>2. CASE s \notin found' \/ s \in pending'
    BY <2>2 DEF Open
  <2>3. CASE handler'[m].at = "verify" /\ handler'[m].call.id = s
    <3>1. CASE m # h
      BY <1>2, <2>1, <2>3, <3>1 DEF Open, Serving
    <3>2. CASE m = h
      <4>1. handler'[m] = c
        BY <1>2, <3>2
      <4>2. c.at = "verify" /\ c.call.id = s
        BY <2>3, <4>1
      <4>3. c = handler[m] \/ s \in pending
        BY <3>2, <4>2
      <4> QED BY <4>2, <4>3 DEF Open, Serving
    <3> QED BY <3>1, <3>2
  <2> QED BY <1>3, <2>2, <2>3 DEF Open, Serving
<1>4. ASSUME NEW m \in Miner
      PROVE  Abandoned(m)' + gave_up[m] <= Abandoned(m) + gave_up'[m]
  <2>1. Late \in Handlers /\ gave_up[m] \in Nat /\ gave_up'[m] = gave_up[m]
    BY <1>1 DEF Handlers, CountersOK
  <2>2. handler'[Late] # Idle =>
          handler[Late] # Idle /\ handler'[Late].miner = handler[Late].miner
    BY <1>2, <2>1
  <2>3. Abandoned(m) \in 0 .. 1 /\ Abandoned(m)' \in 0 .. 1
    BY DEF Abandoned
  <2>4. Abandoned(m)' = 1 => Abandoned(m) = 1
    BY <2>2 DEF Abandoned, Idle
  <2>5. Abandoned(m)' <= Abandoned(m)
    BY <2>3, <2>4
  <2> QED BY <2>1, <2>3, <2>5
<1> QED
  BY <1>3, <1>4, NothingSettled

LEMMA NoHandlerMoves ==
  ASSUME SharesInv, SharesOK', UNCHANGED <<strikes, gave_up, window, found, handler>>,
         pending' \subseteq pending
  PROVE  SharesInv'
<1>1. Late \in Handlers /\ handler = [h \in Handlers |-> handler[h]]
  BY DEF Handlers, SharesInv, SharesOK, HandlersOK
<1> DEFINE c == handler[Late]
<1>2. handler' = [handler EXCEPT ![Late] = c]
  BY <1>1
<1>3. c = handler[Late]
  OBVIOUS
<1> HIDE DEF c
<1> QED
  BY <1>1, <1>2, <1>3, OneHandlerMoves

-----------------------------------------------------------------------------
(* The steps *)

LEMMA InitShares ==
  ASSUME Init
  PROVE  SharesInv
<1>1. IsFiniteSet({})
  BY FS_EmptySet
<1>2. SharesOK
  <2>1. StoresOK
    BY <1>1 DEF Init, StoresOK
  <2>2. CountersOK
    BY DEF Init, CountersOK
  <2>3. QueuesOK
    BY DEF Init, QueuesOK
  <2>4. HandlersOK
    BY DEF Init, HandlersOK, Handlers, Idle
  <2> QED BY <2>1, <2>2, <2>3, <2>4 DEF SharesOK
<1>3. \A m \in Miner : Abandoned(m) = 0
  BY DEF Init, Abandoned, Handlers, Idle
<1>4. StrikesOK
  <2> SUFFICES ASSUME NEW m \in Miner
               PROVE  strikes[m] + Abandoned(m) <= Cardinality(Done(m)) + gave_up[m]
    BY DEF StrikesOK
  <2>1. Done(m) = {}
    BY DEF Init, Done
  <2>2. Cardinality(Done(m)) = 0
    BY <2>1, FS_EmptySet
  <2>3. strikes[m] = 0 /\ gave_up[m] = 0
    BY DEF Init
  <2> QED BY <1>3, <2>2, <2>3
<1>5. WindowOK
  <2> SUFFICES ASSUME NEW s \in Share
               PROVE  Cardinality(Places(window, s)) + Abandoned(FinderOf[s])
                        <= (IF Open(s) THEN 0 ELSE 1) + gave_up[FinderOf[s]]
    BY DEF WindowOK
  <2>1. FinderOf[s] \in Miner
    BY PoolSharesAssumption
  <2>2. Places(window, s) = {}
    BY DEF Init, Places
  <2>3. Cardinality(Places(window, s)) = 0
    BY <2>2, FS_EmptySet
  <2>4. gave_up[FinderOf[s]] = 0 /\ Abandoned(FinderOf[s]) = 0
    BY <1>3, <2>1 DEF Init
  <2>5. Open(s)
    BY DEF Init, Open
  <2> QED BY <2>3, <2>4, <2>5
<1> QED
  BY <1>2, <1>4, <1>5 DEF SharesInv

LEMMA SubmitShareKeeps ==
  ASSUME SharesInv, NEW m \in Miner, SubmitShare(m)
  PROVE  SharesInv'
<1>1. PICK s \in Share \ found :
        /\ FinderOf[s] = m
        /\ Serving(m, "idle")
        /\ found' = found \cup {s}
        /\ IF Banned(m) \/ s \in pending
           THEN UNCHANGED <<pending, found_by, handler>>
           ELSE /\ pending' = pending \cup {s}
                /\ IF s \in Winning
                   THEN /\ found_by' \in Trimmed(found_by \cup {s})
                        /\ Serve(m, "forward solution", m, s)
                   ELSE UNCHANGED found_by /\ Serve(m, "recorded", m, s)
  BY DEF SubmitShare
<1>2. UNCHANGED <<node_requests, strikes, window, todo, gave_up>>
  BY DEF SubmitShare, bounds
<1>3. StoresOK /\ CountersOK /\ QueuesOK /\ HandlersOK
  BY DEF SharesInv, SharesOK
<1>4. m \in Handlers /\ m # Late /\ handler[m] = Idle
  <2>1. m \in Handlers /\ m # Late
    BY PoolSharesAssumption DEF Handlers
  <2> QED BY <1>1, <1>3, <2>1, IdleHandler
<1>5. \E c \in {Idle} \cup CallsOf(m, found') :
        handler' = [handler EXCEPT ![m] = c] /\ c.at # "verify"
  <2>1. CASE handler' = handler
    <3>1. handler' = [handler EXCEPT ![m] = Idle]
      BY <1>3, <1>4, <2>1 DEF HandlersOK
    <3>2. Idle \in {Idle} \cup CallsOf(m, found') /\ Idle.at # "verify"
      BY DEF Idle
    <3> HIDE DEF Idle
    <3> QED BY <3>1, <3>2
  <2>2. CASE Serve(m, "forward solution", m, s)
    <3> DEFINE c == [at |-> "forward solution", miner |-> m, call |-> s]
    <3>1. c \in CallsOf(m, found') /\ c.at # "verify"
      BY DEF CallsOf
    <3>2. handler' = [handler EXCEPT ![m] = c]
      BY <2>2 DEF Serve
    <3> HIDE DEF c
    <3> QED BY <3>1, <3>2
  <2>3. CASE Serve(m, "recorded", m, s)
    <3> DEFINE c == [at |-> "recorded", miner |-> m, call |-> s]
    <3>1. c \in CallsOf(m, found') /\ c.at # "verify"
      BY DEF CallsOf
    <3>2. handler' = [handler EXCEPT ![m] = c]
      BY <2>3 DEF Serve
    <3> HIDE DEF c
    <3> QED BY <3>1, <3>2
  <2> QED BY <1>1, <2>1, <2>2, <2>3
<1>6. PICK c \in {Idle} \cup CallsOf(m, found') :
        handler' = [handler EXCEPT ![m] = c] /\ c.at # "verify"
  BY <1>5
<1>7. StoresOK'
  <2>1. pending' \subseteq found' /\ found' \subseteq Share
    BY <1>1, <1>3 DEF StoresOK
  <2>2. IsFiniteSet(found')
    BY <1>1, <1>3, FS_AddElement DEF StoresOK
  <2>3. found_by' \subseteq found' \cap Winning
    <3>1. \A F : F \in Trimmed(found_by \cup {s}) => F \subseteq found_by \cup {s}
      BY DEF Trimmed
    <3> QED BY <1>1, <1>3, <3>1 DEF StoresOK
  <2>4. node_requests' \subseteq found' \cap Winning
    BY <1>1, <1>2, <1>3 DEF StoresOK
  <2> QED BY <2>1, <2>2, <2>3, <2>4 DEF StoresOK
<1>8. SharesOK'
  <2>1. CountersOK'
    BY <1>2, <1>3 DEF CountersOK
  <2>2. QueuesOK'
    BY <1>1, <1>2, <1>3, QueuesKept
  <2>3. HandlersOK'
    BY <1>1, <1>3, <1>4, <1>6, HandlerChanges
  <2> QED BY <1>7, <2>1, <2>2, <2>3 DEF SharesOK
<1>9. pending' \subseteq pending \cup (Share \ found)
  BY <1>1
<1> QED
  BY <1>1, <1>2, <1>4, <1>6, <1>8, <1>9, OneHandlerMoves

\* A handler goes on to the next stage of its call, or finishes it.
LEMMA HandlerGoesOn ==
  ASSUME SharesInv, NEW h \in Handlers, handler[h] # Idle, NEW c,
         handler' = [handler EXCEPT ![h] = c],
         c = Idle \/ (\E m \in Miner : c \in CallsOf(m, found) /\ m = handler[h].miner),
         c.at # "verify",
         UNCHANGED <<strikes, window, gave_up, found, todo, pending, found_by>>,
         node_requests' \subseteq node_requests
  PROVE  SharesInv'
<1>1. StoresOK /\ CountersOK /\ QueuesOK /\ HandlersOK
  BY DEF SharesInv, SharesOK
<1>2. PICK m \in Miner : handler[h].miner = m /\ (h # Late => h = m)
  BY <1>1, ServedMiner
<1>3. c = Idle \/ (c \in CallsOf(m, found) /\ c.miner = m)
  BY <1>2, CallFields
<1>4. HandlersOK'
  <2>1. c = Idle \/ (\E n \in Miner : c \in CallsOf(n, found') /\ (h # Late => h = n))
    BY <1>2, <1>3
  <2>2. found \subseteq found'
    OBVIOUS
  <2> QED BY <1>1, <2>1, <2>2, HandlerChanges
<1>5. SharesOK'
  <2>1. StoresOK' /\ CountersOK' /\ QueuesOK'
    BY <1>1, QueuesKept DEF StoresOK, CountersOK
  <2> QED BY <1>4, <2>1 DEF SharesOK
<1>6. h = Late /\ c # Idle => handler[Late] # Idle /\ c.miner = handler[Late].miner
  BY <1>2, <1>3
<1> QED
  BY <1>5, <1>6, OneHandlerMoves

LEMMA FinishKeeps ==
  ASSUME SharesInv, NEW h \in Handlers, handler[h] # Idle, Finish(h),
         UNCHANGED <<strikes, window, gave_up, found, todo, pending, found_by>>,
         node_requests' \subseteq node_requests
  PROVE  SharesInv'
<1>1. handler' = [handler EXCEPT ![h] = Idle]
  BY DEF Finish
<1>2. Idle.at # "verify"
  BY DEF Idle
<1> QED
  BY <1>1, <1>2, HandlerGoesOn

LEMMA FetchRequestsKeeps ==
  ASSUME SharesInv, NEW m \in Miner, FetchRequests(m)
  PROVE  SharesInv'
<1>1. StoresOK /\ CountersOK /\ QueuesOK /\ HandlersOK
  BY DEF SharesInv, SharesOK
<1>2. /\ todo' = [todo EXCEPT ![m] = Requests(m)]
      /\ UNCHANGED <<pending, node_requests, found_by, strikes, window, found, handler, gave_up>>
  BY DEF FetchRequests, pool, bounds
<1> DEFINE mine == {s \in ToSet(cache[m]) : FinderOf[s] = m}
           own == {Request(s, "share") : s \in pending \cap mine}
           asked == {Request(s, "block") : s \in node_requests \cap mine}
<1>3. Requests(m) \in Seq(Asked(m, found))
  <2>1. Requests(m) = SetToSeq(own) \o SetToSeq(asked)
    BY DEF Requests
  <2>2. own \subseteq Asked(m, found) /\ asked \subseteq Asked(m, found)
    BY <1>1 DEF StoresOK, Request, Asked
  <2>3. IsFiniteSet(pending \cap mine) /\ IsFiniteSet(node_requests \cap mine)
    <3>1. pending \cap mine \subseteq found /\ node_requests \cap mine \subseteq found
      BY <1>1 DEF StoresOK
    <3> HIDE DEF mine
    <3> QED BY <1>1, <3>1, FS_Subset DEF StoresOK
  <2>4. IsFiniteSet(own)
    <3> HIDE DEF mine
    <3>1. [s \in pending \cap mine |-> Request(s, "share")]
            \in Surjection(pending \cap mine, own)
      BY DEF Surjection
    <3> QED BY <2>3, <3>1, FS_Surjection
  <2>5. IsFiniteSet(asked)
    <3> HIDE DEF mine
    <3>1. [s \in node_requests \cap mine |-> Request(s, "block")]
            \in Surjection(node_requests \cap mine, asked)
      BY DEF Surjection
    <3> QED BY <2>3, <3>1, FS_Surjection
  <2> HIDE DEF own, asked
  <2>6. /\ SetToSeq(own) \in Seq(Asked(m, found))
        /\ SetToSeq(asked) \in Seq(Asked(m, found))
    BY <2>2, <2>4, <2>5, SetToSeqHasElements
  <2> QED BY <2>1, <2>6, ConcatProperties
<1>4. QueuesOK'
  BY <1>1, <1>2, <1>3 DEF QueuesOK
<1>5. SharesOK'
  BY <1>1, <1>2, <1>4 DEF SharesOK, StoresOK, CountersOK, HandlersOK
<1> QED
  BY <1>2, <1>5, NoHandlerMoves

LEMMA RouteRevealKeeps ==
  ASSUME SharesInv, NEW m \in Miner, RouteReveal(m)
  PROVE  SharesInv'
<1> DEFINE r == Head(todo[m])
<1>1. StoresOK /\ CountersOK /\ QueuesOK /\ HandlersOK
  BY DEF SharesInv, SharesOK
<1>2. /\ Serving(m, "idle") /\ todo[m] # <<>>
      /\ todo' = [todo EXCEPT ![m] = Tail(@)]
      /\ UNCHANGED <<pending, node_requests, found_by, strikes, window, found, gave_up>>
  BY DEF RouteReveal, pool, bounds
<1>3. \/ Serve(m, "forward reveal", m, r)
      \/ r.id \in pending /\ Serve(m, "verify", m, r)
      \/ UNCHANGED handler
  BY DEF RouteReveal
<1>4. r \in Asked(m, found) /\ Tail(todo[m]) \in Seq(Asked(m, found))
  BY <1>1, <1>2, HeadTailProperties DEF QueuesOK
<1> HIDE DEF r
<1>5. QueuesOK'
  BY <1>1, <1>2, <1>4 DEF QueuesOK
<1>6. StoresOK' /\ CountersOK'
  BY <1>1, <1>2 DEF StoresOK, CountersOK
<1>7. m \in Handlers /\ m # Late /\ handler[m] = Idle
  <2>1. m \in Handlers /\ m # Late
    BY PoolSharesAssumption DEF Handlers
  <2> QED BY <1>1, <1>2, <2>1, IdleHandler
<1>8. CASE UNCHANGED handler
  <2>1. SharesOK'
    BY <1>1, <1>2, <1>5, <1>6, <1>8 DEF SharesOK, HandlersOK
  <2> QED BY <1>2, <1>8, <2>1, NoHandlerMoves
<1>9. ASSUME NEW stage \in {"forward reveal", "verify"}, Serve(m, stage, m, r),
             stage = "verify" => r.id \in pending
      PROVE  SharesInv'
  <2> DEFINE c == [at |-> stage, miner |-> m, call |-> r]
  <2>1. handler' = [handler EXCEPT ![m] = c]
    BY <1>9 DEF Serve
  <2>2. c \in CallsOf(m, found)
    BY <1>4 DEF CallsOf
  <2>3. c.at = "verify" => c.call.id \in pending
    BY <1>9
  <2> HIDE DEF c
  <2>4. HandlersOK'
    BY <1>1, <1>2, <1>7, <2>1, <2>2, HandlerChanges
  <2>5. SharesOK'
    BY <1>5, <1>6, <2>4 DEF SharesOK
  <2> QED BY <1>2, <1>7, <2>1, <2>3, <2>5, OneHandlerMoves
<1>10. CASE Serve(m, "forward reveal", m, r)
  BY <1>9, <1>10
<1>11. CASE r.id \in pending /\ Serve(m, "verify", m, r)
  BY <1>9, <1>11
<1> QED
  BY <1>3, <1>8, <1>10, <1>11

LEMMA AnswerNodeKeeps ==
  ASSUME SharesInv, NEW h \in Handlers, AnswerNode(h)
  PROVE  SharesInv'
<1> DEFINE c == [at |-> "reply", miner |-> handler[h].miner, call |-> handler[h].call]
<1>1. /\ handler[h].at = "forward reveal"
      /\ handler' = [handler EXCEPT ![h] = c]
      /\ UNCHANGED <<strikes, window, gave_up, found, todo, pending, found_by, node_requests>>
  BY DEF AnswerNode, Serving, Serve, pool, miner, bounds
<1>2. HandlersOK
  BY DEF SharesInv, SharesOK
<1>3. handler[h] # Idle
  <2>1. Idle.at = "idle"
    BY DEF Idle
  <2> QED BY <1>1, <2>1
<1>4. PICK m \in Miner : handler[h] \in CallsOf(m, found) /\ handler[h].miner = m
  BY <1>2, <1>3, ServedMiner
<1>5. handler[h].call \in Asked(m, found)
  BY <1>1, <1>4 DEF CallsOf
<1>6. c \in CallsOf(m, found) /\ m = handler[h].miner /\ c.at # "verify"
  BY <1>4, <1>5 DEF CallsOf
<1> HIDE DEF c
<1> QED
  BY <1>1, <1>3, <1>6, HandlerGoesOn

\* What a verdict costs: the share closes, or the abandoned call ends.
UsesUp(m, s) ==
  /\ \A n \in Miner :
       /\ Abandoned(n) \in 0 .. 1 /\ Abandoned(n)' \in 0 .. 1
       /\ Cardinality(Done(n)) \in Nat /\ Cardinality(Done(n)') \in Nat
       /\ Cardinality(Done(n)) + Abandoned(n)'
              + (IF n = m /\ s \in Winning THEN 1 ELSE 0)
            <= Cardinality(Done(n)') + Abandoned(n)
  /\ \A x \in Share :
       /\ Open(x)' => Open(x)
       /\ (IF Open(x) THEN 0 ELSE 1) + Abandoned(FinderOf[x])'
              + (IF x = s THEN 1 ELSE 0)
            <= (IF Open(x)' THEN 0 ELSE 1) + Abandoned(FinderOf[x])

LEMMA VerdictUsesUp ==
  ASSUME SharesInv, NEW h \in Handlers, NEW m \in Miner, NEW s \in found,
         handler[h].at = "verify", handler[h].miner = m, handler[h].call.id = s,
         FinderOf[s] = m, h # Late => h = m,
         found' = found, pending' = pending \ {s},
         handler' = [handler EXCEPT ![h] = Idle]
  PROVE  UsesUp(m, s)
<1>1. /\ HandlersOK /\ IsFiniteSet(found) /\ found \subseteq Share
      /\ pending \subseteq found
  BY DEF SharesInv, SharesOK, StoresOK
<1>2. handler'[h] = Idle /\ \A g \in Handlers \ {h} : handler'[g] = handler[g]
  BY <1>1 DEF HandlersOK
<1>3. Idle.at = "idle" /\ handler[h] # Idle /\ Late \in Handlers
  BY DEF Idle, Handlers
<1>4. ASSUME NEW x \in Share, Open(x)'
      PROVE  Open(x)
  <2> DEFINE f == FinderOf[x]
  <2>1. f \in Handlers
    BY PoolSharesAssumption DEF Handlers
  <2>2. CASE x \notin found' \/ x \in pending'
    BY <2>2 DEF Open
  <2>3. CASE handler'[f].at = "verify" /\ handler'[f].call.id = x
    <3>1. f # h
      BY <1>2, <1>3, <2>3
    <3> QED BY <1>2, <2>1, <2>3, <3>1 DEF Open, Serving
  <2> QED BY <1>4, <2>2, <2>3 DEF Open, Serving
<1>5. \A n \in Miner : Abandoned(n) \in 0 .. 1 /\ Abandoned(n)' \in 0 .. 1
  BY DEF Abandoned
<1>6. ASSUME NEW n \in Miner
      PROVE  /\ IsFiniteSet(Done(n)) /\ IsFiniteSet(Done(n)')
             /\ Cardinality(Done(n)) \in Nat /\ Cardinality(Done(n)') \in Nat
             /\ Done(n) \subseteq Done(n)'
             /\ Cardinality(Done(n)) <= Cardinality(Done(n)')
  <2>1. Done(n) \subseteq found /\ Done(n)' \subseteq found
    BY DEF Done
  <2>2. IsFiniteSet(Done(n)) /\ IsFiniteSet(Done(n)')
    BY <1>1, <2>1, FS_Subset
  <2>3. Done(n) \subseteq Done(n)'
    BY <1>1, <1>4 DEF Done
  <2> QED BY <2>2, <2>3, FS_Subset, FS_CardinalityType
<1>7. CASE h = Late
  <2>1. Abandoned(m) = 1 /\ \A n \in Miner : Abandoned(n)' = 0
    BY <1>2, <1>3, <1>7 DEF Abandoned
  <2>2. ASSUME NEW n \in Miner
        PROVE  Cardinality(Done(n)) + Abandoned(n)'
                   + (IF n = m /\ s \in Winning THEN 1 ELSE 0)
                 <= Cardinality(Done(n)') + Abandoned(n)
    BY <1>5, <1>6, <2>1
  <2>3. ASSUME NEW x \in Share
        PROVE  (IF Open(x) THEN 0 ELSE 1) + Abandoned(FinderOf[x])'
                   + (IF x = s THEN 1 ELSE 0)
                 <= (IF Open(x)' THEN 0 ELSE 1) + Abandoned(FinderOf[x])
    <3> DEFINE was == IF Open(x) THEN 0 ELSE 1
               is == IF Open(x)' THEN 0 ELSE 1
    <3>1. FinderOf[x] \in Miner /\ (x = s => FinderOf[x] = m)
      BY PoolSharesAssumption
    <3>2. was \in 0 .. 1 /\ is \in 0 .. 1 /\ was <= is
      BY <1>4
    <3> HIDE DEF was, is
    <3>3. Abandoned(FinderOf[x])' = 0 /\ Abandoned(FinderOf[x]) \in 0 .. 1
          /\ (x = s => Abandoned(FinderOf[x]) = 1)
      BY <1>5, <2>1, <3>1
    <3>4. was + Abandoned(FinderOf[x])' + (IF x = s THEN 1 ELSE 0)
            <= is + Abandoned(FinderOf[x])
      BY <3>2, <3>3
    <3> QED BY <3>4 DEF was, is
  <2> QED BY <1>4, <1>5, <1>6, <2>2, <2>3 DEF UsesUp
<1>8. CASE h # Late
  <2>1. h = m
    BY <1>8
  <2>2. \A n \in Miner : Abandoned(n)' = Abandoned(n)
    BY <1>2, <1>3, <1>8 DEF Abandoned
  <2>3. Open(s)
    BY <2>1 DEF Open, Serving
  <2>4. ~(Open(s)')
    BY <1>2, <1>3, <2>1 DEF Open, Serving
  <2>5. ASSUME NEW n \in Miner
        PROVE  Cardinality(Done(n)) + Abandoned(n)'
                   + (IF n = m /\ s \in Winning THEN 1 ELSE 0)
                 <= Cardinality(Done(n)') + Abandoned(n)
    <3>1. CASE n = m /\ s \in Winning
      <4>1. s \notin Done(n) /\ s \in Done(n)'
        BY <2>3, <2>4, <3>1 DEF Done
      <4>2. Cardinality(Done(n) \cup {s}) = Cardinality(Done(n)) + 1
        BY <1>6, <4>1, FS_AddElement
      <4>3. Done(n) \cup {s} \subseteq Done(n)'
        BY <1>6, <4>1
      <4>4. Cardinality(Done(n) \cup {s}) <= Cardinality(Done(n)')
        BY <1>6, <4>3, FS_Subset
      <4> QED BY <1>5, <1>6, <2>2, <3>1, <4>2, <4>4
    <3>2. CASE ~(n = m /\ s \in Winning)
      BY <1>5, <1>6, <2>2, <3>2
    <3> QED BY <3>1, <3>2
  <2>6. ASSUME NEW x \in Share
        PROVE  (IF Open(x) THEN 0 ELSE 1) + Abandoned(FinderOf[x])'
                   + (IF x = s THEN 1 ELSE 0)
                 <= (IF Open(x)' THEN 0 ELSE 1) + Abandoned(FinderOf[x])
    <3> DEFINE was == IF Open(x) THEN 0 ELSE 1
               is == IF Open(x)' THEN 0 ELSE 1
    <3>1. FinderOf[x] \in Miner
      BY PoolSharesAssumption
    <3>2. was \in 0 .. 1 /\ is \in 0 .. 1 /\ was + (IF x = s THEN 1 ELSE 0) <= is
      <4>1. CASE x = s
        BY <2>3, <2>4, <4>1
      <4>2. CASE x # s
        BY <1>4, <4>2
      <4> QED BY <4>1, <4>2
    <3> HIDE DEF was, is
    <3>3. Abandoned(FinderOf[x])' = Abandoned(FinderOf[x])
          /\ Abandoned(FinderOf[x]) \in 0 .. 1
      BY <1>5, <2>2, <3>1
    <3>4. was + Abandoned(FinderOf[x])' + (IF x = s THEN 1 ELSE 0)
            <= is + Abandoned(FinderOf[x])
      BY <3>2, <3>3
    <3> QED BY <3>4 DEF was, is
  <2> QED BY <1>4, <1>5, <1>6, <2>5, <2>6 DEF UsesUp
<1> QED
  BY <1>7, <1>8

LEMMA VerifyShareKeeps ==
  ASSUME SharesInv, NEW h \in Handlers, VerifyShare(h)
  PROVE  SharesInv'
<1> DEFINE call == handler[h].call
           s == call.id
<1>1. /\ handler[h].at = "verify" /\ pending' = pending \ {s}
      /\ Settle(handler[h].miner, call)
      /\ handler' = [handler EXCEPT ![h] = Idle]
      /\ UNCHANGED <<node_requests, found_by, found, todo, gave_up>>
  BY DEF VerifyShare, Serving, Finish, miner, bounds
<1>2. StoresOK /\ CountersOK /\ QueuesOK /\ HandlersOK /\ StrikesOK /\ WindowOK
  BY DEF SharesInv, SharesOK
<1>3. handler[h] # Idle
  BY <1>1 DEF Idle
<1>4. PICK m \in Miner : /\ handler[h] \in CallsOf(m, found) /\ handler[h].miner = m
                         /\ (h # Late => h = m)
  BY <1>2, <1>3, ServedMiner
<1>5. call \in Asked(m, found)
  BY <1>1, <1>4 DEF CallsOf
<1> HIDE DEF call
<1>6. /\ s \in found /\ FinderOf[s] = m /\ s \in Share
      /\ (call.purpose = "block" => s \in Winning)
      /\ call.purpose \in {"share", "block"}
  BY <1>2, <1>5 DEF Asked, StoresOK
<1>7. UsesUp(m, s)
  <2> HIDE DEF s
  <2>1. handler[h].call.id = s
    BY DEF s, call
  <2>2. /\ handler[h].at = "verify" /\ handler[h].miner = m
        /\ found' = found /\ pending' = pending \ {s}
        /\ handler' = [handler EXCEPT ![h] = Idle]
    BY <1>1, <1>4
  <2>3. m \in Miner /\ s \in found /\ FinderOf[s] = m /\ (h # Late => h = m)
    BY <1>4, <1>6
  <2> QED BY <2>1, <2>2, <2>3, VerdictUsesUp
<1> HIDE DEF s
<1>8. StoresOK' /\ QueuesOK' /\ HandlersOK'
  <2>1. StoresOK' /\ QueuesOK'
    BY <1>1, <1>2, QueuesKept DEF StoresOK
  <2>2. HandlersOK'
    BY <1>1, <1>2, HandlerChanges
  <2> QED BY <2>1, <2>2
<1>9. CASE call.purpose = "share"
  <2>1. window' = Pushed(window, s, PplnsWindow) /\ strikes' = strikes
    BY <1>1, <1>9 DEF Settle, Opens, s
  <2>2. PplnsWindow \in Nat \ {0}
    BY PoolSharesAssumption
  <2>3. window' \in Seq(Share)
    BY <1>2, <1>6, <2>1, <2>2, PushedPlaces DEF CountersOK
  <2>4. CountersOK'
    BY <1>1, <1>2, <2>1, <2>3 DEF CountersOK
  <2>5. StrikesOK'
    <3> SUFFICES ASSUME NEW n \in Miner
                 PROVE  strikes'[n] + Abandoned(n)' <= Cardinality(Done(n)') + gave_up'[n]
      BY DEF StrikesOK
    <3>1. strikes[n] + Abandoned(n) <= Cardinality(Done(n)) + gave_up[n]
      BY <1>2 DEF StrikesOK
    <3>2. strikes[n] \in Nat /\ gave_up[n] \in Nat
      BY <1>2 DEF CountersOK
    <3>3. Cardinality(Done(n)) + Abandoned(n)' <= Cardinality(Done(n)') + Abandoned(n)
      BY <1>7 DEF UsesUp
    <3> QED BY <1>1, <1>7, <2>1, <3>1, <3>2, <3>3 DEF UsesUp
  <2>6. WindowOK'
    <3> SUFFICES ASSUME NEW x \in Share
                 PROVE  Cardinality(Places(window', x)) + Abandoned(FinderOf[x])'
                          <= (IF Open(x)' THEN 0 ELSE 1) + gave_up'[FinderOf[x]]
      BY DEF WindowOK
    <3> DEFINE was == IF Open(x) THEN 0 ELSE 1
               is == IF Open(x)' THEN 0 ELSE 1
               one == IF x = s THEN 1 ELSE 0
               A == Abandoned(FinderOf[x])
               B == Abandoned(FinderOf[x])'
               P == Cardinality(Places(window, x))
               Q == Cardinality(Places(window', x))
               g == gave_up[FinderOf[x]]
    <3>1. FinderOf[x] \in Miner
      BY PoolSharesAssumption
    <3>2. P + A <= was + g
      BY <1>2 DEF WindowOK
    <3>3. Q <= P + one
      BY <1>2, <1>6, <2>1, <2>2, PushedPlaces DEF CountersOK
    <3>4. P \in Nat /\ Q \in Nat /\ g \in Nat
      BY <1>2, <2>3, <3>1, PlacesAreFinite DEF CountersOK
    <3>5. A \in 0 .. 1 /\ B \in 0 .. 1
      BY <1>7, <3>1 DEF UsesUp
    <3>6. was + B + one <= is + A
      BY <1>7 DEF UsesUp
    <3>7. was \in 0 .. 1 /\ is \in 0 .. 1 /\ one \in 0 .. 1 /\ gave_up'[FinderOf[x]] = g
      BY <1>1
    <3> HIDE DEF was, is, one, A, B, P, Q, g
    <3>8. Q + B <= is + g
      BY <3>2, <3>3, <3>4, <3>5, <3>6, <3>7
    <3> QED BY <3>7, <3>8 DEF Q, B, is
  <2> QED BY <1>8, <2>4, <2>5, <2>6 DEF SharesInv, SharesOK
<1>10. CASE call.purpose = "block"
  <2>1. strikes' = [strikes EXCEPT ![m] = @ + 1] /\ window' = window
    BY <1>1, <1>4, <1>10 DEF Settle, Opens
  <2>2. CountersOK'
    BY <1>1, <1>2, <2>1 DEF CountersOK
  <2>3. s \in Winning
    BY <1>6, <1>10
  <2>4. StrikesOK'
    <3> SUFFICES ASSUME NEW n \in Miner
                 PROVE  strikes'[n] + Abandoned(n)' <= Cardinality(Done(n)') + gave_up'[n]
      BY DEF StrikesOK
    <3> DEFINE one == IF n = m THEN 1 ELSE 0
               A == Abandoned(n)
               B == Abandoned(n)'
               D == Cardinality(Done(n))
               E == Cardinality(Done(n)')
               k == strikes[n]
               g == gave_up[n]
    <3>1. k + A <= D + g
      BY <1>2 DEF StrikesOK
    <3>2. k \in Nat /\ g \in Nat /\ strikes'[n] = k + one /\ gave_up'[n] = g
      BY <1>1, <1>2, <2>1 DEF CountersOK
    <3>3. D + B + one <= E + A
      BY <1>7, <2>3 DEF UsesUp
    <3>4. A \in 0 .. 1 /\ B \in 0 .. 1 /\ D \in Nat /\ E \in Nat /\ one \in 0 .. 1
      BY <1>7 DEF UsesUp
    <3> HIDE DEF one, A, B, D, E, k, g
    <3>5. k + one + B <= E + g
      BY <3>1, <3>2, <3>3, <3>4
    <3> QED BY <3>2, <3>5 DEF B, E
  <2>5. WindowOK'
    <3> SUFFICES ASSUME NEW x \in Share
                 PROVE  Cardinality(Places(window', x)) + Abandoned(FinderOf[x])'
                          <= (IF Open(x)' THEN 0 ELSE 1) + gave_up'[FinderOf[x]]
      BY DEF WindowOK
    <3> DEFINE was == IF Open(x) THEN 0 ELSE 1
               is == IF Open(x)' THEN 0 ELSE 1
               one == IF x = s THEN 1 ELSE 0
               A == Abandoned(FinderOf[x])
               B == Abandoned(FinderOf[x])'
               P == Cardinality(Places(window, x))
               g == gave_up[FinderOf[x]]
    <3>1. FinderOf[x] \in Miner
      BY PoolSharesAssumption
    <3>2. P + A <= was + g
      BY <1>2 DEF WindowOK
    <3>3. Cardinality(Places(window', x)) = P
      BY <2>1
    <3>4. P \in Nat /\ g \in Nat
      BY <1>2, <3>1, PlacesAreFinite DEF CountersOK
    <3>5. A \in 0 .. 1 /\ B \in 0 .. 1
      BY <1>7, <3>1 DEF UsesUp
    <3>6. was + B + one <= is + A
      BY <1>7 DEF UsesUp
    <3>7. was \in 0 .. 1 /\ is \in 0 .. 1 /\ one \in 0 .. 1 /\ gave_up'[FinderOf[x]] = g
      BY <1>1
    <3> HIDE DEF was, is, one, A, B, P, g
    <3>8. P + B <= is + g
      BY <3>2, <3>4, <3>5, <3>6, <3>7
    <3> QED BY <3>3, <3>7, <3>8 DEF B, is
  <2> QED BY <1>8, <2>2, <2>4, <2>5 DEF SharesInv, SharesOK
<1> QED
  BY <1>6, <1>9, <1>10

\* The miner goes on without an answer; the handler it left behind may strike it
\* once more, which its count of calls given up on pays for.
LEMMA GiveUpKeeps ==
  ASSUME SharesInv, NEW m \in Miner, GiveUp(m)
  PROVE  SharesInv'
<1>1. /\ ~Serving(m, "idle") /\ Serving(Late, "idle")
      /\ gave_up' = [gave_up EXCEPT ![m] = @ + 1]
      /\ handler' = [handler EXCEPT ![m] = Idle, ![Late] = handler[m]]
      /\ todo' = [todo EXCEPT ![m] = <<>>]
      /\ UNCHANGED <<pending, node_requests, found_by, strikes, window, found>>
  BY DEF GiveUp, pool
<1>2. StoresOK /\ CountersOK /\ QueuesOK /\ HandlersOK
  BY DEF SharesInv, SharesOK
<1>3. m \in Handlers /\ Late \in Handlers /\ m # Late
  BY PoolSharesAssumption DEF Handlers
<1>4. handler[m] # Idle /\ handler[Late] = Idle
  BY <1>1, <1>2, <1>3, IdleHandler
<1>5. /\ handler' = [h \in Handlers |-> handler'[h]]
      /\ handler'[m] = Idle /\ handler'[Late] = handler[m]
      /\ \A h \in Handlers \ {m, Late} : handler'[h] = handler[h]
  BY <1>1, <1>2, <1>3 DEF HandlersOK
<1>6. handler[m] \in CallsOf(m, found) /\ handler[m].miner = m
  <2>1. handler[m] \in CallsOf(m, found)
    BY <1>2, <1>4 DEF HandlersOK
  <2> QED BY <2>1, CallFields
<1>7. HandlersOK'
  <2>1. \A n \in Miner : n \in Handlers /\ n # Late
    BY PoolSharesAssumption DEF Handlers
  <2>2. \A n \in Miner : handler'[n] # Idle => handler'[n] \in CallsOf(n, found')
    BY <1>1, <1>2, <1>5, <2>1 DEF HandlersOK
  <2>3. handler'[Late] \in CallsOf(m, found')
    BY <1>1, <1>5, <1>6
  <2> QED BY <1>5, <2>2, <2>3 DEF HandlersOK, Idle
<1>8. SharesOK'
  <2>1. StoresOK' /\ CountersOK'
    BY <1>1, <1>2 DEF StoresOK, CountersOK
  <2>2. QueuesOK'
    BY <1>1, <1>2 DEF QueuesOK
  <2> QED BY <1>7, <2>1, <2>2 DEF SharesOK
<1>9. ASSUME NEW s \in Share, Open(s)'
      PROVE  Open(s)
  <2>1. FinderOf[s] \in Miner /\ FinderOf[s] # Late /\ FinderOf[s] \in Handlers
    BY PoolSharesAssumption DEF Handlers
  <2>2. CASE FinderOf[s] = m
    <3>1. ~(handler'[FinderOf[s]].at = "verify")
      BY <1>5, <2>2 DEF Idle
    <3> QED BY <1>1, <1>9, <3>1 DEF Open, Serving
  <2>3. CASE FinderOf[s] # m
    BY <1>1, <1>5, <1>9, <2>1, <2>3 DEF Open, Serving
  <2> QED BY <2>2, <2>3
<1>10. ASSUME NEW n \in Miner
       PROVE  Abandoned(n)' + gave_up[n] <= Abandoned(n) + gave_up'[n]
  <2>1. gave_up[n] \in Nat /\ gave_up'[n] = gave_up[n] + (IF n = m THEN 1 ELSE 0)
    BY <1>1, <1>2 DEF CountersOK
  <2>2. Abandoned(n) = 0
    BY <1>4 DEF Abandoned
  <2>3. Abandoned(n)' = IF n = m THEN 1 ELSE 0
    BY <1>4, <1>5, <1>6 DEF Abandoned, Idle
  <2> QED BY <2>1, <2>2, <2>3
<1> QED
  BY <1>1, <1>8, <1>9, <1>10, NothingSettled

LEMMA RestartKeeps ==
  ASSUME SharesInv, Restart
  PROVE  SharesInv'
<1>1. /\ pending' = {} /\ node_requests' = {} /\ found_by' = {} /\ window' = <<>>
      /\ handler' = [h \in Handlers |-> Idle]
      /\ todo' = [m \in Miner |-> IF Serving(m, "idle") THEN todo[m] ELSE <<>>]
      /\ UNCHANGED <<strikes, found, gave_up>>
  BY DEF Restart
<1>2. StoresOK /\ CountersOK /\ QueuesOK /\ HandlersOK
  BY DEF SharesInv, SharesOK
<1>3. Late \in Handlers /\ \A m \in Miner : m \in Handlers
  BY DEF Handlers
<1>4. SharesOK'
  <2>1. StoresOK' /\ CountersOK' /\ QueuesOK'
    BY <1>1, <1>2 DEF StoresOK, CountersOK, QueuesOK
  <2>2. HandlersOK'
    BY <1>1, <1>3 DEF HandlersOK, Idle
  <2> QED BY <2>1, <2>2 DEF SharesOK
<1>5. \A s \in Share : Open(s)' => Open(s)
  <2> SUFFICES ASSUME NEW s \in Share, Open(s)' PROVE Open(s)
    OBVIOUS
  <2>1. FinderOf[s] \in Handlers
    BY <1>3, PoolSharesAssumption
  <2>2. ~(handler'[FinderOf[s]].at = "verify")
    BY <1>1, <2>1 DEF Idle
  <2> QED BY <1>1, <2>2 DEF Open, Serving
<1>6. \A m \in Miner : Abandoned(m)' + gave_up[m] <= Abandoned(m) + gave_up'[m]
  <2> SUFFICES ASSUME NEW m \in Miner
               PROVE  Abandoned(m)' + gave_up[m] <= Abandoned(m) + gave_up'[m]
    OBVIOUS
  <2>1. Abandoned(m)' = 0
    BY <1>1, <1>3 DEF Abandoned, Idle
  <2>2. Abandoned(m) \in 0 .. 1
    BY DEF Abandoned
  <2>3. gave_up[m] \in Nat /\ gave_up'[m] = gave_up[m]
    BY <1>1, <1>2 DEF CountersOK
  <2> QED BY <2>1, <2>2, <2>3
<1> QED
  BY <1>1, <1>4, <1>5, <1>6, NothingSettled

LEMMA StepSharesInv ==
  ASSUME SharesInv, [Next]_vars
  PROVE  SharesInv'
<1>1. StoresOK /\ CountersOK /\ QueuesOK /\ HandlersOK
  BY DEF SharesInv, SharesOK
<1>2. ASSUME NEW m \in Miner, MinerStep(m)
      PROVE  SharesInv'
  BY <1>2, SubmitShareKeeps, FetchRequestsKeeps, RouteRevealKeeps DEF MinerStep
<1>3. ASSUME NEW m \in Miner, GiveUp(m)
      PROVE  SharesInv'
  BY <1>3, GiveUpKeeps
<1>4. ASSUME NEW h \in Handlers, PoolStep(h)
      PROVE  SharesInv'
  <2>1. Idle.at = "idle"
    BY DEF Idle
  <2>2. CASE ForwardSolution(h)
    <3>1. handler[h] # Idle /\ Finish(h)
      BY <2>1, <2>2 DEF ForwardSolution, Serving
    <3>2. UNCHANGED <<strikes, window, gave_up, found, todo, pending, found_by, node_requests>>
      BY <2>2 DEF ForwardSolution, pool, bounds
    <3> QED BY <3>1, <3>2, FinishKeeps
  <2>3. CASE ReplyToShare(h)
    <3>1. handler[h] # Idle /\ Finish(h)
      BY <2>1, <2>3 DEF ReplyToShare, Serving
    <3>2. UNCHANGED <<strikes, window, gave_up, found, todo, pending, found_by, node_requests>>
      BY <2>3 DEF ReplyToShare, pool, bounds
    <3> QED BY <3>1, <3>2, FinishKeeps
  <2>4. CASE AnswerNode(h)
    BY <2>4, AnswerNodeKeeps
  <2>5. CASE DropNodeRequest(h)
    <3>1. handler[h] # Idle /\ Finish(h)
      BY <2>1, <2>5 DEF DropNodeRequest, Serving
    <3>2. UNCHANGED <<strikes, window, gave_up, found, todo, pending, found_by>>
      BY <2>5 DEF DropNodeRequest, miner, bounds
    <3>3. node_requests' \subseteq node_requests
      BY <2>5 DEF DropNodeRequest
    <3> QED BY <3>1, <3>2, <3>3, FinishKeeps
  <2>6. CASE VerifyShare(h)
    BY <2>6, VerifyShareKeeps
  <2> QED BY <1>4, <2>2, <2>3, <2>4, <2>5, <2>6 DEF PoolStep
<1>5. CASE follow_node
  <2>1. /\ UNCHANGED <<strikes, window, gave_up, found, todo, handler, found_by>>
        /\ pending' \subseteq pending
        /\ node_requests' \subseteq node_requests \cup found_by
    BY <1>5 DEF follow_node, PollNode, TakeRequests, ExpireShare, pool, miner, bounds
  <2>2. SharesOK'
    BY <1>1, <2>1 DEF SharesOK, StoresOK, CountersOK, QueuesOK, HandlersOK
  <2> QED BY <2>1, <2>2, NoHandlerMoves
<1>6. CASE NewTip \/ UNCHANGED vars
  <2>1. UNCHANGED <<strikes, window, gave_up, found, todo, handler, found_by, pending,
                    node_requests>>
    BY <1>6 DEF NewTip, pool, miner, vars
  <2>2. SharesOK'
    BY <1>1, <2>1 DEF SharesOK, StoresOK, CountersOK, QueuesOK, HandlersOK
  <2> QED BY <2>1, <2>2, NoHandlerMoves
<1>7. CASE Restart
  BY <1>7, RestartKeeps
<1> QED
  BY <1>2, <1>3, <1>4, <1>5, <1>6, <1>7 DEF Next

-----------------------------------------------------------------------------
(* Theorems *)

\* The invariant of shares: every strike and every place in the window is paid
\* for by a share that is closed or a call that was given up on.
THEOREM SharesInvariant == Spec => []SharesInv
BY InitShares, StepSharesInv, PTL DEF Spec

\* The true rows of a miner cost it at most one strike per block it found and per
\* call it gave up on (cog_submitReveal).
THEOREM StrikesAreBounded == Spec => []StrikesAreExplained
<1>1. SharesInv => StrikesAreExplained
  <2> SUFFICES ASSUME SharesInv, NEW m \in Miner
               PROVE  strikes[m]
                        <= Cardinality({s \in found \cap Winning : FinderOf[s] = m})
                             + gave_up[m]
    BY DEF StrikesAreExplained
  <2> DEFINE W == {s \in found \cap Winning : FinderOf[s] = m}
  <2>1. strikes[m] \in Nat /\ gave_up[m] \in Nat /\ IsFiniteSet(found)
    BY DEF SharesInv, SharesOK, CountersOK, StoresOK
  <2>2. W \subseteq found /\ Done(m) \subseteq W
    BY DEF Done
  <2> HIDE DEF W
  <2>3. IsFiniteSet(W) /\ Cardinality(W) \in Nat
    BY <2>1, <2>2, FS_Subset, FS_CardinalityType
  <2>4. Cardinality(Done(m)) \in Nat /\ Cardinality(Done(m)) <= Cardinality(W)
    BY <2>2, <2>3, FS_Subset, FS_CardinalityType
  <2>5. Abandoned(m) \in 0 .. 1
    BY DEF Abandoned
  <2>6. strikes[m] + Abandoned(m) <= Cardinality(Done(m)) + gave_up[m]
    BY DEF SharesInv, StrikesOK
  <2>7. strikes[m] <= Cardinality(W) + gave_up[m]
    BY <2>1, <2>3, <2>4, <2>5, <2>6
  <2> QED BY <2>7 DEF W
<1> QED BY <1>1, SharesInvariant, PTL

\* A share is in the window once, and once more per call its miner gave up on at
\* most.
THEOREM PlacesAreBounded == Spec => []SharesCountOnce
<1>1. SharesInv => SharesCountOnce
  <2> SUFFICES ASSUME SharesInv, NEW s \in Share
               PROVE  Cardinality(Places(window, s)) <= 1 + gave_up[FinderOf[s]]
    BY DEF SharesCountOnce, Places
  <2>1. FinderOf[s] \in Miner
    BY PoolSharesAssumption
  <2>2. gave_up[FinderOf[s]] \in Nat /\ Cardinality(Places(window, s)) \in Nat
    BY <2>1, PlacesAreFinite DEF SharesInv, SharesOK, CountersOK
  <2>3. Abandoned(FinderOf[s]) \in 0 .. 1
    BY DEF Abandoned
  <2> DEFINE room == IF Open(s) THEN 0 ELSE 1
  <2>4. Cardinality(Places(window, s)) + Abandoned(FinderOf[s])
          <= room + gave_up[FinderOf[s]]
    BY DEF SharesInv, WindowOK
  <2>5. room \in 0 .. 1
    OBVIOUS
  <2> HIDE DEF room
  <2> QED BY <2>2, <2>3, <2>4, <2>5
<1> QED BY <1>1, SharesInvariant, PTL
=============================================================================
