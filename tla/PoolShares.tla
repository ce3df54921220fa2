----------------------------- MODULE PoolShares -----------------------------
(***************************************************************************)
(* Shares and challenges between a miner, the pool and the pool's node:    *)
(* cog_submitSolution, cog_getRevealRequests and cog_submitReveal of       *)
(* pool.rs, the part of follow_node that collects the node's challenges    *)
(* and expires shares, and the loop of cog-miner that answers them         *)
(* (cli.py).  Each request handler runs in its own thread and gives up the *)
(* pool's lock while it calls the node or recomputes rows.                 *)
(*                                                                         *)
(* The miners are honest: they answer every request, with rows of the true *)
(* product, the rows that request asked for.  A share that wins a block    *)
(* carries the same commit_id as the block's commitment, so both the pool  *)
(* and the node may ask for rows of it: different rows, and not equally    *)
(* many.                                                                   *)
(*                                                                         *)
(* External part: the node.  It owes a reveal for a commitment until rows  *)
(* that answer its challenge arrive, or another block closes the window.   *)
(*                                                                         *)
(* Faults.  A miner gives up on a call after 15 seconds (rpc.py) and goes  *)
(* on; the pool, which does not notice, finishes serving it.  The pool may *)
(* stop and start again: only its ledger outlives that.                    *)
(*                                                                         *)
(* Left out: difficulties and seeds (every share offered meets the pool's  *)
(* difficulty), and calls of the pool to its node that fail.               *)
(***************************************************************************)
EXTENDS Integers, Sequences, FiniteSets, SequencesExt, FiniteSetsExt, Functions

CONSTANTS
  Miner,
  Share,          \* commit ids of the shares that miners will find
  FinderOf,       \* who finds a share: Share -> Miner
  Winning,        \* the shares that also meet the network's difficulty
  MAX_STRIKES,
  PplnsWindow,    \* config.pplns_window
  CACHE_SIZE,     \* solved tasks a miner keeps (cli.py)
  FoundByLimit,   \* entries of found_by above which some are removed: 1024
  FoundByCut,     \* how many entries are removed at most: 512
  NoReply,        \* follow_node holds no reply of the node
  Late,           \* the handler of a call its miner has given up on
  MaxTips,        \* bound: blocks that others mine
  MaxFaults       \* bound: calls given up and restarts of the pool

ASSUME PoolSharesAssumption ==
  /\ FinderOf \in [Share -> Miner]
  /\ Winning \subseteq Share
  /\ {MAX_STRIKES, PplnsWindow, CACHE_SIZE} \subseteq Nat \ {0}
  /\ {FoundByLimit, FoundByCut, MaxTips, MaxFaults} \subseteq Nat
  /\ Late \notin Miner

VARIABLES
  pending,        \* PoolState.pending: the shares that await their spot-check
  node_requests,  \* PoolState.node_requests: the challenges of the node
  found_by,       \* PoolState.found_by: the winning shares (FinderOf names who)
  strikes,        \* ledger.strikes
  window,         \* PoolState.shares: the verified shares (FinderOf names who)
  found,          \* shares that were submitted
  handler,        \* the request of each miner that the pool is serving, and
                  \* one that its miner no longer waits for
  todo,           \* requests a miner fetched and has not answered yet
  cache,          \* the shares a miner can still open, oldest first (cli.py)
  polled,         \* the challenges in the reply follow_node is about to process
  owed,           \* external: commitments whose reveal the node lacks
  gave_up,        \* history: calls that each miner gave up on
  tips, restarts

pool == <<pending, node_requests, found_by, strikes, window>>
miner == <<found, todo, cache>>
bounds == <<gave_up, tips, restarts>>
vars == <<pending, node_requests, found_by, strikes, window, found,
          handler, todo, cache, polled, owed, gave_up, tips, restarts>>

Handlers == Miner \cup {Late}
Idle == [at |-> "idle"]
Serving(h, stage) == handler[h].at = stage
Serve(h, stage, m, call) ==
  handler' = [handler EXCEPT ![h] = [at |-> stage, miner |-> m, call |-> call]]
Finish(h) == handler' = [handler EXCEPT ![h] = Idle]
Banned(m) == strikes[m] >= MAX_STRIKES

\* The newest Size entries of a queue that v has joined.
Pushed(queue, v, Size) ==
  LET q == Append(queue, v)
  IN  IF Len(q) > Size THEN SubSeq(q, Len(q) - Size + 1, Len(q)) ELSE q

Faults == restarts + FoldFunction(LAMBDA n, sum : n + sum, 0, gave_up)

\* The miner hears that its share was recorded; nobody hears a late reply.
Remember(h, s) ==
  cache' = IF h = Late THEN cache ELSE [cache EXCEPT ![h] = Pushed(@, s, CACHE_SIZE)]

-----------------------------------------------------------------------------
(* cog_submitSolution *)

\* Above the limit some entries go, whichever the map yields first, the new one
\* perhaps among them, but none whose challenge the pool has taken over.
Trimmed(finders) ==
  LET stale == finders \ node_requests
      n == IF Cardinality(stale) < FoundByCut THEN Cardinality(stale) ELSE FoundByCut
  IN  IF Cardinality(finders) <= FoundByLimit THEN {finders}
      ELSE {finders \ gone : gone \in kSubset(n, stale)}

\* The ban is checked, then the share is recorded; a winning one is forwarded
\* to the node before the miner hears of it.
SubmitShare(m) ==
  \E s \in Share \ found :
    /\ FinderOf[s] = m
    /\ Serving(m, "idle") /\ todo[m] = <<>>
    /\ found' = found \cup {s}
    /\ IF Banned(m) \/ s \in pending
       THEN UNCHANGED <<pending, found_by, handler>>
       ELSE /\ pending' = pending \cup {s}
            /\ IF s \in Winning
               THEN /\ found_by' \in Trimmed(found_by \cup {s})
                    /\ Serve(m, "forward solution", m, s)
               ELSE UNCHANGED found_by /\ Serve(m, "recorded", m, s)
    /\ UNCHANGED <<node_requests, strikes, window, todo, cache, polled, owed,
                   bounds>>

\* The same for a share that is not forwarded.
ReplyToShare(h) ==
  /\ Serving(h, "recorded")
  /\ Remember(h, handler[h].call)
  /\ Finish(h)
  /\ UNCHANGED <<pool, found, todo, polled, owed, bounds>>

\* The node takes the block, or refuses it as stale; the miner hears that the
\* share was recorded.
ForwardSolution(h) ==
  /\ Serving(h, "forward solution")
  /\ owed' \in {owed, {handler[h].call}}
  /\ Remember(h, handler[h].call)
  /\ Finish(h)
  /\ UNCHANGED <<pool, found, todo, polled, bounds>>

-----------------------------------------------------------------------------
(* cog_getRevealRequests *)

Request(s, purpose) == [id |-> s, purpose |-> purpose]

\* First the pool's own spot-checks, then the node's challenges; the miner skips
\* what it no longer holds.
Requests(m) ==
  LET mine == {s \in ToSet(cache[m]) : FinderOf[s] = m}
  IN  SetToSeq({Request(s, "share") : s \in pending \cap mine})
        \o SetToSeq({Request(s, "block") : s \in node_requests \cap mine})

FetchRequests(m) ==
  /\ Serving(m, "idle") /\ todo[m] = <<>>
  /\ Requests(m) # <<>>
  /\ todo' = [todo EXCEPT ![m] = Requests(m)]
  /\ UNCHANGED <<pool, found, handler, cache, polled, owed, bounds>>

-----------------------------------------------------------------------------
(* cog_submitReveal *)

\* Where the rows go is decided by the commit id alone.
RouteReveal(m) ==
  /\ Serving(m, "idle") /\ todo[m] # <<>>
  /\ LET r == Head(todo[m])
     IN  IF r.id \in node_requests THEN Serve(m, "forward reveal", m, r)
         ELSE IF r.id \in pending THEN Serve(m, "verify", m, r)
         ELSE UNCHANGED handler        \* "unknown or already settled share"
  /\ todo' = [todo EXCEPT ![m] = Tail(@)]
  /\ UNCHANGED <<pool, found, cache, polled, owed, bounds>>

\* The node buffers rows that answer its challenge and refuses all others.
AnswerNode(h) ==
  /\ Serving(h, "forward reveal")
  /\ owed' = IF handler[h].call.purpose = "block" THEN owed \ {handler[h].call.id}
             ELSE owed
  /\ Serve(h, "reply", handler[h].miner, handler[h].call)
  /\ UNCHANGED <<pool, miner, polled, bounds>>

\* Whatever the node said, its request is forgotten.
DropNodeRequest(h) ==
  /\ Serving(h, "reply")
  /\ node_requests' = node_requests \ {handler[h].call.id}
  /\ Finish(h)
  /\ UNCHANGED <<pending, found_by, strikes, window, miner, polled, owed, bounds>>

\* verify_share: rows that answer the node's challenge are not the rows the
\* spot-check asked for.
Opens(call) == call.purpose = "share"

\* What a verdict does to the window and the strikes.
Settle(m, call) ==
  IF Opens(call)
  THEN window' = Pushed(window, call.id, PplnsWindow) /\ UNCHANGED strikes
  ELSE strikes' = [strikes EXCEPT ![m] = @ + 1] /\ UNCHANGED window

\* Mutants: a share that failed, or one that passed, stays pending.
VerifyShareAgain(h) ==
  /\ Serving(h, "verify")
  /\ pending' = IF Opens(handler[h].call) THEN pending \ {handler[h].call.id} ELSE pending
  /\ Settle(handler[h].miner, handler[h].call)
  /\ Finish(h)
  /\ UNCHANGED <<node_requests, found_by, miner, polled, owed, bounds>>
VerifyShareKept(h) ==
  /\ Serving(h, "verify")
  /\ Settle(handler[h].miner, handler[h].call)
  /\ Finish(h)
  /\ UNCHANGED <<pending, node_requests, found_by, miner, polled, owed, bounds>>

\* The share was looked up when the call came in; it is settled whether or not
\* it is still pending when the verdict is there.
VerifyShare(h) ==
  /\ Serving(h, "verify")
  /\ pending' = pending \ {handler[h].call.id}
  /\ Settle(handler[h].miner, handler[h].call)
  /\ Finish(h)
  /\ UNCHANGED <<node_requests, found_by, miner, polled, owed, bounds>>

-----------------------------------------------------------------------------
(* follow_node *)

PollNode ==
  /\ polled = NoReply
  /\ polled' = owed
  /\ UNCHANGED <<pool, miner, handler, owed, bounds>>

\* Mutant: a challenge is only taken over while its share is still pending.
TakeRequestsOfPending ==
  /\ polled # NoReply
  /\ polled' = NoReply
  /\ node_requests' = node_requests \cup (polled \cap found_by \cap pending)
  /\ UNCHANGED <<pending, found_by, strikes, window, miner, handler, owed, bounds>>

TakeRequests ==
  /\ polled # NoReply
  /\ polled' = NoReply
  /\ node_requests' = node_requests \cup (polled \cap found_by)
  /\ UNCHANGED <<pending, found_by, strikes, window, miner, handler, owed, bounds>>

\* SHARE_TIMEOUT_SECS after a share arrived.
ExpireShare ==
  /\ \E s \in pending : pending' = pending \ {s}
  /\ UNCHANGED <<node_requests, found_by, strikes, window, miner, handler, polled,
                 owed, bounds>>

-----------------------------------------------------------------------------
(* Other miners' blocks, and faults *)

\* Another block closes the reveal window.
NewTip ==
  /\ tips < MaxTips
  /\ tips' = tips + 1
  /\ owed' = {}
  /\ UNCHANGED <<pool, miner, handler, polled, gave_up, restarts>>

\* NodeUnreachable: a solution is not cached, the rest of the requests is left
\* for the next round.
GiveUp(m) ==
  /\ Faults < MaxFaults
  /\ ~Serving(m, "idle") /\ Serving(Late, "idle")
  /\ gave_up' = [gave_up EXCEPT ![m] = @ + 1]
  /\ handler' = [handler EXCEPT ![m] = Idle, ![Late] = handler[m]]
  /\ todo' = [todo EXCEPT ![m] = <<>>]
  /\ UNCHANGED <<pool, found, cache, polled, owed, tips, restarts>>

\* Pool::new: strikes come back with the ledger, everything else starts empty,
\* and whoever waits for an answer learns that the connection is gone.
Restart ==
  /\ Faults < MaxFaults
  /\ restarts' = restarts + 1
  /\ pending' = {} /\ node_requests' = {} /\ found_by' = {}
  /\ window' = <<>>
  /\ handler' = [h \in Handlers |-> Idle]
  /\ todo' = [m \in Miner |-> IF Serving(m, "idle") THEN todo[m] ELSE <<>>]
  /\ polled' = NoReply
  /\ UNCHANGED <<strikes, found, cache, owed, gave_up, tips>>

Init ==
  /\ pending = {}
  /\ node_requests = {}
  /\ found_by = {}
  /\ strikes = [m \in Miner |-> 0]
  /\ window = <<>>
  /\ found = {}
  /\ handler = [h \in Handlers |-> Idle]
  /\ todo = [m \in Miner |-> <<>>]
  /\ cache = [m \in Miner |-> <<>>]
  /\ polled = NoReply
  /\ owed = {}
  /\ gave_up = [m \in Miner |-> 0]
  /\ tips = 0
  /\ restarts = 0

MinerStep(m) == SubmitShare(m) \/ FetchRequests(m) \/ RouteReveal(m)
PoolStep(h) ==
  ForwardSolution(h) \/ ReplyToShare(h) \/ AnswerNode(h) \/ DropNodeRequest(h)
    \/ VerifyShare(h)
follow_node == PollNode \/ TakeRequests \/ ExpireShare

Next ==
  \/ \E m \in Miner : MinerStep(m) \/ GiveUp(m)
  \/ \E h \in Handlers : PoolStep(h)
  \/ follow_node
  \/ NewTip
  \/ Restart

\* The miners' loops, the handlers they wait for and follow_node go on, and a
\* share that stays pending gets old.  Nobody need find a share or a block.
Fairness ==
  /\ \A m \in Miner : WF_vars(FetchRequests(m) \/ RouteReveal(m))
  /\ \A h \in Handlers : WF_vars(PoolStep(h))
  /\ WF_vars(PollNode \/ TakeRequests)
  /\ WF_vars(ExpireShare)

Spec == Init /\ [][Next]_vars /\ Fairness

-----------------------------------------------------------------------------
(* Properties *)

\* The pool collects the node's challenge, finds the miner it belongs to and
\* brings back the rows: a block the pool found does not lose its reward because
\* a share of the same commit id is checked at the same time (cog_submitReveal),
\* as long as its miner still holds the task and the pool still knows the miner -
\* which a restart, found_by at its limit or a lost reply may prevent.
Held(s) == s \in ToSet(cache[FinderOf[s]])
BlockIsRevealed ==
  []<>(\A s \in owed : ~Held(s) \/ s \notin found_by)

\* docs/POOL.md:134-136: if strikes is not zero, "your miner computes incorrectly".
\* No miner of this module does.
StrikesMeanWrongRows == \A m \in Miner : strikes[m] = 0

\* How far the code is from that: each strike of a correct miner has a cause that
\* can be named, a block it found or a call it gave up on, and no cause makes two,
\* in whatever order challenges are taken over, routed and forgotten.  A miner
\* without either is never struck (cog_submitReveal).
StrikesAreExplained ==
  \A m \in Miner :
    strikes[m] <= Cardinality({s \in found \cap Winning : FinderOf[s] = m}) + gave_up[m]

\* A share earns its place in the window once, although it is looked up under one
\* lock and settled under a later one: only a call that its miner gave up on while
\* the pool went on with it can make it count again.
SharesCountOnce ==
  \A s \in Share :
    Cardinality({i \in DOMAIN window : window[i] = s}) <= 1 + gave_up[FinderOf[s]]
=============================================================================
