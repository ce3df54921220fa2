------------------------------- MODULE Gossip -------------------------------
(***************************************************************************)
(* Nodes that exchange blocks over TCP: p2p.rs, the announcement in        *)
(* cog_submitSolution (rpc.rs) and the wiring of cmd_run (main.rs).  Every *)
(* connection is served by one task at each end (run_peer), all tasks of a *)
(* node share its chain behind one mutex.                                  *)
(*                                                                         *)
(* Abstractions.                                                           *)
(*  - A node's chain is the blocks it knows and its tip, chosen as in      *)
(*    ForkChoice; Chain.tla shows that the chain implements it.  The       *)
(*    blocks that exist form a constant tree, and each is mined once.      *)
(*  - All nodes run the same genesis, are honest and keep their clocks     *)
(*    within max_future_drift_secs: check_hello and accept_block do not    *)
(*    fail.  HandshakeFirst shows why the two refusals of blocks before    *)
(*    the handshake are no actions here.                                   *)
(*  - TCP delivers in order while the connection is up.  A connection ends *)
(*    for both ends in one step, and what is on its way is lost: an end    *)
(*    that would have read a little more before it met the end of the      *)
(*    stream is one that read it before the connection ended.              *)
(*  - A task that writes does not read until everything is written.  What  *)
(*    the sockets hold of one direction is bounded by SocketBuffer; beyond *)
(*    that the writer waits for the other end to read.  Messages without   *)
(*    blocks take no room.                                                 *)
(*  - A dialer whose connection ended connects again; the five seconds of  *)
(*    RECONNECT_DELAY are a step that may come at any time.                *)
(***************************************************************************)
EXTENDS Integers, Sequences, SequencesExt

CONSTANTS
  Nodes,
  Links,              \* connections <<dialer, listener>>
  Block,              \* every block but genesis
  Genesis,
  ParentOf,           \* the block tree: Block -> Block or Genesis
  DifficultyOf,       \* Block -> difficulty
  SizeOf,             \* Block -> encoded size
  MaxFrame,           \* MAX_FRAME
  MaxBatch,           \* blocks in one Blocks message: 128
  AnnounceCapacity,   \* broadcast::channel(256)
  SocketBuffer,       \* what the sockets of one direction hold unread
  MaxFaults           \* bound: connections the network breaks, frames torn

AllBlocks == Block \cup {Genesis}

\* A block names a block that was there before: on the way from parent to parent
\* nobody meets the same block twice or walks for ever.
ASSUME GossipAssumption ==
  /\ Links \subseteq Nodes \X Nodes
  /\ \A l \in Links : l[1] # l[2]
  /\ Genesis \notin Block
  /\ ParentOf \in [Block -> AllBlocks]
  /\ \A S \in (SUBSET Block) \ {{}} : \E b \in S : ParentOf[b] \notin S
  /\ DifficultyOf \in [Block -> Nat \ {0}]
  /\ SizeOf \in [Block -> Nat \ {0}]
  /\ {MaxFrame, MaxBatch, AnnounceCapacity} \subseteq Nat \ {0}
  /\ {SocketBuffer, MaxFaults} \subseteq Nat

VARIABLES
  known,        \* node -> stored blocks
  tip,          \* node -> Chain.tip
  unannounced,  \* node -> own blocks accepted but not yet sent to announce
  peer,         \* end -> the locals of its run_peer
  stream,       \* end -> messages on their way to it
  faults,       \* connections broken by the network and frames torn so far
  missed,       \* history: blocks that some connection of their miner did not
                \* deliver
  reordered     \* history: blocks announced before one of their ancestors

vars == <<known, tip, unannounced, peer, stream, faults, missed, reordered>>

-----------------------------------------------------------------------------
(* Blocks *)

branch_to[b \in AllBlocks] ==
  IF b = Genesis THEN <<>> ELSE Append(branch_to[ParentOf[b]], b)
cumulative_work[b \in AllBlocks] ==
  IF b = Genesis THEN 0 ELSE cumulative_work[ParentOf[b]] + DifficultyOf[b]

Height(b) == Len(branch_to[b])
Branch(b) == {branch_to[b][k] : k \in 1 .. Height(b)}
Forked(a, b) == a \notin Branch(b) \cup {Genesis} /\ b \notin Branch(a) \cup {Genesis}

\* accept_block tells a block it has, and one whose parent it misses, from one
\* it stores; a stored block becomes the tip if it is heavier.
Stored(n, b) == b \notin known[n] /\ ParentOf[b] \in known[n]
Advances(n, b) == Stored(n, b) /\ cumulative_work[b] > cumulative_work[tip[n]]

\* Mutant: a block that does not become the tip is not kept.
ingestHeavier(n, b) ==
  /\ known' = IF Advances(n, b) THEN [known EXCEPT ![n] = @ \cup {b}] ELSE known
  /\ tip' = IF Advances(n, b) THEN [tip EXCEPT ![n] = b] ELSE tip

ingest(n, b) ==
  /\ known' = IF Stored(n, b) THEN [known EXCEPT ![n] = @ \cup {b}] ELSE known
  /\ tip' = IF Advances(n, b) THEN [tip EXCEPT ![n] = b] ELSE tip

\* The canonical blocks from a height on, as many as one message carries.
\* (The height index is taken to be the tip's branch: see IndexIsTipBranch.)
collect_blocks(n, from) ==
  LET last == from + MaxBatch - 1
  IN  SubSeq(branch_to[tip[n]], from,
             IF last < Height(tip[n]) THEN last ELSE Height(tip[n]))

FrameSize(bs) ==
  LET upto[i \in 0 .. Len(bs)] == IF i = 0 THEN 0 ELSE upto[i - 1] + SizeOf[bs[i]]
  IN  upto[Len(bs)]

-----------------------------------------------------------------------------
(* Connections *)

Ends == UNION {{<<l, l[1]>>, <<l, l[2]>>} : l \in Links}
EndsOf(n) == {e \in Ends : e[2] = n}
Other(e) == CHOOSE f \in Ends : f[1] = e[1] /\ f # e

Higher(a, b) == IF a > b THEN a ELSE b

\* The locals of run_peer: its place in the code, what it has received from the
\* announcement channel, the loop over the blocks of a message; told is history,
\* the greatest height it has read in a Hello or a NewBlock.
\* run_peer subscribes to announcements after it wrote its own Hello.  An end
\* that lost its place in the stream is misframed.
Phases == {"closed", "connected", "greeted", "serving", "misframed"}
Closed == [phase |-> "closed", handshaken |-> FALSE, announcements |-> <<>>,
           blocks |-> <<>>, progressed |-> FALSE, told |-> 0]

Hello(h) == [type |-> "Hello", height |-> h]
NewBlock(b) == [type |-> "NewBlock", block |-> b]
GetBlocks(from) == [type |-> "GetBlocks", from_height |-> from]
Blocks(bs) == [type |-> "Blocks", blocks |-> bs]

Messages == [type: {"Hello"}, height: Nat] \cup [type: {"NewBlock"}, block: Block]
            \cup [type: {"GetBlocks"}, from_height: Nat]
            \cup [type: {"Blocks"}, blocks: Seq(Block)]

\* The blocks of a node that an end has yet to read, or its peer to write.
Undelivered(e) ==
  {b \in Block : \/ \E i \in DOMAIN stream[e] : stream[e][i] = NewBlock(b)
                 \/ \E i \in DOMAIN peer[Other(e)].announcements :
                      peer[Other(e)].announcements[i] = b}

\* No end notices in the middle of a message's blocks.
CloseLink(l) ==
  /\ \A e \in Ends : e[1] = l => peer[e].blocks = <<>>
  /\ peer' = [e \in Ends |-> IF e[1] = l THEN Closed ELSE peer[e]]
  /\ stream' = [e \in Ends |-> IF e[1] = l THEN <<>> ELSE stream[e]]
  /\ missed' = missed \cup UNION {Undelivered(e) : e \in {f \in Ends : f[1] = l}}

\* dial_forever reaches the listener, which accepts.
Connect(l) ==
  /\ \A e \in Ends : e[1] = l => peer[e].phase = "closed"
  /\ peer' = [e \in Ends |->
                IF e[1] = l THEN [Closed EXCEPT !.phase = "connected"] ELSE peer[e]]
  /\ UNCHANGED <<known, tip, unannounced, stream, faults, missed, reordered>>

SendHello(e) ==
  /\ peer[e].phase = "connected"
  /\ peer' = [peer EXCEPT ![e].phase = "greeted"]
  /\ stream' = [stream EXCEPT ![Other(e)] = Append(@, Hello(Height(tip[e[2]])))]
  /\ UNCHANGED <<known, tip, unannounced, faults, missed, reordered>>

\* Mutant: the connection is served before the own Hello is written.
SubscribeFirst(e) ==
  /\ peer[e].phase \in {"connected", "greeted"}
  /\ peer' = [peer EXCEPT ![e].phase = "serving"]
  /\ UNCHANGED <<known, tip, unannounced, stream, faults, missed, reordered>>

Subscribe(e) ==
  /\ peer[e].phase = "greeted"
  /\ peer' = [peer EXCEPT ![e].phase = "serving"]
  /\ UNCHANGED <<known, tip, unannounced, stream, faults, missed, reordered>>

DropLink(l) ==
  /\ faults < MaxFaults
  /\ \E e \in Ends : e[1] = l /\ peer[e].phase # "closed"
  /\ faults' = faults + 1
  /\ CloseLink(l)
  /\ UNCHANGED <<known, tip, unannounced, reordered>>

-----------------------------------------------------------------------------
(* Announcements *)

\* cog_submitSolution: submit_solution extends the tip under the lock; the
\* block is announced after the lock is released.
Mine(n) ==
  \E b \in Block :
    /\ ParentOf[b] = tip[n]
    /\ \A m \in Nodes : b \notin known[m]
    /\ ingest(n, b)
    /\ unannounced' = [unannounced EXCEPT ![n] = @ \cup {b}]
    /\ UNCHANGED <<peer, stream, faults, missed, reordered>>

Subscribed(e) == peer[e].phase \in {"serving", "misframed"}

\* broadcast::channel: a receiver that is AnnounceCapacity behind loses the
\* oldest entry (RecvError::Lagged).
Lags(e) == Len(peer[e].announcements) >= AnnounceCapacity

\* Mutant: the channel has no bound.
AnnouncedAll(e, b) ==
  IF ~Subscribed(e) THEN peer[e]
  ELSE [peer[e] EXCEPT !.announcements = Append(@, b)]

Announced(e, b) ==
  IF ~Subscribed(e) THEN peer[e]
  ELSE [peer[e] EXCEPT !.announcements =
          Append(IF Lags(e) THEN Tail(@) ELSE @, b)]

Announce(n, b) ==
  /\ b \in unannounced[n]
  /\ unannounced' = [unannounced EXCEPT ![n] = @ \ {b}]
  /\ peer' = [e \in Ends |-> IF e[2] = n THEN Announced(e, b) ELSE peer[e]]
  /\ missed' = missed
       \cup {x \in {b} : \E e \in EndsOf(n) : ~Subscribed(e)}
       \cup {Head(peer[e].announcements) :
               e \in {f \in EndsOf(n) : Subscribed(f) /\ Lags(f)}}
  /\ reordered' = reordered
       \cup {x \in {b} : Branch(ParentOf[b]) \cap unannounced[n] # {}}
  /\ UNCHANGED <<known, tip, stream, faults>>

\* What is under way to an end.
Unread(e) ==
  LET size(message) == CASE message.type = "NewBlock" -> SizeOf[message.block]
                         [] message.type = "Blocks"   -> FrameSize(message.blocks)
                         [] OTHER                     -> 0
      upto[i \in 0 .. Len(stream[e])] ==
        IF i = 0 THEN 0 ELSE upto[i - 1] + size(stream[e][i])
  IN  upto[Len(stream[e])]

\* write_all has returned: the other end has read enough of what was written.
Written(e) == Unread(Other(e)) <= SocketBuffer

\* The loop is not in a handler, and not waiting in write_message.
Selecting(e) == Subscribed(e) /\ peer[e].blocks = <<>> /\ Written(e)

SendAnnouncement(e) ==
  /\ peer[e].announcements # <<>>
  /\ Selecting(e)
  /\ stream' = [stream EXCEPT ![Other(e)] =
                  Append(@, NewBlock(Head(peer[e].announcements)))]
  /\ peer' = [peer EXCEPT ![e].announcements = Tail(@)]
  /\ UNCHANGED <<known, tip, unannounced, faults, missed, reordered>>

\* select! drops read_message when an announcement is ready: a frame that was
\* read in part is lost and the next read starts inside it.
TearFrame(e) ==
  /\ peer[e].phase = "serving"
  /\ peer[e].announcements # <<>>
  /\ stream[e] # <<>>
  /\ Selecting(e)
  /\ faults < MaxFaults
  /\ faults' = faults + 1
  /\ missed' = missed \cup {b \in Block : Head(stream[e]) = NewBlock(b)}
  /\ stream' = [stream EXCEPT
                  ![e] = Tail(@),
                  ![Other(e)] = Append(@, NewBlock(Head(peer[e].announcements)))]
  /\ peer' = [peer EXCEPT ![e].phase = "misframed", ![e].announcements = Tail(@)]
  /\ UNCHANGED <<known, tip, unannounced, reordered>>

-----------------------------------------------------------------------------
(* Frames *)

\* The next message, when the end is ready for it.
Reads(e, type) ==
  /\ peer[e].phase = "serving"
  /\ stream[e] # <<>>
  /\ Head(stream[e]).type = type
  /\ Selecting(e)

\* The message is taken and the replies are written.
Reply(e, replies) ==
  stream' = [stream EXCEPT ![e] = Tail(@), ![Other(e)] = @ \o replies]

HandleHello(e) ==
  LET ours == Height(tip[e[2]])
  IN  /\ Reads(e, "Hello")
      /\ peer' = [peer EXCEPT ![e].handshaken = TRUE,
                              ![e].told = Head(stream[e]).height]
      /\ Reply(e, IF Head(stream[e]).height > ours
                  THEN <<GetBlocks(ours + 1)>> ELSE <<>>)
      /\ UNCHANGED <<known, tip, unannounced, faults, missed, reordered>>

HandleNewBlock(e) ==
  LET n == e[2]
      b == Head(stream[e]).block
      ours == Height(tip[n])
  IN  /\ Reads(e, "NewBlock")
      /\ ingest(n, b)
      /\ Reply(e, IF ~Advances(n, b) /\ Height(b) > ours + 1
                  THEN <<GetBlocks(ours + 1)>> ELSE <<>>)
      /\ peer' = [peer EXCEPT ![e].told = Higher(@, Height(b))]
      /\ UNCHANGED <<unannounced, faults, missed, reordered>>

\* write_message refuses a frame above the limit, which ends the task.
HandleGetBlocks(e) ==
  LET bs == collect_blocks(e[2], Head(stream[e]).from_height)
  IN  /\ Reads(e, "GetBlocks")
      /\ \/ /\ FrameSize(bs) <= MaxFrame
            /\ Reply(e, <<Blocks(bs)>>)
            /\ UNCHANGED <<peer, missed>>
         \/ /\ FrameSize(bs) > MaxFrame
            /\ CloseLink(e[1])
      /\ UNCHANGED <<known, tip, unannounced, faults, reordered>>

\* Mutant: an empty answer is followed by the same request.
HandleBlocksForEver(e) ==
  /\ Reads(e, "Blocks")
  /\ peer' = [peer EXCEPT ![e].blocks = Head(stream[e]).blocks]
  /\ Reply(e, IF Head(stream[e]).blocks = <<>>
              THEN <<GetBlocks(Height(tip[e[2]]) + 1)>> ELSE <<>>)
  /\ UNCHANGED <<known, tip, unannounced, faults, missed, reordered>>

HandleBlocks(e) ==
  /\ Reads(e, "Blocks")
  /\ peer' = [peer EXCEPT ![e].blocks = Head(stream[e]).blocks]
  /\ Reply(e, <<>>)
  /\ UNCHANGED <<known, tip, unannounced, faults, missed, reordered>>

\* Mutant: one request is taken to be enough.
IngestNextOnly(e) ==
  /\ peer[e].blocks # <<>>
  /\ ingest(e[2], Head(peer[e].blocks))
  /\ peer' = [peer EXCEPT ![e].blocks = Tail(@)]
  /\ UNCHANGED <<unannounced, stream, faults, missed, reordered>>

\* One round of the loop over the blocks of a message, which takes the lock
\* once per block; after the last one more blocks are asked for if any of them
\* moved the tip.
IngestNext(e) ==
  LET n == e[2]
      b == Head(peer[e].blocks)
      progressed == peer[e].progressed \/ Advances(n, b)
      done == Len(peer[e].blocks) = 1
  IN  /\ peer[e].blocks # <<>>
      /\ ingest(n, b)
      /\ peer' = [peer EXCEPT ![e].blocks = Tail(@),
                              ![e].progressed = progressed /\ ~done]
      /\ stream' = IF done /\ progressed
                   THEN [stream EXCEPT ![Other(e)] =
                           Append(@, GetBlocks(Height(tip'[n]) + 1))]
                   ELSE stream
      /\ UNCHANGED <<unannounced, faults, missed, reordered>>

\* A misframed end takes bytes of later messages for a length and a payload;
\* it waits for more, or gives up on what it reads.
SwallowFrame(e) ==
  /\ peer[e].phase = "misframed"
  /\ Selecting(e)
  /\ stream[e] # <<>>
  /\ missed' = missed \cup {b \in Block : Head(stream[e]) = NewBlock(b)}
  /\ stream' = [stream EXCEPT ![e] = Tail(@)]
  /\ UNCHANGED <<known, tip, unannounced, peer, faults, reordered>>

RefuseFrame(e) ==
  /\ peer[e].phase = "misframed"
  /\ Selecting(e)
  /\ CloseLink(e[1])
  /\ UNCHANGED <<known, tip, unannounced, faults, reordered>>

-----------------------------------------------------------------------------

Init ==
  /\ known = [n \in Nodes |-> {Genesis}]
  /\ tip = [n \in Nodes |-> Genesis]
  /\ unannounced = [n \in Nodes |-> {}]
  /\ peer = [e \in Ends |-> Closed]
  /\ stream = [e \in Ends |-> <<>>]
  /\ faults = 0
  /\ missed = {}
  /\ reordered = {}

AnnounceAny(n) == \E b \in Block : Announce(n, b)

HandleFrame(e) ==
  HandleHello(e) \/ HandleNewBlock(e) \/ HandleGetBlocks(e) \/ HandleBlocks(e)

\* run_peer but for its announcements: one of these at a time is possible.
run_peer(e) == SendHello(e) \/ Subscribe(e) \/ HandleFrame(e) \/ IngestNext(e)

Next ==
  \/ \E n \in Nodes : Mine(n) \/ AnnounceAny(n)
  \/ \E l \in Links : Connect(l) \/ DropLink(l)
  \/ \E e \in Ends :
       \/ run_peer(e) \/ SendAnnouncement(e) \/ TearFrame(e)
       \/ SwallowFrame(e) \/ RefuseFrame(e)

Spec == Init /\ [][Next]_vars

\* Tasks are scheduled, announcements that were started are finished, and
\* dial_forever retries for ever.  Nothing makes anybody mine, and nothing
\* makes a misframed end give up.
Fairness ==
  /\ \A n \in Nodes : WF_vars(AnnounceAny(n))
  /\ \A l \in Links : WF_vars(Connect(l))
  /\ \A e \in Ends : WF_vars(run_peer(e)) /\ WF_vars(SendAnnouncement(e))

FairSpec == Spec /\ Fairness

-----------------------------------------------------------------------------
(* Properties *)

TypeOK ==
  /\ known \in [Nodes -> SUBSET AllBlocks]
  /\ tip \in [Nodes -> AllBlocks]
  /\ unannounced \in [Nodes -> SUBSET Block]
  /\ DOMAIN peer = Ends
  /\ \A e \in Ends :
       peer[e] \in [phase: Phases, handshaken: BOOLEAN,
                    announcements: Seq(Block), blocks: Seq(Block),
                    progressed: BOOLEAN, told: Nat]
  /\ \A e \in Ends : Len(peer[e].announcements) <= AnnounceCapacity
  /\ DOMAIN stream = Ends
  /\ \A e \in Ends : stream[e] \in Seq(Messages)
  /\ faults \in 0 .. MaxFaults
  /\ {missed, reordered} \subseteq SUBSET Block

\* Two nodes of one genesis never hang up on each other with "peer sent a block
\* before the handshake": whatever a connection carries, Hello comes first, in
\* spite of announcements and requests that begin while it is being set up.
HandshakeFirst ==
  \A e \in Ends :
    \A i \in DOMAIN stream[e] :
      stream[e][i].type \in {"NewBlock", "Blocks"} =>
        \/ peer[e].handshaken
        \/ peer[e].phase = "misframed"
        \/ \E j \in 1 .. i - 1 : stream[e][j].type = "Hello"

\* Gossip completes by itself between nodes that mine: once a connection is up
\* at both ends and everything written has been read, the two nodes know the
\* same blocks, except for blocks whose announcement some connection missed or
\* carried before an ancestor's, and the descendants of those.
Quiet(l) ==
  /\ \A e \in Ends : e[1] = l =>
       /\ peer[e].phase = "serving"
       /\ peer[e].blocks = <<>> /\ peer[e].announcements = <<>>
       /\ stream[e] = <<>>
  /\ \A i \in 1 .. 2 : unannounced[l[i]] = {}

Neighbours == {<<l[1], l[2]>> : l \in Links} \cup {<<l[2], l[1]>> : l \in Links}

QuietMeansShared ==
  \A l \in Links :
    Quiet(l) =>
      \A b \in (known[l[1]] \ known[l[2]]) \cup (known[l[2]] \ known[l[1]]) :
        Branch(b) \cap (missed \cup reordered) # {}

\* Two nodes that have no connection but the one between them.
Alone(l) == \A k \in Links : {k[1], k[2]} \cap {l[1], l[2]} # {} => k = l
OneBranch(l) == \A a, b \in known[l[1]] \cup known[l[2]] : ~Forked(a, b)

\* Being told of a height, by a Hello or by a block, is enough to reach it, in
\* as many requests as that takes, whatever is announced or lost meanwhile and
\* however often the connection was made, as long as nobody forks, no block is
\* announced before its ancestors, and no third node is there: its blocks can
\* leave the answer to a request without news, which ends the asking.
QuietMeansCaughtUp ==
  \A e \in Ends :
    Quiet(e[1]) /\ Alone(e[1]) /\ OneBranch(e[1]) =>
      \/ Height(tip[e[2]]) >= peer[e].told
      \/ Branch(tip[Other(e)[2]]) \cap reordered # {}

Broken(l) == \E e \in Ends : e[1] = l /\ peer[e].phase \in {"closed", "misframed"}

\* Both tasks wait in write_message for the other one to read; no time-out ends it.
Stalled(l) == \A e \in Ends : e[1] = l => ~Written(e)

\* Requests and answers come to an end: an answer that brings nothing new is not
\* followed by another request, also between nodes on different branches.  A
\* connection that neither breaks nor comes to rest is one whose two tasks write
\* more to each other than the sockets hold: one task that waits is not enough.
Settles == \A l \in Links : []<>(Quiet(l) \/ Broken(l) \/ Stalled(l))

\* chain.rs:39: "The parent is unknown; the caller should request the missing
\* ancestors" - so that a node that was told of a tip above its own, and took
\* the blocks below it for orphans, still ends up with a chain as heavy.
AncestorsAreRequested ==
  \A e \in Ends :
    LET ours == tip[e[2]]
        theirs == tip[Other(e)[2]]
    IN  Quiet(e[1]) /\ peer[e].told >= Height(theirs) /\ Height(theirs) > Height(ours)
          => \/ cumulative_work[ours] >= cumulative_work[theirs]
             \/ Branch(theirs) \cap reordered # {}

\* p2p.rs:31: "Ask for up to 128 canonical blocks starting at this height" - so
\* that a node that is behind catches up, over as many connections as that takes.
LateNodeCatchesUp ==
  \A e \in Ends, h \in {Height(b) : b \in Block} :
    (\E i \in DOMAIN stream[e] : stream[e][i] = Hello(h)) ~>
      Height(tip[e[2]]) >= h \/ Forked(tip[e[2]], tip[Other(e)[2]])

\* p2p.rs:138: "Serve one peer connection: read its frames and push our
\* announcements to it" - so that what was written to a connection is read, again
\* and again, or the connection ends and is made anew.
FramesAreRead == \A e \in Ends : []<>(stream[e] = <<>>)
=============================================================================
