---------------------------- MODULE GossipProofs ----------------------------
(***************************************************************************)
(* What the connections of the nodes promise, for any number of nodes and  *)
(* connections and any tree of blocks: Hello comes first, two nodes that   *)
(* mine share their blocks, and who was told a height reaches it.          *)
(***************************************************************************)
EXTENDS Gossip, FoldLemmas

-----------------------------------------------------------------------------
(* The tree of blocks *)

LEMMA TreeIsGrounded ==
  /\ Genesis \notin Block /\ AllBlocks = Block \cup {Genesis}
  /\ ParentOf \in [Block -> Block \cup {Genesis}]
  /\ Grounded(Block, ParentOf)
BY GossipAssumption DEF AllBlocks, Grounded

\* A branch is a sequence of blocks: the one of the parent, then the block.
LEMMA BranchesAreSequences ==
  /\ branch_to \in [AllBlocks -> Seq(Block)]
  /\ branch_to[Genesis] = <<>>
  /\ \A b \in Block : branch_to[b] = Append(branch_to[ParentOf[b]], b)
<1> DEFINE V == Seq(Block)
           step == [p \in V \X Block |-> Append(p[1], p[2])]
           Rec(f) == f = [b \in AllBlocks |->
                           IF b = Genesis THEN <<>> ELSE Append(f[ParentOf[b]], b)]
<1>1. step \in [V \X Block -> V] /\ <<>> \in V
  BY AppendProperties
<1>2. PICK f \in [Block \cup {Genesis} -> V] :
        Recurs(f, Block \cup {Genesis}, Genesis, ParentOf, <<>>, step)
  <2> HIDE DEF step, V
  <2> QED BY <1>1, TreeIsGrounded, TreeRecursion
<1>3. \A b \in Block : ParentOf[b] \in AllBlocks /\ b # Genesis /\ b \in AllBlocks
  BY TreeIsGrounded
<1>4. f \in [AllBlocks -> V]
  BY <1>2, TreeIsGrounded
<1>5. \A b \in Block : step[<<f[ParentOf[b]], b>>] = Append(f[ParentOf[b]], b)
  BY <1>3, <1>4
<1>6. Rec(f)
  <2> HIDE DEF step, V
  <2>1. \A b \in AllBlocks :
          f[b] = IF b = Genesis THEN <<>> ELSE Append(f[ParentOf[b]], b)
    BY <1>2, <1>5, TreeIsGrounded DEF Recurs
  <2> QED BY <1>4, <2>1
<1>7. branch_to = CHOOSE g : Rec(g)
  BY DEF branch_to
<1>8. Rec(branch_to)
  <2> HIDE DEF Rec
  <2> QED BY <1>6, <1>7
<1> HIDE DEF step
<1>9. /\ DOMAIN branch_to = AllBlocks
      /\ branch_to[Genesis] = <<>>
      /\ \A b \in Block : branch_to[b] = Append(branch_to[ParentOf[b]], b)
  <2>1. Genesis \in AllBlocks
    BY TreeIsGrounded
  <2> QED BY <1>3, <1>8, <2>1
<1>10. \A b \in AllBlocks : branch_to[b] \in V
  <2> DEFINE T == {b \in Block : branch_to[b] \notin V}
  <2>1. ASSUME T # {}
        PROVE  FALSE
    <3>1. T \in (SUBSET Block) \ {{}}
      BY <2>1
    <3>2. PICK b \in T : ParentOf[b] \notin T
      <4> HIDE DEF T
      <4> QED BY <3>1, TreeIsGrounded DEF Grounded
    <3>3. b \in Block /\ branch_to[b] \notin V
      OBVIOUS
    <3>4. branch_to[ParentOf[b]] \in V
      <4>1. CASE ParentOf[b] = Genesis
        BY <1>1, <1>9, <4>1
      <4>2. CASE ParentOf[b] # Genesis
        BY <1>3, <3>2, <3>3, <4>2 DEF AllBlocks
      <4> QED BY <4>1, <4>2
    <3>5. Append(branch_to[ParentOf[b]], b) \in Seq(Block)
      BY <3>3, <3>4, AppendProperties
    <3> QED BY <1>9, <3>3, <3>5
  <2> QED BY <1>1, <1>9, <2>1, TreeIsGrounded
<1>11. branch_to \in [AllBlocks -> V]
  <2>1. branch_to = [b \in AllBlocks |-> branch_to[b]]
    BY <1>8
  <2> QED BY <1>10, <2>1
<1> QED
  BY <1>9, <1>11

LEMMA HeightIsNat ==
  ASSUME NEW b \in AllBlocks
  PROVE  Height(b) \in Nat
<1>1. branch_to[b] \in Seq(Block)
  BY BranchesAreSequences
<1> QED
  BY <1>1, LenProperties DEF Height

\* A part of a sequence from a positive index on is a sequence.
LEMMA PartOfSequence ==
  ASSUME NEW S, NEW s \in Seq(S), NEW m \in Nat \ {0}, NEW n \in Nat, n <= Len(s)
  PROVE  SubSeq(s, m, n) \in Seq(S)
<1>1. Len(s) \in Nat /\ \A i \in 1 .. Len(s) : s[i] \in S
  BY LenProperties, ElementOfSeq
<1>2. CASE m <= n
  <2>1. \A i \in m .. n : s[i] \in S
    BY <1>1, <1>2
  <2> QED BY <1>1, <1>2, <2>1, SubSeqProperties
<1>3. CASE m > n
  <2>1. SubSeq(s, m, n) = <<>>
    BY <1>3, SubSeqProperties
  <2> QED BY <2>1
<1> QED
  BY <1>2, <1>3

-----------------------------------------------------------------------------
(* The two ends of a connection *)

\* Every end has one other end, which has it for its own other end.
LEMMA OtherEnd ==
  ASSUME NEW e \in Ends
  PROVE  /\ Other(e) \in Ends /\ Other(e)[1] = e[1] /\ Other(e) # e
         /\ Other(Other(e)) = e
         /\ e[1] \in Links /\ e[2] \in Nodes
         /\ \/ e[2] = e[1][1] /\ Other(e)[2] = e[1][2]
            \/ e[2] = e[1][2] /\ Other(e)[2] = e[1][1]
         /\ \A f \in Ends : f[1] = e[1] => f = e \/ f = Other(e)
<1>1. PICK l \in Links : e = <<l, l[1]>> \/ e = <<l, l[2]>>
  BY DEF Ends
<1>2. l[1] \in Nodes /\ l[2] \in Nodes /\ l[1] # l[2]
  BY GossipAssumption
<1> DEFINE a == <<l, l[1]>>
           b == <<l, l[2]>>
<1>3. a \in Ends /\ b \in Ends /\ a # b /\ a[1] = l /\ b[1] = l /\ a[2] = l[1] /\ b[2] = l[2]
  BY <1>2 DEF Ends
<1>4. \A f \in Ends : f[1] = l => f = a \/ f = b
  BY DEF Ends
<1>5. e = a \/ e = b
  BY <1>1
<1> HIDE DEF a, b
<1>6. Other(a) = b /\ Other(b) = a
  BY <1>3, <1>4 DEF Other
<1> QED
  BY <1>2, <1>3, <1>4, <1>5, <1>6

Peer == [phase: Phases, handshaken: BOOLEAN,
         announcements: Seq(Block), blocks: Seq(Block),
         progressed: BOOLEAN, told: Nat]

\* Nobody asks for the block at height 0.
Message == [type: {"Hello"}, height: Nat] \cup [type: {"NewBlock"}, block: Block]
           \cup [type: {"GetBlocks"}, from_height: Nat \ {0}]
           \cup [type: {"Blocks"}, blocks: Seq(Block)]

\* An end p, what is under way to it, s, and the other end q, which writes it.
\* Before its Hello an end has written nothing; from then on the Hello is the
\* first message until the reader has seen it or has lost its place.
Silent == {"closed", "connected"}

PeerOK(p) ==
  /\ p \in Peer
  /\ Len(p.announcements) <= AnnounceCapacity
  /\ p.blocks # <<>> => p.phase = "serving"
  /\ p.announcements # <<>> => p.phase \in {"serving", "misframed"}

HelloFirst(p, s, q) ==
  /\ q.phase \in Silent => s = <<>>
  /\ \/ q.phase \in Silent
     \/ p.handshaken
     \/ p.phase = "misframed"
     \/ s # <<>> /\ Head(s).type = "Hello"

ConnectionsOK(peers, streams) ==
  /\ peers \in [Ends -> Peer]
  /\ streams \in [Ends -> Seq(Message)]
  /\ \A e \in Ends :
       PeerOK(peers[e]) /\ HelloFirst(peers[e], streams[e], peers[Other(e)])

\* When one end moves, only the two streams of its connection matter.
LEMMA OneEndMoves ==
  ASSUME NEW peers, NEW streams, ConnectionsOK(peers, streams),
         NEW e \in Ends, NEW p, PeerOK(p),
         NEW in \in Seq(Message), NEW out \in Seq(Message),
         HelloFirst(p, in, peers[Other(e)]), HelloFirst(peers[Other(e)], out, p),
         NEW peers2, peers2 = [peers EXCEPT ![e] = p],
         NEW streams2, streams2 = [streams EXCEPT ![e] = in, ![Other(e)] = out]
  PROVE  ConnectionsOK(peers2, streams2)
<1> DEFINE f == Other(e)
<1>1. f \in Ends /\ f # e /\ Other(f) = e
  BY OtherEnd
<1>2. p \in Peer
  BY DEF PeerOK
<1> HIDE DEF f
<1>3. peers \in [Ends -> Peer] /\ streams \in [Ends -> Seq(Message)]
  BY DEF ConnectionsOK
<1>4. /\ peers2 \in [Ends -> Peer] /\ peers2[e] = p
      /\ \A x \in Ends \ {e} : peers2[x] = peers[x]
  BY <1>2, <1>3
<1>5. /\ streams2 \in [Ends -> Seq(Message)] /\ streams2[e] = in /\ streams2[f] = out
      /\ \A x \in Ends \ {e, f} : streams2[x] = streams[x]
  BY <1>1, <1>3 DEF f
<1>6. ASSUME NEW x \in Ends
      PROVE  PeerOK(peers2[x]) /\ HelloFirst(peers2[x], streams2[x], peers2[Other(x)])
  <2>1. CASE x = e
    BY <1>1, <1>4, <1>5, <2>1 DEF f
  <2>2. CASE x = f
    BY <1>1, <1>4, <1>5, <2>2 DEF f, ConnectionsOK
  <2>3. CASE x # e /\ x # f
    <3>1. Other(x) \in Ends /\ Other(x) # e
      BY <2>3, OtherEnd DEF f
    <3> QED BY <1>4, <1>5, <2>3, <3>1 DEF ConnectionsOK
  <2> QED BY <2>1, <2>2, <2>3
<1> QED
  BY <1>4, <1>5, <1>6 DEF ConnectionsOK

\* A writer that has said Hello may go on writing.
LEMMA MoreIsWritten ==
  ASSUME NEW p, NEW s \in Seq(Message), NEW q, HelloFirst(p, s, q),
         q.phase \notin Silent, NEW more \in Seq(Message), NEW q2, q2.phase \notin Silent
  PROVE  s \o more \in Seq(Message) /\ HelloFirst(p, s \o more, q2)
<1>1. s \o more \in Seq(Message)
  BY ConcatProperties
<1>2. ASSUME s # <<>>, Head(s).type = "Hello"
      PROVE  s \o more # <<>> /\ Head(s \o more).type = "Hello"
  <2>1. Len(s) \in Nat /\ Len(more) \in Nat /\ Len(s) > 0
    BY <1>2, LenProperties, EmptySeq
  <2>2. Len(s \o more) = Len(s) + Len(more) /\ (s \o more)[1] = s[1]
    BY <2>1, ConcatProperties
  <2> QED BY <1>1, <1>2, <2>1, <2>2
<1> QED
  BY <1>1, <1>2 DEF HelloFirst

\* A reader takes the Hello, or it has seen it.
LEMMA OneIsRead ==
  ASSUME NEW p, NEW s \in Seq(Message), NEW q, HelloFirst(p, s, q), s # <<>>,
         NEW p2,
         \/ p2.handshaken
         \/ p2.phase = "misframed"
         \/ p2.handshaken = p.handshaken /\ Head(s).type # "Hello" /\ p.phase # "misframed"
  PROVE  /\ Tail(s) \in Seq(Message) /\ Head(s) \in Message
         /\ HelloFirst(p2, Tail(s), q)
<1>1. Tail(s) \in Seq(Message) /\ Head(s) \in Message
  BY HeadTailProperties
<1> QED
  BY <1>1 DEF HelloFirst

-----------------------------------------------------------------------------
(* The inductive invariant *)

\* A node knows a block with its ancestors, its tip and its own blocks.
NodesOK ==
  /\ known \in [Nodes -> SUBSET AllBlocks]
  /\ tip \in [Nodes -> AllBlocks]
  /\ unannounced \in [Nodes -> SUBSET Block]
  /\ \A n \in Nodes :
       /\ Genesis \in known[n] /\ tip[n] \in known[n]
       /\ unannounced[n] \subseteq known[n]
       /\ \A b \in known[n] \ {Genesis} : ParentOf[b] \in known[n]

CountersOK ==
  /\ faults \in 0 .. MaxFaults
  /\ missed \in SUBSET Block /\ reordered \in SUBSET Block

GossipInv ==
  /\ NodesOK
  /\ CountersOK
  /\ ConnectionsOK(peer, stream)

\* To ingest a block keeps the nodes as they should be; only the one node learns
\* something, and nothing but this block.
LEMMA IngestKeeps ==
  ASSUME NodesOK, NEW n \in Nodes, NEW b \in Block, ingest(n, b),
         unannounced' \in [Nodes -> SUBSET Block],
         \A m \in Nodes : unannounced'[m] \subseteq unannounced[m] \cup (known'[m] \ known[m])
  PROVE  /\ NodesOK'
         /\ known'[n] = IF Stored(n, b) THEN known[n] \cup {b} ELSE known[n]
         /\ \A m \in Nodes \ {n} : known'[m] = known[m] /\ tip'[m] = tip[m]
<1>1. /\ known \in [Nodes -> SUBSET AllBlocks] /\ tip \in [Nodes -> AllBlocks]
      /\ b \in AllBlocks /\ b # Genesis
  BY GossipAssumption DEF NodesOK, AllBlocks
<1>2. /\ known' = IF Stored(n, b) THEN [known EXCEPT ![n] = @ \cup {b}] ELSE known
      /\ tip' = IF Advances(n, b) THEN [tip EXCEPT ![n] = b] ELSE tip
      /\ Advances(n, b) => Stored(n, b)
  BY DEF ingest, Advances
<1>3. /\ known' \in [Nodes -> SUBSET AllBlocks]
      /\ known'[n] = IF Stored(n, b) THEN known[n] \cup {b} ELSE known[n]
      /\ \A m \in Nodes \ {n} : known'[m] = known[m]
  BY <1>1, <1>2
<1>4. /\ tip' \in [Nodes -> AllBlocks]
      /\ tip'[n] = IF Advances(n, b) THEN b ELSE tip[n]
      /\ \A m \in Nodes \ {n} : tip'[m] = tip[m]
  BY <1>1, <1>2
<1>5. ASSUME NEW m \in Nodes
      PROVE  /\ Genesis \in known'[m] /\ tip'[m] \in known'[m]
             /\ unannounced'[m] \subseteq known'[m]
             /\ \A x \in known'[m] \ {Genesis} : ParentOf[x] \in known'[m]
  <2>1. /\ Genesis \in known[m] /\ tip[m] \in known[m]
        /\ unannounced[m] \subseteq known[m]
        /\ \A x \in known[m] \ {Genesis} : ParentOf[x] \in known[m]
    BY DEF NodesOK
  <2>2. CASE m # n
    BY <1>3, <1>4, <2>1, <2>2
  <2>3. CASE m = n
    <3>1. Stored(n, b) => ParentOf[b] \in known[n]
      BY DEF Stored
    <3>2. known[n] \subseteq known'[n] /\ known'[n] \subseteq known[n] \cup {b}
      BY <1>3
    <3>3. tip'[n] \in known'[n]
      BY <1>2, <1>3, <1>4, <2>1, <2>3
    <3>4. \A x \in known'[n] \ {Genesis} : ParentOf[x] \in known'[n]
      BY <1>3, <2>1, <2>3, <3>1
    <3> QED BY <2>1, <2>3, <3>2, <3>3, <3>4
  <2> QED BY <2>2, <2>3
<1> QED
  BY <1>3, <1>4, <1>5 DEF NodesOK

LEMMA MessageTypes ==
  /\ \A h \in Nat : Hello(h) \in Message
  /\ \A b \in Block : NewBlock(b) \in Message
  /\ \A n \in Nat : GetBlocks(n + 1) \in Message
  /\ \A bs \in Seq(Block) : Blocks(bs) \in Message
  /\ \A m \in Message :
       /\ m.type \in {"Hello", "NewBlock", "GetBlocks", "Blocks"}
       /\ m.type = "Hello" => m.height \in Nat
       /\ m.type = "NewBlock" => m.block \in Block /\ m = NewBlock(m.block)
       /\ m.type = "GetBlocks" => m.from_height \in Nat \ {0}
       /\ m.type = "Blocks" => m.blocks \in Seq(Block)
BY DEF Hello, NewBlock, GetBlocks, Blocks, Message

LEMMA TipHeight ==
  ASSUME NodesOK, NEW n \in Nodes
  PROVE  Height(tip[n]) \in Nat
BY HeightIsNat DEF NodesOK

\* The step of one end that writes a sequence of messages after it has read one,
\* or without reading.
LEMMA EndStep ==
  ASSUME ConnectionsOK(peer, stream), NEW e \in Ends, NEW p, PeerOK(p),
         peer' = [peer EXCEPT ![e] = p],
         NEW more \in Seq(Message),
         peer[e].phase \notin Silent /\ p.phase \notin Silent,
         \/ /\ stream' = [stream EXCEPT ![Other(e)] = @ \o more]
            /\ p.handshaken = peer[e].handshaken /\ p.phase = peer[e].phase
         \/ /\ stream' = [stream EXCEPT ![e] = Tail(@), ![Other(e)] = @ \o more]
            /\ stream[e] # <<>>
            /\ \/ p.handshaken
               \/ p.phase = "misframed"
               \/ /\ p.handshaken = peer[e].handshaken /\ peer[e].phase # "misframed"
                  /\ Head(stream[e]).type # "Hello"
  PROVE  ConnectionsOK(peer, stream)'
<1> DEFINE f == Other(e)
           q == peer[f]
           in == stream'[e]
           out == stream'[f]
<1>1. f \in Ends /\ f # e /\ Other(f) = e
  BY OtherEnd
<1>2. stream \in [Ends -> Seq(Message)] /\ peer \in [Ends -> Peer]
  BY DEF ConnectionsOK
<1>3. /\ HelloFirst(peer[e], stream[e], q)
      /\ HelloFirst(q, stream[f], peer[e])
  BY <1>1 DEF ConnectionsOK
<1>4. /\ in = stream[e] \/ in = Tail(stream[e])
      /\ out = stream[f] \o more
      /\ stream' = [stream EXCEPT ![e] = in, ![f] = out]
  <2>1. CASE stream' = [stream EXCEPT ![f] = @ \o more]
    BY <1>1, <1>2, <2>1
  <2>2. CASE stream' = [stream EXCEPT ![e] = Tail(@), ![f] = @ \o more]
    BY <1>1, <1>2, <2>2
  <2> QED BY <2>1, <2>2
<1> HIDE DEF f
<1>5. out \in Seq(Message) /\ HelloFirst(q, out, p)
  <2> HIDE DEF out, q
  <2> QED BY <1>1, <1>2, <1>3, <1>4, MoreIsWritten
<1>6. in \in Seq(Message) /\ HelloFirst(p, in, q)
  <2>1. CASE /\ stream' = [stream EXCEPT ![f] = @ \o more]
             /\ p.handshaken = peer[e].handshaken /\ p.phase = peer[e].phase
    <3>1. in = stream[e]
      BY <1>1, <1>2, <2>1
    <3> HIDE DEF in
    <3> QED BY <1>2, <1>3, <2>1, <3>1 DEF HelloFirst
  <2>2. CASE /\ stream' = [stream EXCEPT ![e] = Tail(@), ![f] = @ \o more]
             /\ stream[e] # <<>>
             /\ \/ p.handshaken
                \/ p.phase = "misframed"
                \/ /\ p.handshaken = peer[e].handshaken /\ peer[e].phase # "misframed"
                   /\ Head(stream[e]).type # "Hello"
    <3>1. in = Tail(stream[e])
      BY <1>1, <1>2, <2>2
    <3>2. stream[e] \in Seq(Message)
      BY <1>2
    <3> HIDE DEF in, q
    <3> QED BY <1>3, <2>2, <3>1, <3>2, OneIsRead
  <2> QED BY <2>1, <2>2 DEF f
<1> HIDE DEF in, out, q
<1>7. ConnectionsOK(peer', stream')
  <2>1. HelloFirst(p, in, peer[f]) /\ HelloFirst(peer[f], out, p)
    BY <1>5, <1>6 DEF q
  <2> QED BY <1>4, <1>5, <1>6, <2>1, OneEndMoves DEF f
<1> QED
  BY <1>7 DEF ConnectionsOK

LEMMA PeerTypes ==
  ASSUME ConnectionsOK(peer, stream), NEW e \in Ends
  PROVE  /\ PeerOK(peer[e]) /\ peer[e] \in Peer
         /\ peer[e].phase \in Phases /\ peer[e].handshaken \in BOOLEAN
         /\ peer[e].announcements \in Seq(Block) /\ peer[e].blocks \in Seq(Block)
         /\ peer[e].progressed \in BOOLEAN /\ peer[e].told \in Nat
         /\ stream[e] \in Seq(Message)
BY DEF ConnectionsOK, PeerOK, Peer

LEMMA NothingMore ==
  ASSUME NEW s \in Seq(Message)
  PROVE  <<>> \in Seq(Message) /\ s \o <<>> = s
BY ConcatEmptySeq

LEMMA OneMore ==
  ASSUME NEW s \in Seq(Message), NEW m \in Message
  PROVE  <<m>> \in Seq(Message) /\ s \o <<m>> = Append(s, m)
BY AppendIsConcat

\* The ends of a connection that is cut begin anew.
LEMMA ClosedIsOK ==
  /\ Closed \in Peer /\ PeerOK(Closed) /\ Closed.phase \in Silent
  /\ [Closed EXCEPT !.phase = "connected"] \in Peer
  /\ PeerOK([Closed EXCEPT !.phase = "connected"])
  /\ [Closed EXCEPT !.phase = "connected"].phase \in Silent
<1>1. <<>> \in Seq(Block) /\ Len(<<>>) = 0
  OBVIOUS
<1>2. 0 <= AnnounceCapacity
  BY GossipAssumption
<1>3. Closed \in Peer
  BY <1>1 DEF Closed, Peer, Phases
<1> DEFINE c == [Closed EXCEPT !.phase = "connected"]
<1>4. Closed.announcements = <<>> /\ Closed.blocks = <<>>
  BY DEF Closed
<1>5. /\ c \in Peer /\ c.phase = "connected" /\ c.announcements = <<>>
      /\ c.blocks = <<>>
  BY <1>3, <1>4 DEF Peer, Phases
<1> HIDE DEF c
<1>6. PeerOK(Closed) /\ Closed.phase \in Silent
  <2>1. /\ Closed.phase = "closed" /\ Closed.announcements = <<>>
        /\ Closed.blocks = <<>>
    BY DEF Closed
  <2> QED BY <1>1, <1>2, <1>3, <2>1 DEF PeerOK, Silent
<1> QED
  <2>1. PeerOK(c) /\ c.phase \in Silent
    BY <1>1, <1>2, <1>5 DEF PeerOK, Silent
  <2> QED BY <1>3, <1>5, <1>6, <2>1 DEF c

LEMMA CloseLinkKeeps ==
  ASSUME ConnectionsOK(peer, stream), NEW l, CloseLink(l)
  PROVE  ConnectionsOK(peer, stream)'
<1>1. /\ peer' = [e \in Ends |-> IF e[1] = l THEN Closed ELSE peer[e]]
      /\ stream' = [e \in Ends |-> IF e[1] = l THEN <<>> ELSE stream[e]]
  BY DEF CloseLink
<1>2. peer \in [Ends -> Peer] /\ stream \in [Ends -> Seq(Message)]
  BY DEF ConnectionsOK
<1>3. peer' \in [Ends -> Peer] /\ stream' \in [Ends -> Seq(Message)]
  <2>1. <<>> \in Seq(Message)
    OBVIOUS
  <2> QED BY <1>1, <1>2, <2>1, ClosedIsOK
<1>4. ASSUME NEW e \in Ends
      PROVE  PeerOK(peer'[e]) /\ HelloFirst(peer'[e], stream'[e], peer'[Other(e)])
  <2>1. Other(e) \in Ends /\ Other(e)[1] = e[1]
    BY OtherEnd
  <2>2. CASE e[1] = l
    <3>1. peer'[e] = Closed /\ stream'[e] = <<>> /\ peer'[Other(e)] = Closed
      BY <1>1, <2>1, <2>2
    <3> QED BY <3>1, ClosedIsOK DEF HelloFirst
  <2>3. CASE e[1] # l
    <3>1. peer'[e] = peer[e] /\ stream'[e] = stream[e] /\ peer'[Other(e)] = peer[Other(e)]
      BY <1>1, <2>1, <2>3
    <3> QED BY <3>1 DEF ConnectionsOK
  <2> QED BY <2>2, <2>3
<1> QED
  BY <1>3, <1>4 DEF ConnectionsOK

LEMMA ConnectKeeps ==
  ASSUME ConnectionsOK(peer, stream), NEW l, Connect(l)
  PROVE  ConnectionsOK(peer, stream)'
<1> DEFINE connected == [Closed EXCEPT !.phase = "connected"]
<1>1. /\ \A e \in Ends : e[1] = l => peer[e].phase = "closed"
      /\ peer' = [e \in Ends |-> IF e[1] = l THEN connected ELSE peer[e]]
      /\ stream' = stream
  BY DEF Connect
<1>2. peer \in [Ends -> Peer] /\ stream \in [Ends -> Seq(Message)]
  BY DEF ConnectionsOK
<1>3. connected \in Peer /\ PeerOK(connected) /\ connected.phase \in Silent
  BY ClosedIsOK
<1> HIDE DEF connected
<1>4. peer' \in [Ends -> Peer]
  BY <1>1, <1>2, <1>3
<1>5. ASSUME NEW e \in Ends
      PROVE  PeerOK(peer'[e]) /\ HelloFirst(peer'[e], stream'[e], peer'[Other(e)])
  <2>1. Other(e) \in Ends /\ Other(e)[1] = e[1]
    BY OtherEnd
  <2>2. CASE e[1] = l
    <3>1. peer'[e] = connected /\ peer'[Other(e)] = connected
      BY <1>1, <2>1, <2>2
    <3>2. peer[Other(e)].phase = "closed"
      BY <1>1, <2>1, <2>2
    <3>3. stream'[e] = <<>>
      BY <1>1, <3>2 DEF ConnectionsOK, HelloFirst, Silent
    <3> QED BY <1>3, <3>1, <3>3 DEF HelloFirst
  <2>3. CASE e[1] # l
    <3>1. peer'[e] = peer[e] /\ peer'[Other(e)] = peer[Other(e)]
      BY <1>1, <2>1, <2>3
    <3> QED BY <1>1, <3>1 DEF ConnectionsOK
  <2> QED BY <2>2, <2>3
<1> QED
  BY <1>1, <1>2, <1>4, <1>5 DEF ConnectionsOK

LEMMA SendHelloKeeps ==
  ASSUME NodesOK, ConnectionsOK(peer, stream), NEW e \in Ends, SendHello(e)
  PROVE  ConnectionsOK(peer, stream)'
<1> DEFINE f == Other(e)
           p == [peer[e] EXCEPT !.phase = "greeted"]
           m == Hello(Height(tip[e[2]]))
           out == <<m>>
<1>1. f \in Ends /\ f # e /\ Other(f) = e /\ e[2] \in Nodes
  BY OtherEnd
<1>2. peer \in [Ends -> Peer] /\ stream \in [Ends -> Seq(Message)]
  BY DEF ConnectionsOK
<1>3. /\ peer[e].phase = "connected"
      /\ peer' = [peer EXCEPT ![e].phase = "greeted"]
      /\ stream' = [stream EXCEPT ![f] = Append(@, m)]
  BY DEF SendHello
<1>4. peer' = [peer EXCEPT ![e] = p]
  BY <1>2, <1>3
<1>5. stream[f] = <<>>
  BY <1>1, <1>3 DEF ConnectionsOK, HelloFirst, Silent
<1>6. m \in Message /\ m.type = "Hello"
  BY <1>1, TipHeight, MessageTypes DEF Hello
<1> HIDE DEF m
<1>7. out \in Seq(Message) /\ out # <<>> /\ Head(out).type = "Hello"
  BY <1>6
<1>8. stream' = [stream EXCEPT ![e] = stream[e], ![f] = out]
  <2>1. Append(stream[f], m) = out
    BY <1>5
  <2> HIDE DEF f, out
  <2> QED BY <1>1, <1>2, <1>3, <2>1 DEF f
<1>9. /\ PeerOK(p) /\ p.phase = "greeted" /\ p.handshaken = peer[e].handshaken
  <2>1. /\ p \in Peer /\ p.phase = "greeted" /\ p.handshaken = peer[e].handshaken
        /\ p.announcements = peer[e].announcements /\ p.blocks = peer[e].blocks
    BY PeerTypes DEF Peer, Phases
  <2> HIDE DEF p
  <2>2. PeerOK(peer[e])
    BY PeerTypes
  <2> QED BY <1>3, <2>1, <2>2 DEF PeerOK
<1>10. HelloFirst(peer[e], stream[e], peer[f]) /\ stream[e] \in Seq(Message)
  BY <1>2 DEF ConnectionsOK
<1> HIDE DEF f, p, out
<1>11. HelloFirst(p, stream[e], peer[f])
  BY <1>3, <1>9, <1>10 DEF HelloFirst
<1>12. HelloFirst(peer[f], out, p)
  BY <1>7, <1>9 DEF HelloFirst, Silent
<1>13. ConnectionsOK(peer', stream')
  BY <1>4, <1>7, <1>8, <1>9, <1>10, <1>11, <1>12, OneEndMoves DEF f
<1> QED
  BY <1>13 DEF ConnectionsOK

LEMMA SubscribeKeeps ==
  ASSUME ConnectionsOK(peer, stream), NEW e \in Ends, Subscribe(e)
  PROVE  ConnectionsOK(peer, stream)'
<1> DEFINE p == [peer[e] EXCEPT !.phase = "serving"]
<1>1. /\ peer[e].phase = "greeted" /\ stream' = stream
      /\ peer' = [peer EXCEPT ![e].phase = "serving"]
  BY DEF Subscribe
<1>2. peer \in [Ends -> Peer] /\ stream \in [Ends -> Seq(Message)] /\ Other(e) \in Ends
  BY OtherEnd DEF ConnectionsOK
<1>3. peer' = [peer EXCEPT ![e] = p]
  BY <1>1, <1>2
<1>4. /\ p \in Peer /\ p.phase = "serving" /\ p.handshaken = peer[e].handshaken
      /\ p.announcements = peer[e].announcements /\ p.blocks = peer[e].blocks
  BY PeerTypes DEF Peer, Phases
<1> HIDE DEF p
<1>5. PeerOK(p)
  BY <1>4, PeerTypes DEF PeerOK
<1>6. /\ HelloFirst(peer[e], stream[e], peer[Other(e)])
      /\ HelloFirst(peer[Other(e)], stream[Other(e)], peer[e])
  BY OtherEnd DEF ConnectionsOK
<1>7. HelloFirst(p, stream[e], peer[Other(e)])
  BY <1>1, <1>4, <1>6 DEF HelloFirst
<1>8. HelloFirst(peer[Other(e)], stream[Other(e)], p)
  BY <1>1, <1>4, <1>6 DEF HelloFirst, Silent
<1>9. stream' = [stream EXCEPT ![e] = stream[e], ![Other(e)] = stream[Other(e)]]
  BY <1>1, <1>2
<1>10. stream[e] \in Seq(Message) /\ stream[Other(e)] \in Seq(Message)
  BY <1>2
<1>11. ConnectionsOK(peer', stream')
  BY <1>3, <1>5, <1>7, <1>8, <1>9, <1>10, OneEndMoves
<1> QED
  BY <1>11 DEF ConnectionsOK

LEMMA AnnouncedIsOK ==
  ASSUME ConnectionsOK(peer, stream), NEW e \in Ends, NEW b \in Block
  PROVE  LET p == Announced(e, b)
         IN  /\ p \in Peer /\ PeerOK(p)
             /\ p.phase = peer[e].phase /\ p.handshaken = peer[e].handshaken
             /\ p.blocks = peer[e].blocks /\ p.progressed = peer[e].progressed
             /\ p.told = peer[e].told
             /\ p.announcements =
                  IF ~Subscribed(e) THEN peer[e].announcements
                  ELSE Append(IF Lags(e) THEN Tail(peer[e].announcements)
                              ELSE peer[e].announcements, b)
<1> DEFINE p == Announced(e, b)
           old == peer[e].announcements
           kept == IF Lags(e) THEN Tail(old) ELSE old
           new == Append(kept, b)
<1>1. CASE ~Subscribed(e)
  BY <1>1, PeerTypes DEF Announced
<1>2. CASE Subscribed(e)
  <2>1. /\ old \in Seq(Block) /\ Len(old) <= AnnounceCapacity
        /\ AnnounceCapacity \in Nat \ {0}
    BY PeerTypes, GossipAssumption DEF PeerOK
  <2>2. p = [peer[e] EXCEPT !.announcements = new]
    BY <1>2 DEF Announced
  <2>3. kept \in Seq(Block) /\ Len(kept) < AnnounceCapacity
    <3>1. CASE Lags(e)
      <4>1. Len(old) >= AnnounceCapacity
        BY <3>1 DEF Lags
      <4>2. old # <<>> /\ Len(old) \in Nat
        BY <2>1, <4>1, LenProperties
      <4>3. Tail(old) \in Seq(Block) /\ Len(Tail(old)) = Len(old) - 1
        BY <2>1, <4>2, HeadTailProperties
      <4> QED BY <2>1, <3>1, <4>2, <4>3
    <3>2. CASE ~Lags(e)
      <4>1. Len(old) \in Nat
        BY <2>1, LenProperties
      <4> QED BY <2>1, <3>2, <4>1 DEF Lags
    <3> QED BY <3>1, <3>2
  <2> HIDE DEF kept
  <2>4. new \in Seq(Block) /\ Len(new) = Len(kept) + 1 /\ Len(kept) \in Nat
    BY <2>3, AppendProperties, LenProperties
  <2>5. Len(new) <= AnnounceCapacity
    <3> HIDE DEF new
    <3> QED BY <2>1, <2>3, <2>4
  <2> HIDE DEF new, p
  <2>6. /\ p \in Peer /\ p.phase = peer[e].phase /\ p.handshaken = peer[e].handshaken
        /\ p.announcements = new /\ p.blocks = peer[e].blocks
        /\ p.progressed = peer[e].progressed /\ p.told = peer[e].told
    BY <2>2, <2>4, PeerTypes DEF Peer
  <2>7. PeerOK(p)
    BY <1>2, <2>5, <2>6, PeerTypes DEF PeerOK, Subscribed
  <2> QED BY <1>2, <2>6, <2>7 DEF p, new, kept
<1> QED
  BY <1>1, <1>2

LEMMA AnnounceKeeps ==
  ASSUME ConnectionsOK(peer, stream), NEW n \in Nodes, NEW b \in Block, Announce(n, b)
  PROVE  ConnectionsOK(peer, stream)'
<1>1. /\ peer' = [e \in Ends |-> IF e[2] = n THEN Announced(e, b) ELSE peer[e]]
      /\ stream' = stream
  BY DEF Announce
<1>2. ASSUME NEW e \in Ends
      PROVE  /\ peer'[e] \in Peer /\ PeerOK(peer'[e])
             /\ peer'[e].phase = peer[e].phase
             /\ peer'[e].handshaken = peer[e].handshaken
  BY <1>1, AnnouncedIsOK, PeerTypes
<1>3. peer' \in [Ends -> Peer]
  <2>1. peer' = [e \in Ends |-> peer'[e]]
    BY <1>1
  <2> QED BY <1>2, <2>1
<1>4. ASSUME NEW e \in Ends
      PROVE  HelloFirst(peer'[e], stream'[e], peer'[Other(e)])
  <2>1. HelloFirst(peer[e], stream[e], peer[Other(e)]) /\ Other(e) \in Ends
    BY OtherEnd DEF ConnectionsOK
  <2> QED BY <1>1, <1>2, <2>1 DEF HelloFirst
<1> QED
  BY <1>1, <1>2, <1>3, <1>4 DEF ConnectionsOK

LEMMA SendAnnouncementKeeps ==
  ASSUME ConnectionsOK(peer, stream), NEW e \in Ends,
         SendAnnouncement(e) \/ TearFrame(e)
  PROVE  ConnectionsOK(peer, stream)'
<1> DEFINE f == Other(e)
           old == peer[e].announcements
           m == NewBlock(Head(old))
           more == <<m>>
<1>1. f \in Ends /\ f # e /\ stream \in [Ends -> Seq(Message)] /\ peer \in [Ends -> Peer]
  BY OtherEnd DEF ConnectionsOK
<1>2. old # <<>> /\ peer[e].phase \in {"serving", "misframed"} /\ peer[e].blocks = <<>>
  BY DEF SendAnnouncement, TearFrame, Selecting, Subscribed
<1>3. /\ old \in Seq(Block) /\ Head(old) \in Block /\ Tail(old) \in Seq(Block)
      /\ Len(Tail(old)) <= AnnounceCapacity
  <2>1. old \in Seq(Block) /\ Len(old) <= AnnounceCapacity /\ AnnounceCapacity \in Nat
    BY PeerTypes, GossipAssumption DEF PeerOK
  <2>2. Head(old) \in Block /\ Tail(old) \in Seq(Block) /\ Len(Tail(old)) = Len(old) - 1
    BY <1>2, <2>1, HeadTailProperties
  <2>3. Len(old) \in Nat
    BY <2>1, LenProperties
  <2> QED BY <2>1, <2>2, <2>3
<1>4. m \in Message
  BY <1>3, MessageTypes
<1>5. more \in Seq(Message) /\ Append(stream[f], m) = stream[f] \o more
  <2> HIDE DEF m, f
  <2> QED BY <1>1, <1>4, OneMore
<1>6. CASE SendAnnouncement(e)
  <2> DEFINE p == [peer[e] EXCEPT !.announcements = Tail(old)]
  <2>1. /\ peer' = [peer EXCEPT ![e].announcements = Tail(old)]
        /\ stream' = [stream EXCEPT ![f] = Append(@, m)]
    BY <1>1, <1>6 DEF SendAnnouncement
  <2>2. peer' = [peer EXCEPT ![e] = p]
    BY <1>1, <2>1
  <2>3. stream' = [stream EXCEPT ![f] = @ \o more]
    <3> HIDE DEF m, more, f
    <3> QED BY <1>1, <1>5, <2>1
  <2>4. /\ p \in Peer /\ p.phase = peer[e].phase /\ p.handshaken = peer[e].handshaken
        /\ p.announcements = Tail(old) /\ p.blocks = <<>>
    BY <1>2, <1>3, PeerTypes DEF Peer
  <2> HIDE DEF p, m, more
  <2>5. PeerOK(p)
    BY <1>2, <1>3, <2>4 DEF PeerOK
  <2>6. peer[e].phase \notin Silent /\ p.phase \notin Silent
    BY <1>2, <2>4 DEF Silent
  <2> QED BY <1>5, <2>2, <2>3, <2>4, <2>5, <2>6, EndStep
<1>7. CASE TearFrame(e)
  <2> DEFINE p == [peer[e] EXCEPT !.phase = "misframed", !.announcements = Tail(old)]
  <2>1. /\ peer' = [peer EXCEPT ![e].phase = "misframed", ![e].announcements = Tail(old)]
        /\ stream' = [stream EXCEPT ![e] = Tail(@), ![f] = Append(@, m)]
        /\ stream[e] # <<>>
    BY <1>1, <1>7 DEF TearFrame
  <2>2. peer' = [peer EXCEPT ![e] = p]
    BY <1>1, <2>1
  <2>3. stream' = [stream EXCEPT ![e] = Tail(@), ![f] = @ \o more]
    <3> HIDE DEF m, more, f
    <3> QED BY <1>1, <1>5, <2>1
  <2>4. /\ p \in Peer /\ p.phase = "misframed"
        /\ p.announcements = Tail(old) /\ p.blocks = <<>>
    BY <1>2, <1>3, PeerTypes DEF Peer, Phases
  <2> HIDE DEF p, m, more
  <2>5. PeerOK(p)
    BY <1>3, <2>4 DEF PeerOK
  <2>6. peer[e].phase \notin Silent /\ p.phase \notin Silent
    BY <1>2, <2>4 DEF Silent
  <2> QED BY <1>5, <2>1, <2>2, <2>3, <2>4, <2>5, <2>6, EndStep
<1> QED
  BY <1>6, <1>7

LEMMA SwallowFrameKeeps ==
  ASSUME ConnectionsOK(peer, stream), NEW e \in Ends, SwallowFrame(e)
  PROVE  ConnectionsOK(peer, stream)'
<1> DEFINE f == Other(e)
<1>1. f \in Ends /\ f # e /\ stream \in [Ends -> Seq(Message)] /\ peer \in [Ends -> Peer]
  BY OtherEnd DEF ConnectionsOK
<1>2. /\ peer[e].phase = "misframed" /\ stream[e] # <<>>
      /\ stream' = [stream EXCEPT ![e] = Tail(@)] /\ peer' = peer
  BY DEF SwallowFrame
<1>3. peer' = [peer EXCEPT ![e] = peer[e]]
  BY <1>1, <1>2
<1>4. <<>> \in Seq(Message) /\ stream[f] \o <<>> = stream[f]
  BY <1>1, NothingMore
<1>5. stream' = [stream EXCEPT ![e] = Tail(@), ![f] = @ \o <<>>]
  <2> HIDE DEF f
  <2> QED BY <1>1, <1>2, <1>4
<1>6. peer[e].phase \notin Silent /\ PeerOK(peer[e])
  BY <1>2, PeerTypes DEF Silent
<1> QED
  BY <1>2, <1>3, <1>4, <1>5, <1>6, EndStep

\* A message is taken, the locals change, and there may be one reply.
LEMMA ReadKeeps ==
  ASSUME ConnectionsOK(peer, stream), NEW e \in Ends, NEW type, Reads(e, type),
         NEW p, PeerOK(p), p.phase = "serving",
         p.handshaken \/ (type # "Hello" /\ p.handshaken = peer[e].handshaken),
         peer' = [peer EXCEPT ![e] = p],
         NEW replies \in Seq(Message), Reply(e, replies)
  PROVE  ConnectionsOK(peer, stream)'
<1>1. /\ peer[e].phase = "serving" /\ stream[e] # <<>> /\ Head(stream[e]).type = type
      /\ stream' = [stream EXCEPT ![e] = Tail(@), ![Other(e)] = @ \o replies]
  BY DEF Reads, Reply
<1>2. peer[e].phase \notin Silent /\ p.phase \notin Silent
  BY <1>1 DEF Silent
<1>3. peer[e].phase # "misframed"
  BY <1>1
<1>4. \/ p.handshaken
      \/ p.phase = "misframed"
      \/ /\ p.handshaken = peer[e].handshaken /\ peer[e].phase # "misframed"
         /\ Head(stream[e]).type # "Hello"
  BY <1>1, <1>3
<1> QED
  BY <1>1, <1>2, <1>4, EndStep

LEMMA ReadMessage ==
  ASSUME ConnectionsOK(peer, stream), NEW e \in Ends, NEW type, Reads(e, type)
  PROVE  /\ Head(stream[e]) \in Message /\ Head(stream[e]).type = type
         /\ stream[e] # <<>> /\ Tail(stream[e]) \in Seq(Message)
         /\ peer[e].phase = "serving" /\ peer[e].blocks = <<>>
         /\ e[2] \in Nodes
<1>1. stream[e] \in Seq(Message) /\ stream[e] # <<>>
  BY PeerTypes DEF Reads
<1>2. Head(stream[e]) \in Message /\ Tail(stream[e]) \in Seq(Message)
  BY <1>1, HeadTailProperties
<1> QED
  BY <1>1, <1>2, OtherEnd DEF Reads, Selecting

LEMMA HandleHelloKeeps ==
  ASSUME NodesOK, ConnectionsOK(peer, stream), NEW e \in Ends, HandleHello(e)
  PROVE  ConnectionsOK(peer, stream)'
<1> DEFINE m == Head(stream[e])
           h == m.height
           ours == Height(tip[e[2]])
           p == [peer[e] EXCEPT !.handshaken = TRUE, !.told = h]
           replies == IF h > ours THEN <<GetBlocks(ours + 1)>> ELSE <<>>
<1>1. /\ Reads(e, "Hello") /\ Reply(e, replies)
      /\ peer' = [peer EXCEPT ![e].handshaken = TRUE, ![e].told = h]
  BY DEF HandleHello
<1>2. m \in Message /\ m.type = "Hello" /\ peer[e].phase = "serving" /\ e[2] \in Nodes
  BY <1>1, ReadMessage
<1>3. h \in Nat
  <2> HIDE DEF m
  <2> QED BY <1>2, MessageTypes
<1>4. peer \in [Ends -> Peer]
  BY DEF ConnectionsOK
<1> HIDE DEF h
<1>5. peer' = [peer EXCEPT ![e] = p]
  BY <1>1, <1>4
<1>6. /\ p \in Peer /\ p.phase = "serving" /\ p.handshaken
      /\ p.announcements = peer[e].announcements /\ p.blocks = peer[e].blocks
  BY <1>2, <1>3, PeerTypes DEF Peer
<1> HIDE DEF p
<1>7. PeerOK(p)
  BY <1>2, <1>6, PeerTypes DEF PeerOK
<1>8. replies \in Seq(Message)
  <2>1. ours \in Nat
    BY <1>2, TipHeight
  <2> HIDE DEF ours
  <2>2. GetBlocks(ours + 1) \in Message
    BY <2>1, MessageTypes
  <2> QED BY <2>2
<1> HIDE DEF replies
<1>9. p.handshaken \/ ("Hello" # "Hello" /\ p.handshaken = peer[e].handshaken)
  BY <1>6
<1> QED
  BY <1>1, <1>5, <1>6, <1>7, <1>8, <1>9, ReadKeeps

LEMMA HandleNewBlockKeeps ==
  ASSUME NodesOK, ConnectionsOK(peer, stream), NEW e \in Ends, HandleNewBlock(e)
  PROVE  ConnectionsOK(peer, stream)' /\ Head(stream[e]).block \in Block
<1> DEFINE m == Head(stream[e])
           b == m.block
           ours == Height(tip[e[2]])
           p == [peer[e] EXCEPT !.told = Higher(@, Height(b))]
           more == ~Advances(e[2], b) /\ Height(b) > ours + 1
           replies == IF more THEN <<GetBlocks(ours + 1)>> ELSE <<>>
<1>1. /\ Reads(e, "NewBlock") /\ Reply(e, replies)
      /\ peer' = [peer EXCEPT ![e].told = Higher(@, Height(b))]
  BY DEF HandleNewBlock
<1>2. m \in Message /\ m.type = "NewBlock" /\ peer[e].phase = "serving" /\ e[2] \in Nodes
  BY <1>1, ReadMessage
<1>3. b \in Block
  <2> HIDE DEF m
  <2> QED BY <1>2, MessageTypes
<1>4. peer \in [Ends -> Peer]
  BY DEF ConnectionsOK
<1>5. Height(b) \in Nat
  BY <1>3, HeightIsNat DEF AllBlocks
<1> HIDE DEF b
<1>6. peer' = [peer EXCEPT ![e] = p]
  BY <1>1, <1>4
<1>7. Higher(peer[e].told, Height(b)) \in Nat
  BY <1>5, PeerTypes DEF Higher
<1>8. /\ p \in Peer /\ p.phase = "serving" /\ p.handshaken = peer[e].handshaken
      /\ p.announcements = peer[e].announcements /\ p.blocks = peer[e].blocks
  BY <1>2, <1>7, PeerTypes DEF Peer
<1> HIDE DEF p
<1>9. PeerOK(p)
  BY <1>2, <1>8, PeerTypes DEF PeerOK
<1>10. replies \in Seq(Message)
  <2>1. ours \in Nat
    BY <1>2, TipHeight
  <2> HIDE DEF ours, more
  <2>2. GetBlocks(ours + 1) \in Message
    BY <2>1, MessageTypes
  <2> QED BY <2>2
<1> HIDE DEF replies
<1>11. p.handshaken \/ ("NewBlock" # "Hello" /\ p.handshaken = peer[e].handshaken)
  BY <1>8
<1>12. ConnectionsOK(peer, stream)'
  BY <1>1, <1>6, <1>8, <1>9, <1>10, <1>11, ReadKeeps
<1> QED
  BY <1>3, <1>12 DEF b

LEMMA CollectedAreBlocks ==
  ASSUME NodesOK, NEW n \in Nodes, NEW from \in Nat \ {0}
  PROVE  collect_blocks(n, from) \in Seq(Block)
<1> DEFINE s == branch_to[tip[n]]
           last == from + MaxBatch - 1
           to == IF last < Height(tip[n]) THEN last ELSE Height(tip[n])
<1>1. s \in Seq(Block) /\ Height(tip[n]) = Len(s)
  BY BranchesAreSequences DEF NodesOK, Height
<1>2. Len(s) \in Nat /\ last \in Nat
  <2>1. MaxBatch \in Nat \ {0}
    BY GossipAssumption
  <2> QED BY <1>1, <2>1, LenProperties
<1>3. to \in Nat /\ to <= Len(s)
  <2> HIDE DEF s, last
  <2> QED BY <1>1, <1>2
<1>4. collect_blocks(n, from) = SubSeq(s, from, to)
  BY DEF collect_blocks
<1> HIDE DEF s, to
<1> QED
  BY <1>1, <1>3, <1>4, PartOfSequence

LEMMA HandleGetBlocksKeeps ==
  ASSUME NodesOK, ConnectionsOK(peer, stream), NEW e \in Ends, HandleGetBlocks(e)
  PROVE  ConnectionsOK(peer, stream)'
<1> DEFINE m == Head(stream[e])
           bs == collect_blocks(e[2], m.from_height)
           replies == <<Blocks(bs)>>
<1>1. /\ Reads(e, "GetBlocks")
      /\ (Reply(e, replies) /\ peer' = peer) \/ CloseLink(e[1])
  BY DEF HandleGetBlocks
<1>2. /\ m \in Message /\ m.type = "GetBlocks" /\ peer[e].phase = "serving"
      /\ e[2] \in Nodes
  BY <1>1, ReadMessage
<1>3. m.from_height \in Nat \ {0}
  <2> HIDE DEF m
  <2> QED BY <1>2, MessageTypes
<1>4. bs \in Seq(Block)
  <2> HIDE DEF m
  <2> QED BY <1>2, <1>3, CollectedAreBlocks
<1> HIDE DEF bs
<1>5. replies \in Seq(Message)
  BY <1>4, MessageTypes
<1> HIDE DEF replies
<1>6. CASE CloseLink(e[1])
  BY <1>6, CloseLinkKeeps
<1>7. CASE Reply(e, replies) /\ peer' = peer
  <2>1. peer \in [Ends -> Peer] /\ PeerOK(peer[e])
    BY PeerTypes DEF ConnectionsOK
  <2>2. peer' = [peer EXCEPT ![e] = peer[e]]
    BY <1>7, <2>1
  <2> QED BY <1>1, <1>2, <1>5, <1>7, <2>1, <2>2, ReadKeeps
<1> QED
  BY <1>1, <1>6, <1>7

LEMMA HandleBlocksKeeps ==
  ASSUME NodesOK, ConnectionsOK(peer, stream), NEW e \in Ends, HandleBlocks(e)
  PROVE  ConnectionsOK(peer, stream)'
<1> DEFINE m == Head(stream[e])
           bs == m.blocks
           p == [peer[e] EXCEPT !.blocks = bs]
<1>1. /\ Reads(e, "Blocks") /\ Reply(e, <<>>)
      /\ peer' = [peer EXCEPT ![e].blocks = bs]
  BY DEF HandleBlocks
<1>2. m \in Message /\ m.type = "Blocks" /\ peer[e].phase = "serving"
  BY <1>1, ReadMessage
<1>3. bs \in Seq(Block)
  <2> HIDE DEF m
  <2> QED BY <1>2, MessageTypes
<1>4. peer \in [Ends -> Peer]
  BY DEF ConnectionsOK
<1> HIDE DEF bs
<1>5. peer' = [peer EXCEPT ![e] = p]
  BY <1>1, <1>4
<1>6. /\ p \in Peer /\ p.phase = "serving" /\ p.handshaken = peer[e].handshaken
      /\ p.announcements = peer[e].announcements
  BY <1>2, <1>3, PeerTypes DEF Peer
<1> HIDE DEF p
<1>7. PeerOK(p)
  BY <1>6, PeerTypes DEF PeerOK
<1>8. <<>> \in Seq(Message)
  OBVIOUS
<1>9. p.handshaken \/ ("Blocks" # "Hello" /\ p.handshaken = peer[e].handshaken)
  BY <1>6
<1> QED
  BY <1>1, <1>5, <1>6, <1>7, <1>8, <1>9, ReadKeeps

LEMMA IngestNextKeeps ==
  ASSUME NodesOK, ConnectionsOK(peer, stream), NEW e \in Ends, IngestNext(e), NodesOK'
  PROVE  ConnectionsOK(peer, stream)'
<1> DEFINE f == Other(e)
           bs == peer[e].blocks
           progressed == peer[e].progressed \/ Advances(e[2], Head(bs))
           done == Len(bs) = 1
           flag == progressed /\ ~done
           m == GetBlocks(Height(tip'[e[2]]) + 1)
           more == IF done /\ progressed THEN <<m>> ELSE <<>>
           p == [peer[e] EXCEPT !.blocks = Tail(bs), !.progressed = flag]
<1>1. /\ bs # <<>>
      /\ peer' = [peer EXCEPT ![e].blocks = Tail(bs), ![e].progressed = flag]
      /\ stream' = IF done /\ progressed
                   THEN [stream EXCEPT ![f] = Append(@, m)] ELSE stream
  <2>1. peer \in [Ends -> Peer]
    BY DEF ConnectionsOK
  <2> QED BY <2>1 DEF IngestNext
<1>2. peer \in [Ends -> Peer] /\ stream \in [Ends -> Seq(Message)] /\ f \in Ends /\ e[2] \in Nodes
  BY OtherEnd DEF ConnectionsOK
<1>3. /\ bs \in Seq(Block) /\ Tail(bs) \in Seq(Block) /\ peer[e].phase = "serving"
  BY <1>1, PeerTypes, HeadTailProperties DEF PeerOK
<1>4. flag \in BOOLEAN
  OBVIOUS
<1>5. m \in Message
  <2>1. Height(tip'[e[2]]) \in Nat
    BY <1>2, HeightIsNat DEF NodesOK
  <2> QED BY <2>1, MessageTypes
<1> HIDE DEF m, progressed, done
<1>6. more \in Seq(Message) /\ stream' = [stream EXCEPT ![f] = @ \o more]
  <2>1. CASE done /\ progressed
    <3>1. more = <<m>> /\ stream' = [stream EXCEPT ![f] = Append(@, m)]
      BY <1>1, <2>1
    <3>2. <<m>> \in Seq(Message) /\ Append(stream[f], m) = stream[f] \o <<m>>
      <4> HIDE DEF f
      <4> QED BY <1>2, <1>5, OneMore
    <3> HIDE DEF more, f
    <3> QED BY <1>2, <3>1, <3>2
  <2>2. CASE ~(done /\ progressed)
    <3>1. more = <<>> /\ stream' = stream
      BY <1>1, <2>2
    <3>2. <<>> \in Seq(Message) /\ stream[f] \o <<>> = stream[f]
      <4> HIDE DEF f
      <4> QED BY <1>2, NothingMore
    <3> HIDE DEF more, f
    <3> QED BY <1>2, <3>1, <3>2
  <2> QED BY <2>1, <2>2
<1> HIDE DEF more, flag
<1>7. peer' = [peer EXCEPT ![e] = p]
  <2> HIDE DEF bs
  <2> QED BY <1>1, <1>2
<1>8. /\ p \in Peer /\ p.phase = "serving" /\ p.handshaken = peer[e].handshaken
      /\ p.announcements = peer[e].announcements
  BY <1>3, <1>4, PeerTypes DEF Peer
<1> HIDE DEF p
<1>9. PeerOK(p)
  BY <1>8, PeerTypes DEF PeerOK
<1>10. peer[e].phase \notin Silent /\ p.phase \notin Silent /\ p.phase = peer[e].phase
  BY <1>3, <1>8 DEF Silent
<1> QED
  BY <1>6, <1>7, <1>8, <1>9, <1>10, EndStep DEF f

LEMMA NodesStay ==
  ASSUME NodesOK, UNCHANGED <<known, tip, unannounced>>
  PROVE  NodesOK'
BY DEF NodesOK

LEMMA UndeliveredAreBlocks ==
  ASSUME NEW S
  PROVE  UNION {Undelivered(e) : e \in S} \subseteq Block
BY DEF Undelivered

LEMMA StepGossipInv ==
  ASSUME GossipInv, [Next]_vars
  PROVE  GossipInv'
<1> USE DEF GossipInv
<1>1. ASSUME NEW n \in Nodes, Mine(n)
      PROVE  GossipInv'
  <2>1. PICK b \in Block :
          /\ ParentOf[b] = tip[n]
          /\ \A m \in Nodes : b \notin known[m]
          /\ ingest(n, b)
          /\ unannounced' = [unannounced EXCEPT ![n] = @ \cup {b}]
          /\ UNCHANGED <<peer, stream, faults, missed, reordered>>
    BY <1>1 DEF Mine
  <2>2. Stored(n, b)
    BY <2>1 DEF Stored, NodesOK
  <2>3. known'[n] = known[n] \cup {b}
    BY <2>1, <2>2 DEF ingest, NodesOK
  <2>4. /\ unannounced' \in [Nodes -> SUBSET Block]
        /\ \A m \in Nodes :
             unannounced'[m] \subseteq unannounced[m] \cup (known'[m] \ known[m])
    BY <2>1, <2>3 DEF NodesOK
  <2>5. NodesOK'
    BY <2>1, <2>4, IngestKeeps
  <2>6. ConnectionsOK(peer, stream)' /\ CountersOK'
    BY <2>1 DEF CountersOK, ConnectionsOK
  <2> QED BY <2>5, <2>6
<1>2. ASSUME NEW n \in Nodes, AnnounceAny(n)
      PROVE  GossipInv'
  <2>1. PICK b \in Block : Announce(n, b)
    BY <1>2 DEF AnnounceAny
  <2>2. /\ unannounced' = [unannounced EXCEPT ![n] = @ \ {b}]
        /\ UNCHANGED <<known, tip, stream, faults>>
    BY <2>1 DEF Announce
  <2>3. NodesOK'
    BY <2>2 DEF NodesOK
  <2>4. ConnectionsOK(peer, stream)'
    BY <2>1, AnnounceKeeps
  <2>5. missed' \in SUBSET Block
    <3>1. \A e \in Ends : Subscribed(e) /\ Lags(e) => Head(peer[e].announcements) \in Block
      <4> SUFFICES ASSUME NEW e \in Ends, Lags(e)
                   PROVE  Head(peer[e].announcements) \in Block
        OBVIOUS
      <4>1. peer[e].announcements \in Seq(Block)
        BY PeerTypes
      <4>2. peer[e].announcements # <<>>
        <5>1. Len(peer[e].announcements) >= AnnounceCapacity /\ AnnounceCapacity \in Nat \ {0}
          BY GossipAssumption DEF Lags
        <5>2. Len(<<>>) = 0
          OBVIOUS
        <5> QED BY <4>1, <5>1, <5>2, LenProperties
      <4> QED BY <4>1, <4>2, HeadTailProperties
    <3>2. missed' = missed
                    \cup {x \in {b} : \E e \in EndsOf(n) : ~Subscribed(e)}
                    \cup {Head(peer[e].announcements) :
                            e \in {f \in EndsOf(n) : Subscribed(f) /\ Lags(f)}}
      BY <2>1 DEF Announce
    <3> QED BY <3>1, <3>2 DEF CountersOK, EndsOf
  <2>6. reordered' \in SUBSET Block
    BY <2>1 DEF Announce, CountersOK
  <2> QED BY <2>2, <2>3, <2>4, <2>5, <2>6 DEF CountersOK
<1>3. ASSUME NEW l \in Links, Connect(l)
      PROVE  GossipInv'
  <2>1. UNCHANGED <<known, tip, unannounced, stream, faults, missed, reordered>>
    BY <1>3 DEF Connect
  <2>2. NodesOK' /\ CountersOK'
    BY <2>1, NodesStay DEF CountersOK
  <2> QED BY <1>3, <2>2, ConnectKeeps
<1>4. ASSUME NEW l, CloseLink(l), UNCHANGED <<known, tip, unannounced, reordered>>,
             faults' \in 0 .. MaxFaults
      PROVE  GossipInv'
  <2>1. NodesOK' /\ reordered' \in SUBSET Block
    BY <1>4, NodesStay DEF CountersOK
  <2>2. missed' \in SUBSET Block
    BY <1>4, UndeliveredAreBlocks DEF CloseLink, CountersOK
  <2> QED BY <1>4, <2>1, <2>2, CloseLinkKeeps DEF CountersOK
<1>5. ASSUME NEW l \in Links, DropLink(l)
      PROVE  GossipInv'
  <2>1. /\ CloseLink(l) /\ UNCHANGED <<known, tip, unannounced, reordered>>
        /\ faults' = faults + 1 /\ faults < MaxFaults
    BY <1>5 DEF DropLink
  <2>2. faults' \in 0 .. MaxFaults
    BY <2>1, GossipAssumption DEF CountersOK
  <2> QED BY <1>4, <2>1, <2>2
<1>6. ASSUME NEW e \in Ends, SendHello(e) \/ Subscribe(e)
      PROVE  GossipInv'
  <2>1. UNCHANGED <<known, tip, unannounced, faults, missed, reordered>>
    BY <1>6 DEF SendHello, Subscribe
  <2>2. NodesOK' /\ CountersOK'
    BY <2>1, NodesStay DEF CountersOK
  <2> QED BY <1>6, <2>2, SendHelloKeeps, SubscribeKeeps
<1>7. ASSUME NEW e \in Ends, HandleHello(e)
      PROVE  GossipInv'
  <2>1. UNCHANGED <<known, tip, unannounced, faults, missed, reordered>>
    BY <1>7 DEF HandleHello
  <2>2. NodesOK' /\ CountersOK'
    BY <2>1, NodesStay DEF CountersOK
  <2> QED BY <1>7, <2>2, HandleHelloKeeps
<1>8. ASSUME NEW e \in Ends, HandleNewBlock(e)
      PROVE  GossipInv'
  <2>1. /\ ingest(e[2], Head(stream[e]).block)
        /\ UNCHANGED <<unannounced, faults, missed, reordered>>
    BY <1>8 DEF HandleNewBlock
  <2>2. /\ ConnectionsOK(peer, stream)' /\ Head(stream[e]).block \in Block
        /\ e[2] \in Nodes
    BY <1>8, HandleNewBlockKeeps, OtherEnd
  <2>3. /\ unannounced' \in [Nodes -> SUBSET Block]
        /\ \A m \in Nodes :
             unannounced'[m] \subseteq unannounced[m] \cup (known'[m] \ known[m])
    BY <2>1 DEF NodesOK
  <2>4. NodesOK'
    BY <2>1, <2>2, <2>3, IngestKeeps
  <2> QED BY <2>1, <2>2, <2>4 DEF CountersOK
<1>9. ASSUME NEW e \in Ends, HandleGetBlocks(e)
      PROVE  GossipInv'
  <2>1. UNCHANGED <<known, tip, unannounced, faults, reordered>>
    BY <1>9 DEF HandleGetBlocks
  <2>2. missed' = missed \/ CloseLink(e[1])
    BY <1>9 DEF HandleGetBlocks
  <2>3. missed' \in SUBSET Block
    BY <2>2, UndeliveredAreBlocks DEF CloseLink, CountersOK
  <2>4. NodesOK' /\ CountersOK'
    BY <2>1, <2>3, NodesStay DEF CountersOK
  <2> QED BY <1>9, <2>4, HandleGetBlocksKeeps
<1>10. ASSUME NEW e \in Ends, HandleBlocks(e)
       PROVE  GossipInv'
  <2>1. UNCHANGED <<known, tip, unannounced, faults, missed, reordered>>
    BY <1>10 DEF HandleBlocks
  <2>2. NodesOK' /\ CountersOK'
    BY <2>1, NodesStay DEF CountersOK
  <2> QED BY <1>10, <2>2, HandleBlocksKeeps
<1>11. ASSUME NEW e \in Ends, IngestNext(e)
       PROVE  GossipInv'
  <2>1. /\ ingest(e[2], Head(peer[e].blocks)) /\ peer[e].blocks # <<>>
        /\ UNCHANGED <<unannounced, faults, missed, reordered>>
    BY <1>11 DEF IngestNext
  <2>2. Head(peer[e].blocks) \in Block /\ e[2] \in Nodes
    BY <2>1, PeerTypes, HeadTailProperties, OtherEnd
  <2>3. /\ unannounced' \in [Nodes -> SUBSET Block]
        /\ \A m \in Nodes :
             unannounced'[m] \subseteq unannounced[m] \cup (known'[m] \ known[m])
    BY <2>1 DEF NodesOK
  <2>4. NodesOK'
    BY <2>1, <2>2, <2>3, IngestKeeps
  <2> QED BY <1>11, <2>1, <2>4, IngestNextKeeps DEF CountersOK
<1>12. ASSUME NEW e \in Ends, SendAnnouncement(e)
       PROVE  GossipInv'
  <2>1. UNCHANGED <<known, tip, unannounced, faults, missed, reordered>>
    BY <1>12 DEF SendAnnouncement
  <2>2. NodesOK' /\ CountersOK'
    BY <2>1, NodesStay DEF CountersOK
  <2> QED BY <1>12, <2>2, SendAnnouncementKeeps
<1>13. ASSUME NEW e \in Ends, TearFrame(e)
       PROVE  GossipInv'
  <2>1. /\ UNCHANGED <<known, tip, unannounced, reordered>>
        /\ faults < MaxFaults /\ faults' = faults + 1
        /\ missed' = missed \cup {b \in Block : Head(stream[e]) = NewBlock(b)}
    BY <1>13 DEF TearFrame
  <2>2. NodesOK' /\ CountersOK'
    BY <2>1, NodesStay, GossipAssumption DEF CountersOK
  <2> QED BY <1>13, <2>2, SendAnnouncementKeeps
<1>14. ASSUME NEW e \in Ends, SwallowFrame(e)
       PROVE  GossipInv'
  <2>1. /\ UNCHANGED <<known, tip, unannounced, faults, reordered>>
        /\ missed' = missed \cup {b \in Block : Head(stream[e]) = NewBlock(b)}
    BY <1>14 DEF SwallowFrame
  <2>2. NodesOK' /\ CountersOK'
    BY <2>1, NodesStay DEF CountersOK
  <2> QED BY <1>14, <2>2, SwallowFrameKeeps
<1>15. ASSUME NEW e \in Ends, RefuseFrame(e)
       PROVE  GossipInv'
  <2>1. CloseLink(e[1]) /\ UNCHANGED <<known, tip, unannounced, faults, reordered>>
    BY <1>15 DEF RefuseFrame
  <2>2. faults' \in 0 .. MaxFaults
    BY <2>1 DEF CountersOK
  <2> QED BY <1>4, <2>1, <2>2
<1>16. CASE UNCHANGED vars
  <2>1. UNCHANGED <<known, tip, unannounced, faults, missed, reordered, peer, stream>>
    BY <1>16 DEF vars
  <2>2. NodesOK' /\ CountersOK'
    BY <2>1, NodesStay DEF CountersOK
  <2> QED BY <2>1, <2>2 DEF ConnectionsOK
<1> QED
  BY <1>1, <1>2, <1>3, <1>5, <1>6, <1>7, <1>8, <1>9, <1>10, <1>11, <1>12, <1>13,
     <1>14, <1>15, <1>16 DEF Next, run_peer, HandleFrame

LEMMA InitGossipInv ==
  ASSUME Init
  PROVE  GossipInv
<1>1. NodesOK
  BY GossipAssumption DEF Init, NodesOK, AllBlocks
<1>2. CountersOK
  BY GossipAssumption DEF Init, CountersOK
<1>3. ConnectionsOK(peer, stream)
  <2>1. peer \in [Ends -> Peer] /\ stream \in [Ends -> Seq(Message)]
    BY ClosedIsOK DEF Init
  <2>2. ASSUME NEW e \in Ends
        PROVE  PeerOK(peer[e]) /\ HelloFirst(peer[e], stream[e], peer[Other(e)])
    <3>1. peer[e] = Closed /\ stream[e] = <<>> /\ peer[Other(e)] = Closed
      BY OtherEnd DEF Init
    <3> QED BY <3>1, ClosedIsOK DEF HelloFirst
  <2> QED BY <2>1, <2>2 DEF ConnectionsOK
<1> QED
  BY <1>1, <1>2, <1>3 DEF GossipInv

\* The invariant holds in every reachable state, for any number of nodes, links
\* and blocks, and any capacities.
THEOREM GossipInvariant == Spec => []GossipInv
BY InitGossipInv, StepGossipInv, PTL DEF Spec

\* Nodes, connections and messages keep their types, and no receiver of
\* announcements gets further behind than the channel allows (broadcast::channel).
THEOREM GossipTypeCorrect == Spec => []TypeOK
<1>1. GossipInv => TypeOK
  <2> SUFFICES ASSUME GossipInv PROVE TypeOK
    OBVIOUS
  <2>1. /\ DOMAIN peer = Ends /\ DOMAIN stream = Ends
        /\ \A e \in Ends : peer[e] \in Peer /\ stream[e] \in Seq(Message)
        /\ \A e \in Ends : Len(peer[e].announcements) <= AnnounceCapacity
    BY DEF GossipInv, ConnectionsOK, PeerOK
  <2>2. Message \subseteq Messages
    BY DEF Message, Messages
  <2>3. \A e \in Ends : stream[e] \in Seq(Messages)
    <3> SUFFICES ASSUME NEW e \in Ends PROVE stream[e] \in Seq(Messages)
      OBVIOUS
    <3> HIDE DEF Message, Messages
    <3> QED BY <2>1, <2>2
  <2> QED BY <2>1, <2>3 DEF GossipInv, NodesOK, CountersOK, TypeOK, Peer
<1> QED BY <1>1, GossipInvariant, PTL

\* No end reads a block before a Hello, whatever the number of connections and
\* the order in which the ends connect, greet, subscribe, write and break off
\* (p2p.rs: "peer sent a block before the handshake" ends no connection).
THEOREM HelloComesFirst == Spec => []HandshakeFirst
<1>1. GossipInv => HandshakeFirst
  <2> SUFFICES ASSUME GossipInv, NEW e \in Ends, NEW i \in DOMAIN stream[e],
                      stream[e][i].type \in {"NewBlock", "Blocks"},
                      ~peer[e].handshaken, peer[e].phase # "misframed"
               PROVE  \E j \in 1 .. i - 1 : stream[e][j].type = "Hello"
    BY DEF HandshakeFirst
  <2>1. /\ stream[e] \in Seq(Message)
        /\ HelloFirst(peer[e], stream[e], peer[Other(e)])
    BY DEF GossipInv, ConnectionsOK
  <2>2. i \in 1 .. Len(stream[e]) /\ Len(stream[e]) \in Nat
    BY <2>1, LenProperties
  <2>3. stream[e] # <<>>
    BY <2>2
  <2>4. stream[e] # <<>> /\ Head(stream[e]).type = "Hello"
    BY <2>1, <2>3 DEF HelloFirst
  <2>5. stream[e][1].type = "Hello"
    BY <2>1, <2>4
  <2>6. i # 1
    BY <2>5
  <2>7. 1 \in 1 .. i - 1
    BY <2>2, <2>6
  <2> QED BY <2>5, <2>7
<1> QED BY <1>1, GossipInvariant, PTL

-----------------------------------------------------------------------------
(* What a connection still has to deliver *)

\* Nothing on the way from genesis to the block was lost or out of order.
Clean(b, M) == Branch(b) \cap M = {}

\* b waits to be written, or to be read.
OnItsWay(b, A, S) ==
  \/ \E i \in DOMAIN A : A[i] = b
  \/ \E i \in DOMAIN S : S[i] = NewBlock(b)

\* One direction of a connection: the writer knows X, has yet to announce U and
\* to write A; S is unread, and the reader knows Y.  But for the blocks of M and
\* what builds on them, all that the writer knows is known to the reader, or is
\* announced to it, and no block is announced before its parent.
AllIsAnnounced(X, Y, U, A, S, M) ==
  \A b \in X \ Y : Clean(b, M) => b \in U \/ OnItsWay(b, A, S)

UnreadInOrder(Y, S, M) ==
  \A i \in DOMAIN S : \A b \in Block :
    S[i] = NewBlock(b) /\ Clean(b, M) =>
      ParentOf[b] \in Y \/ \E j \in 1 .. i - 1 : S[j] = NewBlock(ParentOf[b])

UnwrittenInOrder(Y, A, S, M) ==
  \A i \in DOMAIN A :
    Clean(A[i], M) =>
      \/ ParentOf[A[i]] \in Y
      \/ \E j \in 1 .. i - 1 : A[j] = ParentOf[A[i]]
      \/ \E j \in DOMAIN S : S[j] = NewBlock(ParentOf[A[i]])

Wire(X, Y, U, A, S, M) ==
  /\ AllIsAnnounced(X, Y, U, A, S, M)
  /\ UnreadInOrder(Y, S, M)
  /\ UnwrittenInOrder(Y, A, S, M)

LEMMA AppendFacts ==
  ASSUME NEW V, NEW s \in Seq(V), NEW x \in V
  PROVE  /\ Append(s, x) \in Seq(V) /\ Len(s) \in Nat
         /\ DOMAIN s = 1 .. Len(s) /\ DOMAIN Append(s, x) = 1 .. Len(s) + 1
         /\ \A i \in 1 .. Len(s) : Append(s, x)[i] = s[i]
         /\ Append(s, x)[Len(s) + 1] = x
BY AppendProperties, LenProperties

LEMMA TailFacts ==
  ASSUME NEW V, NEW s \in Seq(V), s # <<>>
  PROVE  /\ Len(s) \in Nat \ {0} /\ DOMAIN s = 1 .. Len(s)
         /\ Head(s) = s[1] /\ Head(s) \in V
         /\ Tail(s) \in Seq(V) /\ DOMAIN Tail(s) = 1 .. Len(s) - 1
         /\ \A i \in 1 .. Len(s) - 1 : Tail(s)[i] = s[i + 1]
<1>1. Len(s) \in Nat \ {0} /\ DOMAIN s = 1 .. Len(s)
  BY EmptySeq, LenProperties
<1>2. /\ Tail(s) \in Seq(V) /\ Len(Tail(s)) = Len(s) - 1 /\ Head(s) \in V
      /\ \A i \in 1 .. Len(Tail(s)) : Tail(s)[i] = s[i + 1]
  BY HeadTailProperties
<1>3. DOMAIN Tail(s) = 1 .. Len(Tail(s))
  BY <1>2, LenProperties
<1> QED BY <1>1, <1>2, <1>3

LEMMA BranchGrows ==
  /\ Branch(Genesis) = {}
  /\ \A b \in Block : Branch(b) = Branch(ParentOf[b]) \cup {b}
<1>1. Branch(Genesis) = {}
  <2>1. branch_to[Genesis] = <<>> /\ Len(<<>>) = 0
    BY BranchesAreSequences
  <2> QED BY <2>1 DEF Branch, Height
<1>2. ASSUME NEW b \in Block
      PROVE  Branch(b) = Branch(ParentOf[b]) \cup {b}
  <2> DEFINE s == branch_to[ParentOf[b]]
             t == branch_to[b]
  <2>1. s \in Seq(AllBlocks) /\ b \in AllBlocks /\ t = Append(s, b)
    <3>1. s \in Seq(Block) /\ t = Append(s, b) /\ Block \subseteq AllBlocks
      BY BranchesAreSequences, TreeIsGrounded
    <3> QED BY <3>1, SeqMonotonic
  <2> HIDE DEF s, t
  <2>2. /\ Len(s) \in Nat /\ Len(t) = Len(s) + 1
        /\ \A i \in 1 .. Len(s) : t[i] = s[i]
        /\ t[Len(s) + 1] = b
    BY <2>1, AppendProperties, LenProperties
  <2>3. {t[k] : k \in 1 .. Len(t)} = {s[k] : k \in 1 .. Len(s)} \cup {b}
    BY <2>2
  <2> QED BY <2>3 DEF Branch, Height, s, t
<1> QED BY <1>1, <1>2

LEMMA CleanBranches ==
  ASSUME NEW b \in Block, NEW M, Clean(b, M)
  PROVE  /\ b \notin M /\ ParentOf[b] \in AllBlocks
         /\ Clean(ParentOf[b], M) /\ ParentOf[b] \notin M \cap Block
         /\ \A N \in SUBSET M : Clean(b, N)
<1>1. Branch(b) = Branch(ParentOf[b]) \cup {b} /\ ParentOf[b] \in AllBlocks
  BY BranchGrows, TreeIsGrounded
<1>2. ParentOf[b] \in Block => ParentOf[b] \in Branch(ParentOf[b])
  BY BranchGrows
<1> QED BY <1>1, <1>2 DEF Clean

\* Who learns more, announces more, or has lost more, breaks nothing, as long as
\* the writer learns only what it will announce or has from the reader.
LEMMA WireGrows ==
  ASSUME NEW X, NEW Y, NEW U, NEW A \in Seq(Block), NEW S \in Seq(Message), NEW M,
         NEW X2, NEW Y2, NEW U2, NEW M2,
         Wire(X, Y, U, A, S, M),
         X2 \subseteq AllBlocks, Genesis \in Y,
         X2 \subseteq X \cup Y2 \cup U2, Y \subseteq Y2, U \subseteq U2, M \subseteq M2
  PROVE  Wire(X2, Y2, U2, A, S, M2)
<1>1. \A b \in Block : Clean(b, M2) => Clean(b, M)
  BY CleanBranches
<1>2. AllIsAnnounced(X2, Y2, U2, A, S, M2)
  <2> SUFFICES ASSUME NEW b \in X2 \ Y2, Clean(b, M2)
               PROVE  b \in U2 \/ OnItsWay(b, A, S)
    BY DEF AllIsAnnounced
  <2>1. b \in Block /\ Clean(b, M)
    BY <1>1, TreeIsGrounded
  <2> QED BY <2>1 DEF Wire, AllIsAnnounced
<1>3. UnreadInOrder(Y2, S, M2)
  BY <1>1 DEF Wire, UnreadInOrder
<1>4. UnwrittenInOrder(Y2, A, S, M2)
  <2>1. \A i \in DOMAIN A : A[i] \in Block
    BY LenProperties, ElementOfSeq
  <2> QED BY <1>1, <2>1 DEF Wire, UnwrittenInOrder
<1> QED BY <1>2, <1>3, <1>4 DEF Wire

\* The channel overflows: its oldest entry is lost.
LEMMA WireLags ==
  ASSUME NEW X, NEW Y, NEW U, NEW A \in Seq(Block), NEW S \in Seq(Message), NEW M,
         Wire(X, Y, U, A, S, M), X \subseteq AllBlocks, Genesis \in Y,
         A # <<>>, Head(A) \in M
  PROVE  Wire(X, Y, U, Tail(A), S, M)
<1> DEFINE B == Tail(A)
<1>1. /\ Len(A) \in Nat \ {0} /\ DOMAIN A = 1 .. Len(A)
      /\ A[1] \in M /\ A[1] \in Block
      /\ B \in Seq(Block) /\ DOMAIN B = 1 .. Len(A) - 1
      /\ \A i \in 1 .. Len(A) - 1 : B[i] = A[i + 1]
  BY TailFacts
<1> HIDE DEF B
<1>2. \A i \in DOMAIN A : A[i] = A[1] \/ (i - 1 \in DOMAIN B /\ B[i - 1] = A[i])
  BY <1>1
<1>3. AllIsAnnounced(X, Y, U, B, S, M)
  <2> SUFFICES ASSUME NEW b \in X \ Y, Clean(b, M)
               PROVE  b \in U \/ OnItsWay(b, B, S)
    BY DEF AllIsAnnounced
  <2>1. b \in Block /\ b \notin M
    BY TreeIsGrounded, CleanBranches
  <2>2. b \in U \/ OnItsWay(b, A, S)
    BY DEF Wire, AllIsAnnounced
  <2> QED BY <1>1, <1>2, <2>1, <2>2 DEF OnItsWay
<1>4. UnwrittenInOrder(Y, B, S, M)
  <2> SUFFICES ASSUME NEW i \in DOMAIN B, Clean(B[i], M)
               PROVE  \/ ParentOf[B[i]] \in Y
                      \/ \E j \in 1 .. i - 1 : B[j] = ParentOf[B[i]]
                      \/ \E j \in DOMAIN S : S[j] = NewBlock(ParentOf[B[i]])
    BY DEF UnwrittenInOrder
  <2>1. i + 1 \in DOMAIN A /\ A[i + 1] = B[i] /\ i \in Nat /\ B[i] \in Block
    BY <1>1, ElementOfSeq
  <2>2. \/ ParentOf[B[i]] \in Y
        \/ \E j \in 1 .. i : A[j] = ParentOf[B[i]]
        \/ \E j \in DOMAIN S : S[j] = NewBlock(ParentOf[B[i]])
    <3>1. (i + 1) - 1 = i
      BY <2>1
    <3> QED BY <2>1, <3>1 DEF Wire, UnwrittenInOrder
  <2>3. ASSUME NEW j \in 1 .. i, A[j] = ParentOf[B[i]]
        PROVE  \E k \in 1 .. i - 1 : B[k] = ParentOf[B[i]]
    <3>1. A[j] # A[1]
      BY <1>1, <2>1, <2>3, CleanBranches
    <3>2. j \in DOMAIN A /\ j - 1 \in 1 .. i - 1
      BY <1>1, <2>1, <3>1
    <3> QED BY <1>2, <2>3, <3>1, <3>2
  <2> QED BY <2>2, <2>3
<1> QED BY <1>3, <1>4 DEF Wire, B

\* A block of its own is announced after what the writer knew before.
LEMMA WireAnnounces ==
  ASSUME NEW X, NEW Y, NEW U, NEW A \in Seq(Block), NEW S \in Seq(Message), NEW M,
         Wire(X, Y, U, A, S, M), X \subseteq AllBlocks, Genesis \in Y,
         \A x \in X \ {Genesis} : ParentOf[x] \in X,
         NEW b \in X, b \in Block, ParentOf[b] \in U => b \in M
  PROVE  Wire(X, Y, U \ {b}, Append(A, b), S, M)
<1> DEFINE B == Append(A, b)
<1>1. /\ Len(A) \in Nat /\ DOMAIN A = 1 .. Len(A)
      /\ DOMAIN B = 1 .. Len(A) + 1
      /\ \A i \in 1 .. Len(A) : B[i] = A[i]
      /\ B[Len(A) + 1] = b
  BY AppendFacts
<1> HIDE DEF B
<1>2. AllIsAnnounced(X, Y, U \ {b}, B, S, M)
  <2> SUFFICES ASSUME NEW x \in X \ Y, Clean(x, M)
               PROVE  x \in U \ {b} \/ OnItsWay(x, B, S)
    BY DEF AllIsAnnounced
  <2>1. x \in U \/ OnItsWay(x, A, S)
    BY DEF Wire, AllIsAnnounced
  <2>2. \A i \in DOMAIN A : i \in DOMAIN B /\ B[i] = A[i]
    BY <1>1
  <2>3. Len(A) + 1 \in DOMAIN B
    BY <1>1
  <2> QED BY <1>1, <2>1, <2>2, <2>3 DEF OnItsWay
<1>3. UnwrittenInOrder(Y, B, S, M)
  <2> SUFFICES ASSUME NEW i \in DOMAIN B, Clean(B[i], M)
               PROVE  \/ ParentOf[B[i]] \in Y
                      \/ \E j \in 1 .. i - 1 : B[j] = ParentOf[B[i]]
                      \/ \E j \in DOMAIN S : S[j] = NewBlock(ParentOf[B[i]])
    BY DEF UnwrittenInOrder
  <2>1. CASE i \in 1 .. Len(A)
    <3>1. \A j \in 1 .. i - 1 : B[j] = A[j]
      BY <1>1, <2>1
    <3>2. i \in DOMAIN A /\ A[i] = B[i]
      BY <1>1, <2>1
    <3> QED BY <3>1, <3>2 DEF Wire, UnwrittenInOrder
  <2>2. CASE i = Len(A) + 1
    <3>1. B[i] = b /\ Clean(b, M)
      BY <1>1, <2>2
    <3>2. /\ b \notin M /\ Clean(ParentOf[b], M) /\ b # Genesis
          /\ ParentOf[b] \notin U /\ ParentOf[b] \in X
      BY <3>1, CleanBranches, TreeIsGrounded
    <3>3. ParentOf[b] \in Y \/ OnItsWay(ParentOf[b], A, S)
      BY <3>2 DEF Wire, AllIsAnnounced
    <3>4. \A j \in DOMAIN A : j \in 1 .. i - 1 /\ B[j] = A[j]
      BY <1>1, <2>2
    <3> QED BY <3>1, <3>3, <3>4 DEF OnItsWay
  <2>3. i \in 1 .. Len(A) \/ i = Len(A) + 1
    BY <1>1
  <2> QED BY <2>1, <2>2, <2>3
<1> QED BY <1>2, <1>3 DEF Wire, B

\* A block of its own that this connection misses.
LEMMA WireMisses ==
  ASSUME NEW X, NEW Y, NEW U, NEW A, NEW S, NEW M, Wire(X, Y, U, A, S, M),
         NEW b \in Block, b \in M
  PROVE  Wire(X, Y, U \ {b}, A, S, M)
<1>1. ~Clean(b, M)
  BY CleanBranches
<1> QED BY <1>1 DEF Wire, AllIsAnnounced

\* The oldest announcement is written.
LEMMA WireSends ==
  ASSUME NEW X, NEW Y, NEW U, NEW A \in Seq(Block), NEW S \in Seq(Message), NEW M,
         Wire(X, Y, U, A, S, M), A # <<>>
  PROVE  Wire(X, Y, U, Tail(A), Append(S, NewBlock(Head(A))), M)
<1> DEFINE B == Tail(A)
           m == NewBlock(A[1])
           T == Append(S, m)
<1>1. /\ Len(A) \in Nat \ {0} /\ DOMAIN A = 1 .. Len(A)
      /\ Head(A) = A[1] /\ A[1] \in Block
      /\ B \in Seq(Block) /\ DOMAIN B = 1 .. Len(A) - 1
      /\ \A i \in 1 .. Len(A) - 1 : B[i] = A[i + 1]
  BY TailFacts
<1>2. m \in Message /\ \A b \in Block : NewBlock(b) = m => b = A[1]
  BY <1>1, MessageTypes DEF NewBlock
<1> HIDE DEF B, m
<1>3. /\ Len(S) \in Nat /\ DOMAIN S = 1 .. Len(S) /\ DOMAIN T = 1 .. Len(S) + 1
      /\ \A i \in 1 .. Len(S) : T[i] = S[i]
      /\ T[Len(S) + 1] = m
  BY <1>2, AppendFacts
<1> HIDE DEF T
<1>4. \A i \in DOMAIN S : i \in DOMAIN T /\ T[i] = S[i]
  BY <1>3
<1>5. Len(S) + 1 \in DOMAIN T /\ T[Len(S) + 1] = NewBlock(A[1])
  BY <1>3 DEF m
<1>6. \A i \in DOMAIN A : A[i] = A[1] \/ (i - 1 \in DOMAIN B /\ B[i - 1] = A[i])
  BY <1>1
<1>7. AllIsAnnounced(X, Y, U, B, T, M)
  <2> SUFFICES ASSUME NEW b \in X \ Y, Clean(b, M)
               PROVE  b \in U \/ OnItsWay(b, B, T)
    BY DEF AllIsAnnounced
  <2>1. b \in U \/ OnItsWay(b, A, S)
    BY DEF Wire, AllIsAnnounced
  <2> QED BY <1>4, <1>5, <1>6, <2>1 DEF OnItsWay
<1>8. UnreadInOrder(Y, T, M)
  <2> SUFFICES ASSUME NEW i \in DOMAIN T, NEW b \in Block,
                      T[i] = NewBlock(b), Clean(b, M)
               PROVE  \/ ParentOf[b] \in Y
                      \/ \E j \in 1 .. i - 1 : T[j] = NewBlock(ParentOf[b])
    BY DEF UnreadInOrder
  <2>1. CASE i \in 1 .. Len(S)
    <3>1. i \in DOMAIN S /\ S[i] = NewBlock(b)
      BY <1>3, <2>1
    <3>2. \A j \in 1 .. i - 1 : j \in 1 .. Len(S)
      BY <1>3, <2>1
    <3> QED BY <1>3, <3>1, <3>2 DEF Wire, UnreadInOrder
  <2>2. CASE i = Len(S) + 1
    <3>1. b = A[1]
      BY <1>2, <1>3, <2>2
    <3>2. 1 \in DOMAIN A /\ 1 .. 1 - 1 = {}
      BY <1>1
    <3>3. \/ ParentOf[b] \in Y
          \/ \E j \in DOMAIN S : S[j] = NewBlock(ParentOf[b])
      BY <3>1, <3>2 DEF Wire, UnwrittenInOrder
    <3>4. \A j \in DOMAIN S : j \in 1 .. i - 1
      BY <1>3, <2>2
    <3> QED BY <1>4, <3>3, <3>4
  <2>3. i \in 1 .. Len(S) \/ i = Len(S) + 1
    BY <1>3
  <2> QED BY <2>1, <2>2, <2>3
<1>9. UnwrittenInOrder(Y, B, T, M)
  <2> SUFFICES ASSUME NEW i \in DOMAIN B, Clean(B[i], M)
               PROVE  \/ ParentOf[B[i]] \in Y
                      \/ \E j \in 1 .. i - 1 : B[j] = ParentOf[B[i]]
                      \/ \E j \in DOMAIN T : T[j] = NewBlock(ParentOf[B[i]])
    BY DEF UnwrittenInOrder
  <2>1. i + 1 \in DOMAIN A /\ A[i + 1] = B[i] /\ i \in Nat
    BY <1>1
  <2>2. (i + 1) - 1 = i
    BY <2>1
  <2>3. \/ ParentOf[B[i]] \in Y
        \/ \E j \in 1 .. i : A[j] = ParentOf[B[i]]
        \/ \E j \in DOMAIN S : S[j] = NewBlock(ParentOf[B[i]])
    BY <2>1, <2>2 DEF Wire, UnwrittenInOrder
  <2>4. ASSUME NEW j \in 1 .. i, A[j] = ParentOf[B[i]]
        PROVE  \/ \E k \in 1 .. i - 1 : B[k] = ParentOf[B[i]]
               \/ \E k \in DOMAIN T : T[k] = NewBlock(ParentOf[B[i]])
    <3>1. CASE A[j] = A[1]
      BY <1>5, <2>4, <3>1
    <3>2. CASE A[j] # A[1]
      <4>1. j \in DOMAIN A /\ j - 1 \in 1 .. i - 1
        BY <1>1, <2>1, <3>2
      <4> QED BY <1>6, <2>4, <3>2, <4>1
    <3> QED BY <3>1, <3>2
  <2> QED BY <1>4, <2>3, <2>4
<1> QED BY <1>1, <1>7, <1>8, <1>9 DEF Wire, B, T, m

\* Something else is written.
LEMMA WireWrites ==
  ASSUME NEW X, NEW Y, NEW U, NEW A \in Seq(Block), NEW S \in Seq(Message), NEW M,
         Wire(X, Y, U, A, S, M), NEW m \in Message, m.type # "NewBlock"
  PROVE  Wire(X, Y, U, A, Append(S, m), M)
<1> DEFINE T == Append(S, m)
<1>1. /\ Len(S) \in Nat /\ DOMAIN S = 1 .. Len(S) /\ DOMAIN T = 1 .. Len(S) + 1
      /\ \A i \in 1 .. Len(S) : T[i] = S[i]
      /\ T[Len(S) + 1] = m
  BY AppendFacts
<1> HIDE DEF T
<1>2. \A b : NewBlock(b) # m
  BY DEF NewBlock
<1>3. \A i \in DOMAIN S : i \in DOMAIN T /\ T[i] = S[i]
  BY <1>1
<1>4. AllIsAnnounced(X, Y, U, A, T, M)
  BY <1>3 DEF Wire, AllIsAnnounced, OnItsWay
<1>5. UnreadInOrder(Y, T, M)
  <2> SUFFICES ASSUME NEW i \in DOMAIN T, NEW b \in Block,
                      T[i] = NewBlock(b), Clean(b, M)
               PROVE  \/ ParentOf[b] \in Y
                      \/ \E j \in 1 .. i - 1 : T[j] = NewBlock(ParentOf[b])
    BY DEF UnreadInOrder
  <2>1. i # Len(S) + 1
    BY <1>1, <1>2
  <2>2. i \in DOMAIN S /\ \A j \in 1 .. i - 1 : j \in DOMAIN S
    BY <1>1, <2>1
  <2> QED BY <1>3, <2>2 DEF Wire, UnreadInOrder
<1>6. UnwrittenInOrder(Y, A, T, M)
  BY <1>3 DEF Wire, UnwrittenInOrder
<1> QED BY <1>4, <1>5, <1>6 DEF Wire, T

\* A message is read; the reader has its block by now, if nothing on the way to
\* it was lost.
LEMMA WireReads ==
  ASSUME NEW X, NEW Y, NEW U, NEW A \in Seq(Block), NEW S \in Seq(Message), NEW M,
         Wire(X, Y, U, A, S, M), X \subseteq AllBlocks, Genesis \in Y, S # <<>>,
         \A b \in Block : Head(S) = NewBlock(b) /\ Clean(b, M) => b \in Y
  PROVE  Wire(X, Y, U, A, Tail(S), M)
<1> DEFINE T == Tail(S)
<1>1. /\ Len(S) \in Nat \ {0} /\ DOMAIN S = 1 .. Len(S) /\ Head(S) = S[1]
      /\ DOMAIN T = 1 .. Len(S) - 1
      /\ \A i \in 1 .. Len(S) - 1 : T[i] = S[i + 1]
  BY TailFacts
<1> HIDE DEF T
<1>2. \A i \in DOMAIN S : i = 1 \/ (i - 1 \in DOMAIN T /\ T[i - 1] = S[i])
  BY <1>1
<1>3. ASSUME NEW x \in AllBlocks, Clean(x, M), x \notin Y,
             NEW i \in DOMAIN S, S[i] = NewBlock(x)
      PROVE  i - 1 \in DOMAIN T /\ T[i - 1] = NewBlock(x)
  <2>1. x \in Block
    BY <1>3, TreeIsGrounded
  <2> QED BY <1>1, <1>2, <1>3, <2>1
<1>4. AllIsAnnounced(X, Y, U, A, T, M)
  <2> SUFFICES ASSUME NEW b \in X \ Y, Clean(b, M)
               PROVE  b \in U \/ OnItsWay(b, A, T)
    BY DEF AllIsAnnounced
  <2>1. b \in U \/ OnItsWay(b, A, S)
    BY DEF Wire, AllIsAnnounced
  <2> QED BY <1>3, <2>1 DEF OnItsWay
<1>5. UnreadInOrder(Y, T, M)
  <2> SUFFICES ASSUME NEW i \in DOMAIN T, NEW b \in Block,
                      T[i] = NewBlock(b), Clean(b, M), ParentOf[b] \notin Y
               PROVE  \E j \in 1 .. i - 1 : T[j] = NewBlock(ParentOf[b])
    BY DEF UnreadInOrder
  <2>1. i + 1 \in DOMAIN S /\ S[i + 1] = NewBlock(b) /\ i \in Nat
    BY <1>1
  <2>2. (i + 1) - 1 = i
    BY <2>1
  <2>3. PICK j \in 1 .. i : S[j] = NewBlock(ParentOf[b])
    BY <2>1, <2>2 DEF Wire, UnreadInOrder
  <2>4. j \in DOMAIN S
    BY <1>1, <2>1, <2>3
  <2>5. ParentOf[b] \in AllBlocks /\ Clean(ParentOf[b], M)
    BY CleanBranches
  <2>6. j - 1 \in DOMAIN T /\ T[j - 1] = NewBlock(ParentOf[b])
    BY <1>3, <2>3, <2>4, <2>5
  <2>7. j - 1 \in 1 .. i - 1
    BY <1>1, <2>1, <2>3, <2>6
  <2> QED BY <2>6, <2>7
<1>6. UnwrittenInOrder(Y, A, T, M)
  <2> SUFFICES ASSUME NEW i \in DOMAIN A, Clean(A[i], M), ParentOf[A[i]] \notin Y
               PROVE  \/ \E j \in 1 .. i - 1 : A[j] = ParentOf[A[i]]
                      \/ \E j \in DOMAIN T : T[j] = NewBlock(ParentOf[A[i]])
    BY DEF UnwrittenInOrder
  <2>1. A[i] \in Block
    BY LenProperties, ElementOfSeq
  <2>2. ParentOf[A[i]] \in AllBlocks /\ Clean(ParentOf[A[i]], M)
    BY <2>1, CleanBranches
  <2>3. \/ \E j \in 1 .. i - 1 : A[j] = ParentOf[A[i]]
        \/ \E j \in DOMAIN S : S[j] = NewBlock(ParentOf[A[i]])
    BY DEF Wire, UnwrittenInOrder
  <2> QED BY <1>3, <2>2, <2>3
<1> QED BY <1>4, <1>5, <1>6 DEF Wire, T

\* The connection ends, and what was on its way is lost.
LEMMA WireBreaks ==
  ASSUME NEW X, NEW Y, NEW U, NEW A \in Seq(Block), NEW S \in Seq(Message), NEW M,
         Wire(X, Y, U, A, S, M), X \subseteq AllBlocks, Genesis \in Y,
         \A b \in Block : OnItsWay(b, A, S) => b \in M
  PROVE  Wire(X, Y, U, <<>>, <<>>, M)
<1>1. DOMAIN <<>> = {}
  OBVIOUS
<1>2. AllIsAnnounced(X, Y, U, <<>>, <<>>, M)
  <2> SUFFICES ASSUME NEW b \in X \ Y, Clean(b, M)
               PROVE  b \in U
    BY DEF AllIsAnnounced
  <2>1. b \in Block /\ b \notin M
    BY TreeIsGrounded, CleanBranches
  <2> QED BY <2>1 DEF Wire, AllIsAnnounced
<1> QED BY <1>1, <1>2 DEF Wire, UnreadInOrder, UnwrittenInOrder

-----------------------------------------------------------------------------
(* Both directions of every connection *)

\* The messages that carry blocks of K only.
MessageOf(K) == [type: {"Hello"}, height: Nat] \cup [type: {"NewBlock"}, block: K]
                \cup [type: {"GetBlocks"}, from_height: Nat \ {0}]
                \cup [type: {"Blocks"}, blocks: Seq(K)]

\* Nobody sends a block that it does not know.
Carries(K, A, S, B) == A \in Seq(K) /\ S \in Seq(MessageOf(K)) /\ B \in Seq(K)

\* Nodes do not pass on what they hear: only between two nodes can what one of
\* them lacks be told from what is on its way to it.
TwoNodes == \A l \in Links : Nodes = {l[1], l[2]}

\* The direction from the node w to the node r; B is what r has read of a
\* message and not yet ingested.
Flow(K, U, M, w, r, A, S, B) ==
  /\ Carries(K[w], A, S, B)
  /\ TwoNodes => Wire(K[w], K[r], U[w], A, S, M)

FlowsOK(K, U, M, peers, streams) ==
  \A e \in Ends :
    Flow(K, U, M, Other(e)[2], e[2],
         peers[Other(e)].announcements, streams[e], peers[e].blocks)

FlowInv == FlowsOK(known, unannounced, missed \cup reordered, peer, stream)

LEMMA MessagesOfMore ==
  ASSUME NEW K, NEW L, K \subseteq L
  PROVE  MessageOf(K) \subseteq MessageOf(L)
<1>1. Seq(K) \subseteq Seq(L)
  BY SeqMonotonic
<1> QED BY <1>1 DEF MessageOf

LEMMA CarriesMore ==
  ASSUME NEW K, NEW L, K \subseteq L, NEW A, NEW S, NEW B, Carries(K, A, S, B)
  PROVE  Carries(L, A, S, B)
<1>1. A \in Seq(L) /\ B \in Seq(L)
  BY SeqMonotonic DEF Carries
<1>2. S \in Seq(MessageOf(K)) /\ MessageOf(K) \subseteq MessageOf(L)
  BY MessagesOfMore DEF Carries
<1>3. S \in Seq(MessageOf(L))
  <2> HIDE DEF MessageOf
  <2> QED BY <1>2, SeqMonotonic
<1> QED BY <1>1, <1>3 DEF Carries

LEMMA OtherNode ==
  ASSUME NEW e \in Ends
  PROVE  /\ Other(e) \in Ends /\ Other(e) # e /\ Other(Other(e)) = e
         /\ e[2] \in Nodes /\ Other(e)[2] \in Nodes /\ e[2] # Other(e)[2]
         /\ TwoNodes => Nodes = {e[2], Other(e)[2]}
<1>1. e[1] \in Links /\ e[1][1] # e[1][2]
  BY OtherEnd, GossipAssumption
<1> QED BY <1>1, OtherEnd DEF TwoNodes

\* Nodes learn, and blocks are lost, while nothing moves on the connections.
LEMMA FlowsGrow ==
  ASSUME NodesOK, ConnectionsOK(peer, stream),
         NEW M, FlowsOK(known, unannounced, M, peer, stream),
         NEW K, NEW U, NEW M2,
         K \in [Nodes -> SUBSET AllBlocks], M \subseteq M2,
         \A n \in Nodes : known[n] \subseteq K[n] /\ unannounced[n] \subseteq U[n],
         \A n \in Nodes : \A b \in K[n] \ known[n] :
           TwoNodes => b \in U[n] \/ \E m \in Nodes \ {n} : b \in known[m]
  PROVE  FlowsOK(K, U, M2, peer, stream)
<1> SUFFICES ASSUME NEW e \in Ends
             PROVE  Flow(K, U, M2, Other(e)[2], e[2],
                         peer[Other(e)].announcements, stream[e], peer[e].blocks)
  BY DEF FlowsOK
<1> DEFINE w == Other(e)[2]
           r == e[2]
           A == peer[Other(e)].announcements
           S == stream[e]
           B == peer[e].blocks
<1>1. /\ w \in Nodes /\ r \in Nodes
      /\ TwoNodes => Nodes = {r, w}
      /\ A \in Seq(Block) /\ S \in Seq(Message)
  BY OtherNode, PeerTypes
<1>2. Flow(known, unannounced, M, w, r, A, S, B)
  BY DEF FlowsOK
<1> HIDE DEF w, r, A, S, B
<1>3. Carries(K[w], A, S, B)
  BY <1>1, <1>2, CarriesMore DEF Flow
<1>4. ASSUME TwoNodes
      PROVE  Wire(K[w], K[r], U[w], A, S, M2)
  <2>1. K[w] \subseteq known[w] \cup K[r] \cup U[w]
    BY <1>1, <1>4
  <2>2. K[w] \subseteq AllBlocks /\ Genesis \in known[r]
    BY <1>1 DEF NodesOK
  <2>3. known[r] \subseteq K[r] /\ unannounced[w] \subseteq U[w]
    BY <1>1
  <2>4. Wire(known[w], known[r], unannounced[w], A, S, M)
    BY <1>2, <1>4 DEF Flow
  <2> QED BY <1>1, <2>1, <2>2, <2>3, <2>4, WireGrows
<1> QED BY <1>3, <1>4 DEF Flow, w, r, A, S, B

\* One end moves: its locals, what is on its way to it and what it has written.
Moves(e, A, B, in, out) ==
  /\ peer'[e].announcements = A /\ peer'[e].blocks = B
  /\ stream'[e] = in /\ stream'[Other(e)] = out
  /\ \A g \in Ends \ {e} : peer'[g] = peer[g]
  /\ \A g \in Ends \ {e, Other(e)} : stream'[g] = stream[g]

LEMMA FlowsMove ==
  ASSUME NEW K, NEW U, NEW M, FlowsOK(K, U, M, peer, stream),
         NEW e \in Ends, NEW A, NEW B, NEW in, NEW out, Moves(e, A, B, in, out),
         Flow(K, U, M, Other(e)[2], e[2], peer[Other(e)].announcements, in, B),
         Flow(K, U, M, e[2], Other(e)[2], A, out, peer[Other(e)].blocks)
  PROVE  FlowsOK(K, U, M, peer', stream')
<1> DEFINE f == Other(e)
<1>1. f \in Ends /\ f # e /\ Other(f) = e
  BY OtherEnd
<1> SUFFICES ASSUME NEW g \in Ends
             PROVE  Flow(K, U, M, Other(g)[2], g[2],
                         peer'[Other(g)].announcements, stream'[g], peer'[g].blocks)
  BY DEF FlowsOK
<1>2. CASE g = e
  BY <1>1, <1>2 DEF Moves
<1>3. CASE g = f
  BY <1>1, <1>3 DEF Moves
<1>4. CASE g # e /\ g # f
  <2>1. Other(g) \in Ends /\ Other(g) # e
    BY <1>4, OtherEnd
  <2>2. /\ peer'[g] = peer[g] /\ stream'[g] = stream[g]
        /\ peer'[Other(g)] = peer[Other(g)]
    BY <1>4, <2>1 DEF Moves
  <2> QED BY <2>2 DEF FlowsOK
<1> QED BY <1>2, <1>3, <1>4

LEMMA FlowReads ==
  ASSUME NEW K, NEW U, NEW M, NEW w \in Nodes, NEW r \in Nodes,
         NEW A \in Seq(Block), NEW S \in Seq(Message), NEW B, NEW B2 \in Seq(K[w]),
         Flow(K, U, M, w, r, A, S, B),
         K[w] \subseteq AllBlocks, Genesis \in K[r], S # <<>>,
         \A b \in Block : TwoNodes /\ Head(S) = NewBlock(b) /\ Clean(b, M) => b \in K[r]
  PROVE  Flow(K, U, M, w, r, A, Tail(S), B2)
<1>1. A \in Seq(K[w]) /\ S \in Seq(MessageOf(K[w]))
  BY DEF Flow, Carries
<1>2. Tail(S) \in Seq(MessageOf(K[w]))
  <2> HIDE DEF MessageOf
  <2> QED BY <1>1, HeadTailProperties
<1>3. TwoNodes => Wire(K[w], K[r], U[w], A, Tail(S), M)
  BY WireReads DEF Flow
<1> QED BY <1>1, <1>2, <1>3 DEF Flow, Carries

LEMMA FlowWrites ==
  ASSUME NEW K, NEW U, NEW M, NEW w, NEW r,
         NEW A \in Seq(Block), NEW S \in Seq(Message), NEW B,
         Flow(K, U, M, w, r, A, S, B),
         NEW m \in Message, m \in MessageOf(K[w]), m.type # "NewBlock"
  PROVE  Flow(K, U, M, w, r, A, Append(S, m), B)
<1>1. A \in Seq(K[w]) /\ S \in Seq(MessageOf(K[w])) /\ B \in Seq(K[w])
  BY DEF Flow, Carries
<1>2. Append(S, m) \in Seq(MessageOf(K[w]))
  <2> HIDE DEF MessageOf
  <2> QED BY <1>1, AppendProperties
<1>3. TwoNodes => Wire(K[w], K[r], U[w], A, Append(S, m), M)
  BY WireWrites DEF Flow
<1> QED BY <1>1, <1>2, <1>3 DEF Flow, Carries

LEMMA FlowSends ==
  ASSUME NEW K, NEW U, NEW M, NEW w, NEW r,
         NEW A \in Seq(Block), NEW S \in Seq(Message), NEW B,
         Flow(K, U, M, w, r, A, S, B), A # <<>>
  PROVE  Flow(K, U, M, w, r, Tail(A), Append(S, NewBlock(Head(A))), B)
<1> DEFINE m == NewBlock(Head(A))
<1>1. A \in Seq(K[w]) /\ S \in Seq(MessageOf(K[w])) /\ B \in Seq(K[w])
  BY DEF Flow, Carries
<1>2. Head(A) \in K[w] /\ Tail(A) \in Seq(K[w])
  BY <1>1, HeadTailProperties
<1>3. m \in MessageOf(K[w])
  BY <1>2 DEF MessageOf, NewBlock
<1>4. Append(S, m) \in Seq(MessageOf(K[w]))
  <2> HIDE DEF MessageOf, m
  <2> QED BY <1>1, <1>3, AppendProperties
<1>5. TwoNodes => Wire(K[w], K[r], U[w], Tail(A), Append(S, NewBlock(Head(A))), M)
  BY WireSends DEF Flow
<1> QED BY <1>1, <1>2, <1>4, <1>5 DEF Flow, Carries

\* No message carries anything but what its writer knows.
LEMMA HeadIsCarried ==
  ASSUME NEW K, NEW A, NEW S, NEW B, Carries(K, A, S, B), S # <<>>
  PROVE  /\ Head(S).type = "NewBlock" => Head(S).block \in K
         /\ Head(S).type = "Blocks" => Head(S).blocks \in Seq(K)
<1>1. Head(S) \in MessageOf(K)
  <2>1. S \in Seq(MessageOf(K))
    BY DEF Carries
  <2> HIDE DEF MessageOf
  <2> QED BY <2>1, HeadTailProperties
<1> HIDE DEF Carries
<1> DEFINE m == Head(S)
<1>2. m \in MessageOf(K)
  BY <1>1
<1> HIDE DEF m
<1>3. /\ m.type = "NewBlock" => m.block \in K
      /\ m.type = "Blocks" => m.blocks \in Seq(K)
  BY <1>2 DEF MessageOf
<1> QED BY <1>3 DEF m

\* A node knows the branch of its tip.
LEMMA BranchIsKnown ==
  ASSUME NodesOK, NEW n \in Nodes, NEW b \in known[n]
  PROVE  branch_to[b] \in Seq(known[n])
<1> DEFINE T == {x \in Block : x \in known[n] /\ branch_to[x] \notin Seq(known[n])}
<1>1. known[n] \subseteq AllBlocks
  BY DEF NodesOK
<1>2. branch_to[Genesis] \in Seq(known[n])
  BY BranchesAreSequences
<1>3. ASSUME T # {}
      PROVE  FALSE
  <2>1. T \in (SUBSET Block) \ {{}}
    BY <1>3
  <2>2. PICK x \in T : ParentOf[x] \notin T
    <3> HIDE DEF T
    <3> QED BY <2>1, TreeIsGrounded DEF Grounded
  <2>3. x \in Block /\ x \in known[n] /\ branch_to[x] \notin Seq(known[n])
    OBVIOUS
  <2>4. ParentOf[x] \in known[n] /\ ParentOf[x] \in AllBlocks
    BY <1>1, <2>3, TreeIsGrounded DEF NodesOK
  <2>5. branch_to[ParentOf[x]] \in Seq(known[n])
    BY <1>2, <2>2, <2>4, TreeIsGrounded
  <2>6. Append(branch_to[ParentOf[x]], x) \in Seq(known[n])
    BY <2>3, <2>5, AppendProperties
  <2> QED BY <2>3, <2>6, BranchesAreSequences
<1> QED BY <1>1, <1>2, <1>3, TreeIsGrounded

LEMMA CollectedAreKnown ==
  ASSUME NodesOK, NEW n \in Nodes, NEW from \in Nat \ {0}
  PROVE  collect_blocks(n, from) \in Seq(known[n])
<1> DEFINE s == branch_to[tip[n]]
           last == from + MaxBatch - 1
           to == IF last < Height(tip[n]) THEN last ELSE Height(tip[n])
<1>1. s \in Seq(known[n]) /\ Height(tip[n]) = Len(s)
  BY BranchIsKnown DEF NodesOK, Height
<1>2. Len(s) \in Nat /\ last \in Nat
  <2>1. MaxBatch \in Nat \ {0}
    BY GossipAssumption
  <2> QED BY <1>1, <2>1, LenProperties
<1>3. to \in Nat /\ to <= Len(s)
  <2> HIDE DEF s, last
  <2> QED BY <1>1, <1>2
<1>4. collect_blocks(n, from) = SubSeq(s, from, to)
  BY DEF collect_blocks
<1> HIDE DEF s, to
<1> QED BY <1>1, <1>3, <1>4, PartOfSequence

-----------------------------------------------------------------------------
(* The steps *)

LEMMA FlowsAt ==
  ASSUME NEW K, NEW U, NEW M, FlowsOK(K, U, M, peer, stream), NEW e \in Ends
  PROVE  /\ Flow(K, U, M, Other(e)[2], e[2],
                 peer[Other(e)].announcements, stream[e], peer[e].blocks)
         /\ Flow(K, U, M, e[2], Other(e)[2],
                 peer[e].announcements, stream[Other(e)], peer[Other(e)].blocks)
BY OtherEnd DEF FlowsOK

\* What an end may write besides announcements.
Replies(K, e) ==
  {<<>>} \cup {<<m>> : m \in {x \in Message \cap MessageOf(K[e[2]]) : x.type # "NewBlock"}}

LEMMA FlowReplies ==
  ASSUME NEW K, NEW U, NEW M, NEW e \in Ends, NEW r,
         NEW A \in Seq(Block), NEW S \in Seq(Message), NEW B,
         Flow(K, U, M, e[2], r, A, S, B), NEW replies \in Replies(K, e)
  PROVE  Flow(K, U, M, e[2], r, A, S \o replies, B)
<1>1. CASE replies = <<>>
  BY <1>1, NothingMore
<1>2. ASSUME NEW m \in Message, m \in MessageOf(K[e[2]]), m.type # "NewBlock",
             replies = <<m>>
      PROVE  Flow(K, U, M, e[2], r, A, S \o replies, B)
  <2>1. S \o replies = Append(S, m)
    BY <1>2, OneMore
  <2> HIDE DEF Flow, Message, MessageOf
  <2> QED BY <1>2, <2>1, FlowWrites
<1> QED BY <1>1, <1>2 DEF Replies

\* An end writes without reading.
LEMMA FlowsReply ==
  ASSUME ConnectionsOK(peer, stream),
         NEW K, NEW U, NEW M, FlowsOK(K, U, M, peer, stream),
         NEW e \in Ends, NEW B \in Seq(K[Other(e)[2]]), NEW replies \in Replies(K, e),
         Moves(e, peer[e].announcements, B, stream[e], stream[Other(e)] \o replies)
  PROVE  FlowsOK(K, U, M, peer', stream')
<1>1. Flow(K, U, M, Other(e)[2], e[2], peer[Other(e)].announcements, stream[e], B)
  BY FlowsAt DEF Flow, Carries
<1>2. peer[e].announcements \in Seq(Block) /\ stream[Other(e)] \in Seq(Message)
  BY PeerTypes, OtherEnd
<1>3. Flow(K, U, M, e[2], Other(e)[2], peer[e].announcements,
           stream[Other(e)] \o replies, peer[Other(e)].blocks)
  BY <1>2, FlowsAt, FlowReplies
<1> QED BY <1>1, <1>3, FlowsMove

\* An end reads a message, and may write.
LEMMA FlowsRead ==
  ASSUME ConnectionsOK(peer, stream),
         NEW K \in [Nodes -> SUBSET AllBlocks], \A n \in Nodes : Genesis \in K[n],
         NEW U, NEW M, FlowsOK(K, U, M, peer, stream),
         NEW e \in Ends, stream[e] # <<>>,
         \A b \in Block :
           TwoNodes /\ Head(stream[e]) = NewBlock(b) /\ Clean(b, M) => b \in K[e[2]],
         NEW B \in Seq(K[Other(e)[2]]), NEW replies \in Replies(K, e),
         Moves(e, peer[e].announcements, B, Tail(stream[e]), stream[Other(e)] \o replies)
  PROVE  FlowsOK(K, U, M, peer', stream')
<1> DEFINE w == Other(e)[2]
<1>1. /\ Other(e) \in Ends /\ e[2] \in Nodes /\ w \in Nodes
      /\ stream[e] \in Seq(Message) /\ stream[Other(e)] \in Seq(Message)
      /\ peer[e].announcements \in Seq(Block)
      /\ peer[Other(e)].announcements \in Seq(Block)
  BY OtherNode, PeerTypes
<1>2. K[w] \subseteq AllBlocks /\ Genesis \in K[e[2]]
  BY <1>1
<1>3. Flow(K, U, M, w, e[2], peer[Other(e)].announcements, Tail(stream[e]), B)
  BY <1>1, <1>2, FlowsAt, FlowReads
<1>4. Flow(K, U, M, e[2], w, peer[e].announcements,
           stream[Other(e)] \o replies, peer[Other(e)].blocks)
  BY <1>1, FlowsAt, FlowReplies
<1> QED BY <1>3, <1>4, FlowsMove

LEMMA AskedFor ==
  ASSUME NEW K, NEW e, NEW h \in Nat
  PROVE  <<GetBlocks(h + 1)>> \in Replies(K, e) /\ <<Hello(h)>> \in Replies(K, e)
<1> DEFINE ask == GetBlocks(h + 1)
           hello == Hello(h)
<1>1. /\ ask \in Message /\ ask \in MessageOf(K[e[2]]) /\ ask.type # "NewBlock"
      /\ hello \in Message /\ hello \in MessageOf(K[e[2]]) /\ hello.type # "NewBlock"
  BY DEF GetBlocks, Hello, Message, MessageOf
<1> HIDE DEF ask, hello
<1>2. <<ask>> \in Replies(K, e) /\ <<hello>> \in Replies(K, e)
  BY <1>1 DEF Replies
<1> QED BY <1>2 DEF ask, hello

LEMMA MineKeepsFlows ==
  ASSUME GossipInv, FlowInv, NEW n \in Nodes, Mine(n), NodesOK'
  PROVE  FlowInv'
<1>1. PICK b \in Block :
        /\ ingest(n, b)
        /\ unannounced' = [unannounced EXCEPT ![n] = @ \cup {b}]
        /\ UNCHANGED <<peer, stream, faults, missed, reordered>>
  BY DEF Mine
<1>2. /\ known \in [Nodes -> SUBSET AllBlocks] /\ known' \in [Nodes -> SUBSET AllBlocks]
      /\ unannounced \in [Nodes -> SUBSET Block]
      /\ NodesOK /\ ConnectionsOK(peer, stream)
  BY DEF GossipInv, NodesOK
<1>3. /\ \A m \in Nodes : known[m] \subseteq known'[m]
      /\ \A m \in Nodes : known'[m] \ known[m] \subseteq unannounced'[m]
      /\ \A m \in Nodes : unannounced[m] \subseteq unannounced'[m]
  BY <1>1, <1>2 DEF ingest
<1>4. FlowsOK(known', unannounced', missed \cup reordered, peer, stream)
  BY <1>2, <1>3, FlowsGrow DEF FlowInv
<1> QED BY <1>1, <1>4 DEF FlowInv

LEMMA AnnounceKeepsFlows ==
  ASSUME GossipInv, FlowInv, NEW n \in Nodes, NEW b \in Block, Announce(n, b)
  PROVE  FlowInv'
<1> DEFINE M == missed \cup reordered
           N == missed' \cup reordered'
<1>1. /\ b \in unannounced[n]
      /\ unannounced' = [unannounced EXCEPT ![n] = @ \ {b}]
      /\ peer' = [e \in Ends |-> IF e[2] = n THEN Announced(e, b) ELSE peer[e]]
      /\ stream' = stream /\ known' = known
      /\ missed' = missed
           \cup {x \in {b} : \E e \in EndsOf(n) : ~Subscribed(e)}
           \cup {Head(peer[e].announcements) :
                   e \in {f \in EndsOf(n) : Subscribed(f) /\ Lags(f)}}
      /\ reordered' = reordered
           \cup {x \in {b} : Branch(ParentOf[b]) \cap unannounced[n] # {}}
  BY DEF Announce
<1>2. /\ known \in [Nodes -> SUBSET AllBlocks] /\ unannounced \in [Nodes -> SUBSET Block]
      /\ unannounced[n] \subseteq known[n]
      /\ \A m \in Nodes : /\ Genesis \in known[m]
                          /\ \A x \in known[m] \ {Genesis} : ParentOf[x] \in known[m]
      /\ ConnectionsOK(peer, stream)
  BY DEF GossipInv, NodesOK
<1>3. M \subseteq N /\ (ParentOf[b] \in unannounced[n] => b \in N)
  <2>1. ParentOf[b] \in unannounced[n] => ParentOf[b] \in Branch(ParentOf[b])
    BY <1>2, BranchGrows
  <2> QED BY <1>1, <2>1
<1> SUFFICES ASSUME NEW e \in Ends
             PROVE  Flow(known, unannounced', N, Other(e)[2], e[2],
                         peer'[Other(e)].announcements, stream[e], peer'[e].blocks)
  BY <1>1 DEF FlowInv, FlowsOK
<1> DEFINE f == Other(e)
           w == f[2]
           r == e[2]
           A == peer[f].announcements
           S == stream[e]
           B == peer[e].blocks
           X == known[w]
           Y == known[r]
           V == unannounced[w]
<1>4. /\ f \in Ends /\ w \in Nodes /\ r \in Nodes
      /\ A \in Seq(Block) /\ S \in Seq(Message)
      /\ Flow(known, unannounced, M, w, r, A, S, B)
  BY <1>2, OtherNode, PeerTypes DEF FlowInv, FlowsOK
<1>5. peer'[e].blocks = B
  BY <1>1, <1>2, AnnouncedIsOK
<1>6. /\ X \subseteq AllBlocks /\ Genesis \in Y
      /\ \A x \in X \ {Genesis} : ParentOf[x] \in X
  BY <1>2, <1>4
<1>7. TwoNodes => Wire(X, Y, V, A, S, N)
  <2>1. X \subseteq X \cup Y \cup V /\ Y \subseteq Y /\ V \subseteq V
    OBVIOUS
  <2>2. TwoNodes => Wire(X, Y, V, A, S, M)
    BY <1>4 DEF Flow
  <2> HIDE DEF X, Y, V, A, S, M, N
  <2> QED BY <1>3, <1>4, <1>6, <2>1, <2>2, WireGrows
<1>8. Carries(X, A, S, B)
  BY <1>4 DEF Flow
<1>9. CASE w # n
  <2>1. peer'[f].announcements = A /\ unannounced'[w] = V
    BY <1>1, <1>2, <1>4, <1>9
  <2> QED BY <1>5, <1>7, <1>8, <2>1 DEF Flow
<1>10. CASE w = n /\ ~Subscribed(f)
  <2>1. peer'[f].announcements = A /\ unannounced'[w] = V \ {b}
    BY <1>1, <1>2, <1>4, <1>10, AnnouncedIsOK
  <2>2. b \in N
    BY <1>1, <1>4, <1>10 DEF EndsOf
  <2>3. TwoNodes => Wire(X, Y, V \ {b}, A, S, N)
    <3> HIDE DEF X, Y, V, A, S, N
    <3> QED BY <1>7, <2>2, WireMisses
  <2> QED BY <1>5, <1>8, <2>1, <2>3 DEF Flow
<1>11. CASE w = n /\ Subscribed(f)
  <2> DEFINE kept == IF Lags(f) THEN Tail(A) ELSE A
  <2>1. /\ peer'[f].announcements = Append(kept, b)
        /\ unannounced'[w] = V \ {b}
    BY <1>1, <1>2, <1>4, <1>11, AnnouncedIsOK
  <2>2. b \in X
    BY <1>1, <1>2, <1>11
  <2>3. Lags(f) => A # <<>> /\ Head(A) \in N
    <3>1. Lags(f) => Len(A) >= AnnounceCapacity /\ AnnounceCapacity \in Nat \ {0}
      BY GossipAssumption DEF Lags
    <3>2. Len(<<>>) = 0
      OBVIOUS
    <3>3. Lags(f) => Head(A) \in N
      BY <1>1, <1>4, <1>11 DEF EndsOf
    <3> HIDE DEF A
    <3> QED BY <3>1, <3>2, <3>3
  <2>4. /\ kept \in Seq(Block) /\ Carries(X, kept, S, B)
        /\ TwoNodes => Wire(X, Y, V, kept, S, N)
    <3>1. CASE ~Lags(f)
      BY <1>4, <1>7, <1>8, <3>1
    <3>2. CASE Lags(f)
      <4>1. kept = Tail(A) /\ A # <<>> /\ Head(A) \in N
        BY <2>3, <3>2
      <4> HIDE DEF X, Y, V, A, S, B, N, kept
      <4>2. Tail(A) \in Seq(Block)
        BY <1>4, <4>1, HeadTailProperties
      <4>3. Carries(X, Tail(A), S, B)
        BY <1>8, <4>1, HeadTailProperties DEF Carries
      <4>4. TwoNodes => Wire(X, Y, V, Tail(A), S, N)
        BY <1>4, <1>6, <1>7, <4>1, WireLags
      <4> QED BY <4>1, <4>2, <4>3, <4>4
    <3> QED BY <3>1, <3>2
  <2>5. ParentOf[b] \in V => b \in N
    BY <1>3, <1>11
  <2> HIDE DEF X, Y, V, A, S, B, N, kept
  <2>6. Carries(X, Append(kept, b), S, B)
    BY <2>2, <2>4, AppendProperties DEF Carries
  <2>7. TwoNodes => Wire(X, Y, V \ {b}, Append(kept, b), S, N)
    BY <1>4, <1>6, <2>2, <2>4, <2>5, WireAnnounces
  <2>8. Flow(known, unannounced', N, w, r, Append(kept, b), S, B)
    BY <2>1, <2>6, <2>7 DEF Flow, X, Y
  <2> QED BY <1>5, <2>1, <2>8 DEF A, S, B, kept, N
<1> QED BY <1>9, <1>10, <1>11

LEMMA CloseLinkKeepsFlows ==
  ASSUME GossipInv, FlowInv, NEW l, CloseLink(l),
         UNCHANGED <<known, unannounced, reordered>>
  PROVE  FlowInv'
<1> DEFINE M == missed \cup reordered
           N == missed' \cup reordered'
<1>1. /\ peer' = [e \in Ends |-> IF e[1] = l THEN Closed ELSE peer[e]]
      /\ stream' = [e \in Ends |-> IF e[1] = l THEN <<>> ELSE stream[e]]
      /\ missed' = missed \cup UNION {Undelivered(e) : e \in {f \in Ends : f[1] = l}}
  BY DEF CloseLink
<1>2. NodesOK /\ ConnectionsOK(peer, stream) /\ known \in [Nodes -> SUBSET AllBlocks]
  BY DEF GossipInv, NodesOK
<1>3. FlowsOK(known, unannounced, N, peer, stream)
  BY <1>1, <1>2, FlowsGrow DEF FlowInv
<1> SUFFICES ASSUME NEW e \in Ends
             PROVE  Flow(known, unannounced, N, Other(e)[2], e[2],
                         peer'[Other(e)].announcements, stream'[e], peer'[e].blocks)
  BY DEF FlowInv, FlowsOK
<1>4. /\ Other(e) \in Ends /\ Other(e)[1] = e[1]
      /\ Other(e)[2] \in Nodes /\ e[2] \in Nodes
      /\ Flow(known, unannounced, N, Other(e)[2], e[2],
              peer[Other(e)].announcements, stream[e], peer[e].blocks)
  BY <1>3, OtherEnd, OtherNode DEF FlowsOK
<1>5. CASE e[1] # l
  <2>1. peer'[Other(e)] = peer[Other(e)] /\ stream'[e] = stream[e] /\ peer'[e] = peer[e]
    BY <1>1, <1>4, <1>5
  <2> QED BY <1>4, <2>1
<1>6. CASE e[1] = l
  <2> DEFINE A == peer[Other(e)].announcements
             S == stream[e]
             w == Other(e)[2]
             r == e[2]
  <2>1. /\ peer'[Other(e)].announcements = <<>> /\ stream'[e] = <<>>
        /\ peer'[e].blocks = <<>>
    BY <1>1, <1>4, <1>6 DEF Closed
  <2>2. \A b \in Block : OnItsWay(b, A, S) => b \in N
    BY <1>1, <1>6 DEF OnItsWay, Undelivered
  <2>3. /\ A \in Seq(Block) /\ S \in Seq(Message)
        /\ known[w] \subseteq AllBlocks /\ Genesis \in known[r]
    BY <1>2, <1>4, PeerTypes DEF NodesOK
  <2>4. TwoNodes => Wire(known[w], known[r], unannounced[w], <<>>, <<>>, N)
    <3>1. TwoNodes => Wire(known[w], known[r], unannounced[w], A, S, N)
      BY <1>4 DEF Flow
    <3> HIDE DEF A, S, w, r, N
    <3> QED BY <2>2, <2>3, <3>1, WireBreaks
  <2>5. Carries(known[w], <<>>, <<>>, <<>>)
    BY DEF Carries
  <2> QED BY <2>1, <2>4, <2>5 DEF Flow
<1> QED BY <1>5, <1>6

LEMMA ConnectKeepsFlows ==
  ASSUME GossipInv, FlowInv, NEW l, Connect(l)
  PROVE  FlowInv'
<1> DEFINE connected == [Closed EXCEPT !.phase = "connected"]
<1>1. /\ \A e \in Ends : e[1] = l => peer[e].phase = "closed"
      /\ peer' = [e \in Ends |-> IF e[1] = l THEN connected ELSE peer[e]]
      /\ UNCHANGED <<known, unannounced, stream, missed, reordered>>
  BY DEF Connect
<1>2. connected.announcements = <<>> /\ connected.blocks = <<>>
  BY DEF Closed
<1> HIDE DEF connected
<1>3. ASSUME NEW e \in Ends
      PROVE  /\ peer'[e].announcements = peer[e].announcements
             /\ peer'[e].blocks = peer[e].blocks
  <2>1. CASE e[1] = l
    <3>1. PeerOK(peer[e]) /\ peer[e].phase = "closed"
      BY <1>1, <2>1, PeerTypes DEF GossipInv
    <3>2. peer[e].announcements = <<>> /\ peer[e].blocks = <<>>
      BY <3>1 DEF PeerOK
    <3> QED BY <1>1, <1>2, <2>1, <3>2
  <2>2. CASE e[1] # l
    BY <1>1, <2>2
  <2> QED BY <2>1, <2>2
<1>4. \A e \in Ends : Other(e) \in Ends
  BY OtherEnd
<1> QED BY <1>1, <1>3, <1>4 DEF FlowInv, FlowsOK

LEMMA GreetKeepsFlows ==
  ASSUME GossipInv, FlowInv, NEW e \in Ends, SendHello(e) \/ Subscribe(e)
  PROVE  FlowInv'
<1> DEFINE f == Other(e)
           h == Height(tip[e[2]])
           replies == IF peer[e].phase = "connected" THEN <<Hello(h)>> ELSE <<>>
           A == peer[e].announcements
           B == peer[e].blocks
<1>1. /\ NodesOK /\ ConnectionsOK(peer, stream)
      /\ peer \in [Ends -> Peer] /\ stream \in [Ends -> Seq(Message)]
      /\ f \in Ends /\ f # e /\ e[2] \in Nodes
  BY OtherNode DEF GossipInv, ConnectionsOK
<1>2. /\ UNCHANGED <<known, unannounced, missed, reordered>>
      /\ \/ SendHello(e) /\ peer[e].phase = "connected"
         \/ Subscribe(e) /\ peer[e].phase = "greeted"
  BY DEF SendHello, Subscribe
<1>3. h \in Nat /\ Hello(h) \in Message
  BY <1>1, TipHeight, MessageTypes
<1> HIDE DEF h
<1>4. replies \in Replies(known, e)
  <2>1. <<Hello(h)>> \in Replies(known, e)
    BY <1>3, AskedFor
  <2> QED BY <2>1 DEF Replies
<1>5. /\ peer'[e].announcements = A /\ peer'[e].blocks = B
      /\ \A g \in Ends \ {e} : peer'[g] = peer[g]
  BY <1>1, <1>2 DEF SendHello, Subscribe, Peer
<1>6. /\ stream'[e] = stream[e] /\ stream'[f] = stream[f] \o replies
      /\ \A g \in Ends \ {e, f} : stream'[g] = stream[g]
  <2>1. CASE SendHello(e) /\ peer[e].phase = "connected"
    <3>1. stream' = [stream EXCEPT ![f] = Append(@, Hello(h))]
      BY <2>1 DEF SendHello, h
    <3>2. stream[f] \in Seq(Message)
      BY <1>1
    <3> HIDE DEF f
    <3>3. stream[f] \o <<Hello(h)>> = Append(stream[f], Hello(h))
      BY <1>3, <3>2, OneMore
    <3> QED BY <1>1, <2>1, <3>1, <3>3
  <2>2. CASE Subscribe(e) /\ peer[e].phase = "greeted"
    <3>1. stream[f] \in Seq(Message) /\ stream' = stream /\ replies = <<>>
      BY <1>1, <2>2 DEF Subscribe
    <3> HIDE DEF f, replies
    <3> QED BY <3>1, NothingMore
  <2> QED BY <1>2, <2>1, <2>2
<1>7. Moves(e, A, B, stream[e], stream[f] \o replies)
  BY <1>5, <1>6 DEF Moves
<1>8. B \in Seq(known[Other(e)[2]])
  BY FlowsAt DEF FlowInv, Flow, Carries
<1> HIDE DEF replies, A, B
<1>9. FlowsOK(known, unannounced, missed \cup reordered, peer', stream')
  BY <1>1, <1>4, <1>7, <1>8, FlowsReply DEF FlowInv, A
<1> QED BY <1>2, <1>9 DEF FlowInv

\* What the three handlers have in common that do not ingest.
LEMMA HandlerKeepsFlows ==
  ASSUME GossipInv, FlowInv, NEW e \in Ends, NEW type, Reads(e, type),
         type # "NewBlock", UNCHANGED <<known, unannounced, missed, reordered>>,
         NEW replies \in Replies(known, e), Reply(e, replies),
         NEW B \in Seq(known[Other(e)[2]]),
         peer'[e].announcements = peer[e].announcements, peer'[e].blocks = B,
         \A g \in Ends \ {e} : peer'[g] = peer[g]
  PROVE  FlowInv'
<1>1. /\ ConnectionsOK(peer, stream) /\ stream \in [Ends -> Seq(Message)]
      /\ known \in [Nodes -> SUBSET AllBlocks] /\ \A n \in Nodes : Genesis \in known[n]
      /\ Other(e) \in Ends /\ Other(e) # e
  BY OtherEnd DEF GossipInv, NodesOK, ConnectionsOK
<1>2. stream[e] # <<>> /\ Head(stream[e]).type = type
  BY DEF Reads
<1>3. \A b \in Block : Head(stream[e]) # NewBlock(b)
  BY <1>2 DEF NewBlock
<1>4. Moves(e, peer[e].announcements, B, Tail(stream[e]), stream[Other(e)] \o replies)
  BY <1>1 DEF Moves, Reply
<1>5. FlowsOK(known, unannounced, missed \cup reordered, peer', stream')
  BY <1>1, <1>2, <1>3, <1>4, FlowsRead DEF FlowInv
<1> QED BY <1>5 DEF FlowInv

LEMMA ReadersBlocks ==
  ASSUME GossipInv, FlowInv, NEW e \in Ends, NEW type, Reads(e, type)
  PROVE  /\ peer[e].blocks \in Seq(known[Other(e)[2]])
         /\ type = "NewBlock" => Head(stream[e]).block \in known[Other(e)[2]]
         /\ type = "Blocks" => Head(stream[e]).blocks \in Seq(known[Other(e)[2]])
<1>1. Carries(known[Other(e)[2]], peer[Other(e)].announcements, stream[e], peer[e].blocks)
  BY FlowsAt DEF FlowInv, Flow
<1>2. stream[e] # <<>> /\ Head(stream[e]).type = type
  BY DEF Reads
<1>3. /\ type = "NewBlock" => Head(stream[e]).block \in known[Other(e)[2]]
      /\ type = "Blocks" => Head(stream[e]).blocks \in Seq(known[Other(e)[2]])
  BY <1>1, <1>2, HeadIsCarried
<1> QED BY <1>1, <1>3 DEF Carries

LEMMA HandleHelloKeepsFlows ==
  ASSUME GossipInv, FlowInv, NEW e \in Ends, HandleHello(e)
  PROVE  FlowInv'
<1> DEFINE ours == Height(tip[e[2]])
           replies == IF Head(stream[e]).height > ours THEN <<GetBlocks(ours + 1)>> ELSE <<>>
<1>1. /\ Reads(e, "Hello") /\ Reply(e, replies)
      /\ UNCHANGED <<known, unannounced, missed, reordered>>
  BY DEF HandleHello
<1>2. peer \in [Ends -> Peer] /\ NodesOK /\ e[2] \in Nodes
  BY OtherEnd DEF GossipInv, ConnectionsOK
<1>3. /\ peer'[e].announcements = peer[e].announcements
      /\ peer'[e].blocks = peer[e].blocks
      /\ \A g \in Ends \ {e} : peer'[g] = peer[g]
  BY <1>2 DEF HandleHello, Peer
<1>4. replies \in Replies(known, e)
  <2>1. ours \in Nat
    BY <1>2, TipHeight
  <2> HIDE DEF ours
  <2>2. <<GetBlocks(ours + 1)>> \in Replies(known, e)
    BY <2>1, AskedFor
  <2> QED BY <2>2 DEF Replies
<1> HIDE DEF replies
<1> QED BY <1>1, <1>3, <1>4, ReadersBlocks, HandlerKeepsFlows

LEMMA HandleBlocksKeepsFlows ==
  ASSUME GossipInv, FlowInv, NEW e \in Ends, HandleBlocks(e)
  PROVE  FlowInv'
<1>1. /\ Reads(e, "Blocks") /\ Reply(e, <<>>)
      /\ UNCHANGED <<known, unannounced, missed, reordered>>
  BY DEF HandleBlocks
<1>2. peer \in [Ends -> Peer]
  BY DEF GossipInv, ConnectionsOK
<1>3. /\ peer'[e].announcements = peer[e].announcements
      /\ peer'[e].blocks = Head(stream[e]).blocks
      /\ \A g \in Ends \ {e} : peer'[g] = peer[g]
  BY <1>2 DEF HandleBlocks, Peer
<1>4. <<>> \in Replies(known, e)
  BY DEF Replies
<1>5. Head(stream[e]).blocks \in Seq(known[Other(e)[2]])
  BY <1>1, ReadersBlocks
<1> QED BY <1>1, <1>3, <1>4, <1>5, HandlerKeepsFlows

LEMMA HandleGetBlocksKeepsFlows ==
  ASSUME GossipInv, FlowInv, NEW e \in Ends, HandleGetBlocks(e)
  PROVE  FlowInv'
<1> DEFINE from == Head(stream[e]).from_height
           bs == collect_blocks(e[2], from)
<1>1. /\ Reads(e, "GetBlocks")
      /\ UNCHANGED <<known, unannounced, reordered>>
      /\ \/ Reply(e, <<Blocks(bs)>>) /\ UNCHANGED <<peer, missed>>
         \/ CloseLink(e[1])
  BY DEF HandleGetBlocks
<1>2. NodesOK /\ e[2] \in Nodes /\ ConnectionsOK(peer, stream)
  BY OtherEnd DEF GossipInv
<1>3. from \in Nat \ {0}
  <2> DEFINE m == Head(stream[e])
  <2>1. m \in Message /\ m.type = "GetBlocks"
    BY <1>1, <1>2, ReadMessage
  <2> HIDE DEF m
  <2>2. m.from_height \in Nat \ {0}
    BY <2>1, MessageTypes
  <2> QED BY <2>2 DEF m
<1> HIDE DEF from
<1>4. bs \in Seq(known[e[2]]) /\ bs \in Seq(Block)
  BY <1>2, <1>3, CollectedAreKnown, CollectedAreBlocks
<1> HIDE DEF bs
<1>5. <<Blocks(bs)>> \in Replies(known, e)
  <2> DEFINE m == Blocks(bs)
  <2>1. m \in Message /\ m \in MessageOf(known[e[2]]) /\ m.type # "NewBlock"
    BY <1>4 DEF Blocks, Message, MessageOf
  <2> HIDE DEF m
  <2>2. <<m>> \in Replies(known, e)
    BY <2>1 DEF Replies
  <2> QED BY <2>2 DEF m
<1>6. CASE CloseLink(e[1])
  BY <1>1, <1>6, CloseLinkKeepsFlows
<1>7. CASE Reply(e, <<Blocks(bs)>>) /\ UNCHANGED <<peer, missed>>
  BY <1>1, <1>5, <1>7, ReadersBlocks, HandlerKeepsFlows
<1> QED BY <1>1, <1>6, <1>7

\* A node learns a block from the other one.
LEMMA IngestedFlows ==
  ASSUME GossipInv, FlowInv, NodesOK', NEW e \in Ends, NEW b \in Block,
         b \in known[Other(e)[2]], ingest(e[2], b),
         UNCHANGED <<unannounced, missed, reordered>>
  PROVE  /\ FlowsOK(known', unannounced', missed' \cup reordered', peer, stream)
         /\ known[e[2]] \subseteq known'[e[2]]
         /\ Stored(e[2], b) => b \in known'[e[2]]
         /\ known'[Other(e)[2]] = known[Other(e)[2]]
<1>1. /\ e[2] \in Nodes /\ Other(e)[2] \in Nodes /\ e[2] # Other(e)[2]
      /\ NodesOK /\ ConnectionsOK(peer, stream)
      /\ known \in [Nodes -> SUBSET AllBlocks] /\ known' \in [Nodes -> SUBSET AllBlocks]
  BY OtherNode DEF GossipInv, NodesOK
<1>2. known' = IF Stored(e[2], b) THEN [known EXCEPT ![e[2]] = @ \cup {b}] ELSE known
  BY DEF ingest
<1>3. /\ known[e[2]] \subseteq known'[e[2]]
      /\ Stored(e[2], b) => b \in known'[e[2]]
      /\ known'[e[2]] \ known[e[2]] \subseteq {b}
      /\ \A n \in Nodes \ {e[2]} : known'[n] = known[n]
  BY <1>1, <1>2
<1>4. \A n \in Nodes : /\ known[n] \subseteq known'[n]
                       /\ unannounced[n] \subseteq unannounced'[n]
  BY <1>3
<1>5. \A n \in Nodes : \A x \in known'[n] \ known[n] :
        \E m \in Nodes \ {n} : x \in known[m]
  BY <1>1, <1>3
<1>6. FlowsOK(known', unannounced', missed' \cup reordered', peer, stream)
  BY <1>1, <1>4, <1>5, FlowsGrow DEF FlowInv
<1> QED BY <1>1, <1>3, <1>6

LEMMA HandleNewBlockKeepsFlows ==
  ASSUME GossipInv, FlowInv, NodesOK', NEW e \in Ends, HandleNewBlock(e)
  PROVE  FlowInv'
<1> DEFINE m == Head(stream[e])
           b == m.block
           ours == Height(tip[e[2]])
           more == ~Advances(e[2], b) /\ Height(b) > ours + 1
           replies == IF more THEN <<GetBlocks(ours + 1)>> ELSE <<>>
           M == missed' \cup reordered'
<1>1. /\ Reads(e, "NewBlock") /\ Reply(e, replies) /\ ingest(e[2], b)
      /\ UNCHANGED <<unannounced, missed, reordered>>
  BY DEF HandleNewBlock
<1>2. /\ peer \in [Ends -> Peer] /\ stream \in [Ends -> Seq(Message)]
      /\ NodesOK /\ ConnectionsOK(peer, stream)
      /\ Other(e) \in Ends /\ Other(e) # e /\ e[2] \in Nodes
      /\ known' \in [Nodes -> SUBSET AllBlocks] /\ \A n \in Nodes : Genesis \in known'[n]
  BY OtherNode DEF GossipInv, ConnectionsOK, NodesOK
<1>3. m \in Message /\ m.type = "NewBlock" /\ stream[e] # <<>>
  BY <1>1, <1>2, ReadMessage
<1>4. b \in Block /\ m = NewBlock(b)
  <2> HIDE DEF m
  <2> QED BY <1>3, MessageTypes
<1>5. /\ peer'[e].announcements = peer[e].announcements
      /\ peer'[e].blocks = peer[e].blocks
      /\ \A g \in Ends \ {e} : peer'[g] = peer[g]
  BY <1>2 DEF HandleNewBlock, Peer
<1>6. replies \in Replies(known', e)
  <2>1. ours \in Nat
    BY <1>2, TipHeight
  <2> HIDE DEF ours, more
  <2>2. <<GetBlocks(ours + 1)>> \in Replies(known', e)
    BY <2>1, AskedFor
  <2> QED BY <2>2 DEF Replies
<1> HIDE DEF replies
<1>7. b \in known[Other(e)[2]] /\ peer[e].blocks \in Seq(known[Other(e)[2]])
  BY <1>1, ReadersBlocks
<1>8. /\ FlowsOK(known', unannounced', M, peer, stream)
      /\ known[e[2]] \subseteq known'[e[2]]
      /\ Stored(e[2], b) => b \in known'[e[2]]
      /\ known'[Other(e)[2]] = known[Other(e)[2]]
  <2> HIDE DEF b
  <2> QED BY <1>1, <1>4, <1>7, IngestedFlows
<1>9. ASSUME NEW x \in Block, TwoNodes, Head(stream[e]) = NewBlock(x), Clean(x, M)
      PROVE  x \in known'[e[2]]
  <2>1. x = b
    BY <1>9 DEF NewBlock
  <2>2. Wire(known[Other(e)[2]], known[e[2]], unannounced[Other(e)[2]],
             peer[Other(e)].announcements, stream[e], missed \cup reordered)
    BY <1>9, FlowsAt DEF FlowInv, Flow
  <2>3. UnreadInOrder(known[e[2]], stream[e], M)
    BY <1>1, <2>2 DEF Wire
  <2>4. 1 \in DOMAIN stream[e] /\ stream[e][1] = NewBlock(x)
    <3>1. stream[e] \in Seq(Message)
      BY <1>2
    <3>2. Len(stream[e]) \in Nat \ {0} /\ DOMAIN stream[e] = 1 .. Len(stream[e])
      BY <1>3, <3>1, TailFacts
    <3> QED BY <1>9, <3>2
  <2>5. ParentOf[x] \in known[e[2]] \/ \E j \in 1 .. 1 - 1 : TRUE
    <3> HIDE DEF M
    <3> QED BY <1>9, <2>3, <2>4 DEF UnreadInOrder
  <2>6. ParentOf[x] \in known[e[2]]
    BY <2>5
  <2> QED BY <1>8, <2>1, <2>6 DEF Stored
<1>10. Moves(e, peer[e].announcements, peer[e].blocks, Tail(stream[e]),
             stream[Other(e)] \o replies)
  BY <1>1, <1>2, <1>5 DEF Moves, Reply
<1>11. peer[e].blocks \in Seq(known'[Other(e)[2]])
  BY <1>7, <1>8
<1>12. FlowsOK(known', unannounced', M, peer', stream')
  <2> HIDE DEF M, m
  <2> QED BY <1>2, <1>3, <1>6, <1>8, <1>9, <1>10, <1>11, FlowsRead
<1> QED BY <1>12 DEF FlowInv

LEMMA IngestNextKeepsFlows ==
  ASSUME GossipInv, FlowInv, NodesOK', NEW e \in Ends, IngestNext(e)
  PROVE  FlowInv'
<1> DEFINE f == Other(e)
           bs == peer[e].blocks
           b == Head(bs)
           asks == Len(bs) = 1 /\ (peer[e].progressed \/ Advances(e[2], b))
           h == Height(tip'[e[2]])
           replies == IF asks THEN <<GetBlocks(h + 1)>> ELSE <<>>
<1>1. /\ bs # <<>> /\ ingest(e[2], b)
      /\ stream' = IF asks THEN [stream EXCEPT ![f] = Append(@, GetBlocks(h + 1))]
                   ELSE stream
      /\ UNCHANGED <<unannounced, missed, reordered>>
  BY DEF IngestNext
<1>2. /\ peer \in [Ends -> Peer] /\ stream \in [Ends -> Seq(Message)]
      /\ ConnectionsOK(peer, stream) /\ f \in Ends /\ f # e /\ e[2] \in Nodes
  BY OtherNode DEF GossipInv, ConnectionsOK
<1>3. bs \in Seq(known[f[2]]) /\ bs \in Seq(Block)
  BY <1>2, FlowsAt, PeerTypes DEF FlowInv, Flow, Carries
<1>4. b \in known[f[2]] /\ b \in Block /\ Tail(bs) \in Seq(known[f[2]])
  BY <1>1, <1>3, HeadTailProperties
<1>5. /\ peer'[e].announcements = peer[e].announcements
      /\ peer'[e].blocks = Tail(bs)
      /\ \A g \in Ends \ {e} : peer'[g] = peer[g]
  BY <1>2 DEF IngestNext, Peer
<1>6. h \in Nat
  BY <1>2, HeightIsNat DEF NodesOK
<1> HIDE DEF h, asks
<1>7. replies \in Replies(known', e) /\ GetBlocks(h + 1) \in Message
  <2>1. <<GetBlocks(h + 1)>> \in Replies(known', e) /\ GetBlocks(h + 1) \in Message
    BY <1>6, AskedFor, MessageTypes
  <2> QED BY <2>1 DEF Replies
<1>8. /\ stream'[e] = stream[e] /\ stream'[f] = stream[f] \o replies
      /\ \A g \in Ends \ {e, f} : stream'[g] = stream[g]
  <2>1. stream[f] \in Seq(Message)
    BY <1>2
  <2> HIDE DEF f
  <2>2. CASE asks
    <3>1. stream[f] \o <<GetBlocks(h + 1)>> = Append(stream[f], GetBlocks(h + 1))
      BY <1>7, <2>1, OneMore
    <3>2. stream' = [stream EXCEPT ![f] = Append(@, GetBlocks(h + 1))]
      BY <1>1, <2>2 DEF f
    <3> QED BY <1>2, <2>2, <3>1, <3>2
  <2>3. CASE ~asks
    <3>1. stream' = stream /\ replies = <<>>
      BY <1>1, <2>3
    <3> HIDE DEF replies
    <3> QED BY <2>1, <3>1, NothingMore
  <2> QED BY <2>2, <2>3
<1>9. Moves(e, peer[e].announcements, Tail(bs), stream[e], stream[f] \o replies)
  BY <1>5, <1>8 DEF Moves
<1>10. /\ FlowsOK(known', unannounced', missed' \cup reordered', peer, stream)
       /\ known'[f[2]] = known[f[2]]
  <2> HIDE DEF b
  <2> QED BY <1>1, <1>4, IngestedFlows
<1>11. Tail(bs) \in Seq(known'[Other(e)[2]])
  BY <1>4, <1>10
<1> HIDE DEF replies, bs
<1>12. FlowsOK(known', unannounced', missed' \cup reordered', peer', stream')
  BY <1>2, <1>7, <1>9, <1>10, <1>11, FlowsReply
<1> QED BY <1>12 DEF FlowInv

\* More blocks are counted as lost, while nothing moves.
LEMMA LostFlows ==
  ASSUME GossipInv, FlowInv, UNCHANGED <<known, unannounced, reordered>>,
         missed \subseteq missed'
  PROVE  FlowsOK(known', unannounced', missed' \cup reordered', peer, stream)
<1>1. NodesOK /\ ConnectionsOK(peer, stream) /\ known \in [Nodes -> SUBSET AllBlocks]
  BY DEF GossipInv, NodesOK
<1>2. FlowsOK(known, unannounced, missed' \cup reordered, peer, stream)
  BY <1>1, FlowsGrow DEF FlowInv
<1> QED BY <1>2

LEMMA SendAnnouncementKeepsFlows ==
  ASSUME GossipInv, FlowInv, NEW e \in Ends, SendAnnouncement(e)
  PROVE  FlowInv'
<1> DEFINE f == Other(e)
           A == peer[e].announcements
           M == missed' \cup reordered'
<1>1. /\ peer \in [Ends -> Peer] /\ stream \in [Ends -> Seq(Message)]
      /\ A \in Seq(Block) /\ stream[f] \in Seq(Message) /\ f \in Ends /\ f # e
  BY OtherNode, PeerTypes DEF GossipInv, ConnectionsOK
<1>2. /\ A # <<>> /\ UNCHANGED <<known, unannounced, missed, reordered>>
      /\ stream' = [stream EXCEPT ![f] = Append(@, NewBlock(Head(A)))]
      /\ peer' = [peer EXCEPT ![e].announcements = Tail(@)]
  BY DEF SendAnnouncement
<1>3. FlowsOK(known', unannounced', M, peer, stream)
  BY <1>2, LostFlows
<1>4. Moves(e, Tail(A), peer[e].blocks, stream[e], Append(stream[f], NewBlock(Head(A))))
  BY <1>1, <1>2 DEF Moves, Peer
<1> HIDE DEF M
<1>5. /\ Flow(known', unannounced', M, f[2], e[2], peer[f].announcements,
              stream[e], peer[e].blocks)
      /\ Flow(known', unannounced', M, e[2], f[2], A, stream[f], peer[f].blocks)
  BY <1>3, FlowsAt
<1>6. Flow(known', unannounced', M, e[2], f[2], Tail(A),
           Append(stream[f], NewBlock(Head(A))), peer[f].blocks)
  <2> HIDE DEF A, f
  <2> QED BY <1>1, <1>2, <1>5, FlowSends
<1>7. FlowsOK(known', unannounced', M, peer', stream')
  BY <1>3, <1>4, <1>5, <1>6, FlowsMove
<1> QED BY <1>7 DEF FlowInv, M

LEMMA TearFrameKeepsFlows ==
  ASSUME GossipInv, FlowInv, NEW e \in Ends, TearFrame(e)
  PROVE  FlowInv'
<1> DEFINE f == Other(e)
           A == peer[e].announcements
           S == stream[e]
           M == missed' \cup reordered'
<1>1. /\ peer \in [Ends -> Peer] /\ stream \in [Ends -> Seq(Message)]
      /\ NodesOK /\ ConnectionsOK(peer, stream)
      /\ A \in Seq(Block) /\ stream[f] \in Seq(Message) /\ f \in Ends /\ f # e
      /\ peer[f].announcements \in Seq(Block) /\ S \in Seq(Message)
      /\ e[2] \in Nodes /\ f[2] \in Nodes
  BY OtherNode, PeerTypes DEF GossipInv, ConnectionsOK
<1>2. /\ A # <<>> /\ S # <<>> /\ UNCHANGED <<known, unannounced, reordered>>
      /\ missed' = missed \cup {b \in Block : Head(S) = NewBlock(b)}
      /\ stream' = [stream EXCEPT ![e] = Tail(@), ![f] = Append(@, NewBlock(Head(A)))]
      /\ peer' = [peer EXCEPT ![e].phase = "misframed", ![e].announcements = Tail(@)]
  BY DEF TearFrame
<1>3. FlowsOK(known', unannounced', M, peer, stream)
  BY <1>2, LostFlows
<1>4. Moves(e, Tail(A), peer[e].blocks, Tail(S), Append(stream[f], NewBlock(Head(A))))
  BY <1>1, <1>2 DEF Moves, Peer
<1>5. \A b \in Block : Head(S) = NewBlock(b) => ~Clean(b, M)
  BY <1>2, CleanBranches
<1>6. known'[f[2]] \subseteq AllBlocks /\ Genesis \in known'[e[2]]
  BY <1>1, <1>2 DEF NodesOK
<1> HIDE DEF M
<1>7. /\ Flow(known', unannounced', M, f[2], e[2], peer[f].announcements,
              S, peer[e].blocks)
      /\ Flow(known', unannounced', M, e[2], f[2], A, stream[f], peer[f].blocks)
  BY <1>3, FlowsAt
<1>8. peer[e].blocks \in Seq(known'[f[2]])
  BY <1>7 DEF Flow, Carries
<1> HIDE DEF A, S, f
<1>9. Flow(known', unannounced', M, f[2], e[2], peer[f].announcements,
           Tail(S), peer[e].blocks)
  BY <1>1, <1>2, <1>5, <1>6, <1>7, <1>8, FlowReads
<1>10. Flow(known', unannounced', M, e[2], f[2], Tail(A),
            Append(stream[f], NewBlock(Head(A))), peer[f].blocks)
  BY <1>1, <1>2, <1>7, FlowSends
<1>11. FlowsOK(known', unannounced', M, peer', stream')
  BY <1>3, <1>4, <1>9, <1>10, FlowsMove DEF f
<1> QED BY <1>11 DEF FlowInv, M

LEMMA SwallowFrameKeepsFlows ==
  ASSUME GossipInv, FlowInv, NEW e \in Ends, SwallowFrame(e)
  PROVE  FlowInv'
<1> DEFINE f == Other(e)
           S == stream[e]
           M == missed' \cup reordered'
<1>1. /\ stream \in [Ends -> Seq(Message)] /\ NodesOK /\ ConnectionsOK(peer, stream)
      /\ stream[f] \in Seq(Message) /\ f \in Ends /\ f # e
  BY OtherNode DEF GossipInv, ConnectionsOK
<1>2. /\ S # <<>> /\ UNCHANGED <<known, unannounced, reordered, peer>>
      /\ missed' = missed \cup {b \in Block : Head(S) = NewBlock(b)}
      /\ stream' = [stream EXCEPT ![e] = Tail(@)]
  BY DEF SwallowFrame
<1>3. FlowsOK(known', unannounced', M, peer, stream)
  BY <1>2, LostFlows
<1>4. Moves(e, peer[e].announcements, peer[e].blocks, Tail(S), stream[f] \o <<>>)
  <2>1. stream[f] \o <<>> = stream[f]
    <3> HIDE DEF f
    <3> QED BY <1>1, NothingMore
  <2> QED BY <1>1, <1>2, <2>1 DEF Moves
<1>5. \A b \in Block : Head(S) = NewBlock(b) => ~Clean(b, M)
  BY <1>2, CleanBranches
<1>6. known' \in [Nodes -> SUBSET AllBlocks] /\ \A n \in Nodes : Genesis \in known'[n]
  BY <1>1, <1>2 DEF NodesOK
<1> HIDE DEF M
<1>7. peer[e].blocks \in Seq(known'[f[2]])
  BY <1>3, FlowsAt DEF Flow, Carries
<1>8. <<>> \in Replies(known', e)
  BY DEF Replies
<1>9. FlowsOK(known', unannounced', M, peer', stream')
  BY <1>1, <1>2, <1>3, <1>4, <1>5, <1>6, <1>7, <1>8, FlowsRead
<1> QED BY <1>9 DEF FlowInv, M

LEMMA StepFlowInv ==
  ASSUME GossipInv, FlowInv, [Next]_vars
  PROVE  FlowInv'
<1>1. NodesOK'
  BY StepGossipInv DEF GossipInv
<1>2. ASSUME NEW n \in Nodes, Mine(n) \/ AnnounceAny(n)
      PROVE  FlowInv'
  BY <1>1, <1>2, MineKeepsFlows, AnnounceKeepsFlows DEF AnnounceAny
<1>3. ASSUME NEW l \in Links, Connect(l)
      PROVE  FlowInv'
  BY <1>3, ConnectKeepsFlows
<1>4. ASSUME NEW l \in Links, DropLink(l)
      PROVE  FlowInv'
  <2>1. CloseLink(l) /\ UNCHANGED <<known, unannounced, reordered>>
    BY <1>4 DEF DropLink
  <2> QED BY <2>1, CloseLinkKeepsFlows
<1>5. ASSUME NEW e \in Ends, run_peer(e)
      PROVE  FlowInv'
  BY <1>1, <1>5, GreetKeepsFlows, HandleHelloKeepsFlows, HandleNewBlockKeepsFlows,
     HandleGetBlocksKeepsFlows, HandleBlocksKeepsFlows, IngestNextKeepsFlows
     DEF run_peer, HandleFrame
<1>6. ASSUME NEW e \in Ends, SendAnnouncement(e) \/ TearFrame(e) \/ SwallowFrame(e)
      PROVE  FlowInv'
  BY <1>6, SendAnnouncementKeepsFlows, TearFrameKeepsFlows, SwallowFrameKeepsFlows
<1>7. ASSUME NEW e \in Ends, RefuseFrame(e)
      PROVE  FlowInv'
  <2>1. CloseLink(e[1]) /\ UNCHANGED <<known, unannounced, reordered>>
    BY <1>7 DEF RefuseFrame
  <2> QED BY <2>1, CloseLinkKeepsFlows
<1>8. CASE UNCHANGED vars
  <2>1. UNCHANGED <<known, unannounced, missed, reordered, peer, stream>>
    BY <1>8 DEF vars
  <2> QED BY <2>1 DEF FlowInv, FlowsOK
<1> QED BY <1>2, <1>3, <1>4, <1>5, <1>6, <1>7, <1>8 DEF Next

LEMMA InitFlowInv ==
  ASSUME Init
  PROVE  FlowInv
<1> SUFFICES ASSUME NEW e \in Ends
             PROVE  Flow(known, unannounced, missed \cup reordered, Other(e)[2], e[2],
                         peer[Other(e)].announcements, stream[e], peer[e].blocks)
  BY DEF FlowInv, FlowsOK
<1> DEFINE w == Other(e)[2]
           M == missed \cup reordered
<1>1. /\ known[w] = {Genesis} /\ known[e[2]] = {Genesis}
      /\ peer[Other(e)].announcements = <<>> /\ peer[e].blocks = <<>>
      /\ stream[e] = <<>>
  BY OtherNode DEF Init, Closed
<1>2. Carries(known[w], <<>>, <<>>, <<>>)
  BY DEF Carries
<1>3. DOMAIN <<>> = {}
  OBVIOUS
<1>4. Wire({Genesis}, {Genesis}, unannounced[w], <<>>, <<>>, M)
  BY <1>3 DEF Wire, AllIsAnnounced, UnreadInOrder, UnwrittenInOrder
<1> HIDE DEF w, M
<1> QED BY <1>1, <1>2, <1>4 DEF Flow, w, M

\* Two nodes that mine against each other end up with the same blocks as soon as
\* their connections come to rest, but for what an announcement lost (Lagged, a
\* connection that breaks, a torn frame) or overtook, and what builds on it: for
\* any number of connections between the two, any tree of blocks and any
\* capacities.  A third node would have to pass on what it hears, and run_peer
\* announces only what its own node mines.
THEOREM TwoNodesShare == ASSUME TwoNodes PROVE Spec => []QuietMeansShared
<1>1. GossipInv /\ FlowInv => QuietMeansShared
  <2> SUFFICES ASSUME GossipInv, FlowInv, NEW l \in Links, Quiet(l)
               PROVE  \A b \in (known[l[1]] \ known[l[2]]) \cup (known[l[2]] \ known[l[1]]) :
                        Branch(b) \cap (missed \cup reordered) # {}
    BY DEF QuietMeansShared
  <2>1. ASSUME NEW e \in Ends, e[1] = l, NEW b \in known[Other(e)[2]] \ known[e[2]]
        PROVE  Branch(b) \cap (missed \cup reordered) # {}
    <3>1. /\ peer[Other(e)].announcements = <<>> /\ stream[e] = <<>>
          /\ unannounced[Other(e)[2]] = {}
      BY <2>1, OtherEnd DEF Quiet
    <3>2. AllIsAnnounced(known[Other(e)[2]], known[e[2]], {}, <<>>, <<>>,
                         missed \cup reordered)
      BY <3>1, FlowsAt, TwoNodes DEF FlowInv, Flow, Wire
    <3>3. DOMAIN <<>> = {}
      OBVIOUS
    <3> QED BY <3>2, <3>3 DEF AllIsAnnounced, OnItsWay, Clean
  <2>2. /\ <<l, l[1]>> \in Ends /\ <<l, l[2]>> \in Ends
        /\ Other(<<l, l[1]>>) = <<l, l[2]>> /\ Other(<<l, l[2]>>) = <<l, l[1]>>
    BY OtherEnd, GossipAssumption DEF Ends
  <2> QED BY <2>1, <2>2
<1>2. Init => GossipInv /\ FlowInv
  BY InitGossipInv, InitFlowInv
<1>3. GossipInv /\ FlowInv /\ [Next]_vars => (GossipInv /\ FlowInv)'
  BY StepGossipInv, StepFlowInv
<1> QED BY <1>1, <1>2, <1>3, PTL DEF Spec

-----------------------------------------------------------------------------
(* Heights and work along a branch *)

LEMMA HeightGrows ==
  /\ Height(Genesis) = 0
  /\ \A b \in AllBlocks : Height(b) \in Nat
  /\ \A b \in Block : b \in AllBlocks /\ ParentOf[b] \in AllBlocks
                      /\ Height(b) = Height(ParentOf[b]) + 1
<1>1. Height(Genesis) = 0
  <2>1. branch_to[Genesis] = <<>> /\ Len(<<>>) = 0
    BY BranchesAreSequences
  <2> QED BY <2>1 DEF Height
<1>2. ASSUME NEW b \in Block
      PROVE  b \in AllBlocks /\ ParentOf[b] \in AllBlocks /\ Height(b) = Height(ParentOf[b]) + 1
  <2> DEFINE s == branch_to[ParentOf[b]]
  <2>1. /\ b \in AllBlocks /\ ParentOf[b] \in AllBlocks
        /\ s \in Seq(Block) /\ branch_to[b] = Append(s, b)
    BY TreeIsGrounded, BranchesAreSequences
  <2> HIDE DEF s
  <2>2. Len(Append(s, b)) = Len(s) + 1
    BY <2>1, AppendProperties
  <2> QED BY <2>1, <2>2 DEF Height, s
<1> QED BY <1>1, <1>2, HeightIsNat

LEMMA WorkGrows ==
  /\ cumulative_work \in [AllBlocks -> Nat]
  /\ \A b \in Block : cumulative_work[ParentOf[b]] < cumulative_work[b]
<1> DEFINE step == [p \in Nat \X Block |-> p[1] + DifficultyOf[p[2]]]
           Rec(f) == f = [b \in AllBlocks |->
                           IF b = Genesis THEN 0 ELSE f[ParentOf[b]] + DifficultyOf[b]]
<1>1. step \in [Nat \X Block -> Nat] /\ 0 \in Nat
  BY GossipAssumption
<1>2. PICK f \in [Block \cup {Genesis} -> Nat] :
        Recurs(f, Block \cup {Genesis}, Genesis, ParentOf, 0, step)
  <2> HIDE DEF step
  <2> QED BY <1>1, TreeIsGrounded, TreeRecursion
<1>3. \A b \in Block : ParentOf[b] \in AllBlocks /\ b # Genesis /\ b \in AllBlocks
  BY TreeIsGrounded
<1>4. f \in [AllBlocks -> Nat]
  BY <1>2, TreeIsGrounded
<1>5. \A b \in Block : step[<<f[ParentOf[b]], b>>] = f[ParentOf[b]] + DifficultyOf[b]
  BY <1>3, <1>4
<1>6. Rec(f)
  <2> HIDE DEF step
  <2>1. \A b \in AllBlocks :
          f[b] = IF b = Genesis THEN 0 ELSE f[ParentOf[b]] + DifficultyOf[b]
    BY <1>2, <1>5, TreeIsGrounded DEF Recurs
  <2> QED BY <1>4, <2>1
<1>7. cumulative_work = CHOOSE g : Rec(g)
  BY DEF cumulative_work
<1>8. Rec(cumulative_work)
  <2> HIDE DEF Rec
  <2> QED BY <1>6, <1>7
<1> HIDE DEF step
<1>9. /\ DOMAIN cumulative_work = AllBlocks
      /\ cumulative_work[Genesis] = 0
      /\ \A b \in Block : cumulative_work[b] = cumulative_work[ParentOf[b]] + DifficultyOf[b]
      /\ cumulative_work = [b \in AllBlocks |-> cumulative_work[b]]
  <2>1. Genesis \in AllBlocks
    BY TreeIsGrounded
  <2> QED BY <1>3, <1>8, <2>1
<1> HIDE DEF Rec
<1> DEFINE T == {b \in Block : cumulative_work[b] \notin Nat}
<1>10. ASSUME T # {}
       PROVE  FALSE
  <2>1. T \in (SUBSET Block) \ {{}}
    BY <1>10
  <2>2. PICK b \in T : ParentOf[b] \notin T
    <3> HIDE DEF T
    <3> QED BY <2>1, TreeIsGrounded DEF Grounded
  <2>3. b \in Block /\ cumulative_work[b] \notin Nat /\ DifficultyOf[b] \in Nat
    BY GossipAssumption
  <2>4. cumulative_work[ParentOf[b]] \in Nat
    BY <1>9, <2>2, <2>3, TreeIsGrounded
  <2> QED BY <1>9, <2>3, <2>4
<1>11. \A b \in AllBlocks : cumulative_work[b] \in Nat
  BY <1>9, <1>10, TreeIsGrounded
<1>12. \A b \in Block : cumulative_work[ParentOf[b]] < cumulative_work[b]
  <2> SUFFICES ASSUME NEW b \in Block PROVE cumulative_work[ParentOf[b]] < cumulative_work[b]
    OBVIOUS
  <2>1. DifficultyOf[b] \in Nat \ {0} /\ cumulative_work[ParentOf[b]] \in Nat
    BY <1>3, <1>11, GossipAssumption
  <2> QED BY <1>9, <2>1
<1> QED BY <1>9, <1>11, <1>12

\* What is below a block on its branch is lower and lighter.
LEMMA BranchRises ==
  ASSUME NEW b \in AllBlocks
  PROVE  \A k \in 1 .. Height(b) :
           /\ branch_to[b][k] \in Block /\ Height(branch_to[b][k]) = k
           /\ k = Height(b) => branch_to[b][k] = b
           /\ k < Height(b) => cumulative_work[branch_to[b][k]] < cumulative_work[b]
<1> DEFINE Rises(x) ==
             \A k \in 1 .. Height(x) :
               /\ branch_to[x][k] \in Block /\ Height(branch_to[x][k]) = k
               /\ k = Height(x) => branch_to[x][k] = x
               /\ k < Height(x) => cumulative_work[branch_to[x][k]] < cumulative_work[x]
           T == {x \in Block : ~Rises(x)}
<1>1. Rises(Genesis)
  BY HeightGrows
<1>2. ASSUME NEW x \in Block, Rises(ParentOf[x])
      PROVE  Rises(x)
  <2> DEFINE a == ParentOf[x]
             s == branch_to[a]
             t == branch_to[x]
  <2>1. /\ a \in AllBlocks /\ s \in Seq(Block) /\ t = Append(s, x) /\ Height(a) = Len(s)
        /\ Height(x) = Height(a) + 1 /\ Height(a) \in Nat
    BY HeightGrows, BranchesAreSequences DEF Height
  <2>2. /\ \A k \in 1 .. Height(a) : t[k] = s[k]
        /\ t[Height(x)] = x
    <3> HIDE DEF s, t
    <3> QED BY <2>1, AppendFacts
  <2>3. /\ cumulative_work[a] < cumulative_work[x]
        /\ cumulative_work[a] \in Nat /\ cumulative_work[x] \in Nat
        /\ \A y \in Block : cumulative_work[y] \in Nat
    BY <2>1, WorkGrows, HeightGrows
  <2> SUFFICES ASSUME NEW k \in 1 .. Height(x)
               PROVE  /\ t[k] \in Block /\ Height(t[k]) = k
                      /\ k = Height(x) => t[k] = x
                      /\ k < Height(x) => cumulative_work[t[k]] < cumulative_work[x]
    OBVIOUS
  <2>4. CASE k = Height(x)
    BY <2>1, <2>2, <2>4
  <2>5. CASE k # Height(x)
    <3>1. k \in 1 .. Height(a) /\ t[k] = s[k]
      BY <2>1, <2>2, <2>5
    <3>2. /\ s[k] \in Block /\ Height(s[k]) = k
          /\ k = Height(a) => s[k] = a
          /\ k < Height(a) => cumulative_work[s[k]] < cumulative_work[a]
      BY <1>2, <3>1
    <3>3. cumulative_work[s[k]] <= cumulative_work[a]
      <4>1. k = Height(a) \/ k < Height(a)
        BY <2>1, <3>1
      <4> QED BY <2>3, <3>2, <4>1
    <3> HIDE DEF a, s, t
    <3>4. cumulative_work[s[k]] < cumulative_work[x]
      BY <2>3, <3>2, <3>3
    <3> QED BY <2>5, <3>1, <3>2, <3>4
  <2> QED BY <2>4, <2>5
<1> HIDE DEF Rises
<1>3. ASSUME T # {}
      PROVE  FALSE
  <2>1. T \in (SUBSET Block) \ {{}}
    BY <1>3
  <2>2. PICK x \in T : ParentOf[x] \notin T
    <3> HIDE DEF T
    <3> QED BY <2>1, TreeIsGrounded DEF Grounded
  <2>3. x \in Block /\ ~Rises(x)
    OBVIOUS
  <2>4. Rises(ParentOf[x])
    BY <1>1, <2>2, <2>3, TreeIsGrounded
  <2> QED BY <1>2, <2>3, <2>4
<1>4. Rises(b)
  BY <1>1, <1>3, TreeIsGrounded
<1> QED BY <1>4 DEF Rises

LEMMA BelowIsLower ==
  ASSUME NEW b \in AllBlocks
  PROVE  /\ \A a \in Branch(b) :
              /\ a \in Block /\ Height(a) \in 1 .. Height(b)
              /\ a # b => Height(a) < Height(b) /\ cumulative_work[a] < cumulative_work[b]
         /\ b \in Block => b \in Branch(b) /\ Height(b) >= 1 /\ cumulative_work[b] > cumulative_work[Genesis]
<1>1. Height(b) \in Nat
  BY HeightGrows
<1>2. ASSUME NEW a \in Branch(b)
      PROVE  /\ a \in Block /\ Height(a) \in 1 .. Height(b)
             /\ a # b => Height(a) < Height(b) /\ cumulative_work[a] < cumulative_work[b]
  <2>1. PICK k \in 1 .. Height(b) : a = branch_to[b][k]
    BY DEF Branch
  <2>2. k = Height(b) \/ k < Height(b)
    BY <1>1
  <2> QED BY <1>1, <2>1, <2>2, BranchRises
<1>3. ASSUME b \in Block
      PROVE  b \in Branch(b) /\ Height(b) >= 1 /\ cumulative_work[b] > cumulative_work[Genesis]
  <2>1. b \in Branch(b)
    BY <1>3, BranchGrows
  <2>2. Height(b) >= 1
    BY <1>1, <1>2, <2>1
  <2> DEFINE T == {x \in Block : ~(cumulative_work[x] > cumulative_work[Genesis])}
  <2>3. ASSUME T # {}
        PROVE  FALSE
    <3>1. T \in (SUBSET Block) \ {{}}
      BY <2>3
    <3>2. PICK x \in T : ParentOf[x] \notin T
      <4> HIDE DEF T
      <4> QED BY <3>1, TreeIsGrounded DEF Grounded
    <3>3. /\ x \in Block /\ ~(cumulative_work[x] > cumulative_work[Genesis])
          /\ ParentOf[x] \in AllBlocks /\ x \in AllBlocks /\ Genesis \in AllBlocks
      BY TreeIsGrounded
    <3>4. /\ cumulative_work[x] \in Nat /\ cumulative_work[ParentOf[x]] \in Nat
          /\ cumulative_work[Genesis] \in Nat
          /\ cumulative_work[ParentOf[x]] < cumulative_work[x]
      BY <3>3, WorkGrows
    <3>5. ParentOf[x] = Genesis \/ cumulative_work[ParentOf[x]] > cumulative_work[Genesis]
      BY <3>2, <3>3, TreeIsGrounded
    <3> QED BY <3>3, <3>4, <3>5
  <2> QED BY <1>3, <2>1, <2>2, <2>3
<1> QED BY <1>2, <1>3

-----------------------------------------------------------------------------
(* Two nodes without a fork *)

\* A set of blocks with its ancestors, and the first of its heaviest.
Holds(R, x) ==
  /\ R \subseteq AllBlocks /\ Genesis \in R /\ x \in R
  /\ \A b \in R \ {Genesis} : ParentOf[b] \in R
  /\ \A b \in R : cumulative_work[b] <= cumulative_work[x]

Line(R, W) == \A a, b \in R \cup W : ~Forked(a, b)

LEMMA AncestryIsHeld ==
  ASSUME NEW R, NEW x, Holds(R, x), NEW b \in R
  PROVE  Branch(b) \subseteq R
<1> DEFINE T == {a \in Block : a \in R /\ ~(Branch(a) \subseteq R)}
<1>1. ASSUME T # {}
      PROVE  FALSE
  <2>1. T \in (SUBSET Block) \ {{}}
    BY <1>1
  <2>2. PICK a \in T : ParentOf[a] \notin T
    <3> HIDE DEF T
    <3> QED BY <2>1, TreeIsGrounded DEF Grounded
  <2>3. a \in Block /\ a \in R /\ ~(Branch(a) \subseteq R) /\ ParentOf[a] \in R
    BY TreeIsGrounded DEF Holds
  <2>4. Branch(ParentOf[a]) \subseteq R
    BY <2>2, <2>3, BranchGrows, TreeIsGrounded DEF Holds
  <2> QED BY <2>3, <2>4, BranchGrows
<1> QED BY <1>1, BranchGrows, TreeIsGrounded DEF Holds

\* Without a fork a block is its height: what a node has are the blocks up to the
\* height of its tip.
LEMMA HeightsDecide ==
  ASSUME NEW R, NEW x, Holds(R, x), NEW W, NEW y, Holds(W, y), Line(R, W),
         NEW b \in R \cup W
  PROVE  /\ b \in AllBlocks /\ Height(b) \in Nat /\ Height(x) \in Nat /\ Height(y) \in Nat
         /\ b \in R <=> Height(b) <= Height(x)
         /\ b \in W <=> Height(b) <= Height(y)
         /\ \A a \in R \cup W :
              /\ Height(a) \in Nat
              /\ Height(a) = Height(b) => a = b
              /\ a \in Branch(b) <=> a \in Block /\ Height(a) <= Height(b)
<1>1. R \subseteq AllBlocks /\ W \subseteq AllBlocks /\ Genesis \in AllBlocks
  BY TreeIsGrounded DEF Holds
<1>2. ASSUME NEW a \in R \cup W, NEW c \in R \cup W
      PROVE  /\ Height(a) \in Nat /\ Height(c) \in Nat
             /\ Height(a) = Height(c) => a = c
             /\ a \in Branch(c) <=> a \in Block /\ Height(a) <= Height(c)
             /\ Height(a) < Height(c) => a \in Branch(c) \cup {Genesis}
             /\ Height(a) < Height(c) => cumulative_work[a] < cumulative_work[c]
  <2>1. a \in AllBlocks /\ c \in AllBlocks /\ Height(a) \in Nat /\ Height(c) \in Nat
    BY <1>1, HeightGrows
  <2>2. /\ a \in Branch(c) => Height(a) <= Height(c) /\ (a # c => Height(a) < Height(c))
                              /\ a \in Block /\ (a # c => cumulative_work[a] < cumulative_work[c])
        /\ c \in Branch(a) => Height(c) <= Height(a) /\ (a # c => Height(c) < Height(a))
                              /\ c \in Block
        /\ c \in Block => Height(c) >= 1 /\ c \in Branch(c)
                          /\ cumulative_work[c] > cumulative_work[Genesis]
        /\ a \in Block => Height(a) >= 1
    BY <2>1, BelowIsLower
  <2>3. /\ a = Genesis \/ a \in Block
        /\ c = Genesis \/ c \in Block
        /\ Genesis \notin Block /\ Height(Genesis) = 0
    BY <2>1, TreeIsGrounded, HeightGrows
  <2>4. a \in Branch(c) \cup {Genesis} \/ c \in Branch(a) \cup {Genesis}
    BY DEF Line, Forked
  <2> QED BY <2>1, <2>2, <2>3, <2>4
<1>3. ASSUME NEW V, NEW z, Holds(V, z), V \subseteq R \cup W
      PROVE  b \in V <=> Height(b) <= Height(z)
  <2>1. z \in R \cup W /\ z \in V /\ Genesis \in V
    BY <1>3 DEF Holds
  <2>2. ASSUME b \in V, ~(Height(b) <= Height(z))
        PROVE  FALSE
    <3>1. Height(z) < Height(b)
      BY <1>2, <2>1, <2>2
    <3>2. cumulative_work[z] < cumulative_work[b] /\ cumulative_work[b] <= cumulative_work[z]
      BY <1>2, <1>3, <2>1, <2>2, <3>1 DEF Holds
    <3>3. cumulative_work[z] \in Nat /\ cumulative_work[b] \in Nat
      BY <1>1, <2>1, WorkGrows
    <3> QED BY <3>2, <3>3
  <2>3. ASSUME Height(b) <= Height(z)
        PROVE  b \in V
    <3>1. b = z \/ b \in Branch(z) \cup {Genesis}
      BY <1>2, <2>1, <2>3
    <3> QED BY <1>3, <2>1, <3>1, AncestryIsHeld
  <2> QED BY <2>2, <2>3
<1>4. x \in R \cup W /\ y \in R \cup W
  BY DEF Holds
<1>5. (b \in R <=> Height(b) <= Height(x)) /\ (b \in W <=> Height(b) <= Height(y))
  BY <1>3
<1> QED BY <1>1, <1>2, <1>4, <1>5

\* While there is no fork, tips rise along one branch, and what is clean of the
\* disorder now was so before.
LEMMA LinesGrow ==
  ASSUME NEW R, NEW x, Holds(R, x), NEW W, NEW y, Holds(W, y),
         NEW R2, NEW x2, Holds(R2, x2), NEW W2, NEW y2, Holds(W2, y2),
         R \subseteq R2, W \subseteq W2, Line(R2, W2)
  PROVE  /\ Line(R, W)
         /\ Height(x) <= Height(x2) /\ Height(y) <= Height(y2)
         /\ \A O, O2 : O \subseteq O2 /\ Clean(y2, O2) => Clean(y, O)
<1>1. Line(R, W)
  BY DEF Line
<1>2. x \in R2 /\ y \in W2 /\ y2 \in W2
  BY DEF Holds
<1>3. Height(x) <= Height(x2) /\ Height(y) <= Height(y2)
  BY <1>2, HeightsDecide
<1>4. Branch(y) \subseteq Branch(y2)
  <2> SUFFICES ASSUME NEW a \in Branch(y) PROVE a \in Branch(y2)
    OBVIOUS
  <2>1. a \in W2 /\ y \in AllBlocks
    BY <1>2, AncestryIsHeld DEF Holds
  <2>2. a \in Block /\ Height(a) <= Height(y)
    BY <2>1, BelowIsLower, HeightGrows
  <2>3. Height(a) \in Nat /\ Height(y) \in Nat /\ Height(y2) \in Nat
    BY <1>2, <2>1, HeightsDecide
  <2>4. Height(a) <= Height(y2)
    BY <1>3, <2>2, <2>3
  <2> QED BY <1>2, <2>1, <2>2, <2>4, HeightsDecide
<1> QED BY <1>1, <1>3, <1>4 DEF Clean

-----------------------------------------------------------------------------
(* The line of blocks on the way to a reader *)

Coming(b, U, A, S) == b \in U \/ OnItsWay(b, A, S)

\* c will be read before d: what is unread comes before what is unwritten, and
\* both before what is not yet announced.
Before(c, d, U, A, S) ==
  \/ \E j \in DOMAIN S : \E i \in 1 .. j - 1 : S[i] = NewBlock(c) /\ S[j] = NewBlock(d)
  \/ \E j \in DOMAIN A : \E i \in 1 .. j - 1 : A[i] = c /\ A[j] = d
  \/ (\E i \in DOMAIN S : S[i] = NewBlock(c)) /\ (\E j \in DOMAIN A : A[j] = d)
  \/ OnItsWay(c, A, S) /\ d \in U

LEMMA LineReads ==
  ASSUME NEW U, NEW A \in Seq(Block), NEW S \in Seq(Message), S # <<>>,
         NEW c \in Block, NEW d \in Block
  PROVE  /\ Before(c, d, U, A, Tail(S)) => Before(c, d, U, A, S)
         /\ OnItsWay(c, A, Tail(S)) => OnItsWay(c, A, S)
         /\ OnItsWay(c, A, S) => Head(S) = NewBlock(c) \/ OnItsWay(c, A, Tail(S))
         /\ Head(S) = NewBlock(c) /\ Coming(d, U, A, Tail(S)) => Before(c, d, U, A, S)
<1> DEFINE T == Tail(S)
<1>1. /\ Len(S) \in Nat \ {0} /\ DOMAIN S = 1 .. Len(S) /\ Head(S) = S[1]
      /\ DOMAIN T = 1 .. Len(S) - 1
      /\ \A i \in 1 .. Len(S) - 1 : T[i] = S[i + 1]
  BY TailFacts
<1> HIDE DEF T
<1>2. \A i \in DOMAIN T : i + 1 \in DOMAIN S /\ S[i + 1] = T[i] /\ 1 \in 1 .. (i + 1) - 1
  BY <1>1
<1>3. \A i \in DOMAIN S : i = 1 \/ (i - 1 \in DOMAIN T /\ T[i - 1] = S[i])
  BY <1>1
<1>4. \A j \in DOMAIN T : \A i \in 1 .. j - 1 :
        i \in DOMAIN T /\ i + 1 \in 1 .. (j + 1) - 1
  BY <1>1
<1>5. 1 \in DOMAIN S
  BY <1>1
<1>6. OnItsWay(c, A, T) => OnItsWay(c, A, S)
  BY <1>2 DEF OnItsWay
<1>7. OnItsWay(c, A, S) => Head(S) = NewBlock(c) \/ OnItsWay(c, A, T)
  BY <1>1, <1>3 DEF OnItsWay
<1>8. Before(c, d, U, A, T) => Before(c, d, U, A, S)
  BY <1>2, <1>4, <1>6 DEF Before
<1>9. Head(S) = NewBlock(c) /\ Coming(d, U, A, T) => Before(c, d, U, A, S)
  BY <1>1, <1>2, <1>5 DEF Before, Coming, OnItsWay
<1> QED BY <1>6, <1>7, <1>8, <1>9 DEF T

LEMMA LineWrites ==
  ASSUME NEW U, NEW A \in Seq(Block), NEW S \in Seq(Message),
         NEW m \in Message, m.type # "NewBlock",
         NEW c \in Block, NEW d \in Block
  PROVE  /\ Before(c, d, U, A, Append(S, m)) => Before(c, d, U, A, S)
         /\ OnItsWay(c, A, Append(S, m)) <=> OnItsWay(c, A, S)
<1> DEFINE T == Append(S, m)
<1>1. /\ Len(S) \in Nat /\ DOMAIN S = 1 .. Len(S) /\ DOMAIN T = 1 .. Len(S) + 1
      /\ \A i \in 1 .. Len(S) : T[i] = S[i]
      /\ T[Len(S) + 1] = m
  BY AppendFacts
<1> HIDE DEF T
<1>2. \A b : NewBlock(b) # m
  BY DEF NewBlock
<1>3. \A i \in DOMAIN S : i \in DOMAIN T /\ T[i] = S[i]
  BY <1>1
<1>4. \A i \in DOMAIN T : \A b : T[i] = NewBlock(b) => i \in DOMAIN S /\ S[i] = NewBlock(b)
  BY <1>1, <1>2
<1>5. \A j \in DOMAIN S : \A i \in 1 .. j - 1 : i \in DOMAIN S
  BY <1>1
<1>6. OnItsWay(c, A, T) <=> OnItsWay(c, A, S)
  BY <1>3, <1>4 DEF OnItsWay
<1>7. Before(c, d, U, A, T) => Before(c, d, U, A, S)
  BY <1>3, <1>4, <1>5, <1>6 DEF Before
<1> QED BY <1>6, <1>7 DEF T

LEMMA LineSends ==
  ASSUME NEW U, NEW A \in Seq(Block), NEW S \in Seq(Message), A # <<>>,
         NEW c \in Block, NEW d \in Block
  PROVE  LET B == Tail(A)
             T == Append(S, NewBlock(Head(A)))
         IN  /\ Before(c, d, U, B, T) => Before(c, d, U, A, S)
             /\ OnItsWay(c, B, T) <=> OnItsWay(c, A, S)
<1> DEFINE B == Tail(A)
           m == NewBlock(A[1])
           T == Append(S, m)
<1>1. /\ Len(A) \in Nat \ {0} /\ DOMAIN A = 1 .. Len(A)
      /\ Head(A) = A[1] /\ A[1] \in Block
      /\ B \in Seq(Block) /\ DOMAIN B = 1 .. Len(A) - 1
      /\ \A i \in 1 .. Len(A) - 1 : B[i] = A[i + 1]
  BY TailFacts
<1>2. m \in Message /\ \A b \in Block : NewBlock(b) = m <=> b = A[1]
  BY <1>1, MessageTypes DEF NewBlock
<1> HIDE DEF B, m
<1>3. /\ Len(S) \in Nat /\ DOMAIN S = 1 .. Len(S) /\ DOMAIN T = 1 .. Len(S) + 1
      /\ \A i \in 1 .. Len(S) : T[i] = S[i]
      /\ T[Len(S) + 1] = m
  BY <1>2, AppendFacts
<1> HIDE DEF T
<1>4. \A i \in DOMAIN S : i \in DOMAIN T /\ T[i] = S[i]
  BY <1>3
<1>5. Len(S) + 1 \in DOMAIN T
  BY <1>3
<1>6. \A i \in DOMAIN T : i = Len(S) + 1 \/ (i \in DOMAIN S /\ T[i] = S[i])
  BY <1>3
<1>7. \A i \in DOMAIN A : i = 1 \/ (i - 1 \in DOMAIN B /\ B[i - 1] = A[i])
  BY <1>1
<1>8. \A i \in DOMAIN B : i + 1 \in DOMAIN A /\ A[i + 1] = B[i] /\ 1 \in 1 .. (i + 1) - 1
  BY <1>1
<1>9. 1 \in DOMAIN A
  BY <1>1
<1>10. OnItsWay(c, B, T) <=> OnItsWay(c, A, S)
  <2>1. OnItsWay(c, B, T) => OnItsWay(c, A, S)
    BY <1>2, <1>3, <1>6, <1>8, <1>9 DEF OnItsWay
  <2>2. OnItsWay(c, A, S) => OnItsWay(c, B, T)
    BY <1>2, <1>3, <1>4, <1>5, <1>7 DEF OnItsWay
  <2> QED BY <2>1, <2>2
<1>11. ASSUME Before(c, d, U, B, T)
       PROVE  Before(c, d, U, A, S)
  <2>1. CASE \E j \in DOMAIN T : \E i \in 1 .. j - 1 : T[i] = NewBlock(c) /\ T[j] = NewBlock(d)
    <3>0. PICK j \in DOMAIN T : \E i \in 1 .. j - 1 : T[i] = NewBlock(c) /\ T[j] = NewBlock(d)
      BY <2>1
    <3>1. PICK i \in 1 .. j - 1 : T[i] = NewBlock(c) /\ T[j] = NewBlock(d)
      BY <3>0
    <3>2. i \in DOMAIN S /\ S[i] = NewBlock(c)
      BY <1>3, <3>1
    <3>3. CASE j \in DOMAIN S
      BY <1>3, <3>1, <3>2, <3>3 DEF Before
    <3>4. CASE j = Len(S) + 1
      BY <1>2, <1>3, <1>9, <3>1, <3>2, <3>4 DEF Before
    <3> QED BY <1>6, <3>3, <3>4
  <2>2. CASE \E j \in DOMAIN B : \E i \in 1 .. j - 1 : B[i] = c /\ B[j] = d
    <3>0. PICK j \in DOMAIN B : \E i \in 1 .. j - 1 : B[i] = c /\ B[j] = d
      BY <2>2
    <3>1. PICK i \in 1 .. j - 1 : B[i] = c /\ B[j] = d
      BY <3>0
    <3>2. i \in DOMAIN B /\ i + 1 \in 1 .. (j + 1) - 1
      BY <1>1, <3>1
    <3> QED BY <1>8, <3>1, <3>2 DEF Before
  <2>3. CASE (\E i \in DOMAIN T : T[i] = NewBlock(c)) /\ (\E j \in DOMAIN B : B[j] = d)
    <3>1. PICK i \in DOMAIN T, j \in DOMAIN B : T[i] = NewBlock(c) /\ B[j] = d
      BY <2>3
    <3>2. CASE i \in DOMAIN S
      BY <1>4, <1>8, <3>1, <3>2 DEF Before
    <3>3. CASE i = Len(S) + 1
      <4>1. A[1] = c
        BY <1>2, <1>3, <3>1, <3>3
      <4> QED BY <1>8, <3>1, <4>1 DEF Before
    <3> QED BY <1>6, <3>2, <3>3
  <2>4. CASE OnItsWay(c, B, T) /\ d \in U
    BY <1>10, <2>4 DEF Before
  <2> QED BY <1>11, <2>1, <2>2, <2>3, <2>4 DEF Before
<1> QED BY <1>1, <1>10, <1>11 DEF B, T, m

LEMMA LineLags ==
  ASSUME NEW U, NEW A \in Seq(Block), NEW S \in Seq(Message), A # <<>>,
         NEW c \in Block, NEW d \in Block
  PROVE  /\ Before(c, d, U, Tail(A), S) => Before(c, d, U, A, S)
         /\ OnItsWay(c, Tail(A), S) => OnItsWay(c, A, S)
         /\ OnItsWay(c, A, S) => c = Head(A) \/ OnItsWay(c, Tail(A), S)
         /\ Head(A) \in Block /\ OnItsWay(Head(A), A, S)
<1> DEFINE B == Tail(A)
<1>1. /\ Len(A) \in Nat \ {0} /\ DOMAIN A = 1 .. Len(A)
      /\ Head(A) = A[1] /\ A[1] \in Block
      /\ B \in Seq(Block) /\ DOMAIN B = 1 .. Len(A) - 1
      /\ \A i \in 1 .. Len(A) - 1 : B[i] = A[i + 1]
  BY TailFacts
<1> HIDE DEF B
<1>2. \A i \in DOMAIN A : i = 1 \/ (i - 1 \in DOMAIN B /\ B[i - 1] = A[i])
  BY <1>1
<1>3. \A i \in DOMAIN B : i + 1 \in DOMAIN A /\ A[i + 1] = B[i]
  BY <1>1
<1>4. \A j \in DOMAIN B : \A i \in 1 .. j - 1 :
        i \in DOMAIN B /\ i + 1 \in 1 .. (j + 1) - 1
  BY <1>1
<1>5. 1 \in DOMAIN A
  BY <1>1
<1>6. OnItsWay(c, B, S) => OnItsWay(c, A, S)
  BY <1>3 DEF OnItsWay
<1>7. OnItsWay(c, A, S) => c = Head(A) \/ OnItsWay(c, B, S)
  BY <1>1, <1>2 DEF OnItsWay
<1>8. Before(c, d, U, B, S) => Before(c, d, U, A, S)
  BY <1>3, <1>4, <1>6 DEF Before
<1>9. Head(A) \in Block /\ OnItsWay(Head(A), A, S)
  BY <1>1, <1>5 DEF OnItsWay
<1> QED BY <1>6, <1>7, <1>8, <1>9 DEF B

LEMMA LineAnnounces ==
  ASSUME NEW U, NEW A \in Seq(Block), NEW S, NEW b \in U, b \in Block,
         NEW c \in Block, NEW d \in Block
  PROVE  /\ Before(c, d, U \ {b}, Append(A, b), S) =>
              Before(c, d, U, A, S) \/ (c = b /\ d \in U \ {b})
         /\ OnItsWay(c, Append(A, b), S) <=> c = b \/ OnItsWay(c, A, S)
<1> DEFINE B == Append(A, b)
<1>1. /\ Len(A) \in Nat /\ DOMAIN A = 1 .. Len(A)
      /\ DOMAIN B = 1 .. Len(A) + 1
      /\ \A i \in 1 .. Len(A) : B[i] = A[i]
      /\ B[Len(A) + 1] = b
  BY AppendFacts
<1> HIDE DEF B
<1>2. \A i \in DOMAIN A : i \in DOMAIN B /\ B[i] = A[i]
  BY <1>1
<1>3. \A i \in DOMAIN B : i = Len(A) + 1 \/ (i \in DOMAIN A /\ B[i] = A[i])
  BY <1>1
<1>4. Len(A) + 1 \in DOMAIN B
  BY <1>1
<1>5. OnItsWay(c, B, S) <=> c = b \/ OnItsWay(c, A, S)
  BY <1>1, <1>2, <1>3, <1>4 DEF OnItsWay
<1>6. ASSUME Before(c, d, U \ {b}, B, S)
      PROVE  Before(c, d, U, A, S) \/ (c = b /\ d \in U \ {b})
  <2>1. CASE \E j \in DOMAIN S : \E i \in 1 .. j - 1 : S[i] = NewBlock(c) /\ S[j] = NewBlock(d)
    BY <2>1 DEF Before
  <2>2. CASE \E j \in DOMAIN B : \E i \in 1 .. j - 1 : B[i] = c /\ B[j] = d
    <3>0. PICK j \in DOMAIN B : \E i \in 1 .. j - 1 : B[i] = c /\ B[j] = d
      BY <2>2
    <3>1. PICK i \in 1 .. j - 1 : B[i] = c /\ B[j] = d
      BY <3>0
    <3>2. i \in DOMAIN A /\ A[i] = c
      BY <1>1, <3>1
    <3>3. CASE j \in DOMAIN A
      BY <1>2, <3>1, <3>2, <3>3 DEF Before
    <3>4. CASE j = Len(A) + 1
      BY <1>1, <3>1, <3>2, <3>4 DEF Before, OnItsWay
    <3> QED BY <1>3, <3>3, <3>4
  <2>3. CASE (\E i \in DOMAIN S : S[i] = NewBlock(c)) /\ (\E j \in DOMAIN B : B[j] = d)
    <3>1. PICK i \in DOMAIN S, j \in DOMAIN B : S[i] = NewBlock(c) /\ B[j] = d
      BY <2>3
    <3>2. CASE j \in DOMAIN A
      BY <1>2, <3>1, <3>2 DEF Before
    <3>3. CASE j = Len(A) + 1
      BY <1>1, <3>1, <3>3 DEF Before, OnItsWay
    <3> QED BY <1>3, <3>2, <3>3
  <2>4. CASE OnItsWay(c, B, S) /\ d \in U \ {b}
    BY <1>5, <2>4 DEF Before
  <2> QED BY <1>6, <2>1, <2>2, <2>3, <2>4 DEF Before
<1> QED BY <1>5, <1>6 DEF B

-----------------------------------------------------------------------------
(* Who was told a height is going to reach it *)

\* The direction from a writer, which knows W up to y, has U to announce and is q,
\* to a reader, which knows R up to x and is p.  S is on its way to the reader, T
\* to the writer, and O are the blocks announced out of order.
Listening == {"serving", "misframed"}

\* A height is told to who reads, and by who has said Hello; more is written once
\* the writer has subscribed.
Speaks(p, q, S) ==
  /\ p.told # 0 => p.phase \in Listening
  /\ q.phase \notin Listening => \A i \in DOMAIN S : S[i].type = "Hello"

\* A block is announced once.
Once(U, A, S) == \A b \in U : ~OnItsWay(b, A, S)

\* No height is told that the writer has not.
Informed(y, p, S) ==
  /\ p.told <= Height(y)
  /\ \A i \in DOMAIN S : S[i].type = "Hello" => S[i].height <= Height(y)

\* A block that the reader lacks is not followed by a lower one.
InOrder(R, U, A, S) ==
  \A c, d \in Block : Before(c, d, U, A, S) => c \in R \/ Height(c) <= Height(d)

\* The last block to come is the writer's tip, if the reader lacks that.
LastToAnnounce(R, y, U) == U # {} => y \in R \cup U
LastToCome(R, y, U, A, S) ==
  (\E b \in Block : OnItsWay(b, A, S)) => y \in R \cup U \/ OnItsWay(y, A, S)

\* The blocks on top of the reader's are asked for, on their way, or there.
Starts(bs, x) == bs # <<>> /\ Height(Head(bs)) = Height(x) + 1
Asked(x, p, S, T) ==
  \/ \E i \in DOMAIN T : T[i] = GetBlocks(Height(x) + 1)
  \/ \E i \in DOMAIN S : S[i].type = "Blocks" /\ Starts(S[i].blocks, x)
  \/ p.blocks # <<>> /\ (p.progressed \/ Starts(p.blocks, x))

CatchesUp(x, y, U, p, q, S, T) ==
  p.phase = "serving" /\ q.phase # "misframed" /\ p.told > Height(x) =>
    \/ q.phase = "serving" /\ Coming(y, U, q.announcements, S)
    \/ Asked(x, p, S, T)

Orderly(R, x, y, U, p, q, S, T) ==
  /\ InOrder(R, U, q.announcements, S)
  /\ LastToAnnounce(R, y, U)
  /\ p.phase # "misframed" => LastToCome(R, y, U, q.announcements, S)
  /\ CatchesUp(x, y, U, p, q, S, T)

Direction(R, x, W, y, U, O, p, q, S, T) ==
  /\ Speaks(p, q, S)
  /\ Once(U, q.announcements, S)
  /\ Line(R, W) => Informed(y, p, S)
  /\ Line(R, W) /\ Clean(y, O) => Orderly(R, x, y, U, p, q, S, T)

\* What else is known of the two ends.
Setting(R, x, W, y, U, p, q, S, T) ==
  /\ Holds(R, x) /\ Holds(W, y)
  /\ U \subseteq W /\ U \subseteq Block
  /\ PeerOK(p) /\ PeerOK(q)
  /\ S \in Seq(Message) /\ T \in Seq(Message)
  /\ Carries(W, q.announcements, S, p.blocks)

LEMMA SettingFacts ==
  ASSUME NEW R, NEW x, NEW W, NEW y, NEW U, NEW p, NEW q, NEW S, NEW T,
         Setting(R, x, W, y, U, p, q, S, T)
  PROVE  /\ Height(x) \in Nat /\ Height(y) \in Nat
         /\ p.told \in Nat /\ p.phase \in Phases /\ p.progressed \in BOOLEAN
         /\ p.blocks \in Seq(Block) /\ p.blocks \in Seq(W)
         /\ q.announcements \in Seq(Block) /\ q.phase \in Phases
         /\ \A b \in Block : Coming(b, U, q.announcements, S) => b \in W
         /\ Coming(y, U, q.announcements, S) => y \in Block
         /\ \A i \in DOMAIN S :
              /\ S[i] \in Message
              /\ S[i].type = "Blocks" => S[i].blocks \in Seq(W)
<1>1. x \in AllBlocks /\ y \in AllBlocks
  BY DEF Setting, Holds
<1>2. Height(x) \in Nat /\ Height(y) \in Nat
  BY <1>1, HeightGrows
<1>3. /\ p.told \in Nat /\ p.phase \in Phases /\ p.progressed \in BOOLEAN
      /\ p.blocks \in Seq(Block) /\ q.announcements \in Seq(Block) /\ q.phase \in Phases
  BY DEF Setting, PeerOK, Peer
<1>4. q.announcements \in Seq(W) /\ S \in Seq(MessageOf(W)) /\ p.blocks \in Seq(W)
  BY DEF Setting, Carries
<1>5. ASSUME NEW i \in DOMAIN S
      PROVE  /\ S[i] \in Message /\ S[i] \in MessageOf(W)
  <2> HIDE DEF Message, MessageOf
  <2>1. i \in 1 .. Len(S) /\ S \in Seq(Message)
    BY <1>4, LenProperties DEF Setting
  <2> QED BY <1>4, <2>1, ElementOfSeq
<1>6. \A i \in DOMAIN S : S[i].type = "Blocks" => S[i].blocks \in Seq(W)
  <2> SUFFICES ASSUME NEW m \in MessageOf(W), m.type = "Blocks" PROVE m.blocks \in Seq(W)
    BY <1>5
  <2> QED BY DEF MessageOf
<1>7. \A i \in DOMAIN S : \A b : S[i] = NewBlock(b) => b \in W /\ b \in Block
  <2> SUFFICES ASSUME NEW b, NewBlock(b) \in MessageOf(W), NewBlock(b) \in Message
               PROVE  b \in W /\ b \in Block
    BY <1>5
  <2> QED BY DEF NewBlock, MessageOf, Message
<1>8. \A i \in DOMAIN q.announcements : q.announcements[i] \in W /\ q.announcements[i] \in Block
  <2> SUFFICES ASSUME NEW A \in Seq(W), A \in Seq(Block), NEW i \in DOMAIN A
               PROVE  A[i] \in W /\ A[i] \in Block
    BY <1>3, <1>4
  <2>1. i \in 1 .. Len(A)
    BY LenProperties
  <2> QED BY <2>1, ElementOfSeq
<1>9. \A b : Coming(b, U, q.announcements, S) => b \in W /\ b \in Block
  BY <1>7, <1>8 DEF Coming, OnItsWay, Setting
<1> QED BY <1>2, <1>3, <1>4, <1>5, <1>6, <1>9

\* Nothing moves on the way to the reader; the writer may be asked for more.
Rests(p, q, T, p2, q2, T2) ==
  /\ p2.told = p.told /\ p2.blocks = p.blocks /\ p2.progressed = p.progressed
  /\ q2.announcements = q.announcements
  /\ p2.told # 0 => p2.phase \in Listening
  /\ p2.phase = "serving" => p.phase = "serving" \/ p.told = 0
  /\ p2.phase # "misframed" => p.phase # "misframed"
  /\ q2.phase \notin Listening => q.phase \notin Listening
  /\ q2.phase # "misframed" => q.phase # "misframed"
  /\ q.phase = "serving" => q2.phase \in Listening
  /\ \A i \in DOMAIN T : T[i].type = "GetBlocks" =>
       q2.phase = "misframed" \/ \E j \in DOMAIN T2 : T2[j] = T[i]

LEMMA NothingToRead ==
  ASSUME NEW R, NEW x, NEW W, NEW y, NEW U, NEW O, NEW p, NEW q, NEW S, NEW T,
         Setting(R, x, W, y, U, p, q, S, T), Direction(R, x, W, y, U, O, p, q, S, T),
         NEW O2, O \subseteq O2, NEW p2, NEW q2, NEW T2, Rests(p, q, T, p2, q2, T2)
  PROVE  Direction(R, x, W, y, U, O2, p2, q2, S, T2)
<1> USE DEF Rests
<1>1. Height(x) \in Nat
  BY SettingFacts
<1>2. Speaks(p2, q2, S) /\ Once(U, q2.announcements, S)
  BY DEF Direction, Speaks, Once
<1>3. Line(R, W) => Informed(y, p2, S)
  BY DEF Direction, Informed
<1>4. Clean(y, O2) => Clean(y, O)
  BY DEF Clean
<1>5. ASSUME Orderly(R, x, y, U, p, q, S, T)
      PROVE  Orderly(R, x, y, U, p2, q2, S, T2)
  <2>1. Asked(x, p, S, T) /\ q2.phase # "misframed" => Asked(x, p2, S, T2)
    <3>1. \A i \in DOMAIN T : T[i] = GetBlocks(Height(x) + 1) => T[i].type = "GetBlocks"
      BY DEF GetBlocks
    <3> QED BY <3>1 DEF Asked
  <2>2. CatchesUp(x, y, U, p2, q2, S, T2)
    <3> SUFFICES ASSUME p2.phase = "serving", q2.phase # "misframed", p2.told > Height(x)
                 PROVE  \/ q2.phase = "serving" /\ Coming(y, U, q2.announcements, S)
                        \/ Asked(x, p2, S, T2)
      BY DEF CatchesUp
    <3>1. p.phase = "serving" /\ q.phase # "misframed" /\ p.told > Height(x)
      BY <1>1
    <3>2. q.phase = "serving" => q2.phase = "serving"
      BY DEF Listening
    <3> QED BY <1>5, <2>1, <3>1, <3>2 DEF Orderly, CatchesUp
  <2> QED BY <1>5, <2>2 DEF Orderly
<1> QED BY <1>2, <1>3, <1>4, <1>5 DEF Direction

\* The reader mines: nobody is above it then.
LEMMA ReaderMines ==
  ASSUME NEW R, NEW x, NEW W, NEW y, NEW U, NEW O, NEW p, NEW q, NEW S, NEW T,
         Setting(R, x, W, y, U, p, q, S, T), Direction(R, x, W, y, U, O, p, q, S, T),
         NEW b \in Block, b \notin W, Holds(R \cup {b}, b)
  PROVE  Direction(R \cup {b}, b, W, y, U, O, p, q, S, T)
<1> DEFINE R2 == R \cup {b}
<1>1. Line(R2, W) => Line(R, W)
  BY DEF Line
<1>2. ASSUME Line(R2, W)
      PROVE  Height(y) < Height(b) /\ Height(b) \in Nat /\ Height(y) \in Nat /\ p.told <= Height(y)
             /\ p.told \in Nat
  <2>1. Informed(y, p, S)
    BY <1>1, <1>2 DEF Direction
  <2>2. b \in W <=> Height(b) <= Height(y)
    BY <1>2, HeightsDecide DEF Setting
  <2>3. Height(b) \in Nat
    BY HeightGrows
  <2> QED BY <2>1, <2>2, <2>3, SettingFacts DEF Informed
<1>3. ASSUME Line(R2, W), Orderly(R, x, y, U, p, q, S, T)
      PROVE  Orderly(R2, b, y, U, p, q, S, T)
  BY <1>2, <1>3 DEF Orderly, InOrder, LastToAnnounce, LastToCome, CatchesUp
<1> QED BY <1>1, <1>3 DEF Direction

\* The writer mines.
LEMMA WriterMines ==
  ASSUME NEW R, NEW x, NEW W, NEW y, NEW U, NEW O, NEW p, NEW q, NEW S, NEW T,
         Setting(R, x, W, y, U, p, q, S, T), Direction(R, x, W, y, U, O, p, q, S, T),
         NEW b \in Block, b \notin W, Holds(W \cup {b}, b)
  PROVE  Direction(R, x, W \cup {b}, b, U \cup {b}, O, p, q, S, T)
<1> DEFINE W2 == W \cup {b}
           U2 == U \cup {b}
           A == q.announcements
<1>1. Once(U2, A, S)
  <2>1. ~OnItsWay(b, A, S)
    BY SettingFacts DEF Coming
  <2> QED BY <2>1 DEF Direction, Once
<1>2. ASSUME Line(R, W2)
      PROVE  /\ Line(R, W) /\ Height(y) <= Height(b) /\ Height(b) \in Nat
             /\ Clean(b, O) => Clean(y, O)
             /\ \A c \in W : Height(c) <= Height(b)
  <2>1. /\ Line(R, W) /\ Height(y) <= Height(b)
        /\ \A O1, O2 : O1 \subseteq O2 /\ Clean(b, O2) => Clean(y, O1)
    <3>1. Holds(R, x) /\ Holds(W, y) /\ Holds(W2, b) /\ W \subseteq W2 /\ R \subseteq R
      BY DEF Setting
    <3> HIDE DEF W2
    <3> QED BY <1>2, <3>1, LinesGrow
  <2>2. \A c \in W : Height(c) <= Height(b)
    <3> SUFFICES ASSUME NEW c \in W PROVE Height(c) <= Height(b)
      OBVIOUS
    <3>1. c \in W2 /\ c \in R \cup W2 /\ Holds(R, x) /\ Holds(W2, b)
      BY DEF Setting
    <3> HIDE DEF W2
    <3> QED BY <1>2, <3>1, HeightsDecide
  <2> QED BY <2>1, <2>2, HeightGrows
<1>3. ASSUME Line(R, W2)
      PROVE  Informed(b, p, S)
  <2>1. Informed(y, p, S)
    BY <1>2, <1>3 DEF Direction
  <2>2. /\ p.told \in Nat /\ Height(y) \in Nat /\ Height(b) \in Nat
        /\ \A i \in DOMAIN S : S[i].type = "Hello" => S[i].height \in Nat
    BY SettingFacts, HeightGrows, MessageTypes
  <2> QED BY <1>2, <1>3, <2>1, <2>2 DEF Informed
<1>4. ASSUME Line(R, W2), Orderly(R, x, y, U, p, q, S, T)
      PROVE  Orderly(R, x, b, U2, p, q, S, T)
  <2>1. InOrder(R, U2, A, S)
    <3> SUFFICES ASSUME NEW c \in Block, NEW d \in Block, Before(c, d, U2, A, S)
                 PROVE  c \in R \/ Height(c) <= Height(d)
      BY DEF InOrder
    <3>1. Before(c, d, U, A, S) \/ (OnItsWay(c, A, S) /\ d = b)
      BY DEF Before
    <3>2. OnItsWay(c, A, S) => c \in W
      BY SettingFacts DEF Coming
    <3> QED BY <1>2, <1>4, <3>1, <3>2 DEF Orderly, InOrder
  <2>2. LastToAnnounce(R, b, U2) /\ LastToCome(R, b, U2, A, S)
    BY DEF LastToAnnounce, LastToCome
  <2>3. CatchesUp(x, b, U2, p, q, S, T)
    <3>1. Coming(b, U2, A, S)
      BY DEF Coming
    <3>2. p.phase = "serving" /\ q.phase # "misframed" /\ p.told > Height(x)
            => q.phase = "serving" \/ Asked(x, p, S, T)
      BY <1>4 DEF Orderly, CatchesUp
    <3> QED BY <3>1, <3>2 DEF CatchesUp
  <2> QED BY <2>1, <2>2, <2>3 DEF Orderly
<1> QED BY <1>1, <1>2, <1>3, <1>4 DEF Direction

\* What only mentions Hello puts no block on the way.
LEMMA HellosBringNothing ==
  ASSUME NEW S, \A i \in DOMAIN S : S[i].type = "Hello", NEW A, A = <<>>
  PROVE  \A b : ~OnItsWay(b, A, S)
<1>1. DOMAIN A = {}
  OBVIOUS
<1>2. \A b : NewBlock(b).type = "NewBlock"
  BY DEF NewBlock
<1> QED BY <1>1, <1>2 DEF OnItsWay

\* The writer announces a block.  Before one that it has yet to announce and that
\* is lower this would be out of order; a receiver that lags loses no tip.
LEMMA WriterAnnounces ==
  ASSUME NEW R, NEW x, NEW W, NEW y, NEW U, NEW O, NEW p, NEW q, NEW S, NEW T,
         Setting(R, x, W, y, U, p, q, S, T), Direction(R, x, W, y, U, O, p, q, S, T),
         NEW b \in U, NEW O2, O \subseteq O2, Branch(ParentOf[b]) \cap U # {} => b \in O2,
         NEW q2, q2.phase = q.phase,
         \/ q.phase \notin Listening /\ q2.announcements = q.announcements
         \/ /\ q.phase \in Listening
            /\ \E A1 \in Seq(Block) :
                 /\ q2.announcements = Append(A1, b)
                 /\ A1 = q.announcements
                    \/ (q.announcements # <<>> /\ A1 = Tail(q.announcements))
  PROVE  Direction(R, x, W, y, U \ {b}, O2, p, q2, S, T)
<1> DEFINE U2 == U \ {b}
           A == q.announcements
           A2 == q2.announcements
<1>1. /\ A \in Seq(Block) /\ S \in Seq(Message) /\ b \in Block /\ b \in W /\ y \in W
      /\ U \subseteq W /\ U \subseteq Block
      /\ Holds(R, x) /\ Holds(W, y)
  <2>1. /\ Holds(R, x) /\ Holds(W, y) /\ U \subseteq W /\ U \subseteq Block
        /\ S \in Seq(Message)
    BY DEF Setting
  <2>2. A \in Seq(Block)
    BY SettingFacts
  <2> QED BY <2>1, <2>2 DEF Holds
<1>2. q.phase \notin Listening => (A = <<>> /\ \A c : ~OnItsWay(c, A, S))
  <2>1. q.phase \notin Listening => A = <<>> /\ \A i \in DOMAIN S : S[i].type = "Hello"
    BY DEF Setting, PeerOK, Listening, Direction, Speaks
  <2> QED BY <2>1, HellosBringNothing
<1>3. /\ \A c, d \in Block : Before(c, d, U2, A2, S) =>
            Before(c, d, U, A, S) \/ (c = b /\ d \in U2)
      /\ \A c \in Block : OnItsWay(c, A2, S) => c = b \/ OnItsWay(c, A, S)
      /\ \A c \in Block : OnItsWay(c, A, S) =>
            OnItsWay(c, A2, S) \/ (A # <<>> /\ c = Head(A))
      /\ q.phase \in Listening => OnItsWay(b, A2, S)
  <2>1. CASE q.phase \notin Listening
    BY <2>1 DEF Before
  <2>2. CASE q.phase \in Listening
    <3>1. PICK A1 \in Seq(Block) :
            /\ A2 = Append(A1, b)
            /\ A1 = A \/ (A # <<>> /\ A1 = Tail(A))
      BY <2>2
    <3> HIDE DEF A, A2, U2
    <3>2. ASSUME NEW c \in Block, NEW d \in Block
          PROVE  /\ Before(c, d, U, A1, S) => Before(c, d, U, A, S)
                 /\ OnItsWay(c, A1, S) => OnItsWay(c, A, S)
                 /\ OnItsWay(c, A, S) => OnItsWay(c, A1, S) \/ (A # <<>> /\ c = Head(A))
      <4>1. CASE A1 = A
        BY <4>1
      <4>2. CASE A # <<>> /\ A1 = Tail(A)
        BY <1>1, <4>2, LineLags
      <4> QED BY <3>1, <4>1, <4>2
    <3>3. ASSUME NEW c \in Block, NEW d \in Block
          PROVE  /\ Before(c, d, U2, A2, S) => Before(c, d, U, A1, S) \/ (c = b /\ d \in U2)
                 /\ OnItsWay(c, A2, S) <=> c = b \/ OnItsWay(c, A1, S)
      BY <1>1, <3>1, LineAnnounces DEF U2
    <3> QED BY <1>1, <3>2, <3>3
  <2> QED BY <2>1, <2>2
<1> HIDE DEF A2
<1>4. Speaks(p, q2, S)
  BY DEF Direction, Speaks
<1>5. Once(U2, A2, S)
  BY <1>1, <1>3 DEF Direction, Once
<1>6. Line(R, W) => Informed(y, p, S)
  BY DEF Direction
<1>7. ASSUME Line(R, W), Clean(y, O2)
      PROVE  Orderly(R, x, y, U2, p, q2, S, T)
  <2>1. Orderly(R, x, y, U, p, q, S, T) /\ Informed(y, p, S)
    BY <1>7 DEF Direction, Clean
  <2>2. \A c \in W : /\ Height(c) \in Nat /\ Height(c) <= Height(y) /\ Height(y) \in Nat
                     /\ (Height(c) = Height(y) => c = y)
    <3> SUFFICES ASSUME NEW c \in W
                 PROVE  /\ Height(c) \in Nat /\ Height(c) <= Height(y) /\ Height(y) \in Nat
                        /\ (Height(c) = Height(y) => c = y)
      OBVIOUS
    <3>1. c \in R \cup W /\ y \in R \cup W
      BY <1>1
    <3> QED BY <1>1, <1>7, <3>1, HeightsDecide
  <2>3. \A d \in U : Height(b) <= Height(d)
    <3>1. b \in Branch(y)
      <4>1. b \in R \cup W /\ y \in R \cup W
        BY <1>1
      <4> QED BY <1>1, <1>7, <2>2, <4>1, HeightsDecide
    <3>2. Branch(ParentOf[b]) \cap U = {}
      BY <1>7, <3>1 DEF Clean
    <3>3. ASSUME NEW d \in U, ~(Height(b) <= Height(d))
          PROVE  FALSE
      <4>1. d \in W /\ d \in Block /\ d \in R \cup W /\ b \in R \cup W
        BY <1>1
      <4>2. Height(d) <= Height(b) /\ d # b
        BY <1>1, <2>2, <3>3, <4>1
      <4>3. d \in Branch(b)
        BY <1>1, <1>7, <4>1, <4>2, HeightsDecide
      <4>4. d \in Branch(ParentOf[b])
        BY <1>1, <4>2, <4>3, BranchGrows
      <4> QED BY <3>2, <4>4
    <3> QED BY <3>3
  <2>4. y \in U /\ y # b => y \in U2
    OBVIOUS
  <2>5. ASSUME y \in R \cup U \/ OnItsWay(y, A, S), q.phase \in Listening
        PROVE  y \in R \cup U2 \/ OnItsWay(y, A2, S)
    <3>1. CASE y \in R \/ (y \in U /\ y # b)
      BY <3>1
    <3>2. CASE y = b
      BY <1>3, <2>5, <3>2
    <3>3. CASE OnItsWay(y, A, S) /\ y \notin R /\ y \notin U
      <4>1. y \in Block
        BY <3>3, SettingFacts DEF Coming
      <4>2. Before(y, b, U, A, S)
        BY <3>3 DEF Before
      <4>3. Height(y) <= Height(b)
        BY <1>1, <2>1, <3>3, <4>1, <4>2 DEF Orderly, InOrder
      <4>4. y = b
        BY <1>1, <2>2, <4>3
      <4> QED BY <3>3, <4>4
    <3> QED BY <2>5, <3>1, <3>2, <3>3
  <2>6. InOrder(R, U2, A2, S)
    BY <1>3, <2>1, <2>3 DEF Orderly, InOrder
  <2>7. LastToAnnounce(R, y, U2)
    <3> SUFFICES ASSUME NEW d \in U2 PROVE y \in R \cup U2
      BY DEF LastToAnnounce
    <3>1. y \in R \cup U
      BY <2>1 DEF Orderly, LastToAnnounce
    <3>2. y # b
      BY <1>1, <2>2, <2>3
    <3> QED BY <3>1, <3>2
  <2>8. p.phase # "misframed" => LastToCome(R, y, U2, A2, S)
    <3> SUFFICES ASSUME p.phase # "misframed", NEW c \in Block, OnItsWay(c, A2, S)
                 PROVE  y \in R \cup U2 \/ OnItsWay(y, A2, S)
      BY DEF LastToCome
    <3>1. c = b \/ OnItsWay(c, A, S)
      BY <1>3
    <3>2. y \in R \cup U \/ OnItsWay(y, A, S)
      BY <2>1, <3>1 DEF Orderly, LastToAnnounce, LastToCome
    <3>3. CASE q.phase \in Listening
      BY <2>5, <3>2, <3>3
    <3>4. CASE q.phase \notin Listening
      BY <1>2, <3>4 DEF A2
    <3> QED BY <3>3, <3>4
  <2>9. CatchesUp(x, y, U2, p, q2, S, T)
    <3> SUFFICES ASSUME p.phase = "serving", q2.phase # "misframed", p.told > Height(x),
                        ~Asked(x, p, S, T)
                 PROVE  q2.phase = "serving" /\ Coming(y, U2, A2, S)
      BY DEF CatchesUp, A2
    <3>1. q.phase = "serving" /\ Coming(y, U, A, S)
      BY <2>1 DEF Orderly, CatchesUp
    <3>2. y \in R \cup U2 \/ OnItsWay(y, A2, S)
      BY <2>5, <3>1 DEF Coming, Listening
    <3>3. y \notin R
      <4>1. y \in R => Height(y) <= Height(x)
        BY <1>1, <1>7, HeightsDecide
      <4>2. p.told <= Height(y) /\ Height(x) \in Nat /\ Height(y) \in Nat /\ p.told \in Nat
        BY <2>1, SettingFacts DEF Informed
      <4> QED BY <4>1, <4>2
    <3> QED BY <3>1, <3>2, <3>3 DEF Coming
  <2> QED BY <2>6, <2>7, <2>8, <2>9 DEF Orderly, A2
<1> QED BY <1>4, <1>5, <1>6, <1>7 DEF Direction, A2

-----------------------------------------------------------------------------
(* The reader takes a message *)

\* What every taken message leaves: the rest is as orderly as the whole was, also
\* when the reader has more now.
LEMMA ReaderTakes ==
  ASSUME NEW R, NEW x, NEW W, NEW y, NEW U, NEW O, NEW p, NEW q, NEW S, NEW T,
         Setting(R, x, W, y, U, p, q, S, T), Direction(R, x, W, y, U, O, p, q, S, T),
         S # <<>>, NEW R2, R \subseteq R2
  PROVE  /\ \A p2 : p2.phase \in Listening => Speaks(p2, q, Tail(S))
         /\ Once(U, q.announcements, Tail(S))
         /\ Line(R2, W) =>
              /\ Line(R, W) /\ Informed(y, p, S)
              /\ \A p2 : p2.told <= Height(y) => Informed(y, p2, Tail(S))
         /\ Line(R2, W) /\ Clean(y, O) =>
              /\ Orderly(R, x, y, U, p, q, S, T)
              /\ InOrder(R2, U, q.announcements, Tail(S))
              /\ LastToAnnounce(R2, y, U)
              /\ p.phase # "misframed" => LastToCome(R2, y, U, q.announcements, Tail(S))
<1> DEFINE A == q.announcements
           V == Tail(S)
<1>1. /\ A \in Seq(Block) /\ S \in Seq(Message) /\ U \subseteq Block /\ y \in W
      /\ Holds(R, x) /\ Holds(W, y)
  <2>1. Holds(R, x) /\ Holds(W, y) /\ U \subseteq Block /\ S \in Seq(Message)
    BY DEF Setting
  <2>2. A \in Seq(Block)
    BY SettingFacts
  <2> QED BY <2>1, <2>2 DEF Holds
<1>2. \A i \in DOMAIN V : i + 1 \in DOMAIN S /\ V[i] = S[i + 1]
  BY <1>1, TailFacts
<1>3. \A c, d \in Block :
        /\ Before(c, d, U, A, V) => Before(c, d, U, A, S)
        /\ OnItsWay(c, A, V) => OnItsWay(c, A, S)
        /\ OnItsWay(c, A, S) => Head(S) = NewBlock(c) \/ OnItsWay(c, A, V)
        /\ Head(S) = NewBlock(c) /\ Coming(d, U, A, V) => Before(c, d, U, A, S)
  <2> HIDE DEF A
  <2> QED BY <1>1, LineReads DEF V
<1> HIDE DEF V
<1>4. ASSUME NEW p2, p2.phase \in Listening
      PROVE  Speaks(p2, q, V)
  BY <1>2, <1>4 DEF Direction, Speaks
<1>5. Once(U, A, V)
  BY <1>1, <1>3 DEF Direction, Once
<1>6. ASSUME Line(R2, W)
      PROVE  /\ Line(R, W) /\ Informed(y, p, S)
             /\ \A p2 : p2.told <= Height(y) => Informed(y, p2, V)
  <2>1. Line(R, W)
    BY <1>6 DEF Line
  <2>2. Informed(y, p, S)
    BY <2>1 DEF Direction
  <2> QED BY <1>2, <2>1, <2>2 DEF Informed
<1>7. ASSUME Line(R2, W), Clean(y, O)
      PROVE  /\ Orderly(R, x, y, U, p, q, S, T)
             /\ InOrder(R2, U, A, V)
             /\ LastToAnnounce(R2, y, U)
             /\ p.phase # "misframed" => LastToCome(R2, y, U, A, V)
  <2>1. Orderly(R, x, y, U, p, q, S, T)
    BY <1>6, <1>7 DEF Direction
  <2>2. InOrder(R2, U, A, V) /\ LastToAnnounce(R2, y, U)
    BY <1>3, <2>1 DEF Orderly, InOrder, LastToAnnounce
  <2>3. ASSUME p.phase # "misframed", NEW d \in Block, OnItsWay(d, A, V)
        PROVE  y \in R2 \cup U \/ OnItsWay(y, A, V)
    <3>1. y \in R \cup U \/ OnItsWay(y, A, S)
      BY <1>3, <2>1, <2>3 DEF Orderly, LastToCome
    <3>2. CASE OnItsWay(y, A, S) /\ y \notin R
      <4>1. y \in Block
        BY <3>2, SettingFacts DEF Coming
      <4>2. CASE Head(S) = NewBlock(y)
        <5>1. Before(y, d, U, A, S)
          BY <1>3, <2>3, <4>1, <4>2 DEF Coming
        <5>2. Height(y) <= Height(d)
          BY <2>1, <3>2, <4>1, <5>1 DEF Orderly, InOrder
        <5>3. d \in W
          BY <1>3, <2>3, SettingFacts DEF Coming
        <5>4. d \in R \cup W /\ y \in R \cup W
          BY <1>1, <5>3
        <5>5. /\ Height(d) \in Nat /\ Height(y) \in Nat /\ Height(d) <= Height(y)
              /\ Height(d) = Height(y) => d = y
          BY <1>1, <1>6, <1>7, <5>3, <5>4, HeightsDecide
        <5>6. d = y
          BY <5>2, <5>5
        <5> QED BY <2>3, <5>6
      <4> QED BY <1>3, <3>2, <4>1, <4>2
    <3> QED BY <3>1, <3>2
  <2> QED BY <2>1, <2>2, <2>3 DEF LastToCome
<1> QED BY <1>4, <1>5, <1>6, <1>7 DEF V

\* The reader loses its place.
LEMMA ReaderTears ==
  ASSUME NEW R, NEW x, NEW W, NEW y, NEW U, NEW O, NEW p, NEW q, NEW S, NEW T,
         Setting(R, x, W, y, U, p, q, S, T), Direction(R, x, W, y, U, O, p, q, S, T),
         S # <<>>, NEW T2, NEW p2, p2.phase = "misframed", p2.told = p.told
  PROVE  Direction(R, x, W, y, U, O, p2, q, Tail(S), T2)
<1>1. /\ Speaks(p2, q, Tail(S))
      /\ Once(U, q.announcements, Tail(S))
  BY ReaderTakes DEF Listening
<1>2. Line(R, W) => Informed(y, p2, Tail(S))
  <2>1. Line(R, W) => Informed(y, p, S) /\ (p2.told <= Height(y) => Informed(y, p2, Tail(S)))
    BY ReaderTakes
  <2> QED BY <2>1 DEF Informed
<1>3. ASSUME Line(R, W), Clean(y, O)
      PROVE  Orderly(R, x, y, U, p2, q, Tail(S), T2)
  <2>1. InOrder(R, U, q.announcements, Tail(S)) /\ LastToAnnounce(R, y, U)
    BY <1>3, ReaderTakes
  <2> QED BY <2>1 DEF Orderly, CatchesUp
<1> QED BY <1>1, <1>2, <1>3 DEF Direction

\* What is on its way, or was asked for, stays so when another message is read.
LEMMA OthersStay ==
  ASSUME NEW S \in Seq(Message), S # <<>>, NEW y, NEW U, NEW A \in Seq(Block), y \in Block,
         NEW x, NEW p, NEW T, p.blocks = <<>>,
         NEW p2, NEW T2, \A i \in DOMAIN T : \E j \in DOMAIN T2 : T2[j] = T[i]
  PROVE  /\ Coming(y, U, A, S) => Head(S) = NewBlock(y) \/ Coming(y, U, A, Tail(S))
         /\ Asked(x, p, S, T) =>
              \/ Asked(x, p2, Tail(S), T2)
              \/ Head(S).type = "Blocks" /\ Starts(Head(S).blocks, x)
<1> DEFINE V == Tail(S)
<1>1. Coming(y, U, A, S) => Head(S) = NewBlock(y) \/ Coming(y, U, A, V)
  BY LineReads DEF Coming
<1>2. /\ DOMAIN S = 1 .. Len(S) /\ DOMAIN V = 1 .. Len(S) - 1 /\ Head(S) = S[1]
      /\ Len(S) \in Nat /\ \A i \in 1 .. Len(S) - 1 : V[i] = S[i + 1]
  BY TailFacts
<1> HIDE DEF V
<1>3. \A i \in DOMAIN S : i = 1 \/ (i - 1 \in DOMAIN V /\ V[i - 1] = S[i])
  BY <1>2
<1>4. ASSUME Asked(x, p, S, T)
      PROVE  \/ Asked(x, p2, V, T2)
             \/ Head(S).type = "Blocks" /\ Starts(Head(S).blocks, x)
  BY <1>2, <1>3, <1>4 DEF Asked
<1> QED BY <1>1, <1>4 DEF V

\* A Hello above the own height is answered by a request.
LEMMA ReaderHearsHello ==
  ASSUME NEW R, NEW x, NEW W, NEW y, NEW U, NEW O, NEW p, NEW q, NEW S, NEW T,
         Setting(R, x, W, y, U, p, q, S, T), Direction(R, x, W, y, U, O, p, q, S, T),
         S # <<>>, Head(S).type = "Hello", p.phase = "serving",
         NEW T2, NEW p2, p2.phase = "serving", p2.told = Head(S).height,
         p2.told > Height(x) => \E i \in DOMAIN T2 : T2[i] = GetBlocks(Height(x) + 1)
  PROVE  Direction(R, x, W, y, U, O, p2, q, Tail(S), T2)
<1>1. /\ Speaks(p2, q, Tail(S))
      /\ Once(U, q.announcements, Tail(S))
  <2>1. p2.phase \in Listening
    BY DEF Listening
  <2> QED BY <2>1, ReaderTakes
<1>2. Line(R, W) => Informed(y, p2, Tail(S))
  <2>1. Line(R, W) => Informed(y, p, S) /\ (p2.told <= Height(y) => Informed(y, p2, Tail(S)))
    BY ReaderTakes
  <2>2. 1 \in DOMAIN S /\ Head(S) = S[1]
    <3>1. S \in Seq(Message)
      BY DEF Setting
    <3> QED BY <3>1, TailFacts
  <2> QED BY <2>1, <2>2 DEF Informed
<1>3. ASSUME Line(R, W), Clean(y, O)
      PROVE  Orderly(R, x, y, U, p2, q, Tail(S), T2)
  <2>1. /\ InOrder(R, U, q.announcements, Tail(S)) /\ LastToAnnounce(R, y, U)
        /\ LastToCome(R, y, U, q.announcements, Tail(S))
    BY <1>3, ReaderTakes
  <2> QED BY <2>1 DEF Orderly, CatchesUp, Asked
<1> QED BY <1>1, <1>2, <1>3 DEF Direction

\* The blocks of a message become those to ingest; a request leaves nothing to do.
LEMMA ReaderGoesOn ==
  ASSUME NEW R, NEW x, NEW W, NEW y, NEW U, NEW O, NEW p, NEW q, NEW S, NEW T,
         Setting(R, x, W, y, U, p, q, S, T), Direction(R, x, W, y, U, O, p, q, S, T),
         S # <<>>, p.phase = "serving", p.blocks = <<>>,
         \A b : Head(S) # NewBlock(b),
         NEW T2, \A i \in DOMAIN T : \E j \in DOMAIN T2 : T2[j] = T[i],
         NEW p2, p2.phase = "serving", p2.told = p.told,
         Head(S).type = "Blocks" => p2.blocks = Head(S).blocks
  PROVE  Direction(R, x, W, y, U, O, p2, q, Tail(S), T2)
<1>1. /\ Speaks(p2, q, Tail(S))
      /\ Once(U, q.announcements, Tail(S))
  <2>1. p2.phase \in Listening
    BY DEF Listening
  <2> QED BY <2>1, ReaderTakes
<1>2. Line(R, W) => Informed(y, p2, Tail(S))
  <2>1. Line(R, W) => Informed(y, p, S) /\ (p2.told <= Height(y) => Informed(y, p2, Tail(S)))
    BY ReaderTakes
  <2> QED BY <2>1 DEF Informed
<1>3. ASSUME Line(R, W), Clean(y, O)
      PROVE  Orderly(R, x, y, U, p2, q, Tail(S), T2)
  <2>1. /\ InOrder(R, U, q.announcements, Tail(S)) /\ LastToAnnounce(R, y, U)
        /\ LastToCome(R, y, U, q.announcements, Tail(S))
        /\ Orderly(R, x, y, U, p, q, S, T)
    BY <1>3, ReaderTakes
  <2>2. CatchesUp(x, y, U, p2, q, Tail(S), T2)
    <3> SUFFICES ASSUME q.phase # "misframed", p2.told > Height(x),
                        ~Asked(x, p2, Tail(S), T2)
                 PROVE  q.phase = "serving" /\ Coming(y, U, q.announcements, Tail(S))
      BY DEF CatchesUp
    <3>1. \/ q.phase = "serving" /\ Coming(y, U, q.announcements, S)
          \/ Asked(x, p, S, T)
      BY <2>1 DEF Orderly, CatchesUp
    <3>2. S \in Seq(Message) /\ q.announcements \in Seq(Block)
      <4>1. S \in Seq(Message)
        BY DEF Setting
      <4> QED BY <4>1, SettingFacts
    <3>3. \A c \in Block : /\ Coming(c, U, q.announcements, S) =>
                                Coming(c, U, q.announcements, Tail(S))
                           /\ Asked(x, p, S, T) =>
                                Head(S).type = "Blocks" /\ Starts(Head(S).blocks, x)
      BY <3>2, OthersStay
    <3>4. Block # {} => ~Asked(x, p, S, T)
      <4> SUFFICES ASSUME NEW c \in Block, Asked(x, p, S, T) PROVE FALSE
        OBVIOUS
      <4>1. Head(S).type = "Blocks" /\ Starts(Head(S).blocks, x)
        BY <3>3
      <4> QED BY <4>1 DEF Asked, Starts
    <3>5. y \in Block
      <4>1. p.told <= Height(y) /\ p.told \in Nat /\ Height(x) \in Nat /\ Height(y) \in Nat
        BY <1>3, SettingFacts DEF Direction, Informed
      <4>2. y # Genesis
        BY <4>1, HeightGrows
      <4>3. y \in AllBlocks
        BY DEF Setting, Holds
      <4> QED BY <4>2, <4>3 DEF AllBlocks
    <3> QED BY <3>1, <3>3, <3>4, <3>5
  <2> QED BY <2>1, <2>2 DEF Orderly
<1> QED BY <1>1, <1>2, <1>3 DEF Direction

-----------------------------------------------------------------------------
(* A node that knows R up to x ingests a block *)

Fits(R, b) == b \notin R /\ ParentOf[b] \in R
Leads(R, x, b) == Fits(R, b) /\ cumulative_work[b] > cumulative_work[x]
Learned(R, b) == IF Fits(R, b) THEN R \cup {b} ELSE R
NewTip(R, x, b) == IF Leads(R, x, b) THEN b ELSE x

LEMMA LearnedIsHeld ==
  ASSUME NEW R, NEW x, Holds(R, x), NEW b \in Block
  PROVE  Holds(Learned(R, b), NewTip(R, x, b))
<1> DEFINE R2 == Learned(R, b)
           x2 == NewTip(R, x, b)
<1>1. b \in AllBlocks /\ b # Genesis
  BY TreeIsGrounded
<1>2. \A c \in AllBlocks : cumulative_work[c] \in Nat
  BY WorkGrows
<1>3. /\ R2 \subseteq AllBlocks /\ Genesis \in R2 /\ x2 \in R2
      /\ \A c \in R2 \ {Genesis} : ParentOf[c] \in R2
  BY <1>1 DEF Holds, Learned, NewTip, Leads, Fits
<1>4. ASSUME NEW c \in R2
      PROVE  cumulative_work[c] <= cumulative_work[x2]
  <2>1. /\ cumulative_work[b] \in Nat /\ cumulative_work[x] \in Nat
        /\ cumulative_work[c] \in Nat
        /\ c \in R => cumulative_work[c] <= cumulative_work[x]
    BY <1>1, <1>2, <1>3 DEF Holds
  <2>2. c \in R \/ (c = b /\ Fits(R, b))
    BY DEF Learned
  <2> QED BY <2>1, <2>2 DEF NewTip, Leads
<1> QED BY <1>3, <1>4 DEF Holds

\* Without a fork a block of the other one's is there, is the next one, or leaves
\* a gap; the next one becomes the tip.
LEMMA NextInLine ==
  ASSUME NEW R, NEW x, NEW W, NEW y, Holds(R, x), Holds(W, y),
         NEW b \in Block, b \in W, Line(Learned(R, b), W)
  PROVE  /\ Line(R, W) /\ Height(b) \in Nat /\ Height(x) \in Nat
         /\ \/ b \in R /\ Height(b) <= Height(x) /\ ~Fits(R, b)
            \/ /\ b \notin R /\ Height(b) = Height(x) + 1
               /\ Leads(R, x, b) /\ NewTip(R, x, b) = b
            \/ b \notin R /\ Height(b) > Height(x) + 1 /\ ~Fits(R, b)
<1>1. Line(R, W)
  BY DEF Line, Learned
<1> DEFINE a == ParentOf[b]
<1>2. /\ a \in W /\ b \in AllBlocks /\ a \in AllBlocks /\ x \in R
      /\ x \in AllBlocks
      /\ Height(b) = Height(a) + 1 /\ cumulative_work[a] < cumulative_work[b]
  <2>1. b \in W \ {Genesis}
    BY TreeIsGrounded
  <2> QED BY <2>1, HeightGrows, WorkGrows DEF Holds
<1>3. /\ Height(a) \in Nat /\ Height(b) \in Nat /\ Height(x) \in Nat
      /\ b \in R <=> Height(b) <= Height(x)
      /\ a \in R <=> Height(a) <= Height(x)
      /\ Height(a) = Height(x) => a = x
  <2>1. a \in R \cup W /\ b \in R \cup W /\ x \in R \cup W
    BY <1>2
  <2> HIDE DEF a
  <2> QED BY <1>1, <2>1, HeightsDecide
<1>4. CASE b \in R
  BY <1>1, <1>3, <1>4 DEF Fits
<1>5. CASE b \notin R /\ Height(b) = Height(x) + 1
  <2>1. a = x
    BY <1>2, <1>3, <1>5
  <2>2. Leads(R, x, b)
    BY <1>2, <1>5, <2>1 DEF Leads, Fits
  <2> QED BY <1>1, <1>3, <1>5, <2>2 DEF NewTip
<1>6. CASE b \notin R /\ Height(b) # Height(x) + 1
  <2>1. Height(b) > Height(x) + 1 /\ a \notin R
    BY <1>2, <1>3, <1>6
  <2> QED BY <1>1, <1>3, <1>6, <2>1 DEF Fits
<1> QED BY <1>4, <1>5, <1>6

LEMMA TipInLine ==
  ASSUME NEW R, NEW x, NEW W, NEW y, Holds(R, x), Holds(W, y), Line(R, W)
  PROVE  /\ Height(x) \in Nat /\ Height(y) \in Nat
         /\ y \in R <=> Height(y) <= Height(x)
         /\ \A b \in W : Height(b) \in Nat /\ Height(b) <= Height(y)
         /\ Height(y) > 0 => y \in Block
<1>1. y \in W /\ y \in AllBlocks
  BY DEF Holds
<1>2. Height(x) \in Nat /\ Height(y) \in Nat /\ (y \in R <=> Height(y) <= Height(x))
  <2>1. y \in R \cup W
    BY <1>1
  <2> QED BY <2>1, HeightsDecide
<1>3. ASSUME NEW b \in W
      PROVE  Height(b) \in Nat /\ Height(b) <= Height(y)
  <2>1. b \in R \cup W
    OBVIOUS
  <2> QED BY <2>1, HeightsDecide
<1>4. Height(y) > 0 => y \in Block
  BY <1>1, HeightGrows DEF AllBlocks
<1> QED BY <1>2, <1>3, <1>4

\* The reader takes an announcement: the next block makes its tip, and the writer's
\* is still to come if it is another one; above a gap, more is asked for.
LEMMA ReaderHearsBlock ==
  ASSUME NEW R, NEW x, NEW W, NEW y, NEW U, NEW O, NEW p, NEW q, NEW S, NEW T,
         Setting(R, x, W, y, U, p, q, S, T), Direction(R, x, W, y, U, O, p, q, S, T),
         NEW b \in Block, S # <<>>, Head(S) = NewBlock(b),
         p.phase = "serving", p.blocks = <<>>,
         NEW T2, \A i \in DOMAIN T : \E j \in DOMAIN T2 : T2[j] = T[i],
         NEW p2, p2.phase = "serving", p2.told = Higher(p.told, Height(b)),
         ~Leads(R, x, b) /\ Height(b) > Height(x) + 1 =>
           \E i \in DOMAIN T2 : T2[i] = GetBlocks(Height(x) + 1)
  PROVE  Direction(Learned(R, b), NewTip(R, x, b), W, y, U, O, p2, q, Tail(S), T2)
<1> DEFINE R2 == Learned(R, b)
           x2 == NewTip(R, x, b)
           A == q.announcements
<1>1. R \subseteq R2
  BY DEF Learned
<1>2. /\ S \in Seq(Message) /\ A \in Seq(Block) /\ Holds(R, x) /\ Holds(W, y)
      /\ Head(S).type = "NewBlock" /\ OnItsWay(b, A, S) /\ b \in W
      /\ q.phase \in Listening
  <2>1. /\ S \in Seq(Message) /\ Holds(R, x) /\ Holds(W, y)
    BY DEF Setting
  <2>2. 1 \in DOMAIN S /\ S[1] = NewBlock(b)
    BY <2>1, TailFacts
  <2>3. NewBlock(b).type = "NewBlock"
    BY DEF NewBlock
  <2>4. q.phase \in Listening
    BY <2>2, <2>3 DEF Direction, Speaks
  <2>5. OnItsWay(b, A, S)
    BY <2>2 DEF OnItsWay
  <2>6. A \in Seq(Block) /\ b \in W
    BY <2>5, SettingFacts DEF Coming
  <2> QED BY <2>1, <2>3, <2>4, <2>5, <2>6
<1>3. p2.phase \in Listening
  BY DEF Listening
<1> HIDE DEF R2, x2
<1>4. Speaks(p2, q, Tail(S)) /\ Once(U, A, Tail(S))
  BY <1>1, <1>2, <1>3, ReaderTakes
<1>5. ASSUME Line(R2, W)
      PROVE  /\ Line(R, W) /\ Informed(y, p, S) /\ Informed(y, p2, Tail(S))
             /\ Height(x) \in Nat /\ Height(y) \in Nat /\ Height(b) \in Nat
             /\ p.told \in Nat /\ p.told <= Height(y) /\ Height(b) <= Height(y)
             /\ y \in R <=> Height(y) <= Height(x)
             /\ Height(y) > 0 => y \in Block
             /\ p2.told \in {p.told, Height(b)} /\ p2.told >= p.told
  <2>1. /\ Line(R, W) /\ Informed(y, p, S)
        /\ p2.told <= Height(y) => Informed(y, p2, Tail(S))
    BY <1>1, <1>2, <1>5, ReaderTakes
  <2>2. /\ Height(x) \in Nat /\ Height(y) \in Nat /\ Height(b) \in Nat
        /\ p.told \in Nat /\ p.told <= Height(y) /\ Height(b) <= Height(y)
        /\ y \in R <=> Height(y) <= Height(x)
        /\ Height(y) > 0 => y \in Block
    <3>1. p.told \in Nat /\ p.told <= Height(y)
      BY <2>1, SettingFacts DEF Informed
    <3> QED BY <1>2, <2>1, <3>1, TipInLine
  <2> QED BY <2>1, <2>2 DEF Higher
<1>6. ASSUME Line(R2, W), Clean(y, O)
      PROVE  Orderly(R2, x2, y, U, p2, q, Tail(S), T2)
  <2>1. /\ InOrder(R2, U, A, Tail(S)) /\ LastToAnnounce(R2, y, U)
        /\ LastToCome(R2, y, U, A, Tail(S))
        /\ Orderly(R, x, y, U, p, q, S, T)
    BY <1>1, <1>2, <1>6, ReaderTakes
  <2>2. CatchesUp(x2, y, U, p2, q, Tail(S), T2)
    <3> SUFFICES ASSUME q.phase # "misframed", p2.told > Height(x2),
                        ~Asked(x2, p2, Tail(S), T2)
                 PROVE  q.phase = "serving" /\ Coming(y, U, A, Tail(S))
      BY DEF CatchesUp
    <3>1. q.phase = "serving"
      BY <1>2 DEF Listening
    <3>2. ASSUME y \in Block, y # b, Coming(y, U, A, S)
          PROVE  Coming(y, U, A, Tail(S))
      <4>1. Head(S) # NewBlock(y)
        BY <3>2 DEF NewBlock
      <4> QED BY <1>2, <3>2, <4>1, OthersStay
    <3>3. \/ b \in R /\ Height(b) <= Height(x) /\ ~Fits(R, b)
          \/ b \notin R /\ Height(b) = Height(x) + 1 /\ x2 = b
          \/ b \notin R /\ Height(b) > Height(x) + 1 /\ ~Fits(R, b)
      BY <1>2, <1>6, NextInLine DEF R2, x2
    <3>4. CASE b \in R /\ Height(b) <= Height(x) /\ ~Fits(R, b)
      <4>1. x2 = x
        BY <3>4 DEF x2, NewTip, Leads
      <4>2. p.told > Height(x) /\ Height(y) > Height(x) /\ y \notin R /\ y \in Block
        BY <1>5, <1>6, <3>4, <4>1
      <4>3. ~Asked(x, p, S, T)
        BY <1>2, <4>1, <4>2, OthersStay
      <4>4. Coming(y, U, A, S)
        BY <2>1, <4>2, <4>3 DEF Orderly, CatchesUp
      <4> QED BY <3>1, <3>2, <3>4, <4>2, <4>4
    <3>5. CASE b \notin R /\ Height(b) = Height(x) + 1 /\ x2 = b
      <4>1. p.told > Height(b) /\ Height(y) > Height(b) /\ y \notin R /\ y \in Block
        BY <1>5, <1>6, <3>5
      <4>2. y \in R \cup U \/ OnItsWay(y, A, S)
        BY <1>2, <2>1 DEF Orderly, LastToCome
      <4>3. Coming(y, U, A, S) /\ y # b
        BY <1>5, <1>6, <4>1, <4>2 DEF Coming
      <4> QED BY <3>1, <3>2, <4>1, <4>3
    <3>6. CASE b \notin R /\ Height(b) > Height(x) + 1 /\ ~Fits(R, b)
      <4>1. x2 = x /\ ~Leads(R, x, b)
        BY <3>6 DEF x2, NewTip, Leads
      <4>2. Asked(x2, p2, Tail(S), T2)
        BY <3>6, <4>1 DEF Asked
      <4> QED BY <4>2
    <3> QED BY <3>3, <3>4, <3>5, <3>6
  <2> QED BY <2>1, <2>2 DEF Orderly
<1> QED BY <1>4, <1>5, <1>6 DEF Direction, R2, x2

\* The reader ingests a block of a message; when one of them made its tip, it will
\* ask for more.
LEMMA ReaderIngests ==
  ASSUME NEW R, NEW x, NEW W, NEW y, NEW U, NEW O, NEW p, NEW q, NEW S, NEW T,
         Setting(R, x, W, y, U, p, q, S, T), Direction(R, x, W, y, U, O, p, q, S, T),
         p.blocks # <<>>, NEW b, b = Head(p.blocks),
         NEW T2, \A i \in DOMAIN T : \E j \in DOMAIN T2 : T2[j] = T[i],
         NEW p2, p2.phase = p.phase, p2.told = p.told, p.phase \in Listening,
         p.progressed \/ Leads(R, x, b) =>
           \/ p2.blocks # <<>> /\ p2.progressed
           \/ \E i \in DOMAIN T2 : T2[i] = GetBlocks(Height(NewTip(R, x, b)) + 1)
  PROVE  Direction(Learned(R, b), NewTip(R, x, b), W, y, U, O, p2, q, S, T2)
<1> DEFINE R2 == Learned(R, b)
           x2 == NewTip(R, x, b)
           A == q.announcements
<1>1. R \subseteq R2 /\ b \in Block /\ b \in W
  <2>1. p.blocks \in Seq(Block) /\ p.blocks \in Seq(W)
    BY SettingFacts
  <2>2. b \in Block /\ b \in W
    BY <2>1, TailFacts
  <2> QED BY <2>2 DEF Learned
<1>2. Holds(R, x) /\ Holds(W, y)
  BY DEF Setting
<1>3. Speaks(p2, q, S) /\ Once(U, A, S)
  BY DEF Direction, Speaks
<1> HIDE DEF R2, x2
<1>4. ASSUME Line(R2, W)
      PROVE  Line(R, W) /\ Informed(y, p2, S)
  <2>1. Line(R, W)
    BY <1>1, <1>4 DEF Line
  <2>2. Informed(y, p, S)
    BY <2>1 DEF Direction
  <2> QED BY <2>1, <2>2 DEF Informed
<1>5. ASSUME Line(R2, W), Clean(y, O)
      PROVE  Orderly(R2, x2, y, U, p2, q, S, T2)
  <2>1. Orderly(R, x, y, U, p, q, S, T)
    BY <1>4, <1>5 DEF Direction
  <2>2. /\ InOrder(R2, U, A, S) /\ LastToAnnounce(R2, y, U)
        /\ p2.phase # "misframed" => LastToCome(R2, y, U, A, S)
    BY <1>1, <2>1 DEF Orderly, InOrder, LastToAnnounce, LastToCome
  <2>3. CatchesUp(x2, y, U, p2, q, S, T2)
    <3> SUFFICES ASSUME p.phase = "serving", q.phase # "misframed", p.told > Height(x2),
                        ~Asked(x2, p2, S, T2)
                 PROVE  q.phase = "serving" /\ Coming(y, U, A, S)
      BY DEF CatchesUp
    <3>1. ~p.progressed /\ ~Leads(R, x, b)
      BY DEF Asked, x2
    <3>2. x2 = x
      BY <3>1 DEF x2, NewTip
    <3>3. ~Starts(p.blocks, x)
      <4>1. Height(b) # Height(x) + 1
        BY <1>1, <1>2, <1>5, <3>1, NextInLine DEF R2
      <4> QED BY <4>1 DEF Starts
    <3>4. ~Asked(x, p, S, T)
      BY <3>1, <3>2, <3>3 DEF Asked
    <3> QED BY <2>1, <3>2, <3>4 DEF Orderly, CatchesUp
  <2> QED BY <2>2, <2>3 DEF Orderly
<1> QED BY <1>3, <1>4, <1>5 DEF Direction, R2, x2

-----------------------------------------------------------------------------
(* The writer moves *)

\* The writer learns a block of the reader's, which is not above the reader's tip.
LEMMA WriterLearns ==
  ASSUME NEW R, NEW x, NEW W, NEW y, NEW U, NEW O, NEW p, NEW q, NEW S, NEW T,
         Setting(R, x, W, y, U, p, q, S, T), Direction(R, x, W, y, U, O, p, q, S, T),
         NEW b \in Block, b \in R
  PROVE  /\ Setting(R, x, Learned(W, b), NewTip(W, y, b), U, p, q, S, T)
         /\ Direction(R, x, Learned(W, b), NewTip(W, y, b), U, O, p, q, S, T)
<1> DEFINE W2 == Learned(W, b)
           y2 == NewTip(W, y, b)
           A == q.announcements
<1>1. Holds(R, x) /\ Holds(W, y) /\ Holds(W2, y2) /\ W \subseteq W2 /\ (y2 = y \/ y2 \in R)
  <2>1. Holds(R, x) /\ Holds(W, y)
    BY DEF Setting
  <2>2. Holds(W2, y2)
    BY <2>1, LearnedIsHeld
  <2> QED BY <2>1, <2>2 DEF Learned, NewTip
<1> HIDE DEF W2, y2
<1>2. ASSUME Line(R, W2)
      PROVE  /\ Line(R, W) /\ Height(y) <= Height(y2)
             /\ Clean(y2, O) => Clean(y, O)
             /\ Height(x) \in Nat /\ Height(y) \in Nat /\ Height(y2) \in Nat
             /\ y2 \in R => Height(y2) <= Height(x)
  <2>1. /\ Line(R, W) /\ Height(y) <= Height(y2)
        /\ \A O1, O2 : O1 \subseteq O2 /\ Clean(y2, O2) => Clean(y, O1)
    BY <1>1, <1>2, LinesGrow
  <2>2. /\ Height(x) \in Nat /\ Height(y2) \in Nat
        /\ y2 \in R => Height(y2) <= Height(x)
    BY <1>1, <1>2, TipInLine
  <2>3. Height(y) \in Nat
    BY SettingFacts
  <2> QED BY <2>1, <2>2, <2>3
<1>3. Speaks(p, q, S) /\ Once(U, A, S)
  BY DEF Direction
<1>4. ASSUME Line(R, W2)
      PROVE  Informed(y2, p, S)
  <2>1. Informed(y, p, S)
    BY <1>2, <1>4 DEF Direction
  <2>2. /\ p.told \in Nat
        /\ \A i \in DOMAIN S : S[i].type = "Hello" => S[i].height \in Nat
    BY SettingFacts, MessageTypes
  <2> QED BY <1>2, <1>4, <2>1, <2>2 DEF Informed
<1>5. ASSUME Line(R, W2), Clean(y2, O)
      PROVE  Orderly(R, x, y2, U, p, q, S, T)
  <2>1. Orderly(R, x, y, U, p, q, S, T) /\ Informed(y, p, S)
    BY <1>2, <1>5 DEF Direction
  <2>2. CASE y2 = y
    BY <2>1, <2>2
  <2>3. CASE y2 \in R
    <3>1. ~(p.told > Height(x))
      <4>1. p.told <= Height(y) /\ p.told \in Nat
        BY <2>1, SettingFacts DEF Informed
      <4> QED BY <1>2, <1>5, <2>3, <4>1
    <3> QED BY <2>1, <2>3, <3>1 DEF Orderly, LastToAnnounce, LastToCome, CatchesUp
  <2> QED BY <1>1, <2>2, <2>3
<1>6. Setting(R, x, W2, y2, U, p, q, S, T)
  <2>1. Carries(W, A, S, p.blocks)
    BY DEF Setting
  <2>2. Carries(W2, A, S, p.blocks)
    BY <1>1, <2>1, CarriesMore
  <2> QED BY <1>1, <2>2 DEF Setting
<1> QED BY <1>2, <1>3, <1>4, <1>5, <1>6 DEF Direction, W2, y2

\* The writer writes a message, maybe an answer; the answer to a request for what is
\* on top of the reader's tip starts there.
LEMMA WriterWrites ==
  ASSUME NEW R, NEW x, NEW W, NEW y, NEW U, NEW O, NEW p, NEW q, NEW S \in Seq(Message), NEW T,
         Direction(R, x, W, y, U, O, p, q, S, T),
         q.announcements \in Seq(Block), U \subseteq Block,
         NEW m \in Message, m.type # "NewBlock",
         m.type = "Hello" => m.height <= Height(y),
         NEW q2, q2.announcements = q.announcements,
         q2.phase \in Listening => q2.phase = q.phase,
         q.phase \in Listening => q2.phase \in Listening,
         m.type = "Hello" \/ q.phase \in Listening,
         NEW T2,
         \A i \in DOMAIN T : T[i] = GetBlocks(Height(x) + 1) =>
           \/ \E j \in DOMAIN T2 : T2[j] = T[i]
           \/ Line(R, W) /\ p.told > Height(x) => m.type = "Blocks" /\ Starts(m.blocks, x)
  PROVE  Direction(R, x, W, y, U, O, p, q2, Append(S, m), T2)
<1> DEFINE A == q.announcements
           V == Append(S, m)
<1>1. /\ DOMAIN S = 1 .. Len(S) /\ DOMAIN V = 1 .. Len(S) + 1 /\ Len(S) \in Nat
      /\ \A i \in 1 .. Len(S) : V[i] = S[i]
      /\ V[Len(S) + 1] = m
  BY AppendFacts
<1>2. \A c, d \in Block :
        /\ Before(c, d, U, A, V) => Before(c, d, U, A, S)
        /\ OnItsWay(c, A, V) <=> OnItsWay(c, A, S)
  BY LineWrites
<1> HIDE DEF V
<1>3. /\ \A i \in DOMAIN S : i \in DOMAIN V /\ V[i] = S[i]
      /\ \A i \in DOMAIN V : V[i] = m \/ (i \in DOMAIN S /\ V[i] = S[i])
      /\ \E i \in DOMAIN V : V[i] = m
  BY <1>1
<1>4. Speaks(p, q2, V)
  BY <1>3 DEF Direction, Speaks
<1>5. Once(U, A, V)
  BY <1>2 DEF Direction, Once
<1>6. Line(R, W) => Informed(y, p, V)
  BY <1>3 DEF Direction, Informed
<1>7. ASSUME Line(R, W), Clean(y, O)
      PROVE  Orderly(R, x, y, U, p, q2, V, T2)
  <2>1. Orderly(R, x, y, U, p, q, S, T)
    BY <1>7 DEF Direction
  <2>2. InOrder(R, U, A, V) /\ LastToAnnounce(R, y, U)
    BY <1>2, <2>1 DEF Orderly, InOrder
  <2>3. ASSUME p.phase # "misframed", NEW c \in Block, OnItsWay(c, A, V)
        PROVE  y \in R \cup U \/ OnItsWay(y, A, V)
    <3>1. y \in R \cup U \/ OnItsWay(y, A, S)
      BY <1>2, <2>1, <2>3 DEF Orderly, LastToCome
    <3> QED BY <1>3, <3>1 DEF OnItsWay
  <2>4. CatchesUp(x, y, U, p, q2, V, T2)
    <3> SUFFICES ASSUME p.phase = "serving", q2.phase # "misframed", p.told > Height(x)
                 PROVE  \/ q2.phase = "serving" /\ Coming(y, U, A, V)
                        \/ Asked(x, p, V, T2)
      BY DEF CatchesUp
    <3>1. q.phase # "misframed" /\ (q.phase = "serving" => q2.phase = "serving")
      BY DEF Listening
    <3>2. CASE Coming(y, U, A, S) /\ q.phase = "serving"
      BY <1>3, <3>1, <3>2 DEF Coming, OnItsWay
    <3>3. CASE Asked(x, p, S, T)
      <4>1. CASE \E i \in DOMAIN T : T[i] = GetBlocks(Height(x) + 1)
        BY <1>3, <1>7, <4>1 DEF Asked
      <4> QED BY <1>3, <3>3, <4>1 DEF Asked
    <3> QED BY <2>1, <3>1, <3>2, <3>3 DEF Orderly, CatchesUp
  <2> QED BY <2>2, <2>3, <2>4 DEF Orderly, LastToCome
<1> QED BY <1>4, <1>5, <1>6, <1>7 DEF Direction, V

\* The writer writes an announcement.
LEMMA WriterSends ==
  ASSUME NEW R, NEW x, NEW W, NEW y, NEW U, NEW O, NEW p, NEW q, NEW S, NEW T,
         Setting(R, x, W, y, U, p, q, S, T), Direction(R, x, W, y, U, O, p, q, S, T),
         q.phase \in Listening, q.announcements # <<>>,
         NEW q2, q2.announcements = Tail(q.announcements),
         q2.phase = "misframed" \/ q2.phase = q.phase,
         NEW T2, q2.phase = "misframed" \/ T2 = T
  PROVE  Direction(R, x, W, y, U, O, p, q2,
                   Append(S, NewBlock(Head(q.announcements))), T2)
<1> DEFINE A == q.announcements
           B == Tail(A)
           m == NewBlock(Head(A))
           V == Append(S, m)
<1>1. A \in Seq(Block) /\ S \in Seq(Message) /\ U \subseteq Block
  <2>1. S \in Seq(Message) /\ U \subseteq Block
    BY DEF Setting
  <2> QED BY <2>1, SettingFacts
<1>2. m \in Message /\ m.type = "NewBlock"
  <2>1. Head(A) \in Block
    BY <1>1, TailFacts
  <2> HIDE DEF A
  <2>2. m.type = "NewBlock"
    BY DEF NewBlock
  <2> QED BY <2>1, <2>2, MessageTypes
<1> HIDE DEF A, m
<1>3. /\ \A i \in DOMAIN S : i \in DOMAIN V /\ V[i] = S[i]
      /\ \A i \in DOMAIN V : V[i] = m \/ (i \in DOMAIN S /\ V[i] = S[i])
  <2>1. /\ DOMAIN S = 1 .. Len(S) /\ DOMAIN V = 1 .. Len(S) + 1 /\ Len(S) \in Nat
        /\ \A i \in 1 .. Len(S) : V[i] = S[i]
        /\ V[Len(S) + 1] = m
    BY <1>1, <1>2, AppendFacts
  <2> QED BY <2>1
<1>4. \A c, d \in Block :
        /\ Before(c, d, U, B, V) => Before(c, d, U, A, S)
        /\ OnItsWay(c, B, V) <=> OnItsWay(c, A, S)
  <2>1. A # <<>>
    BY DEF A
  <2> QED BY <1>1, <2>1, LineSends DEF m
<1> HIDE DEF V
<1>5. q2.announcements = B /\ q2.phase \in Listening
  BY DEF A, Listening
<1> HIDE DEF B
<1>6. Speaks(p, q2, V)
  BY <1>5 DEF Direction, Speaks
<1>7. Once(U, B, V)
  BY <1>1, <1>4 DEF Direction, Once, A
<1>8. Line(R, W) => Informed(y, p, V)
  <2>1. m.type # "Hello"
    BY <1>2
  <2>2. \A i \in DOMAIN V : V[i].type = "Hello" => i \in DOMAIN S /\ V[i] = S[i]
    BY <1>3, <2>1
  <2> QED BY <2>2 DEF Direction, Informed
<1>9. ASSUME Line(R, W), Clean(y, O)
      PROVE  Orderly(R, x, y, U, p, q2, V, T2)
  <2>1. Orderly(R, x, y, U, p, q, S, T)
    BY <1>9 DEF Direction
  <2>2. InOrder(R, U, B, V) /\ LastToAnnounce(R, y, U)
    BY <1>4, <2>1 DEF Orderly, InOrder, A
  <2>3. OnItsWay(y, A, S) => OnItsWay(y, B, V)
    <3>1. OnItsWay(y, A, S) => y \in Block
      BY SettingFacts DEF Coming, A
    <3> QED BY <1>4, <3>1
  <2>4. p.phase # "misframed" => LastToCome(R, y, U, B, V)
    BY <1>4, <2>1, <2>3 DEF Orderly, LastToCome, A
  <2>5. CatchesUp(x, y, U, p, q2, V, T2)
    <3> SUFFICES ASSUME p.phase = "serving", q2.phase # "misframed", p.told > Height(x)
                 PROVE  \/ q2.phase = "serving" /\ Coming(y, U, B, V)
                        \/ Asked(x, p, V, T2)
      BY <1>5 DEF CatchesUp
    <3>1. Asked(x, p, S, T) => Asked(x, p, V, T2)
      <4>1. \A i \in DOMAIN S : i \in DOMAIN V /\ V[i] = S[i]
        BY <1>3
      <4>2. T2 = T
        OBVIOUS
      <4> QED BY <4>1, <4>2 DEF Asked
    <3>2. \/ q.phase = "serving" /\ Coming(y, U, A, S)
          \/ Asked(x, p, S, T)
      BY <2>1 DEF Orderly, CatchesUp, A
    <3> QED BY <2>3, <3>1, <3>2 DEF Coming
  <2> QED BY <1>5, <2>2, <2>4, <2>5 DEF Orderly
<1> QED BY <1>5, <1>6, <1>7, <1>8, <1>9 DEF Direction, V, m, A

\* The connection ends, or begins.
LEMMA LinkBegins ==
  ASSUME NEW R, NEW x, NEW W, NEW y \in AllBlocks, NEW U, NEW O,
         Line(R, W) /\ Clean(y, O) => LastToAnnounce(R, y, U),
         NEW p2, NEW q2, p2.told = 0, p2.phase \in Silent, q2.announcements = <<>>,
         NEW T2
  PROVE  Direction(R, x, W, y, U, O, p2, q2, <<>>, T2)
<1>1. DOMAIN <<>> = {}
  OBVIOUS
<1>2. /\ p2.phase # "serving" /\ p2.phase # "misframed" /\ Height(y) >= 0
  BY HeightGrows DEF Silent
<1>3. \A c : ~OnItsWay(c, <<>>, <<>>)
  BY <1>1 DEF OnItsWay
<1>4. \A c, d : ~Before(c, d, U, <<>>, <<>>)
  BY <1>1, <1>3 DEF Before
<1>5. Speaks(p2, q2, <<>>) /\ Once(U, <<>>, <<>>) /\ Informed(y, p2, <<>>)
  BY <1>1, <1>2, <1>3 DEF Speaks, Once, Informed
<1>6. ASSUME Line(R, W), Clean(y, O)
      PROVE  Orderly(R, x, y, U, p2, q2, <<>>, T2)
  BY <1>2, <1>3, <1>4, <1>6 DEF Orderly, InOrder, LastToCome, CatchesUp
<1> QED BY <1>5, <1>6 DEF Direction

-----------------------------------------------------------------------------
(* The nodes and the connections between two that have no other *)

TipsAreHeaviest == \A n \in Nodes : Holds(known[n], tip[n])

SettingOf(e) ==
  Setting(known[e[2]], tip[e[2]], known[Other(e)[2]], tip[Other(e)[2]],
          unannounced[Other(e)[2]], peer[e], peer[Other(e)], stream[e], stream[Other(e)])

DirectionOf(e) ==
  Direction(known[e[2]], tip[e[2]], known[Other(e)[2]], tip[Other(e)[2]],
            unannounced[Other(e)[2]], reordered,
            peer[e], peer[Other(e)], stream[e], stream[Other(e)])

DirectionsOK == \A e \in Ends : Alone(e[1]) => DirectionOf(e)

CatchInv == GossipInv /\ FlowInv /\ TipsAreHeaviest /\ DirectionsOK

LEMMA IngestLearns ==
  ASSUME NodesOK, TipsAreHeaviest, NEW n \in Nodes, NEW b \in Block, ingest(n, b)
  PROVE  /\ known'[n] = Learned(known[n], b)
         /\ tip'[n] = NewTip(known[n], tip[n], b)
         /\ Advances(n, b) <=> Leads(known[n], tip[n], b)
         /\ \A m \in Nodes \ {n} : known'[m] = known[m] /\ tip'[m] = tip[m]
         /\ TipsAreHeaviest'
<1>1. /\ Stored(n, b) <=> Fits(known[n], b)
      /\ Advances(n, b) <=> Leads(known[n], tip[n], b)
  BY DEF Stored, Advances, Fits, Leads
<1>2. known \in [Nodes -> SUBSET AllBlocks] /\ tip \in [Nodes -> AllBlocks]
  BY DEF NodesOK
<1>3. /\ known'[n] = Learned(known[n], b)
      /\ tip'[n] = NewTip(known[n], tip[n], b)
      /\ \A m \in Nodes \ {n} : known'[m] = known[m] /\ tip'[m] = tip[m]
  BY <1>1, <1>2 DEF ingest, Learned, NewTip
<1>4. Holds(known'[n], tip'[n])
  BY <1>3, LearnedIsHeld DEF TipsAreHeaviest
<1> QED BY <1>1, <1>3, <1>4 DEF TipsAreHeaviest

LEMMA SettingHere ==
  ASSUME CatchInv, NEW e \in Ends
  PROVE  SettingOf(e)
<1>1. /\ e[2] \in Nodes /\ Other(e)[2] \in Nodes /\ Other(e) \in Ends
      /\ NodesOK /\ ConnectionsOK(peer, stream)
  BY OtherNode DEF CatchInv, GossipInv
<1>2. Holds(known[e[2]], tip[e[2]]) /\ Holds(known[Other(e)[2]], tip[Other(e)[2]])
  BY <1>1 DEF CatchInv, TipsAreHeaviest
<1>3. /\ unannounced[Other(e)[2]] \subseteq known[Other(e)[2]]
      /\ unannounced[Other(e)[2]] \subseteq Block
  BY <1>1 DEF NodesOK
<1>4. /\ PeerOK(peer[e]) /\ PeerOK(peer[Other(e)])
      /\ stream[e] \in Seq(Message) /\ stream[Other(e)] \in Seq(Message)
  BY <1>1, PeerTypes
<1>5. Carries(known[Other(e)[2]], peer[Other(e)].announcements, stream[e], peer[e].blocks)
  BY FlowsAt DEF CatchInv, FlowInv, Flow
<1> QED BY <1>2, <1>3, <1>4, <1>5 DEF SettingOf, Setting

\* Who has no connection but one is at no end of another one.
LEMMA NoOtherEnd ==
  ASSUME NEW e \in Ends, Alone(e[1]), NEW g \in Ends, g[1] # e[1]
  PROVE  /\ g[2] # e[2] /\ g[2] # Other(e)[2]
         /\ g # e /\ g # Other(e) /\ Other(g) # e /\ Other(g) # Other(e)
<1>1. /\ g[1] \in Links /\ g[2] \in {g[1][1], g[1][2]}
      /\ {e[2], Other(e)[2]} = {e[1][1], e[1][2]}
      /\ Other(e)[1] = e[1] /\ Other(g)[1] = g[1]
  BY OtherEnd
<1>2. {g[1][1], g[1][2]} \cap {e[1][1], e[1][2]} = {}
  BY <1>1 DEF Alone
<1> QED BY <1>1, <1>2

\* Nothing happens at the two nodes.
LEMMA NothingHere ==
  ASSUME CatchInv, NEW e \in Ends, Alone(e[1]),
         \A n \in {e[2], Other(e)[2]} :
           known'[n] = known[n] /\ tip'[n] = tip[n] /\ unannounced'[n] = unannounced[n],
         \A h \in {e, Other(e)} : peer'[h] = peer[h] /\ stream'[h] = stream[h],
         reordered \subseteq reordered'
  PROVE  DirectionOf(e)'
<1>1. SettingOf(e) /\ DirectionOf(e)
  BY SettingHere DEF CatchInv, DirectionsOK
<1> DEFINE R == known[e[2]]
           x == tip[e[2]]
           W == known[Other(e)[2]]
           y == tip[Other(e)[2]]
           U == unannounced[Other(e)[2]]
           p == peer[e]
           q == peer[Other(e)]
           S == stream[e]
           T == stream[Other(e)]
<1>2. Setting(R, x, W, y, U, p, q, S, T) /\ Direction(R, x, W, y, U, reordered, p, q, S, T)
  BY <1>1 DEF SettingOf, DirectionOf
<1>3. p.told # 0 => p.phase \in Listening
  BY <1>2 DEF Direction, Speaks
<1>4. q.phase = "serving" => q.phase \in Listening
  BY DEF Listening
<1> HIDE DEF R, x, W, y, U, p, q, S, T
<1>5. Rests(p, q, T, p, q, T)
  BY <1>3, <1>4 DEF Rests
<1>6. Direction(R, x, W, y, U, reordered', p, q, S, T)
  BY <1>2, <1>5, NothingToRead
<1> QED BY <1>6 DEF DirectionOf, R, x, W, y, U, p, q, S, T

\* An end moves, and its node may learn.
Acts(g) ==
  /\ \A h \in Ends \ {g} : peer'[h] = peer[h]
  /\ \A h \in Ends \ {g, Other(g)} : stream'[h] = stream[h]
  /\ \A n \in Nodes \ {g[2]} : known'[n] = known[n] /\ tip'[n] = tip[n]
  /\ UNCHANGED <<unannounced, reordered>>

LEMMA BothDirections ==
  ASSUME CatchInv, NEW g \in Ends, Acts(g),
         Alone(g[1]) =>
           /\ Direction(known'[g[2]], tip'[g[2]], known[Other(g)[2]], tip[Other(g)[2]],
                        unannounced[Other(g)[2]], reordered,
                        peer'[g], peer[Other(g)], stream'[g], stream'[Other(g)])
           /\ Direction(known[Other(g)[2]], tip[Other(g)[2]], known'[g[2]], tip'[g[2]],
                        unannounced[g[2]], reordered,
                        peer[Other(g)], peer'[g], stream'[Other(g)], stream'[g])
  PROVE  DirectionsOK'
<1> SUFFICES ASSUME NEW e \in Ends, Alone(e[1]) PROVE DirectionOf(e)'
  BY DEF DirectionsOK, Alone
<1>1. /\ Other(g) \in Ends /\ Other(g) # g /\ Other(Other(g)) = g
      /\ g[2] \in Nodes /\ Other(g)[2] \in Nodes /\ g[2] # Other(g)[2]
      /\ g[1] = e[1] => e = g \/ e = Other(g)
  BY OtherNode, OtherEnd
<1>2. /\ peer'[Other(g)] = peer[Other(g)]
      /\ known'[Other(g)[2]] = known[Other(g)[2]] /\ tip'[Other(g)[2]] = tip[Other(g)[2]]
      /\ unannounced' = unannounced /\ reordered' = reordered
  BY <1>1 DEF Acts
<1>3. CASE e = g
  BY <1>2, <1>3 DEF DirectionOf
<1>4. CASE e = Other(g)
  <2>1. Alone(g[1])
    BY <1>4, OtherEnd
  <2> QED BY <1>1, <1>2, <1>4, <2>1 DEF DirectionOf
<1>5. CASE g[1] # e[1]
  <2>1. /\ g[2] # e[2] /\ g[2] # Other(e)[2]
        /\ g # e /\ g # Other(e) /\ Other(g) # e /\ Other(g) # Other(e)
    BY <1>5, NoOtherEnd
  <2>2. Other(e) \in Ends /\ e[2] \in Nodes /\ Other(e)[2] \in Nodes
    BY OtherNode
  <2> QED BY <1>2, <2>1, <2>2, NothingHere DEF Acts
<1> QED BY <1>1, <1>3, <1>4, <1>5

LEMMA BothHere ==
  ASSUME CatchInv, NEW g \in Ends, Alone(g[1])
  PROVE  /\ Setting(known[g[2]], tip[g[2]], known[Other(g)[2]], tip[Other(g)[2]],
                    unannounced[Other(g)[2]],
                    peer[g], peer[Other(g)], stream[g], stream[Other(g)])
         /\ Direction(known[g[2]], tip[g[2]], known[Other(g)[2]], tip[Other(g)[2]],
                      unannounced[Other(g)[2]], reordered,
                      peer[g], peer[Other(g)], stream[g], stream[Other(g)])
         /\ Setting(known[Other(g)[2]], tip[Other(g)[2]], known[g[2]], tip[g[2]],
                    unannounced[g[2]],
                    peer[Other(g)], peer[g], stream[Other(g)], stream[g])
         /\ Direction(known[Other(g)[2]], tip[Other(g)[2]], known[g[2]], tip[g[2]],
                      unannounced[g[2]], reordered,
                      peer[Other(g)], peer[g], stream[Other(g)], stream[g])
<1>1. Other(g) \in Ends /\ Other(Other(g)) = g /\ Alone(Other(g)[1])
  BY OtherEnd
<1>2. SettingOf(g) /\ DirectionOf(g) /\ SettingOf(Other(g)) /\ DirectionOf(Other(g))
  BY <1>1, SettingHere DEF CatchInv, DirectionsOK
<1> QED BY <1>1, <1>2 DEF SettingOf, DirectionOf

\* What is written or taken leaves the other messages there.
LEMMA OthersAreKept ==
  ASSUME NEW S \in Seq(Message)
  PROVE  /\ \A m \in Message :
              /\ \A i \in DOMAIN S : \E j \in DOMAIN Append(S, m) : Append(S, m)[j] = S[i]
              /\ \E j \in DOMAIN Append(S, m) : Append(S, m)[j] = m
         /\ S # <<>> => \A i \in DOMAIN S :
              S[i] = Head(S) \/ \E j \in DOMAIN Tail(S) : Tail(S)[j] = S[i]
<1>1. ASSUME NEW m \in Message
      PROVE  /\ \A i \in DOMAIN S : \E j \in DOMAIN Append(S, m) : Append(S, m)[j] = S[i]
             /\ \E j \in DOMAIN Append(S, m) : Append(S, m)[j] = m
  <2> DEFINE V == Append(S, m)
  <2>1. /\ DOMAIN S = 1 .. Len(S) /\ DOMAIN V = 1 .. Len(S) + 1 /\ Len(S) \in Nat
        /\ \A i \in 1 .. Len(S) : V[i] = S[i]
        /\ V[Len(S) + 1] = m
    BY AppendFacts
  <2> HIDE DEF V
  <2>2. /\ \A i \in DOMAIN S : i \in DOMAIN V /\ V[i] = S[i]
        /\ Len(S) + 1 \in DOMAIN V
    BY <2>1
  <2> QED BY <2>1, <2>2 DEF V
<1>2. ASSUME S # <<>>, NEW i \in DOMAIN S
      PROVE  S[i] = Head(S) \/ \E j \in DOMAIN Tail(S) : Tail(S)[j] = S[i]
  <2> DEFINE V == Tail(S)
  <2>1. /\ Len(S) \in Nat \ {0} /\ DOMAIN S = 1 .. Len(S) /\ Head(S) = S[1]
        /\ DOMAIN V = 1 .. Len(S) - 1
        /\ \A k \in 1 .. Len(S) - 1 : V[k] = S[k + 1]
    BY <1>2, TailFacts
  <2> HIDE DEF V
  <2>2. i = 1 \/ (i - 1 \in DOMAIN V /\ V[i - 1] = S[i])
    BY <1>2, <2>1
  <2> QED BY <2>1, <2>2 DEF V
<1> QED BY <1>1, <1>2

LEMMA SendHelloCatches ==
  ASSUME CatchInv, NEW g \in Ends, SendHello(g)
  PROVE  DirectionsOK'
<1> DEFINE f == Other(g)
           R == known[g[2]]
           x == tip[g[2]]
           W == known[f[2]]
           y == tip[f[2]]
           p == peer[g]
           q == peer[f]
           S == stream[g]
           T == stream[f]
           m == Hello(Height(x))
           p2 == peer'[g]
<1>1. /\ peer \in [Ends -> Peer] /\ stream \in [Ends -> Seq(Message)]
      /\ NodesOK /\ ConnectionsOK(peer, stream)
      /\ f \in Ends /\ f # g /\ g[2] \in Nodes
      /\ S \in Seq(Message) /\ T \in Seq(Message)
  BY OtherNode DEF CatchInv, GossipInv, ConnectionsOK
<1>2. /\ p.phase = "connected" /\ UNCHANGED <<known, tip, unannounced, reordered>>
      /\ p2 = [p EXCEPT !.phase = "greeted"]
      /\ \A h \in Ends \ {g} : peer'[h] = peer[h]
      /\ stream'[g] = S /\ stream'[f] = Append(T, m)
      /\ \A h \in Ends \ {g, f} : stream'[h] = stream[h]
  BY <1>1 DEF SendHello
<1>3. /\ p2.phase = "greeted" /\ p2.told = p.told /\ p2.blocks = p.blocks
      /\ p2.progressed = p.progressed /\ p2.announcements = p.announcements
  BY <1>1, <1>2 DEF Peer
<1>4. m \in Message /\ m.type = "Hello" /\ m.height <= Height(x)
  <2>1. Height(x) \in Nat
    BY <1>1, TipHeight
  <2> QED BY <2>1, MessageTypes DEF Hello
<1>5. Acts(g)
  BY <1>2 DEF Acts
<1>6. ASSUME Alone(g[1])
      PROVE  /\ Direction(R, x, W, y, unannounced[f[2]], reordered, p2, q, S, Append(T, m))
             /\ Direction(W, y, R, x, unannounced[g[2]], reordered, q, p2, Append(T, m), S)
  <2>1. /\ Setting(R, x, W, y, unannounced[f[2]], p, q, S, T)
        /\ Direction(R, x, W, y, unannounced[f[2]], reordered, p, q, S, T)
        /\ Setting(W, y, R, x, unannounced[g[2]], q, p, T, S)
        /\ Direction(W, y, R, x, unannounced[g[2]], reordered, q, p, T, S)
    BY <1>6, BothHere
  <2> DEFINE U == unannounced[f[2]]
             V == unannounced[g[2]]
  <2> HIDE DEF f, R, x, W, y, p, q, S, T, m, p2, U, V
  <2>2. p.told = 0
    BY <1>2, <2>1 DEF Direction, Speaks, Listening
  <2>3. \A i \in DOMAIN T : \E j \in DOMAIN Append(T, m) : Append(T, m)[j] = T[i]
    BY <1>1, <1>4, OthersAreKept
  <2>4. /\ Direction(R, x, W, y, U, reordered, p, q, S, T)
        /\ Setting(R, x, W, y, U, p, q, S, T)
        /\ Direction(W, y, R, x, V, reordered, q, p, T, S)
        /\ Setting(W, y, R, x, V, q, p, T, S)
    BY <2>1 DEF U, V
  <2>5. q.phase = "serving" => q.phase \in Listening
    BY DEF Listening
  <2>6. Direction(R, x, W, y, U, reordered, p2, q, S, Append(T, m))
    <3>1. Rests(p, q, T, p2, q, Append(T, m))
      BY <1>2, <1>3, <2>2, <2>3, <2>5 DEF Rests
    <3> QED BY <2>4, <3>1, NothingToRead
  <2>7. /\ p.announcements \in Seq(Block) /\ V \subseteq Block
        /\ p2.phase \notin Listening /\ p.phase \notin Listening
    <3>1. V \subseteq Block
      BY <2>4 DEF Setting
    <3>2. p.announcements \in Seq(Block)
      BY <2>4, SettingFacts
    <3> QED BY <1>2, <1>3, <3>1, <3>2 DEF Listening
  <2>8. Direction(W, y, R, x, V, reordered, q, p2, Append(T, m), S)
    BY <1>1, <1>3, <1>4, <2>4, <2>7, WriterWrites
  <2> QED BY <2>6, <2>8 DEF U, V
<1> QED BY <1>2, <1>5, <1>6, BothDirections

LEMMA SubscribeCatches ==
  ASSUME CatchInv, NEW g \in Ends, Subscribe(g)
  PROVE  DirectionsOK'
<1> DEFINE f == Other(g)
           R == known[g[2]]
           x == tip[g[2]]
           W == known[f[2]]
           y == tip[f[2]]
           U == unannounced[f[2]]
           V == unannounced[g[2]]
           p == peer[g]
           q == peer[f]
           S == stream[g]
           T == stream[f]
           p2 == peer'[g]
<1>1. /\ peer \in [Ends -> Peer] /\ stream \in [Ends -> Seq(Message)]
      /\ NodesOK /\ ConnectionsOK(peer, stream)
      /\ f \in Ends /\ f # g /\ g[2] \in Nodes
      /\ S \in Seq(Message) /\ T \in Seq(Message)
      /\ p.phase = "serving" => p.phase \in Listening
      /\ q.phase = "serving" => q.phase \in Listening
  BY OtherNode DEF CatchInv, GossipInv, ConnectionsOK, Listening
<1>2. /\ p.phase = "greeted" /\ UNCHANGED <<known, tip, unannounced, reordered, stream>>
      /\ p2 = [p EXCEPT !.phase = "serving"]
      /\ \A h \in Ends \ {g} : peer'[h] = peer[h]
  BY <1>1 DEF Subscribe
<1>3. /\ p2.phase = "serving" /\ p2.told = p.told /\ p2.blocks = p.blocks
      /\ p2.progressed = p.progressed /\ p2.announcements = p.announcements
  BY <1>1, <1>2 DEF Peer
<1>5. Acts(g)
  BY <1>2 DEF Acts
<1>6. ASSUME Alone(g[1])
      PROVE  /\ Direction(R, x, W, y, U, reordered, p2, q, S, T)
             /\ Direction(W, y, R, x, V, reordered, q, p2, T, S)
  <2>1. /\ Setting(R, x, W, y, U, p, q, S, T)
        /\ Direction(R, x, W, y, U, reordered, p, q, S, T)
        /\ Setting(W, y, R, x, V, q, p, T, S)
        /\ Direction(W, y, R, x, V, reordered, q, p, T, S)
    BY <1>6, BothHere
  <2> HIDE DEF f, R, x, W, y, U, V, p, q, S, T, p2
  <2>2. p.told = 0
    BY <1>2, <2>1 DEF Direction, Speaks, Listening
  <2>3. Rests(p, q, T, p2, q, T)
    BY <1>1, <1>2, <1>3, <2>2 DEF Rests, Listening
  <2>4. Rests(q, p, S, q, p2, S)
    <3>1. q.told # 0 => q.phase \in Listening
      BY <2>1 DEF Direction, Speaks
    <3> QED BY <1>2, <1>3, <3>1 DEF Rests, Listening
  <2> QED BY <2>1, <2>3, <2>4, NothingToRead
<1> QED BY <1>2, <1>5, <1>6, BothDirections

LEMMA SendAnnouncementCatches ==
  ASSUME CatchInv, NEW g \in Ends, SendAnnouncement(g)
  PROVE  DirectionsOK'
<1> DEFINE f == Other(g)
           R == known[g[2]]
           x == tip[g[2]]
           W == known[f[2]]
           y == tip[f[2]]
           U == unannounced[f[2]]
           V == unannounced[g[2]]
           p == peer[g]
           q == peer[f]
           S == stream[g]
           T == stream[f]
           p2 == peer'[g]
           m == NewBlock(Head(p.announcements))
<1>1. /\ peer \in [Ends -> Peer] /\ stream \in [Ends -> Seq(Message)]
      /\ NodesOK /\ ConnectionsOK(peer, stream)
      /\ f \in Ends /\ f # g /\ g[2] \in Nodes
      /\ S \in Seq(Message) /\ T \in Seq(Message)
      /\ p.phase = "serving" => p.phase \in Listening
      /\ q.phase = "serving" => q.phase \in Listening
  BY OtherNode DEF CatchInv, GossipInv, ConnectionsOK, Listening
<1>2. /\ p.phase \in Listening /\ p.announcements # <<>>
      /\ UNCHANGED <<known, tip, unannounced, reordered>>
      /\ p2 = [p EXCEPT !.announcements = Tail(@)]
      /\ \A h \in Ends \ {g} : peer'[h] = peer[h]
      /\ stream'[g] = S /\ stream'[f] = Append(T, m)
      /\ \A h \in Ends \ {g, f} : stream'[h] = stream[h]
  BY <1>1 DEF SendAnnouncement, Selecting, Subscribed, Listening
<1>3. /\ p2.phase = p.phase /\ p2.told = p.told /\ p2.blocks = p.blocks
      /\ p2.progressed = p.progressed /\ p2.announcements = Tail(p.announcements)
      /\ p.announcements \in Seq(Block)
  BY <1>1, <1>2 DEF Peer
<1>4. m \in Message
  BY <1>2, <1>3, TailFacts, MessageTypes
<1>5. Acts(g)
  BY <1>2 DEF Acts
<1>6. ASSUME Alone(g[1])
      PROVE  /\ Direction(R, x, W, y, U, reordered, p2, q, S, Append(T, m))
             /\ Direction(W, y, R, x, V, reordered, q, p2, Append(T, m), S)
  <2>1. /\ Setting(R, x, W, y, U, p, q, S, T)
        /\ Direction(R, x, W, y, U, reordered, p, q, S, T)
        /\ Setting(W, y, R, x, V, q, p, T, S)
        /\ Direction(W, y, R, x, V, reordered, q, p, T, S)
    BY <1>6, BothHere
  <2> HIDE DEF f, R, x, W, y, U, V, p, q, S, T, p2
  <2>2. Direction(W, y, R, x, V, reordered, q, p2, Append(T, m), S)
    BY <1>2, <1>3, <2>1, WriterSends
  <2> HIDE DEF m
  <2>3. Rests(p, q, T, p2, q, Append(T, m))
    <3>1. \A i \in DOMAIN T : \E j \in DOMAIN Append(T, m) : Append(T, m)[j] = T[i]
      BY <1>1, <1>4, OthersAreKept
    <3> QED BY <1>1, <1>2, <1>3, <3>1 DEF Rests
  <2>4. Direction(R, x, W, y, U, reordered, p2, q, S, Append(T, m))
    BY <2>1, <2>3, NothingToRead
  <2> QED BY <2>2, <2>4
<1> QED BY <1>2, <1>5, <1>6, BothDirections

LEMMA TearFrameCatches ==
  ASSUME CatchInv, NEW g \in Ends, TearFrame(g)
  PROVE  DirectionsOK'
<1> DEFINE f == Other(g)
           R == known[g[2]]
           x == tip[g[2]]
           W == known[f[2]]
           y == tip[f[2]]
           U == unannounced[f[2]]
           V == unannounced[g[2]]
           p == peer[g]
           q == peer[f]
           S == stream[g]
           T == stream[f]
           p2 == peer'[g]
           m == NewBlock(Head(p.announcements))
<1>1. /\ peer \in [Ends -> Peer] /\ stream \in [Ends -> Seq(Message)]
      /\ NodesOK /\ ConnectionsOK(peer, stream)
      /\ f \in Ends /\ f # g /\ g[2] \in Nodes
      /\ S \in Seq(Message) /\ T \in Seq(Message)
      /\ p.phase = "serving" => p.phase \in Listening
      /\ q.phase = "serving" => q.phase \in Listening
  BY OtherNode DEF CatchInv, GossipInv, ConnectionsOK, Listening
<1>2. /\ p.phase = "serving" /\ p.announcements # <<>> /\ S # <<>>
      /\ UNCHANGED <<known, tip, unannounced, reordered>>
      /\ p2 = [p EXCEPT !.phase = "misframed", !.announcements = Tail(@)]
      /\ \A h \in Ends \ {g} : peer'[h] = peer[h]
      /\ stream'[g] = Tail(S) /\ stream'[f] = Append(T, m)
      /\ \A h \in Ends \ {g, f} : stream'[h] = stream[h]
  BY <1>1 DEF TearFrame
<1>3. /\ p2.phase = "misframed" /\ p2.told = p.told
      /\ p2.announcements = Tail(p.announcements)
  BY <1>1, <1>2 DEF Peer
<1>5. Acts(g)
  BY <1>2 DEF Acts
<1>6. ASSUME Alone(g[1])
      PROVE  /\ Direction(R, x, W, y, U, reordered, p2, q, Tail(S), Append(T, m))
             /\ Direction(W, y, R, x, V, reordered, q, p2, Append(T, m), Tail(S))
  <2>1. /\ Setting(R, x, W, y, U, p, q, S, T)
        /\ Direction(R, x, W, y, U, reordered, p, q, S, T)
        /\ Setting(W, y, R, x, V, q, p, T, S)
        /\ Direction(W, y, R, x, V, reordered, q, p, T, S)
    BY <1>6, BothHere
  <2> HIDE DEF f, R, x, W, y, U, V, p, q, S, T, p2
  <2>2. Direction(W, y, R, x, V, reordered, q, p2, Append(T, m), Tail(S))
    BY <1>1, <1>2, <1>3, <2>1, WriterSends
  <2> HIDE DEF m
  <2>3. Direction(R, x, W, y, U, reordered, p2, q, Tail(S), Append(T, m))
    BY <1>2, <1>3, <2>1, ReaderTears
  <2> QED BY <2>2, <2>3
<1> QED BY <1>2, <1>5, <1>6, BothDirections

LEMMA SwallowFrameCatches ==
  ASSUME CatchInv, NEW g \in Ends, SwallowFrame(g)
  PROVE  DirectionsOK'
<1> DEFINE f == Other(g)
           R == known[g[2]]
           x == tip[g[2]]
           W == known[f[2]]
           y == tip[f[2]]
           U == unannounced[f[2]]
           V == unannounced[g[2]]
           p == peer[g]
           q == peer[f]
           S == stream[g]
           T == stream[f]
           p2 == peer'[g]
<1>1. /\ peer \in [Ends -> Peer] /\ stream \in [Ends -> Seq(Message)]
      /\ NodesOK /\ ConnectionsOK(peer, stream)
      /\ f \in Ends /\ f # g /\ g[2] \in Nodes
      /\ S \in Seq(Message) /\ T \in Seq(Message)
      /\ p.phase = "serving" => p.phase \in Listening
      /\ q.phase = "serving" => q.phase \in Listening
  BY OtherNode DEF CatchInv, GossipInv, ConnectionsOK, Listening
<1>2. /\ p.phase = "misframed" /\ S # <<>> /\ p2 = p
      /\ UNCHANGED <<known, tip, unannounced, reordered, peer>>
      /\ stream'[g] = Tail(S) /\ stream'[f] = T
      /\ \A h \in Ends \ {g, f} : stream'[h] = stream[h]
  BY <1>1 DEF SwallowFrame
<1>5. Acts(g)
  BY <1>2 DEF Acts
<1>6. ASSUME Alone(g[1])
      PROVE  /\ Direction(R, x, W, y, U, reordered, p, q, Tail(S), T)
             /\ Direction(W, y, R, x, V, reordered, q, p, T, Tail(S))
  <2>1. /\ Setting(R, x, W, y, U, p, q, S, T)
        /\ Direction(R, x, W, y, U, reordered, p, q, S, T)
        /\ Setting(W, y, R, x, V, q, p, T, S)
        /\ Direction(W, y, R, x, V, reordered, q, p, T, S)
    BY <1>6, BothHere
  <2> HIDE DEF f, R, x, W, y, U, V, p, q, S, T, p2
  <2>2. Rests(q, p, S, q, p, Tail(S))
    <3>1. q.told # 0 => q.phase \in Listening
      BY <2>1 DEF Direction, Speaks
    <3> QED BY <1>2, <3>1 DEF Rests, Listening
  <2>3. Direction(W, y, R, x, V, reordered, q, p, T, Tail(S))
    BY <2>1, <2>2, NothingToRead
  <2>4. Direction(R, x, W, y, U, reordered, p, q, Tail(S), T)
    BY <1>2, <2>1, ReaderTears
  <2> QED BY <2>3, <2>4
<1> QED BY <1>2, <1>5, <1>6, BothDirections

\* A handler's request, if it has one, joins what is on its way.
Requests == {<<>>} \cup {<<GetBlocks(h + 1)>> : h \in Nat}

LEMMA RequestIsWritten ==
  ASSUME NEW S \in Seq(Message), NEW replies \in Requests
  PROVE  /\ \A i \in DOMAIN S : \E j \in DOMAIN (S \o replies) : (S \o replies)[j] = S[i]
         /\ \A h \in Nat : replies = <<GetBlocks(h + 1)>> =>
              \E j \in DOMAIN (S \o replies) : (S \o replies)[j] = GetBlocks(h + 1)
<1>1. CASE replies = <<>>
  <2>1. S \o replies = S
    BY <1>1, NothingMore
  <2>2. \A h \in Nat : replies # <<GetBlocks(h + 1)>>
    BY <1>1
  <2> QED BY <2>1, <2>2
<1>2. ASSUME NEW h \in Nat, replies = <<GetBlocks(h + 1)>>
      PROVE  /\ \A i \in DOMAIN S : \E j \in DOMAIN (S \o replies) : (S \o replies)[j] = S[i]
             /\ \E j \in DOMAIN (S \o replies) : (S \o replies)[j] = GetBlocks(h + 1)
  <2>1. GetBlocks(h + 1) \in Message
    BY MessageTypes
  <2>2. S \o replies = Append(S, GetBlocks(h + 1))
    BY <1>2, <2>1, OneMore
  <2> QED BY <2>1, <2>2, OthersAreKept
<1> QED BY <1>1, <1>2 DEF Requests

LEMMA WriterRequests ==
  ASSUME NEW R, NEW x, NEW W, NEW y, NEW U, NEW O, NEW p, NEW q, NEW S, NEW T,
         Setting(R, x, W, y, U, p, q, S, T), Direction(R, x, W, y, U, O, p, q, S, T),
         NEW q2, q2.announcements = q.announcements, q2.phase = q.phase,
         q.phase \in Listening,
         NEW T2, \A i \in DOMAIN T : T[i].type = "GetBlocks" => \E j \in DOMAIN T2 : T2[j] = T[i],
         NEW replies \in Requests
  PROVE  Direction(R, x, W, y, U, O, p, q2, S \o replies, T2)
<1>0. S \in Seq(Message)
  BY DEF Setting
<1>1. CASE replies = <<>>
  <2>1. Rests(p, q, T, p, q2, T2)
    <3>1. p.told # 0 => p.phase \in Listening
      BY DEF Direction, Speaks
    <3> QED BY <3>1 DEF Rests
  <2>2. S \o replies = S
    BY <1>0, <1>1, NothingMore
  <2> QED BY <2>1, <2>2, NothingToRead
<1>2. ASSUME NEW h \in Nat, replies = <<GetBlocks(h + 1)>>
      PROVE  Direction(R, x, W, y, U, O, p, q2, S \o replies, T2)
  <2> DEFINE m == GetBlocks(h + 1)
  <2>1. m \in Message /\ m.type # "NewBlock" /\ m.type # "Hello"
    BY MessageTypes DEF GetBlocks
  <2>2. S \o replies = Append(S, m)
    BY <1>0, <1>2, <2>1, OneMore
  <2>3. U \subseteq Block
    BY DEF Setting
  <2>4. q.announcements \in Seq(Block)
    BY SettingFacts
  <2>5. GetBlocks(Height(x) + 1).type = "GetBlocks"
    BY DEF GetBlocks
  <2>6. \A i \in DOMAIN T : T[i] = GetBlocks(Height(x) + 1) => \E j \in DOMAIN T2 : T2[j] = T[i]
    BY <2>5
  <2> HIDE DEF m
  <2>7. Direction(R, x, W, y, U, O, p, q2, Append(S, m), T2)
    BY <1>0, <2>1, <2>3, <2>4, <2>6, WriterWrites
  <2> QED BY <2>2, <2>7
<1> QED BY <1>1, <1>2 DEF Requests

LEMMA HandleHelloCatches ==
  ASSUME CatchInv, NEW g \in Ends, HandleHello(g)
  PROVE  DirectionsOK'
<1> DEFINE f == Other(g)
           R == known[g[2]]
           x == tip[g[2]]
           W == known[f[2]]
           y == tip[f[2]]
           U == unannounced[f[2]]
           V == unannounced[g[2]]
           p == peer[g]
           q == peer[f]
           S == stream[g]
           T == stream[f]
           p2 == peer'[g]
           h == Head(S).height
           replies == IF h > Height(x) THEN <<GetBlocks(Height(x) + 1)>> ELSE <<>>
<1>1. /\ peer \in [Ends -> Peer] /\ stream \in [Ends -> Seq(Message)]
      /\ NodesOK /\ ConnectionsOK(peer, stream)
      /\ f \in Ends /\ f # g /\ g[2] \in Nodes
      /\ S \in Seq(Message) /\ T \in Seq(Message)
      /\ p.phase = "serving" => p.phase \in Listening
      /\ q.phase = "serving" => q.phase \in Listening
  BY OtherNode DEF CatchInv, GossipInv, ConnectionsOK, Listening
<1>2. /\ p.phase = "serving" /\ S # <<>> /\ Head(S).type = "Hello"
      /\ UNCHANGED <<known, tip, unannounced, reordered>>
      /\ p2 = [p EXCEPT !.handshaken = TRUE, !.told = h]
      /\ \A e \in Ends \ {g} : peer'[e] = peer[e]
      /\ stream'[g] = Tail(S) /\ stream'[f] = T \o replies
      /\ \A e \in Ends \ {g, f} : stream'[e] = stream[e]
  BY <1>1 DEF HandleHello, Reads, Reply
<1>3. /\ p2.phase = "serving" /\ p2.told = h /\ p2.announcements = p.announcements
  BY <1>1, <1>2 DEF Peer
<1>4. /\ replies \in Requests /\ Height(x) \in Nat
      /\ h > Height(x) => replies = <<GetBlocks(Height(x) + 1)>>
  <2>1. Height(x) \in Nat
    BY <1>1, TipHeight
  <2> QED BY <2>1 DEF Requests
<1>5. Acts(g)
  BY <1>2 DEF Acts
<1>6. ASSUME Alone(g[1])
      PROVE  /\ Direction(R, x, W, y, U, reordered, p2, q, Tail(S), T \o replies)
             /\ Direction(W, y, R, x, V, reordered, q, p2, T \o replies, Tail(S))
  <2>1. /\ Setting(R, x, W, y, U, p, q, S, T)
        /\ Direction(R, x, W, y, U, reordered, p, q, S, T)
        /\ Setting(W, y, R, x, V, q, p, T, S)
        /\ Direction(W, y, R, x, V, reordered, q, p, T, S)
    BY <1>6, BothHere
  <2> HIDE DEF f, R, x, W, y, U, V, p, q, S, T, p2, h, replies
  <2>2. h > Height(x) =>
          \E i \in DOMAIN (T \o replies) : (T \o replies)[i] = GetBlocks(Height(x) + 1)
    BY <1>1, <1>4, RequestIsWritten
  <2>3. Direction(R, x, W, y, U, reordered, p2, q, Tail(S), T \o replies)
    BY <1>2, <1>3, <2>1, <2>2, ReaderHearsHello DEF h
  <2>4. \A i \in DOMAIN S :
          S[i].type = "GetBlocks" => \E j \in DOMAIN Tail(S) : Tail(S)[j] = S[i]
    BY <1>1, <1>2, OthersAreKept
  <2>5. Direction(W, y, R, x, V, reordered, q, p2, T \o replies, Tail(S))
    <3>1. /\ p2.announcements = p.announcements /\ p2.phase = p.phase
          /\ p.phase \in Listening /\ replies \in Requests
      BY <1>1, <1>2, <1>3, <1>4
    <3> QED BY <2>1, <2>4, <3>1, WriterRequests
  <2> QED BY <2>3, <2>5
<1> QED BY <1>2, <1>5, <1>6, BothDirections

LEMMA HandleBlocksCatches ==
  ASSUME CatchInv, NEW g \in Ends, HandleBlocks(g)
  PROVE  DirectionsOK'
<1> DEFINE f == Other(g)
           R == known[g[2]]
           x == tip[g[2]]
           W == known[f[2]]
           y == tip[f[2]]
           U == unannounced[f[2]]
           V == unannounced[g[2]]
           p == peer[g]
           q == peer[f]
           S == stream[g]
           T == stream[f]
           p2 == peer'[g]
<1>1. /\ peer \in [Ends -> Peer] /\ stream \in [Ends -> Seq(Message)]
      /\ NodesOK /\ ConnectionsOK(peer, stream)
      /\ f \in Ends /\ f # g /\ g[2] \in Nodes
      /\ S \in Seq(Message) /\ T \in Seq(Message)
      /\ p.phase = "serving" => p.phase \in Listening
      /\ q.phase = "serving" => q.phase \in Listening
  BY OtherNode DEF CatchInv, GossipInv, ConnectionsOK, Listening
<1>2. /\ p.phase = "serving" /\ S # <<>> /\ Head(S).type = "Blocks" /\ p.blocks = <<>>
      /\ UNCHANGED <<known, tip, unannounced, reordered>>
      /\ p2 = [p EXCEPT !.blocks = Head(S).blocks]
      /\ \A e \in Ends \ {g} : peer'[e] = peer[e]
      /\ stream'[g] = Tail(S) /\ stream'[f] = T
      /\ \A e \in Ends \ {g, f} : stream'[e] = stream[e]
  <2>1. T \o <<>> = T
    BY <1>1, NothingMore
  <2> QED BY <1>1, <2>1 DEF HandleBlocks, Reads, Reply, Selecting
<1>3. /\ p2.phase = "serving" /\ p2.told = p.told /\ p2.announcements = p.announcements
      /\ p2.blocks = Head(S).blocks
  BY <1>1, <1>2 DEF Peer
<1>5. Acts(g)
  BY <1>2 DEF Acts
<1>6. ASSUME Alone(g[1])
      PROVE  /\ Direction(R, x, W, y, U, reordered, p2, q, Tail(S), T)
             /\ Direction(W, y, R, x, V, reordered, q, p2, T, Tail(S))
  <2>1. /\ Setting(R, x, W, y, U, p, q, S, T)
        /\ Direction(R, x, W, y, U, reordered, p, q, S, T)
        /\ Setting(W, y, R, x, V, q, p, T, S)
        /\ Direction(W, y, R, x, V, reordered, q, p, T, S)
    BY <1>6, BothHere
  <2> HIDE DEF f, R, x, W, y, U, V, p, q, S, T, p2
  <2>2. \A b : Head(S) # NewBlock(b)
    BY <1>2 DEF NewBlock
  <2>3. \A i \in DOMAIN T : \E j \in DOMAIN T : T[j] = T[i]
    OBVIOUS
  <2>4. Direction(R, x, W, y, U, reordered, p2, q, Tail(S), T)
    BY <1>2, <1>3, <2>1, <2>2, <2>3, ReaderGoesOn
  <2>5. \A i \in DOMAIN S :
          S[i].type = "GetBlocks" => \E j \in DOMAIN Tail(S) : Tail(S)[j] = S[i]
    BY <1>1, <1>2, OthersAreKept
  <2>6. Rests(q, p, S, q, p2, Tail(S))
    <3>1. q.told # 0 => q.phase \in Listening
      BY <2>1 DEF Direction, Speaks
    <3> QED BY <1>1, <1>2, <1>3, <2>5, <3>1 DEF Rests
  <2>7. Direction(W, y, R, x, V, reordered, q, p2, T, Tail(S))
    BY <2>1, <2>6, NothingToRead
  <2> QED BY <2>4, <2>7
<1> QED BY <1>2, <1>5, <1>6, BothDirections

LEMMA HandleNewBlockCatches ==
  ASSUME CatchInv, NEW g \in Ends, HandleNewBlock(g)
  PROVE  DirectionsOK' /\ TipsAreHeaviest'
<1> DEFINE f == Other(g)
           R == known[g[2]]
           x == tip[g[2]]
           W == known[f[2]]
           y == tip[f[2]]
           U == unannounced[f[2]]
           V == unannounced[g[2]]
           p == peer[g]
           q == peer[f]
           S == stream[g]
           T == stream[f]
           p2 == peer'[g]
           b == Head(S).block
           more == ~Advances(g[2], b) /\ Height(b) > Height(x) + 1
           replies == IF more THEN <<GetBlocks(Height(x) + 1)>> ELSE <<>>
<1>1. /\ peer \in [Ends -> Peer] /\ stream \in [Ends -> Seq(Message)]
      /\ NodesOK /\ ConnectionsOK(peer, stream)
      /\ f \in Ends /\ f # g /\ g[2] \in Nodes
      /\ S \in Seq(Message) /\ T \in Seq(Message)
      /\ p.phase = "serving" => p.phase \in Listening
      /\ q.phase = "serving" => q.phase \in Listening
  BY OtherNode DEF CatchInv, GossipInv, ConnectionsOK, Listening
<1>2. /\ Reads(g, "NewBlock") /\ ingest(g[2], b)
      /\ p.phase = "serving" /\ S # <<>> /\ Head(S).type = "NewBlock" /\ p.blocks = <<>>
      /\ UNCHANGED <<unannounced, reordered>>
      /\ p2 = [p EXCEPT !.told = Higher(@, Height(b))]
      /\ \A e \in Ends \ {g} : peer'[e] = peer[e]
      /\ stream'[g] = Tail(S) /\ stream'[f] = T \o replies
      /\ \A e \in Ends \ {g, f} : stream'[e] = stream[e]
  BY <1>1 DEF HandleNewBlock, Reads, Reply, Selecting
<1>3. b \in Block /\ Head(S) = NewBlock(b) /\ b \in W
  <2>1. Head(S) \in Message
    BY <1>1, <1>2, TailFacts
  <2>2. b \in Block /\ Head(S) = NewBlock(b)
    <3> HIDE DEF S
    <3> QED BY <1>2, <2>1, MessageTypes
  <2> QED BY <1>2, <2>2, ReadersBlocks DEF CatchInv
<1>4. /\ p2.phase = "serving" /\ p2.told = Higher(p.told, Height(b))
      /\ p2.announcements = p.announcements
  <2>1. Height(b) \in Nat /\ p.told \in Nat
    BY <1>1, <1>3, HeightGrows DEF Peer
  <2> QED BY <1>1, <1>2, <2>1 DEF Peer, Higher
<1> HIDE DEF b
<1>5. /\ known'[g[2]] = Learned(R, b) /\ tip'[g[2]] = NewTip(R, x, b)
      /\ Advances(g[2], b) <=> Leads(R, x, b)
      /\ \A n \in Nodes \ {g[2]} : known'[n] = known[n] /\ tip'[n] = tip[n]
      /\ TipsAreHeaviest'
  BY <1>1, <1>2, <1>3, IngestLearns DEF CatchInv
<1>6. /\ replies \in Requests /\ Height(x) \in Nat
      /\ ~Leads(R, x, b) /\ Height(b) > Height(x) + 1 => replies = <<GetBlocks(Height(x) + 1)>>
  <2>1. Height(x) \in Nat
    BY <1>1, TipHeight
  <2> QED BY <1>5, <2>1 DEF Requests
<1>7. Acts(g)
  BY <1>2, <1>5 DEF Acts
<1>8. ASSUME Alone(g[1])
      PROVE  /\ Direction(Learned(R, b), NewTip(R, x, b), W, y, U, reordered,
                          p2, q, Tail(S), T \o replies)
             /\ Direction(W, y, Learned(R, b), NewTip(R, x, b), V, reordered,
                          q, p2, T \o replies, Tail(S))
  <2>1. /\ Setting(R, x, W, y, U, p, q, S, T)
        /\ Direction(R, x, W, y, U, reordered, p, q, S, T)
        /\ Setting(W, y, R, x, V, q, p, T, S)
        /\ Direction(W, y, R, x, V, reordered, q, p, T, S)
    BY <1>8, BothHere
  <2> HIDE DEF f, R, x, W, y, U, V, p, q, S, T, p2, replies
  <2>2. \A i \in DOMAIN T : \E j \in DOMAIN (T \o replies) : (T \o replies)[j] = T[i]
    BY <1>1, <1>6, RequestIsWritten
  <2>3. ~Leads(R, x, b) /\ Height(b) > Height(x) + 1 =>
          \E i \in DOMAIN (T \o replies) : (T \o replies)[i] = GetBlocks(Height(x) + 1)
    BY <1>1, <1>6, RequestIsWritten
  <2>4. Direction(Learned(R, b), NewTip(R, x, b), W, y, U, reordered,
                  p2, q, Tail(S), T \o replies)
    <3>1. /\ b \in Block /\ S # <<>> /\ Head(S) = NewBlock(b)
          /\ p.phase = "serving" /\ p.blocks = <<>>
          /\ p2.phase = "serving" /\ p2.told = Higher(p.told, Height(b))
      BY <1>2, <1>3, <1>4
    <3> HIDE DEF more
    <3> QED BY <2>1, <2>2, <2>3, <3>1, ReaderHearsBlock
  <2>5. \A i \in DOMAIN S :
          S[i].type = "GetBlocks" => \E j \in DOMAIN Tail(S) : Tail(S)[j] = S[i]
    BY <1>1, <1>2, OthersAreKept
  <2>6. /\ Setting(W, y, Learned(R, b), NewTip(R, x, b), V, q, p, T, S)
        /\ Direction(W, y, Learned(R, b), NewTip(R, x, b), V, reordered, q, p, T, S)
    BY <1>3, <2>1, WriterLearns
  <2>7. Direction(W, y, Learned(R, b), NewTip(R, x, b), V, reordered,
                  q, p2, T \o replies, Tail(S))
    <3>1. /\ p2.announcements = p.announcements /\ p2.phase = p.phase
          /\ p.phase \in Listening /\ replies \in Requests
      BY <1>1, <1>2, <1>4, <1>6
    <3> QED BY <2>5, <2>6, <3>1, WriterRequests
  <2> QED BY <2>4, <2>7
<1> QED BY <1>2, <1>5, <1>7, <1>8, BothDirections

LEMMA IngestNextCatches ==
  ASSUME CatchInv, NEW g \in Ends, IngestNext(g)
  PROVE  DirectionsOK' /\ TipsAreHeaviest'
<1> DEFINE f == Other(g)
           R == known[g[2]]
           x == tip[g[2]]
           W == known[f[2]]
           y == tip[f[2]]
           U == unannounced[f[2]]
           V == unannounced[g[2]]
           p == peer[g]
           q == peer[f]
           S == stream[g]
           T == stream[f]
           p2 == peer'[g]
           b == Head(p.blocks)
           x2 == tip'[g[2]]
           progressed == p.progressed \/ Advances(g[2], b)
           done == Len(p.blocks) = 1
           replies == IF done /\ progressed THEN <<GetBlocks(Height(x2) + 1)>> ELSE <<>>
<1>1. /\ peer \in [Ends -> Peer] /\ stream \in [Ends -> Seq(Message)]
      /\ NodesOK /\ ConnectionsOK(peer, stream)
      /\ f \in Ends /\ f # g /\ g[2] \in Nodes
      /\ S \in Seq(Message) /\ T \in Seq(Message)
      /\ p.phase = "serving" => p.phase \in Listening
      /\ q.phase = "serving" => q.phase \in Listening
  BY OtherNode DEF CatchInv, GossipInv, ConnectionsOK, Listening
<1>2. /\ p.blocks # <<>> /\ ingest(g[2], b)
      /\ UNCHANGED <<unannounced, reordered>>
      /\ p2 = [p EXCEPT !.blocks = Tail(@), !.progressed = progressed /\ ~done]
      /\ \A e \in Ends \ {g} : peer'[e] = peer[e]
      /\ stream'[g] = S
      /\ stream'[f] = IF done /\ progressed THEN Append(T, GetBlocks(Height(x2) + 1)) ELSE T
      /\ \A e \in Ends \ {g, f} : stream'[e] = stream[e]
  BY <1>1 DEF IngestNext
<1>3. b \in Block /\ b \in W /\ p.phase = "serving" /\ p.phase \in Listening
      /\ Tail(p.blocks) \in Seq(Block) /\ (~done => Tail(p.blocks) # <<>>)
  <2>1. p.blocks \in Seq(W) /\ p.blocks \in Seq(Block)
    <3>1. p.blocks \in Seq(W)
      BY FlowsAt DEF CatchInv, FlowInv, Flow, Carries
    <3> QED BY <1>1, <3>1, PeerTypes
  <2>2. p.phase = "serving"
    BY <1>1, <1>2, PeerTypes DEF PeerOK
  <2>3. Len(Tail(p.blocks)) = Len(p.blocks) - 1 /\ Len(p.blocks) \in Nat
    BY <1>2, <2>1, HeadTailProperties, LenProperties
  <2>4. ~done => Tail(p.blocks) # <<>>
    <3> DEFINE left == Tail(p.blocks)
    <3>1. Len(left) = Len(p.blocks) - 1 /\ left \in Seq(Block)
      BY <1>2, <2>1, <2>3, HeadTailProperties
    <3> HIDE DEF left
    <3>2. left = <<>> => Len(left) = 0
      BY <3>1, EmptySeq
    <3>3. Len(p.blocks) # 1 => left # <<>>
      BY <2>3, <3>1, <3>2
    <3> QED BY <3>3 DEF left
  <2> QED BY <1>2, <2>1, <2>2, <2>4, TailFacts DEF Listening
<1>4. /\ p2.phase = p.phase /\ p2.told = p.told
      /\ p2.announcements = p.announcements
      /\ p2.blocks = Tail(p.blocks) /\ p2.progressed = (progressed /\ ~done)
  BY <1>1, <1>2, <1>3 DEF Peer
<1> HIDE DEF b
<1>5. /\ known'[g[2]] = Learned(R, b) /\ x2 = NewTip(R, x, b)
      /\ Advances(g[2], b) <=> Leads(R, x, b)
      /\ \A n \in Nodes \ {g[2]} : known'[n] = known[n] /\ tip'[n] = tip[n]
      /\ TipsAreHeaviest'
  BY <1>1, <1>2, <1>3, IngestLearns DEF CatchInv
<1>6. /\ replies \in Requests /\ Height(x2) \in Nat
      /\ stream'[f] = T \o replies
  <2>1. x2 \in AllBlocks
    BY <1>1, <1>3, <1>5, TreeIsGrounded DEF NodesOK, NewTip
  <2>2. Height(x2) \in Nat
    BY <2>1, HeightGrows
  <2> HIDE DEF x2, done, progressed
  <2>3. GetBlocks(Height(x2) + 1) \in Message
    BY <2>2, MessageTypes
  <2>4. T \o <<>> = T /\ T \o <<GetBlocks(Height(x2) + 1)>> = Append(T, GetBlocks(Height(x2) + 1))
    BY <1>1, <2>3, NothingMore, OneMore
  <2> QED BY <1>2, <2>2, <2>4 DEF Requests
<1>7. Acts(g)
  BY <1>2, <1>5 DEF Acts
<1>8. ASSUME Alone(g[1])
      PROVE  /\ Direction(Learned(R, b), NewTip(R, x, b), W, y, U, reordered,
                          p2, q, S, T \o replies)
             /\ Direction(W, y, Learned(R, b), NewTip(R, x, b), V, reordered,
                          q, p2, T \o replies, S)
  <2>1. /\ Setting(R, x, W, y, U, p, q, S, T)
        /\ Direction(R, x, W, y, U, reordered, p, q, S, T)
        /\ Setting(W, y, R, x, V, q, p, T, S)
        /\ Direction(W, y, R, x, V, reordered, q, p, T, S)
    BY <1>8, BothHere
  <2> HIDE DEF f, R, x, W, y, U, V, p, q, S, T, p2
  <2>2. \A i \in DOMAIN T : \E j \in DOMAIN (T \o replies) : (T \o replies)[j] = T[i]
    <3> HIDE DEF replies
    <3> QED BY <1>1, <1>6, RequestIsWritten
  <2>3. p.progressed \/ Leads(R, x, b) =>
          \/ p2.blocks # <<>> /\ p2.progressed
          \/ \E i \in DOMAIN (T \o replies) :
               (T \o replies)[i] = GetBlocks(Height(NewTip(R, x, b)) + 1)
    <3>1. p.progressed \/ Leads(R, x, b) => progressed
      BY <1>5
    <3>2. progressed /\ ~done => p2.blocks # <<>> /\ p2.progressed
      BY <1>3, <1>4
    <3>3. progressed /\ done => replies = <<GetBlocks(Height(x2) + 1)>>
      OBVIOUS
    <3> HIDE DEF replies, x2, done, progressed
    <3>4. replies = <<GetBlocks(Height(x2) + 1)>> =>
            \E i \in DOMAIN (T \o replies) : (T \o replies)[i] = GetBlocks(Height(x2) + 1)
      BY <1>1, <1>6, RequestIsWritten
    <3> QED BY <1>5, <3>1, <3>2, <3>3, <3>4
  <2> HIDE DEF replies, x2, done, progressed
  <2>4. Direction(Learned(R, b), NewTip(R, x, b), W, y, U, reordered,
                  p2, q, S, T \o replies)
    <3>1. /\ p.blocks # <<>> /\ b = Head(p.blocks) /\ p.phase \in Listening
          /\ p2.phase = p.phase /\ p2.told = p.told
      BY <1>2, <1>3, <1>4 DEF b
    <3> QED BY <2>1, <2>2, <2>3, <3>1, ReaderIngests
  <2>5. \A i \in DOMAIN S : S[i].type = "GetBlocks" => \E j \in DOMAIN S : S[j] = S[i]
    OBVIOUS
  <2>6. /\ Setting(W, y, Learned(R, b), NewTip(R, x, b), V, q, p, T, S)
        /\ Direction(W, y, Learned(R, b), NewTip(R, x, b), V, reordered, q, p, T, S)
    BY <1>3, <2>1, WriterLearns
  <2>7. Direction(W, y, Learned(R, b), NewTip(R, x, b), V, reordered,
                  q, p2, T \o replies, S)
    <3>1. /\ p2.announcements = p.announcements /\ p2.phase = p.phase
          /\ p.phase \in Listening /\ replies \in Requests
      BY <1>3, <1>4, <1>6
    <3> QED BY <2>5, <2>6, <3>1, WriterRequests
  <2> QED BY <2>4, <2>7
<1> QED BY <1>2, <1>5, <1>6, <1>7, <1>8, BothDirections

\* The answer to a request for the block above a height starts with it, if there is one.
LEMMA AnswerStarts ==
  ASSUME NodesOK, NEW n \in Nodes, NEW h \in Nat, h < Height(tip[n])
  PROVE  LET bs == collect_blocks(n, h + 1)
         IN  bs # <<>> /\ Height(Head(bs)) = h + 1
<1> DEFINE s == branch_to[tip[n]]
           last == (h + 1) + MaxBatch - 1
           to == IF last < Height(tip[n]) THEN last ELSE Height(tip[n])
<1>1. tip[n] \in AllBlocks /\ s \in Seq(Block) /\ Height(tip[n]) = Len(s)
  BY BranchesAreSequences DEF NodesOK, Height
<1>2. MaxBatch \in Nat \ {0} /\ Len(s) \in Nat
  BY <1>1, GossipAssumption, LenProperties
<1>3. to \in Nat /\ h + 1 <= to /\ to <= Len(s)
  <2> HIDE DEF s
  <2> QED BY <1>1, <1>2
<1>4. collect_blocks(n, h + 1) = SubSeq(s, h + 1, to)
  BY DEF collect_blocks
<1>5. Height(s[h + 1]) = h + 1
  <2>1. h + 1 \in 1 .. Height(tip[n])
    BY <1>1, <1>2
  <2> QED BY <1>1, <2>1, BranchRises
<1> HIDE DEF s, to
<1> DEFINE bs == SubSeq(s, h + 1, to)
<1>6. Len(bs) = to - h /\ bs[1] = s[h + 1] /\ bs \in Seq(Block)
  <2>1. \A i \in (h + 1) .. to : s[i] \in Block
    BY <1>1, <1>2, <1>3, ElementOfSeq
  <2> QED BY <1>3, <2>1, SubSeqProperties
<1> HIDE DEF bs
<1>7. bs # <<>>
  <2>1. bs = <<>> => Len(bs) = 0
    BY <1>6, EmptySeq
  <2> QED BY <1>3, <1>6, <2>1
<1>8. Head(bs) = bs[1]
  BY <1>6, <1>7, TailFacts
<1> QED BY <1>4, <1>5, <1>6, <1>7, <1>8 DEF bs

LEMMA CloseLinkCatches ==
  ASSUME CatchInv, NEW l, CloseLink(l), UNCHANGED <<known, tip, unannounced, reordered>>
  PROVE  DirectionsOK'
<1> SUFFICES ASSUME NEW e \in Ends, Alone(e[1]) PROVE DirectionOf(e)'
  BY DEF DirectionsOK, Alone
<1>1. /\ peer' = [x \in Ends |-> IF x[1] = l THEN Closed ELSE peer[x]]
      /\ stream' = [x \in Ends |-> IF x[1] = l THEN <<>> ELSE stream[x]]
  BY DEF CloseLink
<1>2. /\ Other(e) \in Ends /\ Other(e)[1] = e[1]
      /\ e[2] \in Nodes /\ Other(e)[2] \in Nodes
  BY OtherEnd, OtherNode
<1>3. CASE e[1] = l
  <2>1. /\ peer'[e] = Closed /\ peer'[Other(e)] = Closed
        /\ stream'[e] = <<>> /\ stream'[Other(e)] = <<>>
    BY <1>1, <1>2, <1>3
  <2>2. Closed.told = 0 /\ Closed.phase \in Silent /\ Closed.announcements = <<>>
    BY DEF Closed, Silent
  <2> DEFINE R == known[e[2]]
             x == tip[e[2]]
             W == known[Other(e)[2]]
             y == tip[Other(e)[2]]
             U == unannounced[Other(e)[2]]
  <2>3. Line(R, W) /\ Clean(y, reordered) => LastToAnnounce(R, y, U)
    BY BothHere DEF Direction, Orderly
  <2>4. y \in AllBlocks
    BY <1>2 DEF CatchInv, GossipInv, NodesOK
  <2> HIDE DEF R, x, W, y, U
  <2>5. Direction(R, x, W, y, U, reordered, Closed, Closed, <<>>, <<>>)
    BY <2>2, <2>3, <2>4, LinkBegins
  <2> QED BY <2>1, <2>5 DEF DirectionOf, R, x, W, y, U
<1>4. CASE e[1] # l
  <2>1. \A h \in {e, Other(e)} : peer'[h] = peer[h] /\ stream'[h] = stream[h]
    BY <1>1, <1>2, <1>4
  <2> QED BY <2>1, NothingHere
<1> QED BY <1>3, <1>4

LEMMA ConnectCatches ==
  ASSUME CatchInv, NEW l, Connect(l)
  PROVE  DirectionsOK'
<1> SUFFICES ASSUME NEW e \in Ends, Alone(e[1]) PROVE DirectionOf(e)'
  BY DEF DirectionsOK, Alone
<1> DEFINE begun == [Closed EXCEPT !.phase = "connected"]
<1>1. /\ \A h \in Ends : h[1] = l => peer[h].phase = "closed"
      /\ peer' = [h \in Ends |-> IF h[1] = l THEN begun ELSE peer[h]]
      /\ UNCHANGED <<known, tip, unannounced, stream, reordered>>
  BY DEF Connect
<1>2. /\ Other(e) \in Ends /\ Other(e)[1] = e[1]
      /\ e[2] \in Nodes /\ Other(e)[2] \in Nodes
  BY OtherEnd, OtherNode
<1>3. CASE e[1] = l
  <2>1. peer'[e] = begun /\ peer'[Other(e)] = begun
    BY <1>1, <1>2, <1>3
  <2>2. begun.told = 0 /\ begun.phase \in Silent /\ begun.announcements = <<>>
    BY DEF Closed, Silent
  <2>3. stream[e] = <<>>
    BY <1>1, <1>2, <1>3 DEF CatchInv, GossipInv, ConnectionsOK, HelloFirst, Silent
  <2> DEFINE R == known[e[2]]
             x == tip[e[2]]
             W == known[Other(e)[2]]
             y == tip[Other(e)[2]]
             U == unannounced[Other(e)[2]]
             T == stream[Other(e)]
  <2>4. Line(R, W) /\ Clean(y, reordered) => LastToAnnounce(R, y, U)
    BY BothHere DEF Direction, Orderly
  <2>5. y \in AllBlocks
    BY <1>2 DEF CatchInv, GossipInv, NodesOK
  <2> HIDE DEF R, x, W, y, U, T, begun
  <2>6. Direction(R, x, W, y, U, reordered, begun, begun, <<>>, T)
    BY <2>2, <2>4, <2>5, LinkBegins
  <2> QED BY <1>1, <2>1, <2>3, <2>6 DEF DirectionOf, R, x, W, y, U, T
<1>4. CASE e[1] # l
  <2>1. \A h \in {e, Other(e)} : peer'[h] = peer[h] /\ stream'[h] = stream[h]
    BY <1>1, <1>2, <1>4
  <2> QED BY <1>1, <2>1, NothingHere
<1> QED BY <1>3, <1>4

LEMMA HandleGetBlocksCatches ==
  ASSUME CatchInv, NEW g \in Ends, HandleGetBlocks(g)
  PROVE  DirectionsOK'
<1> DEFINE f == Other(g)
           R == known[g[2]]
           x == tip[g[2]]
           W == known[f[2]]
           y == tip[f[2]]
           U == unannounced[f[2]]
           V == unannounced[g[2]]
           p == peer[g]
           q == peer[f]
           S == stream[g]
           T == stream[f]
           p2 == peer'[g]
           k == Head(S).from_height
           bs == collect_blocks(g[2], k)
           m == Blocks(bs)
<1>1. /\ peer \in [Ends -> Peer] /\ stream \in [Ends -> Seq(Message)]
      /\ NodesOK /\ ConnectionsOK(peer, stream)
      /\ f \in Ends /\ f # g /\ g[2] \in Nodes
      /\ S \in Seq(Message) /\ T \in Seq(Message)
      /\ p.phase = "serving" => p.phase \in Listening
      /\ q.phase = "serving" => q.phase \in Listening
  BY OtherNode DEF CatchInv, GossipInv, ConnectionsOK, Listening
<1>2. /\ p.phase = "serving" /\ S # <<>> /\ Head(S).type = "GetBlocks" /\ p.blocks = <<>>
      /\ UNCHANGED <<known, tip, unannounced, reordered>>
      /\ (Reply(g, <<m>>) /\ UNCHANGED peer) \/ CloseLink(g[1])
  BY <1>1 DEF HandleGetBlocks, Reads, Selecting
<1>3. CASE CloseLink(g[1])
  BY <1>2, <1>3, CloseLinkCatches
<1>4. CASE Reply(g, <<m>>) /\ UNCHANGED peer
  <2>1. Head(S) \in Message /\ k \in Nat \ {0}
    <3>1. Head(S) \in Message
      BY <1>1, <1>2, TailFacts
    <3> HIDE DEF S
    <3> QED BY <1>2, <3>1, MessageTypes
  <2> HIDE DEF k
  <2>2. m \in Message /\ m.type = "Blocks" /\ m.blocks = bs
    BY <1>1, <2>1, CollectedAreBlocks, MessageTypes DEF Blocks
  <2> HIDE DEF bs, m
  <2>3. T \o <<m>> = Append(T, m)
    BY <1>1, <2>2, OneMore
  <2>4. /\ stream'[g] = Tail(S) /\ stream'[f] = Append(T, m)
        /\ \A e \in Ends \ {g, f} : stream'[e] = stream[e]
    BY <1>1, <1>4, <2>3 DEF Reply
  <2>5. Acts(g)
    BY <1>2, <1>4, <2>4 DEF Acts
  <2>6. ASSUME Alone(g[1])
        PROVE  /\ Direction(R, x, W, y, U, reordered, p, q, Tail(S), Append(T, m))
               /\ Direction(W, y, R, x, V, reordered, q, p, Append(T, m), Tail(S))
    <3>1. /\ Setting(R, x, W, y, U, p, q, S, T)
          /\ Direction(R, x, W, y, U, reordered, p, q, S, T)
          /\ Setting(W, y, R, x, V, q, p, T, S)
          /\ Direction(W, y, R, x, V, reordered, q, p, T, S)
      BY <2>6, BothHere
    <3>2. Height(y) \in Nat /\ Height(x) \in Nat /\ q.told \in Nat
      BY <3>1, SettingFacts
    <3>3. k = Height(y) + 1 /\ Height(y) < Height(x) => Starts(bs, y)
      BY <1>1, <3>2, AnswerStarts DEF bs, Starts
    <3>4. Line(W, R) => q.told <= Height(x)
      BY <3>1 DEF Direction, Informed
    <3> HIDE DEF f, R, x, W, y, U, V, p, q, S, T
    <3>5. \A b : Head(S) # NewBlock(b)
      BY <1>2 DEF NewBlock
    <3>6. \A i \in DOMAIN T : \E j \in DOMAIN Append(T, m) : Append(T, m)[j] = T[i]
      BY <1>1, <2>2, OthersAreKept
    <3>7. Direction(R, x, W, y, U, reordered, p, q, Tail(S), Append(T, m))
      BY <1>2, <3>1, <3>5, <3>6, ReaderGoesOn
    <3>8. \A i \in DOMAIN S : S[i] = GetBlocks(Height(y) + 1) =>
            \/ \E j \in DOMAIN Tail(S) : Tail(S)[j] = S[i]
            \/ Line(W, R) /\ q.told > Height(y) => m.type = "Blocks" /\ Starts(m.blocks, y)
      <4> SUFFICES ASSUME NEW i \in DOMAIN S, S[i] = GetBlocks(Height(y) + 1),
                          Line(W, R), q.told > Height(y),
                          ~ \E j \in DOMAIN Tail(S) : Tail(S)[j] = S[i]
                   PROVE  Starts(m.blocks, y)
        BY <2>2
      <4>1. Head(S) = GetBlocks(Height(y) + 1)
        BY <1>1, <1>2, OthersAreKept
      <4>2. k = Height(y) + 1
        BY <4>1 DEF k, GetBlocks
      <4>3. Height(y) < Height(x)
        BY <3>2, <3>4
      <4> QED BY <2>2, <3>3, <4>2, <4>3
    <3>9. p.announcements \in Seq(Block) /\ V \subseteq Block
      <4>1. V \subseteq Block
        BY <3>1 DEF Setting
      <4> QED BY <3>1, <4>1, SettingFacts
    <3>10. p.phase \in Listening /\ m.type # "NewBlock" /\ m.type # "Hello"
      BY <1>1, <1>2, <2>2
    <3>11. Direction(W, y, R, x, V, reordered, q, p, Append(T, m), Tail(S))
      BY <1>1, <2>2, <3>1, <3>8, <3>9, <3>10, WriterWrites
    <3> QED BY <3>7, <3>11
  <2> QED BY <1>2, <1>4, <2>4, <2>5, <2>6, BothDirections
<1> QED BY <1>2, <1>3, <1>4

LEMMA MineCatches ==
  ASSUME CatchInv, NEW n \in Nodes, Mine(n)
  PROVE  DirectionsOK' /\ TipsAreHeaviest'
<1>1. PICK b \in Block :
        /\ ParentOf[b] = tip[n] /\ \A m \in Nodes : b \notin known[m]
        /\ ingest(n, b)
        /\ unannounced' = [unannounced EXCEPT ![n] = @ \cup {b}]
        /\ UNCHANGED <<peer, stream, reordered>>
  BY DEF Mine
<1>2. /\ NodesOK /\ Holds(known[n], tip[n])
      /\ unannounced'[n] = unannounced[n] \cup {b}
      /\ \A m \in Nodes \ {n} : unannounced'[m] = unannounced[m]
  BY <1>1 DEF CatchInv, GossipInv, NodesOK, TipsAreHeaviest
<1>3. Leads(known[n], tip[n], b)
  BY <1>1, <1>2, WorkGrows DEF Leads, Fits, Holds
<1>4. /\ known'[n] = known[n] \cup {b} /\ tip'[n] = b
      /\ \A m \in Nodes \ {n} : known'[m] = known[m] /\ tip'[m] = tip[m]
      /\ TipsAreHeaviest'
  BY <1>1, <1>2, <1>3, IngestLearns DEF CatchInv, Learned, NewTip, Leads
<1>5. Holds(known[n] \cup {b}, b)
  BY <1>4 DEF TipsAreHeaviest
<1>6. ASSUME NEW e \in Ends, Alone(e[1])
      PROVE  DirectionOf(e)'
  <2>1. /\ Other(e) \in Ends /\ e[2] \in Nodes /\ Other(e)[2] \in Nodes
        /\ e[2] # Other(e)[2]
    BY OtherEnd, OtherNode
  <2> DEFINE R == known[e[2]]
             x == tip[e[2]]
             W == known[Other(e)[2]]
             y == tip[Other(e)[2]]
             U == unannounced[Other(e)[2]]
             p == peer[e]
             q == peer[Other(e)]
             S == stream[e]
             T == stream[Other(e)]
  <2>2. Setting(R, x, W, y, U, p, q, S, T) /\ Direction(R, x, W, y, U, reordered, p, q, S, T)
    BY <1>6, BothHere
  <2>3. CASE e[2] = n
    <3>1. Holds(R \cup {b}, b) /\ b \notin W
      BY <1>1, <1>5, <2>1, <2>3
    <3>2. Direction(R \cup {b}, b, W, y, U, reordered, p, q, S, T)
      <4> HIDE DEF R, x, W, y, U, p, q, S, T
      <4> QED BY <2>2, <3>1, ReaderMines
    <3> QED BY <1>1, <1>2, <1>4, <2>1, <2>3, <3>2 DEF DirectionOf
  <2>4. CASE Other(e)[2] = n
    <3>1. Holds(W \cup {b}, b) /\ b \notin W
      BY <1>1, <1>5, <2>1, <2>4
    <3>2. Direction(R, x, W \cup {b}, b, U \cup {b}, reordered, p, q, S, T)
      <4> HIDE DEF R, x, W, y, U, p, q, S, T
      <4> QED BY <2>2, <3>1, WriterMines
    <3> QED BY <1>1, <1>2, <1>4, <2>1, <2>4, <3>2 DEF DirectionOf
  <2>5. CASE e[2] # n /\ Other(e)[2] # n
    BY <1>1, <1>2, <1>4, <1>6, <2>1, <2>5, NothingHere
  <2> QED BY <2>3, <2>4, <2>5
<1> QED BY <1>4, <1>6 DEF DirectionsOK, Alone

LEMMA AnnounceCatches ==
  ASSUME CatchInv, NEW n \in Nodes, NEW b \in Block, Announce(n, b)
  PROVE  DirectionsOK'
<1>1. /\ b \in unannounced[n] /\ unannounced' = [unannounced EXCEPT ![n] = @ \ {b}]
      /\ peer' = [e \in Ends |-> IF e[2] = n THEN Announced(e, b) ELSE peer[e]]
      /\ reordered \subseteq reordered'
      /\ Branch(ParentOf[b]) \cap unannounced[n] # {} => b \in reordered'
      /\ UNCHANGED <<known, tip, stream>>
  BY DEF Announce
<1>2. /\ NodesOK /\ ConnectionsOK(peer, stream) /\ peer \in [Ends -> Peer]
      /\ unannounced'[n] = unannounced[n] \ {b}
      /\ \A m \in Nodes \ {n} : unannounced'[m] = unannounced[m]
  BY <1>1 DEF CatchInv, GossipInv, NodesOK, ConnectionsOK
<1>3. ASSUME NEW e \in Ends
      PROVE  LET p == peer[e]
                 p2 == Announced(e, b)
             IN  /\ p2.phase = p.phase /\ p2.told = p.told /\ p2.blocks = p.blocks
                 /\ p2.progressed = p.progressed
                 /\ \/ p.phase \notin Listening /\ p2.announcements = p.announcements
                    \/ /\ p.phase \in Listening
                       /\ \E A1 \in Seq(Block) :
                            /\ p2.announcements = Append(A1, b)
                            /\ A1 = p.announcements
                               \/ (p.announcements # <<>> /\ A1 = Tail(p.announcements))
  <2> DEFINE p == peer[e]
             A == p.announcements
             A1 == IF Lags(e) THEN Tail(A) ELSE A
  <2>1. p \in Peer /\ A \in Seq(Block) /\ AnnounceCapacity \in Nat \ {0}
    BY <1>2, GossipAssumption, PeerTypes
  <2>2. Lags(e) => A # <<>>
    <3>1. A = <<>> => Len(A) = 0
      BY <2>1, EmptySeq
    <3> QED BY <2>1, <3>1 DEF Lags
  <2>3. A1 \in Seq(Block)
    BY <2>1, <2>2, TailFacts
  <2>4. CASE p.phase \in Listening
    <3>1. Announced(e, b) = [p EXCEPT !.announcements = Append(A1, b)]
      BY <2>1, <2>4 DEF Announced, Subscribed, Listening, Peer
    <3> HIDE DEF A1
    <3>2. Announced(e, b).announcements = Append(A1, b)
      BY <2>1, <3>1 DEF Peer
    <3>3. A1 = A \/ (A # <<>> /\ A1 = Tail(A))
      BY <2>2 DEF A1
    <3> QED BY <2>1, <2>3, <2>4, <3>1, <3>2, <3>3 DEF Peer
  <2>5. CASE p.phase \notin Listening
    BY <2>5 DEF Announced, Subscribed, Listening
  <2> QED BY <2>4, <2>5
<1>4. ASSUME NEW e \in Ends, Alone(e[1])
      PROVE  DirectionOf(e)'
  <2>1. /\ Other(e) \in Ends /\ e[2] \in Nodes /\ Other(e)[2] \in Nodes
        /\ e[2] # Other(e)[2]
    BY OtherEnd, OtherNode
  <2> DEFINE R == known[e[2]]
             x == tip[e[2]]
             W == known[Other(e)[2]]
             y == tip[Other(e)[2]]
             U == unannounced[Other(e)[2]]
             p == peer[e]
             q == peer[Other(e)]
             S == stream[e]
             T == stream[Other(e)]
             p2 == Announced(e, b)
             q2 == Announced(Other(e), b)
  <2>2. Setting(R, x, W, y, U, p, q, S, T) /\ Direction(R, x, W, y, U, reordered, p, q, S, T)
    BY <1>4, BothHere
  <2>3. CASE e[2] = n
    <3>1. peer'[e] = p2 /\ peer'[Other(e)] = q
      BY <1>1, <2>1, <2>3
    <3>2. /\ p2.phase = p.phase /\ p2.told = p.told /\ p2.blocks = p.blocks
          /\ p2.progressed = p.progressed
      BY <1>3
    <3>3. p.told # 0 => p.phase \in Listening
      BY <2>2 DEF Direction, Speaks
    <3>4. q.phase = "serving" => q.phase \in Listening
      BY DEF Listening
    <3>5. Direction(R, x, W, y, U, reordered', p2, q, S, T)
      <4> HIDE DEF R, x, W, y, U, p, q, S, T, p2
      <4>1. Rests(p, q, T, p2, q, T)
        BY <3>2, <3>3, <3>4 DEF Rests
      <4> QED BY <1>1, <2>2, <4>1, NothingToRead
    <3> QED BY <1>1, <1>2, <2>1, <2>3, <3>1, <3>5 DEF DirectionOf
  <2>4. CASE Other(e)[2] = n
    <3>1. peer'[e] = p /\ peer'[Other(e)] = q2
      BY <1>1, <2>1, <2>4
    <3>2. /\ q2.phase = q.phase
          /\ \/ q.phase \notin Listening /\ q2.announcements = q.announcements
             \/ /\ q.phase \in Listening
                /\ \E A1 \in Seq(Block) :
                     /\ q2.announcements = Append(A1, b)
                     /\ A1 = q.announcements
                        \/ (q.announcements # <<>> /\ A1 = Tail(q.announcements))
      BY <1>3, <2>1
    <3>3. b \in U /\ (Branch(ParentOf[b]) \cap U # {} => b \in reordered')
      BY <1>1, <2>4
    <3>4. Direction(R, x, W, y, U \ {b}, reordered', p, q2, S, T)
      <4> HIDE DEF R, x, W, y, U, p, q, S, T, q2
      <4> QED BY <1>1, <2>2, <3>2, <3>3, WriterAnnounces
    <3> QED BY <1>1, <1>2, <2>1, <2>4, <3>1, <3>4 DEF DirectionOf
  <2>5. CASE e[2] # n /\ Other(e)[2] # n
    BY <1>1, <1>2, <1>4, <2>1, <2>5, NothingHere
  <2> QED BY <2>3, <2>4, <2>5
<1> QED BY <1>4 DEF DirectionsOK, Alone

LEMMA StepCatchInv ==
  ASSUME CatchInv, [Next]_vars
  PROVE  CatchInv'
<1>1. GossipInv' /\ FlowInv'
  BY StepGossipInv, StepFlowInv DEF CatchInv
<1>2. UNCHANGED <<known, tip>> => TipsAreHeaviest'
  BY DEF CatchInv, TipsAreHeaviest
<1>3. ASSUME NEW n \in Nodes, Mine(n)
      PROVE  DirectionsOK' /\ TipsAreHeaviest'
  BY <1>3, MineCatches
<1>4. ASSUME NEW n \in Nodes, AnnounceAny(n)
      PROVE  DirectionsOK' /\ TipsAreHeaviest'
  <2>1. PICK b \in Block : Announce(n, b)
    BY <1>4 DEF AnnounceAny
  <2>2. UNCHANGED <<known, tip>>
    BY <2>1 DEF Announce
  <2> QED BY <1>2, <2>1, <2>2, AnnounceCatches
<1>5. ASSUME NEW l \in Links, Connect(l)
      PROVE  DirectionsOK' /\ TipsAreHeaviest'
  <2>1. UNCHANGED <<known, tip>>
    BY <1>5 DEF Connect
  <2> QED BY <1>2, <1>5, <2>1, ConnectCatches
<1>6. ASSUME NEW l, CloseLink(l), UNCHANGED <<known, tip, unannounced, reordered>>
      PROVE  DirectionsOK' /\ TipsAreHeaviest'
  BY <1>2, <1>6, CloseLinkCatches
<1>7. ASSUME NEW e \in Ends, HandleNewBlock(e) \/ IngestNext(e)
      PROVE  DirectionsOK' /\ TipsAreHeaviest'
  BY <1>7, HandleNewBlockCatches, IngestNextCatches
<1>8. ASSUME NEW e \in Ends, SendHello(e) \/ Subscribe(e) \/ HandleHello(e)
                             \/ HandleGetBlocks(e) \/ HandleBlocks(e)
      PROVE  DirectionsOK' /\ TipsAreHeaviest'
  <2>1. UNCHANGED <<known, tip>>
    BY <1>8 DEF SendHello, Subscribe, HandleHello, HandleGetBlocks, HandleBlocks
  <2> QED BY <1>2, <1>8, <2>1, SendHelloCatches, SubscribeCatches, HandleHelloCatches,
             HandleGetBlocksCatches, HandleBlocksCatches
<1>9. ASSUME NEW e \in Ends, SendAnnouncement(e) \/ TearFrame(e) \/ SwallowFrame(e)
      PROVE  DirectionsOK' /\ TipsAreHeaviest'
  <2>1. UNCHANGED <<known, tip>>
    BY <1>9 DEF SendAnnouncement, TearFrame, SwallowFrame
  <2> QED BY <1>2, <1>9, <2>1, SendAnnouncementCatches, TearFrameCatches, SwallowFrameCatches
<1>10. ASSUME NEW l \in Links, DropLink(l)
       PROVE  DirectionsOK' /\ TipsAreHeaviest'
  <2>1. CloseLink(l) /\ UNCHANGED <<known, tip, unannounced, reordered>>
    BY <1>10 DEF DropLink
  <2> QED BY <1>6, <2>1
<1>11. ASSUME NEW e \in Ends, RefuseFrame(e)
       PROVE  DirectionsOK' /\ TipsAreHeaviest'
  <2>1. CloseLink(e[1]) /\ UNCHANGED <<known, tip, unannounced, reordered>>
    BY <1>11 DEF RefuseFrame
  <2> QED BY <1>6, <2>1
<1>12. ASSUME UNCHANGED vars
       PROVE  DirectionsOK' /\ TipsAreHeaviest'
  <2>1. UNCHANGED <<known, tip, unannounced, peer, stream, reordered>>
    BY <1>12 DEF vars
  <2>2. DirectionsOK'
    BY <2>1 DEF CatchInv, DirectionsOK, DirectionOf
  <2> QED BY <1>2, <2>1, <2>2
<1>13. DirectionsOK' /\ TipsAreHeaviest'
  BY <1>3, <1>4, <1>5, <1>7, <1>8, <1>9, <1>10, <1>11, <1>12 DEF Next, run_peer, HandleFrame
<1> QED BY <1>1, <1>13 DEF CatchInv

LEMMA InitCatchInv ==
  ASSUME Init
  PROVE  CatchInv
<1>1. Holds({Genesis}, Genesis)
  BY WorkGrows DEF Holds, AllBlocks
<1>2. TipsAreHeaviest
  BY <1>1 DEF Init, TipsAreHeaviest
<1>3. ASSUME NEW e \in Ends
      PROVE  DirectionOf(e)
  <2>1. /\ Other(e) \in Ends /\ e[2] \in Nodes /\ Other(e)[2] \in Nodes
    BY OtherNode
  <2>2. Closed.told = 0 /\ Closed.phase \in Silent /\ Closed.announcements = <<>>
    BY DEF Closed, Silent
  <2>3. LastToAnnounce({Genesis}, Genesis, {}) /\ Genesis \in AllBlocks
    BY DEF LastToAnnounce, AllBlocks
  <2>4. Direction({Genesis}, Genesis, {Genesis}, Genesis, {}, {}, Closed, Closed, <<>>, <<>>)
    BY <2>2, <2>3, LinkBegins
  <2> QED BY <2>1, <2>4 DEF DirectionOf, Init
<1>4. GossipInv /\ FlowInv
  BY InitGossipInv, InitFlowInv
<1> QED BY <1>2, <1>3, <1>4 DEF CatchInv, DirectionsOK

\* The invariant of catching up, for every network, tree of blocks, capacity and
\* number of faults: a node's tip is the heaviest block it has, and of two nodes
\* that have no other connection each either has what it was told of, or its
\* missing blocks are announced to it, asked for, or on their way.
THEOREM CatchInvariant == Spec => []CatchInv
<1>1. Init => CatchInv
  BY InitCatchInv
<1>2. CatchInv /\ [Next]_vars => CatchInv'
  BY StepCatchInv
<1> QED BY <1>1, <1>2, PTL DEF Spec

\* A node that was told of a height, in a Hello or by a block, has reached it when
\* the connection comes to rest: one request follows another until the answer
\* brings nothing (IngestNext), and an announcement that overtakes them moves the
\* height the next one asks for.
THEOREM ToldHeightsAreReached == Spec => []QuietMeansCaughtUp
<1>1. CatchInv => QuietMeansCaughtUp
  <2> SUFFICES ASSUME CatchInv, NEW e \in Ends, Quiet(e[1]), Alone(e[1]), OneBranch(e[1]),
                      Clean(tip[Other(e)[2]], reordered)
               PROVE  Height(tip[e[2]]) >= peer[e].told
    BY DEF QuietMeansCaughtUp, Clean
  <2> DEFINE R == known[e[2]]
             x == tip[e[2]]
             W == known[Other(e)[2]]
             y == tip[Other(e)[2]]
             U == unannounced[Other(e)[2]]
             p == peer[e]
             q == peer[Other(e)]
             S == stream[e]
             T == stream[Other(e)]
  <2>1. Setting(R, x, W, y, U, p, q, S, T) /\ Direction(R, x, W, y, U, reordered, p, q, S, T)
    BY BothHere
  <2>2. /\ Other(e) \in Ends /\ Other(e)[1] = e[1]
        /\ {e[2], Other(e)[2]} = {e[1][1], e[1][2]}
    BY OtherEnd
  <2>3. Line(R, W)
    <3>1. known[e[1][1]] \cup known[e[1][2]] = R \cup W
      BY <2>2
    <3> QED BY <3>1 DEF OneBranch, Line
  <2>4. /\ p.phase = "serving" /\ q.phase = "serving"
        /\ q.announcements = <<>> /\ p.blocks = <<>> /\ S = <<>> /\ T = <<>> /\ U = {}
    BY <2>2 DEF Quiet
  <2>5. Height(x) \in Nat /\ p.told \in Nat
    BY <2>1, SettingFacts
  <2>6. CatchesUp(x, y, U, p, q, S, T)
    BY <2>1, <2>3 DEF Direction, Orderly
  <2> HIDE DEF R, x, W, y, U, p, q, S, T
  <2>7. DOMAIN <<>> = {}
    OBVIOUS
  <2>8. ~Asked(x, p, S, T) /\ ~Coming(y, U, q.announcements, S)
    BY <2>4, <2>7 DEF Asked, Coming, OnItsWay
  <2>9. ~(p.told > Height(x))
    BY <2>4, <2>6, <2>8 DEF CatchesUp
  <2>10. Height(x) >= p.told
    BY <2>5, <2>9
  <2> QED BY <2>10 DEF x, p
<1> QED BY <1>1, CatchInvariant, PTL
=============================================================================
