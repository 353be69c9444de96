--------------------------- MODULE LogPath_proofs ---------------------------
(***************************************************************************)
(* Proofs about LogPath, for every set of nodes, every length of a record, *)
(* every size of a payload, of the queue and of the transmit FIFO.         *)
(***************************************************************************)
EXTENDS LogPath, SequenceTheorems, TLAPS

----------------------------------------------------------------------------
(* The inductive invariant *)

NodeRecords ==
  [queue : Seq(Records), active : Records \cup {None}, fragment : Nat, built : BOOLEAN,
   frame : Frames \cup {None}, bufferFull : BOOLEAN, fifo : Seq(Frames \cup {Other}),
   assigned : BOOLEAN, registered : BOOLEAN]

\* A frame the backend of node n has built: all but its payload follows from its place.
Proper(n, frame) ==
  /\ frame \in Frames
  /\ frame.record.node = n
  /\ frame.index <= LastFragment(frame.record)
  /\ frame.start <=> frame.index = 0
  /\ frame.end <=> frame.index = LastFragment(frame.record)

\* Fragment index of a record comes after the frame.
Precedes(frame, record, index) ==
  \/ frame.record.number < record.number
  \/ frame.record = record /\ frame.index < index

\* Everything the node has still to build comes after the frame.
Done(node, count, frame) ==
  /\ frame.record.number <= count
  /\ node.active # None => Precedes(frame, node.active, node.fragment)
  /\ \A i \in 1 .. Len(node.queue) : frame.record.number < node.queue[i].number

\* The records not yet built are numbered as they were written.
QueueInv(n, node, count) ==
  /\ node.active # None =>
       /\ node.active.node = n /\ node.active.number <= count
       /\ node.fragment <= LastFragment(node.active)
       /\ \A i \in 1 .. Len(node.queue) : node.active.number < node.queue[i].number
  /\ \A i \in 1 .. Len(node.queue) : node.queue[i].node = n /\ node.queue[i].number <= count
  /\ \A i, j \in 1 .. Len(node.queue) : i < j => node.queue[i].number < node.queue[j].number

\* The buffer holds the fragment under way, or the last one, which waits for the FIFO.
BufferInv(n, node, count) ==
  /\ node.built =>
       /\ node.active # None /\ ~ node.bufferFull
       /\ Proper(n, node.frame)
       /\ node.frame.record = node.active /\ node.frame.index = node.fragment
  /\ node.bufferFull => Proper(n, node.frame) /\ Done(node, count, node.frame)

\* The FIFO holds the fragments before that, in their order.
FifoInv(n, node, count) ==
  /\ \A i \in 1 .. Len(node.fifo) : node.fifo[i] # Other =>
       /\ Proper(n, node.fifo[i]) /\ Done(node, count, node.fifo[i])
       /\ node.bufferFull => Precedes(node.fifo[i], node.frame.record, node.frame.index)
  /\ \A i, j \in 1 .. Len(node.fifo) :
       i < j /\ node.fifo[i] # Other /\ node.fifo[j] # Other =>
         Precedes(node.fifo[i], node.fifo[j].record, node.fifo[j].index)

\* What has arrived comes before all that.
ArrivedInv(n, node, count, last) ==
  last # None =>
    /\ Proper(n, last) /\ Done(node, count, last)
    /\ node.bufferFull => Precedes(last, node.frame.record, node.frame.index)
    /\ \A i \in 1 .. Len(node.fifo) : node.fifo[i] # Other =>
         Precedes(last, node.fifo[i].record, node.fifo[i].index)

NodeCore(n, node, count, last) ==
  /\ node \in NodeRecords /\ count \in 0 .. MaxRecords /\ last \in Frames \cup {None}
  /\ BlocksInUse(node) <= QueueCapacity /\ Len(node.fifo) <= FifoDepth
  /\ QueueInv(n, node, count)
  /\ BufferInv(n, node, count)
  /\ FifoInv(n, node, count)
  /\ ArrivedInv(n, node, count, last)

NodeInv(n, node, count, last) ==
  NodeCore(n, node, count, last) /\ (node.bufferFull => node.fifo # <<>>)

NodesInv ==
  /\ mcu \in [Nodes -> NodeRecords]
  /\ written \in [Nodes -> 0 .. MaxRecords]
  /\ before \in [Nodes -> Frames \cup {None}]
  /\ \A n \in Nodes : NodeInv(n, mcu[n], written[n], before[n])

ReceiverTypes ==
  /\ receiver \in [active : BOOLEAN, line : Seq(Frames), next_fragment : Nat]
  /\ receiver.next_fragment = Len(receiver.line)
  /\ sink \in Seq(Frames) /\ spoilt \in BOOLEAN

LogInv == NodesInv /\ ReceiverTypes

\* The first k fragments of a record.
Begins(line, record, k) ==
  line = [i \in 1 .. k |-> ULogCanWire_BuildFrame(record, i - 1)]

\* With one node: what is under assembly begins the record of the last frame, not its last one.
Assembly(n) ==
  receiver.active /\ ~ spoilt =>
    /\ before[n] # None /\ before[n].index < LastFragment(before[n].record)
    /\ Begins(receiver.line, before[n].record, before[n].index + 1)

----------------------------------------------------------------------------
(* Sequences and fragments *)

LEMMA AppendFacts ==
  ASSUME NEW S, NEW s \in Seq(S), NEW e \in S
  PROVE  /\ Append(s, e) \in Seq(S) /\ Append(s, e) # <<>>
         /\ Len(s) \in Nat /\ Len(Append(s, e)) = Len(s) + 1
         /\ \A i \in 1 .. Len(s) : Append(s, e)[i] = s[i]
         /\ Append(s, e)[Len(s) + 1] = e
  OBVIOUS

LEMMA TailFacts ==
  ASSUME NEW S, NEW s \in Seq(S), s # <<>>
  PROVE  /\ Len(s) \in Nat \ {0} /\ Head(s) = s[1] /\ Head(s) \in S
         /\ Tail(s) \in Seq(S) /\ Len(Tail(s)) = Len(s) - 1
         /\ \A i \in 1 .. Len(s) - 1 : Tail(s)[i] = s[i + 1]
  OBVIOUS

\* A number lies between two multiples of the divisor.
LEMMA Quotient ==
  ASSUME NEW a \in Nat, NEW d \in Nat \ {0}
  PROVE  /\ a \div d \in Nat
         /\ (a \div d) * d <= a /\ a < (a \div d + 1) * d
  OBVIOUS

\* Fewer fragments, fewer bytes.
LEMMA Multiples ==
  ASSUME NEW i \in Nat, NEW j \in Nat, NEW d \in Nat, i <= j
  PROVE  i * d \in Nat /\ j * d \in Nat /\ i * d <= j * d
<1>1. PICK k \in Nat : j = i + k
  <2>1. j - i \in Nat /\ j = i + (j - i)
    OBVIOUS
  <2> QED
    BY <2>1
<1>2. j * d = i * d + k * d /\ i * d \in Nat /\ k * d \in Nat
  BY <1>1
<1> QED
  BY <1>2

\* Every fragment up to the last one has a payload that fits, and the last one alone ends its record.
LEMMA Fragmentation ==
  ASSUME NEW record \in Records, NEW index \in Nat, index <= LastFragment(record)
  PROVE  /\ LastFragment(record) \in Nat
         /\ PayloadOf(record, index) \in 0 .. PayloadSize
         /\ index * PayloadSize + PayloadOf(record, index) = record.length
              <=> index = LastFragment(record)
<1> DEFINE L == record.length
           Last == LastFragment(record)
<1>1. L \in Nat /\ PayloadSize \in Nat \ {0}
  BY LogConstants DEF Records
<1>2. CASE L = 0
  <2>1. Last = 0 /\ index = 0
    BY <1>2 DEF LastFragment
  <2>2. 0 * PayloadSize = 0
    BY <1>1
  <2>3. PayloadOf(record, index) = 0
    BY <1>1, <1>2, <2>1, <2>2 DEF PayloadOf
  <2> QED
    BY <1>1, <1>2, <2>1, <2>2, <2>3
<1>3. CASE L # 0
  <2>1. L - 1 \in Nat /\ Last = (L - 1) \div PayloadSize
    BY <1>1, <1>3 DEF LastFragment
  <2>2. Last \in Nat /\ Last * PayloadSize <= L - 1 /\ L - 1 < (Last + 1) * PayloadSize
    <3> HIDE DEF L
    <3> QED
      BY <1>1, <2>1, Quotient
  <2>3. index * PayloadSize \in Nat /\ index * PayloadSize <= Last * PayloadSize
    BY <1>1, <2>2, Multiples DEF Last
  <2>4. /\ Last * PayloadSize \in Nat
        /\ (Last + 1) * PayloadSize = Last * PayloadSize + PayloadSize
        /\ (index + 1) * PayloadSize = index * PayloadSize + PayloadSize
    BY <1>1, <2>2
  <2>5. index * PayloadSize < L
    BY <1>1, <2>1, <2>2, <2>3, <2>4
  <2>6. CASE index = Last
    <3>1. PayloadOf(record, index) = L - index * PayloadSize
      <4>1. L - index * PayloadSize <= PayloadSize
        BY <1>1, <2>2, <2>4, <2>6
      <4> QED
        BY <1>1, <2>3, <4>1 DEF PayloadOf
    <3> QED
      BY <1>1, <2>2, <2>3, <2>4, <2>5, <2>6, <3>1
  <2>7. CASE index # Last
    <3>1. index + 1 <= Last
      BY <2>2, <2>7
    <3>2. (index + 1) * PayloadSize <= Last * PayloadSize
      BY <1>1, <2>2, <3>1, Multiples
    <3>3. L - index * PayloadSize > PayloadSize
      BY <1>1, <2>2, <2>3, <2>4, <3>2
    <3>4. PayloadOf(record, index) = PayloadSize
      BY <1>1, <2>3, <3>3 DEF PayloadOf
    <3> QED
      BY <1>1, <2>2, <2>3, <2>7, <3>3, <3>4
  <2> QED
    BY <2>6, <2>7
<1> QED
  BY <1>2, <1>3

LEMMA LastIsNatural ==
  ASSUME NEW record \in Records
  PROVE  LastFragment(record) \in Nat
<1>1. record.length \in Nat /\ PayloadSize \in Nat \ {0}
  BY LogConstants DEF Records
<1>2. CASE record.length = 0
  BY <1>2 DEF LastFragment
<1>3. CASE record.length # 0
  <2>1. record.length - 1 \in Nat
    BY <1>1, <1>3
  <2>2. (record.length - 1) \div PayloadSize \in Nat
    BY <1>1, <2>1, Quotient
  <2> QED
    BY <1>3, <2>2 DEF LastFragment
<1> QED
  BY <1>2, <1>3

\* The backend builds proper frames.
LEMMA Builds ==
  ASSUME NEW n, NEW record \in Records, record.node = n, NEW index \in Nat,
         index <= LastFragment(record)
  PROVE  /\ Proper(n, ULogCanWire_BuildFrame(record, index))
         /\ ULogCanWire_BuildFrame(record, index).record = record
         /\ ULogCanWire_BuildFrame(record, index).index = index
         /\ ULogCanWire_BuildFrame(record, index).payload = PayloadOf(record, index)
<1>1. PayloadOf(record, index) \in 0 .. PayloadSize
  BY Fragmentation
<1>2. index * PayloadSize + PayloadOf(record, index) = record.length
        <=> index = LastFragment(record)
  BY Fragmentation
<1> QED
  BY <1>1, <1>2 DEF ULogCanWire_BuildFrame, Proper, Frames

----------------------------------------------------------------------------
(* The order of a node's fragments *)

LEMMA PrecedesTransitive ==
  ASSUME NEW f \in Frames, NEW g \in Frames, NEW record \in Records, NEW index \in Nat,
         Precedes(f, g.record, g.index), Precedes(g, record, index)
  PROVE  Precedes(f, record, index)
BY DEF Precedes, Frames, Records

\* A later fragment of the same record comes after what came before an earlier one.
LEMMA PrecedesLater ==
  ASSUME NEW f \in Frames, NEW record \in Records, NEW index \in Nat,
         Precedes(f, record, index)
  PROVE  Precedes(f, record, index + 1)
BY DEF Precedes, Frames, Records

\* The receiver misses no frame that comes in order.
LEMMA PrecedesMissesNone ==
  ASSUME NEW n, NEW f, NEW g, Proper(n, f), Proper(n, g), Precedes(f, g.record, g.index)
  PROVE  Missing(f, g) >= 0
<1>1. /\ f.record \in Records /\ g.record \in Records /\ f.index \in Nat /\ g.index \in Nat
      /\ f.record.number \in Nat /\ g.record.number \in Nat
      /\ f.index <= LastFragment(f.record)
  BY DEF Proper, Frames, Records
<1>2. LastFragment(f.record) \in Nat
  BY <1>1, Fragmentation
<1>3. CASE f.record = g.record
  BY <1>1, <1>3 DEF Precedes, Missing
<1>4. CASE f.record # g.record
  <2>1. f.record.number < g.record.number
    BY <1>4 DEF Precedes
  <2> QED
    BY <1>1, <1>2, <1>4, <2>1 DEF Missing
<1> QED
  BY <1>3, <1>4

----------------------------------------------------------------------------
(* The steps of a node *)

\* A frame that is done stays done when the log thread has less to do and the log more.
LEMMA StaysDone ==
  ASSUME NEW node \in NodeRecords, NEW new \in NodeRecords, NEW count \in Nat, NEW more \in Nat,
         count <= more, new.queue = node.queue, new.active = node.active,
         new.fragment = node.fragment, NEW f \in Frames, Done(node, count, f)
  PROVE  Done(new, more, f)
BY DEF Done, Frames, Records

LEMMA StartedInv ==
  ASSUME NEW n \in Nodes, NEW assigned \in BOOLEAN, NEW count \in 0 .. MaxRecords,
         NEW last \in Frames \cup {None},
         last # None => Proper(n, last) /\ last.record.number <= count
  PROVE  NodeInv(n, StartedNode(assigned), count, last)
<1> DEFINE node == StartedNode(assigned)
<1>1. /\ node.queue = <<>> /\ node.active = None /\ node.fragment = 0 /\ ~ node.built
      /\ node.frame = None /\ ~ node.bufferFull /\ node.fifo = <<>>
  BY DEF StartedNode
<1>2. node \in NodeRecords
  BY DEF StartedNode, NodeRecords
<1> HIDE DEF node
<1>3. Len(node.queue) = 0 /\ Len(node.fifo) = 0 /\ 1 .. Len(node.queue) = {} /\ 1 .. Len(node.fifo) = {}
  BY <1>1
<1>4. BlocksInUse(node) <= QueueCapacity /\ Len(node.fifo) <= FifoDepth
  BY <1>1, <1>3, LogConstants DEF BlocksInUse
<1>5. QueueInv(n, node, count) /\ BufferInv(n, node, count) /\ FifoInv(n, node, count)
  BY <1>1, <1>3 DEF QueueInv, BufferInv, FifoInv
<1>6. ArrivedInv(n, node, count, last)
  BY <1>1, <1>3 DEF ArrivedInv, Done
<1> QED
  BY <1>1, <1>2, <1>4, <1>5, <1>6 DEF NodeInv, NodeCore, node

LEMMA Blocks ==
  ASSUME NEW node, node.queue \in Seq(Records)
  PROVE  /\ BlocksInUse(node) \in Nat
         /\ node.active = None => BlocksInUse(node) = Len(node.queue)
         /\ node.active # None => BlocksInUse(node) = Len(node.queue) + 1
<1>1. Len(node.queue) \in Nat
  OBVIOUS
<1>2. CASE node.active = None
  <2>1. BlocksInUse(node) = Len(node.queue) + 0
    BY <1>2, Zenon DEF BlocksInUse
  <2> QED
    BY <1>1, <1>2, <2>1
<1>3. CASE node.active # None
  <2>1. BlocksInUse(node) = Len(node.queue) + 1
    BY <1>3, Zenon DEF BlocksInUse
  <2> QED
    BY <1>1, <1>3, <2>1
<1> QED
  BY <1>2, <1>3

\* ULogCan_Enqueue: the record behind all others.
LEMMA EnqueueInv ==
  ASSUME NEW n \in Nodes, NEW node, NEW count, NEW last, NodeInv(n, node, count, last),
         count < MaxRecords, BlocksInUse(node) < QueueCapacity,
         NEW record \in Records, record.node = n, record.number = count + 1
  PROVE  NodeInv(n, [node EXCEPT !.queue = Append(@, record)], count + 1, last)
<1> DEFINE new == [node EXCEPT !.queue = Append(@, record)]
<1>1. /\ node \in NodeRecords /\ count \in 0 .. MaxRecords /\ last \in Frames \cup {None}
      /\ BlocksInUse(node) <= QueueCapacity /\ Len(node.fifo) <= FifoDepth
      /\ QueueInv(n, node, count) /\ BufferInv(n, node, count) /\ FifoInv(n, node, count)
      /\ ArrivedInv(n, node, count, last) /\ (node.bufferFull => node.fifo # <<>>)
  BY DEF NodeInv, NodeCore
<1>2. /\ node.queue \in Seq(Records) /\ MaxRecords \in Nat /\ QueueCapacity \in Nat
      /\ node.fifo \in Seq(Frames \cup {Other}) /\ node.active \in Records \cup {None}
  BY <1>1, LogConstants DEF NodeRecords
<1>3. /\ new.queue = Append(node.queue, record) /\ new.active = node.active
      /\ new.fragment = node.fragment /\ new.built = node.built /\ new.frame = node.frame
      /\ new.bufferFull = node.bufferFull /\ new.fifo = node.fifo
  BY <1>1 DEF NodeRecords
<1> HIDE DEF new
<1>4. /\ new.queue \in Seq(Records) /\ Len(node.queue) \in Nat
      /\ Len(new.queue) = Len(node.queue) + 1
      /\ \A i \in 1 .. Len(node.queue) : new.queue[i] = node.queue[i]
      /\ new.queue[Len(node.queue) + 1] = record
  BY <1>2, <1>3, AppendFacts
<1>5. new \in NodeRecords
  BY <1>1, <1>3, <1>4 DEF NodeRecords, new
<1>6. ASSUME NEW f \in Frames, Done(node, count, f) PROVE Done(new, count + 1, f)
  <2>1. /\ f.record.number \in Nat /\ f.record.number <= count
        /\ node.active # None => Precedes(f, node.active, node.fragment)
        /\ \A i \in 1 .. Len(node.queue) : f.record.number < node.queue[i].number
    BY <1>6 DEF Done, Frames, Records
  <2>2. \A i \in 1 .. Len(new.queue) : i \in 1 .. Len(node.queue) \/ i = Len(node.queue) + 1
    BY <1>4
  <2>3. \A i \in 1 .. Len(new.queue) : f.record.number < new.queue[i].number
    <3> SUFFICES ASSUME NEW i \in 1 .. Len(new.queue) PROVE f.record.number < new.queue[i].number
      OBVIOUS
    <3>1. CASE i \in 1 .. Len(node.queue)
      BY <1>4, <2>1, <3>1
    <3>2. CASE i = Len(node.queue) + 1
      <4>1. count \in Nat /\ new.queue[i] = record
        BY <1>1, <1>4, <3>2
      <4> QED
        BY <2>1, <4>1
    <3> QED
      BY <2>2, <3>1, <3>2
  <2>4. f.record.number <= count + 1
    BY <1>1, <2>1
  <2> QED
    BY <1>3, <2>1, <2>3, <2>4 DEF Done
<1>7. BlocksInUse(new) <= QueueCapacity
  <2>1. /\ BlocksInUse(new) \in Nat /\ BlocksInUse(node) \in Nat
        /\ BlocksInUse(new) = BlocksInUse(node) + 1
    BY <1>2, <1>3, <1>4, Blocks
  <2> QED
    BY <1>2, <2>1
<1>8. QueueInv(n, new, count + 1)
  <2>1. \A i \in 1 .. Len(new.queue) :
          \/ i \in 1 .. Len(node.queue) /\ new.queue[i] = node.queue[i]
          \/ i = Len(node.queue) + 1 /\ new.queue[i] = record
    BY <1>4
  <2>2. \A i \in 1 .. Len(node.queue) : node.queue[i].number \in Nat /\ node.queue[i].number <= count
    <3>1. \A i \in 1 .. Len(node.queue) : node.queue[i] \in Records
      BY <1>2
    <3> QED
      BY <1>1, <3>1 DEF QueueInv, Records
  <2>3. ASSUME node.active # None
        PROVE  /\ node.active.node = n /\ node.active.number <= count + 1
               /\ node.active.number < record.number
               /\ node.fragment <= LastFragment(node.active)
               /\ \A i \in 1 .. Len(node.queue) : node.active.number < node.queue[i].number
    <3>1. node.active \in Records
      BY <1>2, <2>3
    <3> QED
      BY <1>1, <2>3, <3>1 DEF QueueInv, Records
  <2>4. \A i, j \in 1 .. Len(new.queue) : i < j => new.queue[i].number < new.queue[j].number
    <3> SUFFICES ASSUME NEW i \in 1 .. Len(new.queue), NEW j \in 1 .. Len(new.queue), i < j
                 PROVE  new.queue[i].number < new.queue[j].number
      OBVIOUS
    <3>1. i \in 1 .. Len(node.queue) /\ new.queue[i] = node.queue[i]
      BY <1>4
    <3>2. CASE j \in 1 .. Len(node.queue)
      BY <1>1, <1>4, <3>1, <3>2 DEF QueueInv
    <3>3. CASE j = Len(node.queue) + 1
      <4>1. new.queue[j] = record /\ count \in Nat
        BY <1>1, <1>4, <3>3
      <4>2. node.queue[i].number \in Nat /\ node.queue[i].number <= count
        BY <2>2, <3>1
      <4> QED
        BY <3>1, <4>1, <4>2
    <3> QED
      BY <1>4, <3>2, <3>3
  <2>5. \A i \in 1 .. Len(new.queue) :
          new.queue[i].node = n /\ new.queue[i].number <= count + 1
    BY <1>1, <2>1, <2>2 DEF QueueInv
  <2> QED
    BY <1>3, <2>1, <2>3, <2>4, <2>5 DEF QueueInv
<1>9. BufferInv(n, new, count + 1)
  BY <1>1, <1>3, <1>6 DEF BufferInv, Proper
<1>10. FifoInv(n, new, count + 1)
  <2>1. \A i \in 1 .. Len(node.fifo) : node.fifo[i] # Other => node.fifo[i] \in Frames
    BY <1>2
  <2> QED
    BY <1>1, <1>3, <1>6, <2>1 DEF FifoInv
<1>11. ArrivedInv(n, new, count + 1, last)
  BY <1>1, <1>3, <1>6 DEF ArrivedInv, Proper
<1>12. count + 1 \in 0 .. MaxRecords
  BY <1>1, <1>2
<1> QED
  BY <1>1, <1>3, <1>5, <1>7, <1>8, <1>9, <1>10, <1>11, <1>12
     DEF NodeInv, NodeCore, new

\* ULogCan_Build of the next fragment of the record under way.
LEMMA BuildNextInv ==
  ASSUME NEW n \in Nodes, NEW node, NEW count, NEW last, NodeInv(n, node, count, last),
         ~ node.built, ~ node.bufferFull, node.active # None,
         NEW new \in NodeRecords, new.queue = node.queue, new.active = node.active,
         new.fragment = node.fragment, new.built = TRUE, new.bufferFull = FALSE,
         new.fifo = node.fifo,
         new.frame = ULogCanWire_BuildFrame(node.active, node.fragment)
  PROVE  NodeInv(n, new, count, last)
<1>1. /\ node \in NodeRecords /\ count \in 0 .. MaxRecords /\ last \in Frames \cup {None}
      /\ BlocksInUse(node) <= QueueCapacity /\ Len(node.fifo) <= FifoDepth
      /\ QueueInv(n, node, count) /\ FifoInv(n, node, count) /\ ArrivedInv(n, node, count, last)
  BY DEF NodeInv, NodeCore
<1>2. /\ node.active \in Records /\ node.active.node = n /\ node.fragment \in Nat
      /\ node.fragment <= LastFragment(node.active)
      /\ node.queue \in Seq(Records) /\ node.fifo \in Seq(Frames \cup {Other})
  BY <1>1 DEF NodeRecords, QueueInv
<1>3. ASSUME NEW f \in Frames, Done(node, count, f) PROVE Done(new, count, f)
  BY <1>1, <1>3, StaysDone
<1>4. BlocksInUse(new) <= QueueCapacity
  BY <1>1 DEF BlocksInUse
<1>5. QueueInv(n, new, count)
  BY <1>1 DEF QueueInv
<1>6. BufferInv(n, new, count)
  BY <1>2, Builds DEF BufferInv
<1>7. FifoInv(n, new, count)
  <2>1. \A i \in 1 .. Len(node.fifo) : node.fifo[i] # Other => node.fifo[i] \in Frames
    BY <1>2
  <2> QED
    BY <1>1, <1>3, <2>1 DEF FifoInv
<1>8. ArrivedInv(n, new, count, last)
  BY <1>1, <1>3 DEF ArrivedInv
<1> QED
  BY <1>1, <1>4, <1>5, <1>6, <1>7, <1>8 DEF NodeInv, NodeCore

\* ULogCan_Build of the first fragment of the record at the head of the queue.
LEMMA BuildFirstInv ==
  ASSUME NEW n \in Nodes, NEW node, NEW count, NEW last, NodeInv(n, node, count, last),
         ~ node.built, ~ node.bufferFull, node.active = None, node.queue # <<>>,
         NEW new \in NodeRecords, new.queue = Tail(node.queue), new.active = Head(node.queue),
         new.fragment = 0, new.built = TRUE, new.bufferFull = FALSE, new.fifo = node.fifo,
         new.frame = ULogCanWire_BuildFrame(Head(node.queue), 0)
  PROVE  NodeInv(n, new, count, last)
<1>1. /\ node \in NodeRecords /\ count \in 0 .. MaxRecords /\ last \in Frames \cup {None}
      /\ BlocksInUse(node) <= QueueCapacity /\ Len(node.fifo) <= FifoDepth
      /\ QueueInv(n, node, count) /\ FifoInv(n, node, count) /\ ArrivedInv(n, node, count, last)
  BY DEF NodeInv, NodeCore
<1>2. node.queue \in Seq(Records) /\ node.fifo \in Seq(Frames \cup {Other})
  BY <1>1 DEF NodeRecords
<1>3. /\ Len(node.queue) \in Nat \ {0} /\ new.active = node.queue[1] /\ new.active \in Records
      /\ new.queue \in Seq(Records) /\ Len(new.queue) = Len(node.queue) - 1
      /\ \A i \in 1 .. Len(new.queue) : i + 1 \in 1 .. Len(node.queue) /\ new.queue[i] = node.queue[i + 1]
      /\ new.active # None
  BY <1>2, TailFacts, NoneIsNothing
<1>4. new.active.node = n /\ new.active.number <= count
  BY <1>1, <1>3 DEF QueueInv
<1>5. LastFragment(new.active) \in Nat /\ 0 <= LastFragment(new.active)
  BY <1>3, LastIsNatural
<1>6. ASSUME NEW f \in Frames, Done(node, count, f) PROVE Done(new, count, f)
  <2>1. /\ f.record.number <= count
        /\ \A i \in 1 .. Len(node.queue) : f.record.number < node.queue[i].number
    BY <1>6 DEF Done
  <2>2. f.record.number < new.active.number
    BY <1>3, <2>1
  <2>3. \A i \in 1 .. Len(new.queue) : f.record.number < new.queue[i].number
    BY <1>3, <2>1
  <2> QED
    BY <2>1, <2>2, <2>3 DEF Done, Precedes
<1>7. BlocksInUse(new) <= QueueCapacity
  <2>1. BlocksInUse(new) = Len(new.queue) + 1 /\ BlocksInUse(node) = Len(node.queue)
    BY <1>2, <1>3, Blocks
  <2> QED
    BY <1>1, <1>3, <2>1
<1>8. QueueInv(n, new, count)
  <2>1. \A i \in 1 .. Len(new.queue) :
          /\ new.queue[i].node = n /\ new.queue[i].number <= count
          /\ new.active.number < new.queue[i].number
    BY <1>1, <1>3 DEF QueueInv
  <2>2. ASSUME NEW i \in 1 .. Len(new.queue), NEW j \in 1 .. Len(new.queue), i < j
        PROVE  new.queue[i].number < new.queue[j].number
    <3>1. i + 1 \in 1 .. Len(node.queue) /\ j + 1 \in 1 .. Len(node.queue) /\ i + 1 < j + 1
      BY <1>3, <2>2
    <3>2. node.queue[i + 1].number < node.queue[j + 1].number
      BY <1>1, <3>1 DEF QueueInv
    <3> QED
      BY <1>3, <3>2
  <2> QED
    BY <1>3, <1>4, <1>5, <2>1, <2>2 DEF QueueInv
<1>9. BufferInv(n, new, count)
  BY <1>3, <1>4, <1>5, Builds DEF BufferInv
<1>10. FifoInv(n, new, count)
  <2>1. \A i \in 1 .. Len(node.fifo) : node.fifo[i] # Other => node.fifo[i] \in Frames
    BY <1>2
  <2> QED
    BY <1>1, <1>6, <2>1 DEF FifoInv
<1>11. ArrivedInv(n, new, count, last)
  BY <1>1, <1>6 DEF ArrivedInv
<1> QED
  BY <1>1, <1>7, <1>8, <1>9, <1>10, <1>11 DEF NodeInv, NodeCore

\* The frame that is built becomes the one that waits, and the backend goes on to the next.
LEMMA HandOverInv ==
  ASSUME NEW n \in Nodes, NEW node, NEW count, NEW last, NodeInv(n, node, count, last),
         node.built,
         NEW new \in NodeRecords, new.queue = node.queue, new.built = FALSE,
         new.bufferFull = TRUE, new.fifo = node.fifo, new.frame = node.frame,
         node.frame.end => new.active = None /\ new.fragment = 0,
         ~ node.frame.end => new.active = node.active /\ new.fragment = node.fragment + 1
  PROVE  NodeCore(n, new, count, last)
<1>1. /\ node \in NodeRecords /\ count \in 0 .. MaxRecords /\ last \in Frames \cup {None}
      /\ BlocksInUse(node) <= QueueCapacity /\ Len(node.fifo) <= FifoDepth
      /\ QueueInv(n, node, count) /\ FifoInv(n, node, count) /\ ArrivedInv(n, node, count, last)
  BY DEF NodeInv, NodeCore
<1>2. /\ node.active # None /\ Proper(n, node.frame)
      /\ node.frame.record = node.active /\ node.frame.index = node.fragment
  BY DEF NodeInv, NodeCore, BufferInv
<1>3. /\ node.active \in Records /\ node.active.node = n /\ node.fragment \in Nat
      /\ node.active.number \in Nat /\ node.active.number <= count
      /\ node.fragment <= LastFragment(node.active) /\ LastFragment(node.active) \in Nat
      /\ node.queue \in Seq(Records) /\ node.fifo \in Seq(Frames \cup {Other})
      /\ \A i \in 1 .. Len(node.queue) : node.active.number < node.queue[i].number
  <2>1. node.active \in Records /\ node.fragment \in Nat /\ node.queue \in Seq(Records)
        /\ node.fifo \in Seq(Frames \cup {Other})
    BY <1>1, <1>2 DEF NodeRecords
  <2>2. node.active.number \in Nat /\ LastFragment(node.active) \in Nat
    BY <2>1, LastIsNatural DEF Records
  <2>3. /\ node.active.node = n /\ node.active.number <= count
        /\ node.fragment <= LastFragment(node.active)
        /\ \A i \in 1 .. Len(node.queue) : node.active.number < node.queue[i].number
    BY <1>1, <1>2, Zenon DEF QueueInv
  <2> QED
    BY <2>1, <2>2, <2>3
<1>4. ~ node.frame.end => node.fragment + 1 <= LastFragment(node.active)
  BY <1>2, <1>3 DEF Proper
<1>5. ASSUME NEW f \in Frames, Done(node, count, f) PROVE Done(new, count, f)
  <2>1. ~ node.frame.end => Precedes(f, new.active, new.fragment)
    BY <1>2, <1>3, <1>5, PrecedesLater DEF Done
  <2> QED
    BY <1>5, <2>1 DEF Done
<1>6. Done(new, count, node.frame)
  BY <1>2, <1>3 DEF Done, Precedes
<1>7. BlocksInUse(new) <= QueueCapacity
  <2>1. /\ BlocksInUse(new) \in {Len(node.queue), Len(node.queue) + 1}
        /\ BlocksInUse(node) = Len(node.queue) + 1 /\ Len(node.queue) \in Nat
        /\ QueueCapacity \in Nat
    <3>1. BlocksInUse(new) = Len(new.queue) \/ BlocksInUse(new) = Len(new.queue) + 1
      BY <1>3, Blocks
    <3> QED
      BY <1>2, <1>3, <3>1, Blocks, LogConstants
  <2> QED
    BY <1>1, <2>1
<1>8. QueueInv(n, new, count)
  BY <1>1, <1>2, <1>3, <1>4 DEF QueueInv
<1>9. BufferInv(n, new, count)
  BY <1>2, <1>6 DEF BufferInv
<1>10. FifoInv(n, new, count)
  <2>1. \A i \in 1 .. Len(node.fifo) : node.fifo[i] # Other =>
          /\ node.fifo[i] \in Frames /\ Done(node, count, node.fifo[i])
          /\ Precedes(node.fifo[i], node.frame.record, node.frame.index)
    BY <1>1, <1>2, <1>3 DEF FifoInv, Done
  <2> QED
    BY <1>1, <1>5, <2>1 DEF FifoInv
<1>11. ArrivedInv(n, new, count, last)
  <2>1. last # None =>
          last \in Frames /\ Done(node, count, last) /\ Precedes(last, node.frame.record, node.frame.index)
    BY <1>1, <1>2 DEF ArrivedInv, Done
  <2> QED
    BY <1>1, <1>5, <2>1 DEF ArrivedInv
<1> QED
  BY <1>1, <1>7, <1>8, <1>9, <1>10, <1>11 DEF NodeCore

\* The frame that waits goes into the FIFO, which has room.
LEMMA RefillInv ==
  ASSUME NEW n \in Nodes, NEW node, NEW count, NEW last, NodeCore(n, node, count, last),
         node.bufferFull, ~ node.built, Len(node.fifo) < FifoDepth,
         NEW new \in NodeRecords, new.queue = node.queue, new.active = node.active,
         new.fragment = node.fragment, new.built = FALSE, new.bufferFull = FALSE,
         new.frame = node.frame, new.fifo = Append(node.fifo, node.frame)
  PROVE  NodeInv(n, new, count, last)
<1>1. /\ node \in NodeRecords /\ count \in 0 .. MaxRecords /\ last \in Frames \cup {None}
      /\ BlocksInUse(node) <= QueueCapacity
      /\ QueueInv(n, node, count) /\ BufferInv(n, node, count)
      /\ FifoInv(n, node, count) /\ ArrivedInv(n, node, count, last)
  BY DEF NodeCore
<1>2. Proper(n, node.frame) /\ Done(node, count, node.frame) /\ node.frame \in Frames
  BY <1>1 DEF BufferInv, Proper
<1>3. node.fifo \in Seq(Frames \cup {Other}) /\ FifoDepth \in Nat
  BY <1>1, LogConstants DEF NodeRecords
<1>4. /\ Len(node.fifo) \in Nat /\ Len(new.fifo) = Len(node.fifo) + 1
      /\ \A i \in 1 .. Len(node.fifo) : new.fifo[i] = node.fifo[i]
      /\ new.fifo[Len(node.fifo) + 1] = node.frame
  BY <1>2, <1>3, AppendFacts
<1>5. ASSUME NEW f \in Frames, Done(node, count, f) PROVE Done(new, count, f)
  BY <1>1, <1>5, StaysDone
<1>6. \A i \in 1 .. Len(new.fifo) : i \in 1 .. Len(node.fifo) \/ i = Len(node.fifo) + 1
  BY <1>4
<1>7. \A i \in 1 .. Len(node.fifo) : node.fifo[i] # Other =>
        /\ node.fifo[i] \in Frames /\ Proper(n, node.fifo[i]) /\ Done(node, count, node.fifo[i])
        /\ Precedes(node.fifo[i], node.frame.record, node.frame.index)
  BY <1>1, <1>3 DEF FifoInv
<1>8. BlocksInUse(new) <= QueueCapacity /\ QueueInv(n, new, count) /\ BufferInv(n, new, count)
  BY <1>1 DEF BlocksInUse, QueueInv, BufferInv
<1>9. FifoInv(n, new, count)
  <2>1. ASSUME NEW i \in 1 .. Len(new.fifo), new.fifo[i] # Other
        PROVE  Proper(n, new.fifo[i]) /\ Done(new, count, new.fifo[i])
    <3>1. CASE i \in 1 .. Len(node.fifo)
      BY <1>4, <1>5, <1>7, <2>1, <3>1
    <3>2. CASE i = Len(node.fifo) + 1
      BY <1>2, <1>4, <1>5, <3>2
    <3> QED
      BY <1>6, <3>1, <3>2
  <2>2. ASSUME NEW i \in 1 .. Len(new.fifo), NEW j \in 1 .. Len(new.fifo),
               i < j, new.fifo[i] # Other, new.fifo[j] # Other
        PROVE  Precedes(new.fifo[i], new.fifo[j].record, new.fifo[j].index)
    <3>1. i \in 1 .. Len(node.fifo)
      BY <1>4, <2>2
    <3>2. CASE j \in 1 .. Len(node.fifo)
      BY <1>1, <1>4, <2>2, <3>1, <3>2 DEF FifoInv
    <3>3. CASE j = Len(node.fifo) + 1
      BY <1>4, <1>7, <2>2, <3>1, <3>3
    <3> QED
      BY <1>6, <3>2, <3>3
  <2> QED
    BY <2>1, <2>2 DEF FifoInv
<1>10. ArrivedInv(n, new, count, last)
  <2> SUFFICES ASSUME last # None PROVE ArrivedInv(n, new, count, last)
    BY DEF ArrivedInv
  <2>1. /\ last \in Frames /\ Proper(n, last) /\ Done(node, count, last)
        /\ Precedes(last, node.frame.record, node.frame.index)
        /\ \A i \in 1 .. Len(node.fifo) : node.fifo[i] # Other =>
             Precedes(last, node.fifo[i].record, node.fifo[i].index)
    BY <1>1 DEF ArrivedInv
  <2>2. ASSUME NEW i \in 1 .. Len(new.fifo), new.fifo[i] # Other
        PROVE  Precedes(last, new.fifo[i].record, new.fifo[i].index)
    <3>1. CASE i \in 1 .. Len(node.fifo)
      BY <1>4, <2>1, <2>2, <3>1
    <3>2. CASE i = Len(node.fifo) + 1
      BY <1>4, <2>1, <3>2
    <3> QED
      BY <1>6, <3>1, <3>2
  <2> QED
    BY <1>5, <2>1, <2>2 DEF ArrivedInv
<1>11. Len(new.fifo) <= FifoDepth
  BY <1>3, <1>4
<1> QED
  BY <1>1, <1>8, <1>9, <1>10, <1>11 DEF NodeInv, NodeCore

\* A frame of another buffer goes into the FIFO.
LEMMA OtherInv ==
  ASSUME NEW n \in Nodes, NEW node, NEW count, NEW last, NodeCore(n, node, count, last),
         Len(node.fifo) < FifoDepth,
         NEW new \in NodeRecords, new.queue = node.queue, new.active = node.active,
         new.fragment = node.fragment, new.built = node.built,
         new.bufferFull = node.bufferFull, new.frame = node.frame,
         new.fifo = Append(node.fifo, Other)
  PROVE  NodeInv(n, new, count, last)
<1>1. /\ node \in NodeRecords /\ count \in 0 .. MaxRecords /\ last \in Frames \cup {None}
      /\ BlocksInUse(node) <= QueueCapacity
      /\ QueueInv(n, node, count) /\ BufferInv(n, node, count)
      /\ FifoInv(n, node, count) /\ ArrivedInv(n, node, count, last)
  BY DEF NodeCore
<1>2. node.fifo \in Seq(Frames \cup {Other}) /\ FifoDepth \in Nat
  BY <1>1, LogConstants DEF NodeRecords
<1>3. /\ Len(node.fifo) \in Nat /\ Len(new.fifo) = Len(node.fifo) + 1 /\ new.fifo # <<>>
      /\ \A i \in 1 .. Len(node.fifo) : new.fifo[i] = node.fifo[i]
      /\ new.fifo[Len(node.fifo) + 1] = Other
  BY <1>2, AppendFacts
<1>4. ASSUME NEW f \in Frames, Done(node, count, f) PROVE Done(new, count, f)
  BY <1>1, <1>4, StaysDone
<1>5. \A i \in 1 .. Len(new.fifo) : new.fifo[i] # Other =>
        i \in 1 .. Len(node.fifo) /\ new.fifo[i] = node.fifo[i] /\ node.fifo[i] \in Frames
  <2>1. \A i \in 1 .. Len(new.fifo) : i \in 1 .. Len(node.fifo) \/ i = Len(node.fifo) + 1
    BY <1>3
  <2> QED
    BY <1>2, <1>3, <2>1
<1>6. BlocksInUse(new) <= QueueCapacity /\ QueueInv(n, new, count)
  BY <1>1 DEF BlocksInUse, QueueInv
<1>7. BufferInv(n, new, count)
  BY <1>1, <1>4 DEF BufferInv, Proper
<1>8. FifoInv(n, new, count)
  BY <1>1, <1>4, <1>5 DEF FifoInv
<1>9. ArrivedInv(n, new, count, last)
  BY <1>1, <1>4, <1>5 DEF ArrivedInv
<1>10. Len(new.fifo) <= FifoDepth
  BY <1>2, <1>3
<1> QED
  BY <1>1, <1>3, <1>6, <1>7, <1>8, <1>9, <1>10 DEF NodeInv, NodeCore

\* The head of the FIFO is transmitted; it arrives or is lost.
LEMMA TransmitInv ==
  ASSUME NEW n \in Nodes, NEW node, NEW count, NEW last, NodeInv(n, node, count, last),
         node.fifo # <<>>,
         NEW new \in NodeRecords, new.queue = node.queue, new.active = node.active,
         new.fragment = node.fragment, new.built = node.built,
         new.bufferFull = node.bufferFull, new.frame = node.frame, new.fifo = Tail(node.fifo),
         NEW arrived, arrived = last \/ (arrived = Head(node.fifo) /\ arrived # Other)
  PROVE  /\ NodeCore(n, new, count, arrived)
         /\ Len(new.fifo) < FifoDepth
         /\ arrived # last =>
              Proper(n, arrived) /\ (last # None => Precedes(last, arrived.record, arrived.index))
<1>1. /\ node \in NodeRecords /\ count \in 0 .. MaxRecords /\ last \in Frames \cup {None}
      /\ BlocksInUse(node) <= QueueCapacity /\ Len(node.fifo) <= FifoDepth
      /\ QueueInv(n, node, count) /\ BufferInv(n, node, count)
      /\ FifoInv(n, node, count) /\ ArrivedInv(n, node, count, last)
  BY DEF NodeInv, NodeCore
<1>2. node.fifo \in Seq(Frames \cup {Other}) /\ FifoDepth \in Nat
  BY <1>1, LogConstants DEF NodeRecords
<1>3. /\ Len(node.fifo) \in Nat \ {0} /\ Len(new.fifo) = Len(node.fifo) - 1
      /\ Head(node.fifo) = node.fifo[1]
      /\ \A i \in 1 .. Len(new.fifo) :
           i + 1 \in 2 .. Len(node.fifo) /\ new.fifo[i] = node.fifo[i + 1]
  BY <1>2, TailFacts
<1>4. ASSUME NEW f \in Frames, Done(node, count, f) PROVE Done(new, count, f)
  BY <1>1, <1>4, StaysDone
<1>5. \A i \in 1 .. Len(new.fifo) : new.fifo[i] # Other =>
        /\ new.fifo[i] \in Frames
        /\ Proper(n, new.fifo[i]) /\ Done(node, count, new.fifo[i])
        /\ node.bufferFull => Precedes(new.fifo[i], node.frame.record, node.frame.index)
        /\ last # None => Precedes(last, new.fifo[i].record, new.fifo[i].index)
        /\ node.fifo[1] # Other => Precedes(node.fifo[1], new.fifo[i].record, new.fifo[i].index)
  <2> SUFFICES ASSUME NEW i \in 1 .. Len(new.fifo), new.fifo[i] # Other
               PROVE  /\ new.fifo[i] \in Frames
                      /\ Proper(n, new.fifo[i]) /\ Done(node, count, new.fifo[i])
                      /\ node.bufferFull =>
                           Precedes(new.fifo[i], node.frame.record, node.frame.index)
                      /\ last # None => Precedes(last, new.fifo[i].record, new.fifo[i].index)
                      /\ node.fifo[1] # Other =>
                           Precedes(node.fifo[1], new.fifo[i].record, new.fifo[i].index)
    OBVIOUS
  <2>1. /\ i + 1 \in 1 .. Len(node.fifo) /\ 1 \in 1 .. Len(node.fifo) /\ 1 < i + 1
        /\ new.fifo[i] = node.fifo[i + 1] /\ node.fifo[i + 1] # Other
    BY <1>3
  <2>2. node.fifo[i + 1] \in Frames
    BY <1>2, <2>1
  <2> QED
    BY <1>1, <2>1, <2>2 DEF FifoInv, ArrivedInv
<1>6. BlocksInUse(new) <= QueueCapacity /\ QueueInv(n, new, count)
  BY <1>1 DEF BlocksInUse, QueueInv
<1>7. BufferInv(n, new, count)
  BY <1>1, <1>4 DEF BufferInv, Proper
<1>8. FifoInv(n, new, count)
  <2>1. ASSUME NEW i \in 1 .. Len(new.fifo), NEW j \in 1 .. Len(new.fifo),
               i < j, new.fifo[i] # Other, new.fifo[j] # Other
        PROVE  Precedes(new.fifo[i], new.fifo[j].record, new.fifo[j].index)
    <3>1. /\ i + 1 \in 1 .. Len(node.fifo) /\ j + 1 \in 1 .. Len(node.fifo) /\ i + 1 < j + 1
          /\ new.fifo[i] = node.fifo[i + 1] /\ new.fifo[j] = node.fifo[j + 1]
      BY <1>3, <2>1
    <3> QED
      BY <1>1, <2>1, <3>1 DEF FifoInv
  <2> QED
    BY <1>4, <1>5, <2>1 DEF FifoInv
<1>9. ASSUME arrived # last
      PROVE  /\ arrived = node.fifo[1] /\ arrived # Other /\ arrived \in Frames
             /\ Proper(n, arrived) /\ Done(node, count, arrived)
             /\ node.bufferFull => Precedes(arrived, node.frame.record, node.frame.index)
             /\ last # None => Precedes(last, arrived.record, arrived.index)
  <2>1. arrived = node.fifo[1] /\ arrived # Other /\ 1 \in 1 .. Len(node.fifo)
    BY <1>3, <1>9
  <2>2. arrived \in Frames
    BY <1>2, <2>1
  <2> QED
    BY <1>1, <2>1, <2>2 DEF FifoInv, ArrivedInv
<1>10. ArrivedInv(n, new, count, arrived)
  <2>1. CASE arrived = last
    BY <1>1, <1>4, <1>5, <2>1 DEF ArrivedInv
  <2>2. CASE arrived # last
    BY <1>4, <1>5, <1>9, <2>2 DEF ArrivedInv
  <2> QED
    BY <2>1, <2>2
<1>11. Len(new.fifo) < FifoDepth /\ Len(new.fifo) <= FifoDepth
  BY <1>1, <1>2, <1>3
<1>12. arrived \in Frames \cup {None}
  BY <1>1, <1>9
<1> QED
  BY <1>1, <1>6, <1>7, <1>8, <1>9, <1>10, <1>11, <1>12 DEF NodeCore

\* CO_CANmodule_init: a frame that is built keeps its place in its record.
LEMMA ReinitialisedInv ==
  ASSUME NEW n \in Nodes, NEW node, NEW count, NEW last, NodeInv(n, node, count, last),
         NEW new \in NodeRecords, new.queue = node.queue, new.active = node.active,
         new.fragment = node.fragment, new.built = node.built, new.bufferFull = FALSE,
         new.fifo = <<>>,
         node.built => /\ new.frame \in Frames /\ new.frame.record = node.frame.record
                       /\ new.frame.index = node.frame.index
                       /\ new.frame.start = node.frame.start /\ new.frame.end = node.frame.end
  PROVE  NodeInv(n, new, count, last)
<1>1. /\ node \in NodeRecords /\ count \in 0 .. MaxRecords /\ last \in Frames \cup {None}
      /\ BlocksInUse(node) <= QueueCapacity
      /\ QueueInv(n, node, count) /\ BufferInv(n, node, count)
      /\ ArrivedInv(n, node, count, last)
  BY DEF NodeInv, NodeCore
<1>2. Len(new.fifo) = 0 /\ 1 .. Len(new.fifo) = {} /\ Len(new.fifo) <= FifoDepth
  BY LogConstants
<1>3. ASSUME NEW f \in Frames, Done(node, count, f) PROVE Done(new, count, f)
  BY <1>1, <1>3, StaysDone
<1>4. BlocksInUse(new) <= QueueCapacity /\ QueueInv(n, new, count)
  BY <1>1 DEF BlocksInUse, QueueInv
<1>5. BufferInv(n, new, count)
  BY <1>1 DEF BufferInv, Proper
<1>6. FifoInv(n, new, count)
  BY <1>2 DEF FifoInv
<1>7. ArrivedInv(n, new, count, last)
  BY <1>1, <1>2, <1>3 DEF ArrivedInv
<1> QED
  BY <1>1, <1>2, <1>4, <1>5, <1>6, <1>7 DEF NodeInv, NodeCore

----------------------------------------------------------------------------
(* The invariant is inductive *)

\* One node takes a step, the others do not.
LEMMA NodeStep ==
  ASSUME NodesInv, NEW n \in Nodes, NEW node, NEW count, NEW last,
         NodeInv(n, node, count, last),
         mcu' = [mcu EXCEPT ![n] = node],
         written' = [written EXCEPT ![n] = count],
         before' = [before EXCEPT ![n] = last]
  PROVE  NodesInv'
<1>1. node \in NodeRecords /\ count \in 0 .. MaxRecords /\ last \in Frames \cup {None}
  BY DEF NodeInv, NodeCore
<1>2. /\ mcu \in [Nodes -> NodeRecords] /\ written \in [Nodes -> 0 .. MaxRecords]
      /\ before \in [Nodes -> Frames \cup {None}]
      /\ \A m \in Nodes : NodeInv(m, mcu[m], written[m], before[m])
  BY DEF NodesInv
<1>3. /\ mcu' \in [Nodes -> NodeRecords] /\ written' \in [Nodes -> 0 .. MaxRecords]
      /\ before' \in [Nodes -> Frames \cup {None}]
  BY <1>1, <1>2
<1>4. ASSUME NEW m \in Nodes PROVE NodeInv(m, mcu'[m], written'[m], before'[m])
  <2>1. CASE m = n
    <3>1. mcu'[m] = node /\ written'[m] = count /\ before'[m] = last
      BY <1>2, <2>1
    <3> QED
      BY <2>1, <3>1
  <2>2. CASE m # n
    <3>1. mcu'[m] = mcu[m] /\ written'[m] = written[m] /\ before'[m] = before[m]
      BY <1>2, <2>2
    <3> QED
      BY <1>2, <3>1
  <2> QED
    BY <2>1, <2>2
<1> QED
  BY <1>3, <1>4 DEF NodesInv, NodeInv, NodeCore, QueueInv, BufferInv, FifoInv, ArrivedInv, Done

LEMMA Kept ==
  ASSUME NodesInv, NEW n \in Nodes
  PROVE  /\ NodeInv(n, mcu[n], written[n], before[n])
         /\ mcu[n] \in NodeRecords /\ written[n] \in 0 .. MaxRecords
         /\ before[n] \in Frames \cup {None}
         /\ written = [written EXCEPT ![n] = written[n]]
         /\ before = [before EXCEPT ![n] = before[n]]
BY DEF NodesInv

LEMMA EnqueueStep ==
  ASSUME NodesInv, NEW n \in Nodes, NEW length \in Lengths, ULogCan_Enqueue(n, length),
         UNCHANGED before
  PROVE  NodesInv'
<1> DEFINE record == [node |-> n, number |-> written[n] + 1, length |-> length]
           node == [mcu[n] EXCEPT !.queue = Append(@, record)]
<1>1. /\ written[n] < MaxRecords /\ BlocksInUse(mcu[n]) < QueueCapacity
      /\ mcu' = [mcu EXCEPT ![n] = node]
      /\ written' = [written EXCEPT ![n] = written[n] + 1]
  BY DEF ULogCan_Enqueue
<1>2. record \in Records /\ record.node = n /\ record.number = written[n] + 1
  BY <1>1, Kept, LogConstants DEF Records
<1> HIDE DEF record
<1>3. NodeInv(n, node, written[n] + 1, before[n])
  BY <1>1, <1>2, Kept, EnqueueInv
<1> HIDE DEF node
<1> QED
  BY <1>1, <1>3, Kept, NodeStep

LEMMA BuildStep ==
  ASSUME NodesInv, NEW n \in Nodes, ULogCan_Build(n), UNCHANGED before
  PROVE  NodesInv'
<1> DEFINE node == mcu[n]
           fresh == node.active = None
           record == IF fresh THEN Head(node.queue) ELSE node.active
           index == IF fresh THEN 0 ELSE node.fragment
           queue == IF fresh THEN Tail(node.queue) ELSE node.queue
           frame == ULogCanWire_BuildFrame(record, index)
           new == [node EXCEPT !.queue = queue, !.active = record, !.fragment = index,
                               !.built = TRUE, !.frame = frame]
<1>1. /\ MayBuild(node) /\ (fresh => node.queue # <<>>)
      /\ mcu' = [mcu EXCEPT ![n] = new] /\ UNCHANGED written
  BY DEF ULogCan_Build
<1>2. NodeInv(n, node, written[n], before[n]) /\ node \in NodeRecords
  BY Kept
<1>3. ~ node.built /\ ~ node.bufferFull /\ node.bufferFull = FALSE
  BY <1>1, <1>2 DEF MayBuild, NodeRecords
<1>4. record \in Records /\ index \in Nat /\ index <= LastFragment(record) /\ record.node = n
  <2>1. QueueInv(n, node, written[n])
    BY <1>2 DEF NodeInv, NodeCore
  <2>2. CASE fresh
    <3>1. /\ Head(node.queue) \in Records /\ Head(node.queue) = node.queue[1]
          /\ 1 \in 1 .. Len(node.queue)
      BY <1>1, <1>2, <2>2, TailFacts DEF NodeRecords
    <3>2. Head(node.queue).node = n
      BY <2>1, <3>1 DEF QueueInv
    <3> QED
      BY <2>2, <3>1, <3>2, LastIsNatural
  <2>3. CASE ~ fresh
    BY <1>2, <2>1, <2>3 DEF NodeRecords, QueueInv
  <2> QED
    BY <2>2, <2>3
<1>5. queue \in Seq(Records)
  BY <1>1, <1>2, TailFacts DEF NodeRecords
<1>6. frame \in Frames
  BY <1>4, Builds DEF Proper
<1>7. /\ new \in NodeRecords
      /\ new.queue = queue /\ new.active = record /\ new.fragment = index /\ new.built = TRUE
      /\ new.frame = frame /\ new.bufferFull = FALSE /\ new.fifo = node.fifo
  <2> HIDE DEF queue, record, index, frame
  <2> QED
    BY <1>2, <1>3, <1>4, <1>5, <1>6 DEF NodeRecords
<1> HIDE DEF new
<1>8. NodeInv(n, new, written[n], before[n])
  <2>1. CASE fresh
    <3>1. record = Head(node.queue) /\ index = 0 /\ queue = Tail(node.queue)
      BY <2>1
    <3>2. node.active = None /\ node.queue # <<>> /\ frame = ULogCanWire_BuildFrame(record, index)
      BY <1>1, <2>1
    <3> HIDE DEF record, index, queue, frame, node
    <3> QED
      BY <1>2, <1>3, <1>7, <3>1, <3>2, BuildFirstInv
  <2>2. CASE ~ fresh
    <3>1. record = node.active /\ index = node.fragment /\ queue = node.queue
      BY <2>2
    <3>2. node.active # None /\ frame = ULogCanWire_BuildFrame(record, index)
      BY <2>2
    <3> HIDE DEF record, index, queue, frame, node
    <3> QED
      BY <1>2, <1>3, <1>7, <3>1, <3>2, BuildNextInv
  <2> QED
    BY <2>1, <2>2
<1> QED
  BY <1>1, <1>8, Kept, NodeStep

LEMMA SendStep ==
  ASSUME NodesInv, NEW n \in Nodes, ULogCan_Send(n), UNCHANGED before
  PROVE  NodesInv'
<1> DEFINE node == mcu[n]
           active == IF node.frame.end THEN None ELSE node.active
           fragment == IF node.frame.end THEN 0 ELSE node.fragment + 1
           sent == [CO_CANsend(node) EXCEPT !.built = FALSE]
           new == [sent EXCEPT !.fragment = IF node.frame.end THEN 0 ELSE @ + 1,
                               !.active = IF node.frame.end THEN None ELSE @]
           waiting == [node EXCEPT !.built = FALSE, !.bufferFull = TRUE,
                                   !.fragment = fragment, !.active = active]
<1>1. NodeInv(n, node, written[n], before[n]) /\ node \in NodeRecords
  BY Kept
<1>2. node.built
  BY DEF ULogCan_Send
<1>3. node.bufferFull = FALSE /\ Proper(n, node.frame) /\ node.frame \in Frames
  BY <1>1, <1>2 DEF NodeInv, NodeCore, BufferInv, NodeRecords, Proper
<1>4. mcu' = [mcu EXCEPT ![n] = new] /\ UNCHANGED written
  <2>1. mcu' = [mcu EXCEPT ![n] = IF node.bufferFull THEN sent ELSE new] /\ UNCHANGED written
    BY Zenon DEF ULogCan_Send
  <2> QED
    BY <1>3, <2>1, Zenon
<1>5. /\ waiting.queue = node.queue /\ waiting.built = FALSE /\ waiting.bufferFull = TRUE
      /\ waiting.fifo = node.fifo /\ waiting.frame = node.frame
      /\ waiting.active = active /\ waiting.fragment = fragment
  BY <1>1 DEF NodeRecords
<1>6. waiting \in NodeRecords
  <2>1. active \in Records \cup {None} /\ fragment \in Nat
    BY <1>1 DEF NodeRecords
  <2> HIDE DEF active, fragment
  <2> QED
    BY <1>1, <2>1 DEF NodeRecords
<1>7. NodeCore(n, waiting, written[n], before[n])
  <2> HIDE DEF node, waiting
  <2> QED
    BY <1>1, <1>2, <1>5, <1>6, HandOverInv
<1>8. CASE Len(node.fifo) < FifoDepth
  <2>1. CO_CANsend(node) = [node EXCEPT !.fifo = Append(@, node.frame)]
    BY <1>8 DEF CO_CANsend
  <2> DEFINE fifo == Append(node.fifo, node.frame)
             filled == [node EXCEPT !.fifo = fifo, !.built = FALSE, !.fragment = fragment,
                                    !.active = active]
  <2>2. new = filled
    BY <1>1, <2>1 DEF NodeRecords
  <2>3. fifo \in Seq(Frames \cup {Other})
    BY <1>1, <1>3, AppendFacts DEF NodeRecords
  <2>4. active \in Records \cup {None} /\ fragment \in Nat
    BY <1>1 DEF NodeRecords
  <2>5. /\ filled \in NodeRecords
        /\ filled.queue = node.queue /\ filled.active = active /\ filled.fragment = fragment
        /\ filled.built = FALSE /\ filled.bufferFull = FALSE
        /\ filled.frame = node.frame /\ filled.fifo = fifo
    <3> HIDE DEF active, fragment, fifo
    <3> QED
      BY <1>1, <1>3, <2>3, <2>4 DEF NodeRecords
  <2> HIDE DEF new, filled
  <2>6. NodeInv(n, new, written[n], before[n])
    <3>1. fifo = Append(waiting.fifo, waiting.frame)
      BY <1>5
    <3> HIDE DEF node, waiting, active, fragment, fifo
    <3> QED
      BY <1>5, <1>7, <1>8, <2>2, <2>5, <3>1, RefillInv
  <2> QED
    BY <1>4, <2>6, Kept, NodeStep
<1>9. CASE ~ Len(node.fifo) < FifoDepth
  <2>1. CO_CANsend(node) = [node EXCEPT !.bufferFull = TRUE]
    BY <1>9 DEF CO_CANsend
  <2>2. new = waiting
    BY <1>1, <2>1 DEF NodeRecords
  <2>3. node.fifo # <<>>
    BY <1>9, LogConstants
  <2>4. NodeInv(n, new, written[n], before[n])
    <3> HIDE DEF node, waiting, new
    <3> QED
      BY <1>5, <1>7, <2>2, <2>3 DEF NodeInv
  <2> HIDE DEF new
  <2> QED
    BY <1>4, <2>4, Kept, NodeStep
<1> QED
  BY <1>8, <1>9

LEMMA OtherStep ==
  ASSUME NodesInv, NEW n \in Nodes, OtherTraffic(n), UNCHANGED before
  PROVE  NodesInv'
<1> DEFINE node == mcu[n]
           fifo == Append(node.fifo, Other)
           new == [node EXCEPT !.fifo = fifo]
<1>1. Len(node.fifo) < FifoDepth /\ mcu' = [mcu EXCEPT ![n] = new] /\ UNCHANGED written
  BY DEF OtherTraffic
<1>2. NodeInv(n, node, written[n], before[n]) /\ node \in NodeRecords
  BY Kept
<1>3. fifo \in Seq(Frames \cup {Other})
  BY <1>2, AppendFacts DEF NodeRecords
<1>4. /\ new \in NodeRecords
      /\ new.queue = node.queue /\ new.active = node.active /\ new.fragment = node.fragment
      /\ new.built = node.built /\ new.bufferFull = node.bufferFull /\ new.frame = node.frame
      /\ new.fifo = fifo
  <2> HIDE DEF fifo
  <2> QED
    BY <1>2, <1>3 DEF NodeRecords
<1> HIDE DEF new
<1>5. NodeInv(n, new, written[n], before[n])
  <2> HIDE DEF node
  <2> QED
    BY <1>1, <1>2, <1>4, OtherInv DEF NodeInv
<1> QED
  BY <1>1, <1>5, Kept, NodeStep

LEMMA ResetStep ==
  ASSUME NodesInv, NEW n \in Nodes, ResetCommunication(n), UNCHANGED before
  PROVE  NodesInv'
<1> DEFINE node == mcu[n]
<1>1. PICK assigned \in BOOLEAN :
        mcu' = [mcu EXCEPT ![n] = Reinitialised(node, assigned)]
  BY DEF ResetCommunication
<1>2. NodeInv(n, node, written[n], before[n]) /\ node \in NodeRecords
  BY Kept
<1> DEFINE frame == IF assigned /\ node.built
                    THEN [node.frame EXCEPT !.payload = PayloadSize] ELSE node.frame
           registered == node.registered \/ assigned
           new == [node EXCEPT !.fifo = <<>>, !.bufferFull = FALSE, !.assigned = assigned,
                               !.registered = registered, !.frame = frame]
<1>3. new = Reinitialised(node, assigned)
  BY <1>2 DEF Reinitialised, NodeRecords
<1>4. node.built =>
        /\ node.frame \in Frames /\ frame \in Frames
        /\ frame.record = node.frame.record /\ frame.index = node.frame.index
        /\ frame.start = node.frame.start /\ frame.end = node.frame.end
  <2> SUFFICES ASSUME node.built
               PROVE  /\ node.frame \in Frames /\ frame \in Frames
                      /\ frame.record = node.frame.record /\ frame.index = node.frame.index
                      /\ frame.start = node.frame.start /\ frame.end = node.frame.end
    OBVIOUS
  <2>1. node.frame \in Frames /\ PayloadSize \in 0 .. PayloadSize
    BY <1>2, LogConstants DEF NodeInv, NodeCore, BufferInv, Proper
  <2> QED
    BY <2>1 DEF Frames
<1>5. frame \in Frames \cup {None} /\ registered \in BOOLEAN
  BY <1>2, <1>4 DEF NodeRecords
<1>6. <<>> \in Seq(Frames \cup {Other})
  OBVIOUS
<1>7. /\ new \in NodeRecords
      /\ new.queue = node.queue /\ new.active = node.active /\ new.fragment = node.fragment
      /\ new.built = node.built /\ new.bufferFull = FALSE /\ new.frame = frame
      /\ new.fifo = <<>>
  <2> HIDE DEF frame, registered
  <2> QED
    BY <1>2, <1>5, <1>6 DEF NodeRecords
<1> HIDE DEF new, frame
<1>8. NodeInv(n, new, written[n], before[n])
  <2> HIDE DEF node
  <2> QED
    BY <1>2, <1>4, <1>7, ReinitialisedInv
<1>9. UNCHANGED written
  BY DEF ResetCommunication
<1> QED
  BY <1>1, <1>3, <1>8, <1>9, Kept, NodeStep

LEMMA RestartStep ==
  ASSUME NodesInv, NEW n \in Nodes, Restart(n), UNCHANGED before
  PROVE  NodesInv'
<1>1. PICK assigned \in BOOLEAN : mcu' = [mcu EXCEPT ![n] = StartedNode(assigned)]
  BY DEF Restart
<1>2. before[n] # None => Proper(n, before[n]) /\ before[n].record.number <= written[n]
  BY Kept DEF NodeInv, NodeCore, ArrivedInv, Done
<1>3. NodeInv(n, StartedNode(assigned), written[n], before[n])
  BY <1>2, Kept, StartedInv
<1>4. UNCHANGED written
  BY DEF Restart
<1> QED
  BY <1>1, <1>3, <1>4, Kept, NodeStep

\* The FIFO's head leaves, and another frame or the one that waits takes its place.
LEMMA SentStep ==
  ASSUME NodesInv, NEW n \in Nodes, Sent(n), NEW arrived,
         arrived = before[n] \/ (arrived = Head(mcu[n].fifo) /\ arrived # Other),
         before' = [before EXCEPT ![n] = arrived]
  PROVE  /\ NodesInv'
         /\ arrived # before[n] =>
              /\ Proper(n, arrived)
              /\ before[n] # None => Precedes(before[n], arrived.record, arrived.index)
<1> DEFINE node == mcu[n]
           rest == Tail(node.fifo)
           popped == [node EXCEPT !.fifo = rest]
<1>1. node.fifo # <<>> /\ UNCHANGED written
  BY DEF Sent
<1>2. NodeInv(n, node, written[n], before[n]) /\ node \in NodeRecords
  BY Kept
<1>3. rest \in Seq(Frames \cup {Other})
  BY <1>1, <1>2, TailFacts DEF NodeRecords
<1>4. /\ popped \in NodeRecords
      /\ popped.queue = node.queue /\ popped.active = node.active
      /\ popped.fragment = node.fragment /\ popped.built = node.built
      /\ popped.bufferFull = node.bufferFull /\ popped.frame = node.frame /\ popped.fifo = rest
  <2> HIDE DEF rest
  <2> QED
    BY <1>2, <1>3 DEF NodeRecords
<1>5. /\ NodeCore(n, popped, written[n], arrived) /\ Len(popped.fifo) < FifoDepth
      /\ arrived # before[n] =>
           /\ Proper(n, arrived)
           /\ before[n] # None => Precedes(before[n], arrived.record, arrived.index)
  <2> DEFINE last == before[n]
             count == written[n]
  <2>1. popped.fifo = Tail(node.fifo)
    BY <1>4
  <2>2. NodeInv(n, node, count, last) /\ (arrived = last \/ (arrived = Head(node.fifo) /\ arrived # Other))
    BY <1>2
  <2> HIDE DEF node, popped, last, count
  <2>3. /\ NodeCore(n, popped, count, arrived) /\ Len(popped.fifo) < FifoDepth
        /\ arrived # last =>
             Proper(n, arrived) /\ (last # None => Precedes(last, arrived.record, arrived.index))
    BY <1>1, <1>4, <2>1, <2>2, TransmitInv
  <2> QED
    BY <2>3 DEF last, count
<1>6. PICK new \in TransmitComplete(node) : mcu' = [mcu EXCEPT ![n] = new]
  BY DEF Sent
<1>7. \/ new = [node EXCEPT !.fifo = Append(rest, Other)]
      \/ /\ node.bufferFull
         /\ new = [node EXCEPT !.fifo = Append(rest, node.frame), !.bufferFull = FALSE]
      \/ ~ node.bufferFull /\ new = popped
  BY <1>6 DEF TransmitComplete
<1>8. CASE new = [node EXCEPT !.fifo = Append(rest, Other)]
  <2> DEFINE fifo == Append(rest, Other)
  <2>1. fifo \in Seq(Frames \cup {Other})
    BY <1>3, AppendFacts
  <2>2. /\ new \in NodeRecords
        /\ new.queue = popped.queue /\ new.active = popped.active
        /\ new.fragment = popped.fragment /\ new.built = popped.built
        /\ new.bufferFull = popped.bufferFull /\ new.frame = popped.frame /\ new.fifo = fifo
    <3>1. new = [node EXCEPT !.fifo = fifo]
      BY <1>8
    <3> HIDE DEF fifo, rest
    <3> QED
      BY <1>2, <1>4, <2>1, <3>1 DEF NodeRecords
  <2>3. new.fifo = Append(popped.fifo, Other)
    BY <1>4, <2>2
  <2> HIDE DEF popped
  <2>4. NodeInv(n, new, written[n], arrived)
    BY <1>5, <2>2, <2>3, OtherInv
  <2> QED
    BY <1>1, <1>5, <1>6, <2>4, Kept, NodeStep
<1>9. CASE /\ node.bufferFull
           /\ new = [node EXCEPT !.fifo = Append(rest, node.frame), !.bufferFull = FALSE]
  <2> DEFINE fifo == Append(rest, node.frame)
  <2>1. node.frame \in Frames /\ node.built = FALSE
    <3>1. BufferInv(n, node, written[n])
      BY <1>2 DEF NodeInv, NodeCore
    <3> QED
      BY <1>2, <1>9, <3>1 DEF BufferInv, Proper, NodeRecords
  <2>2. fifo \in Seq(Frames \cup {Other})
    BY <1>3, <2>1, AppendFacts
  <2>3. /\ new \in NodeRecords
        /\ new.queue = popped.queue /\ new.active = popped.active
        /\ new.fragment = popped.fragment /\ new.built = FALSE
        /\ new.bufferFull = FALSE /\ new.frame = popped.frame /\ new.fifo = fifo
    <3>1. new = [node EXCEPT !.fifo = fifo, !.bufferFull = FALSE]
      BY <1>9
    <3> HIDE DEF fifo, rest
    <3> QED
      BY <1>2, <1>4, <2>1, <2>2, <3>1 DEF NodeRecords
  <2>4. new.fifo = Append(popped.fifo, popped.frame) /\ popped.bufferFull /\ ~ popped.built
    BY <1>4, <1>9, <2>1, <2>3
  <2> HIDE DEF popped
  <2>5. NodeInv(n, new, written[n], arrived)
    BY <1>5, <2>3, <2>4, RefillInv
  <2> QED
    BY <1>1, <1>5, <1>6, <2>5, Kept, NodeStep
<1>10. CASE ~ node.bufferFull /\ new = popped
  <2>1. NodeInv(n, new, written[n], arrived)
    BY <1>4, <1>5, <1>10 DEF NodeInv
  <2> QED
    BY <1>1, <1>5, <1>6, <2>1, Kept, NodeStep
<1> QED
  BY <1>7, <1>8, <1>9, <1>10

LEMMA NodeTurn ==
  ASSUME NodesInv, NEW n \in Nodes, Node(n)
  PROVE  NodesInv'
<1>1. UNCHANGED before
  BY DEF Node
<1>2. CASE \E length \in Lengths : ULogCan_Enqueue(n, length)
  BY <1>1, <1>2, EnqueueStep
<1>3. CASE ULogCan_Build(n)
  BY <1>1, <1>3, BuildStep
<1>4. CASE ULogCan_Send(n)
  BY <1>1, <1>4, SendStep
<1>5. CASE OtherTraffic(n)
  BY <1>1, <1>5, OtherStep
<1>6. CASE ResetCommunication(n)
  BY <1>1, <1>6, ResetStep
<1>7. CASE Restart(n)
  BY <1>1, <1>7, RestartStep
<1> QED
  BY <1>2, <1>3, <1>4, <1>5, <1>6, <1>7 DEF Node

LEMMA HeadIsProper ==
  ASSUME NodesInv, NEW n \in Nodes, mcu[n].fifo # <<>>, Head(mcu[n].fifo) # Other
  PROVE  Proper(n, Head(mcu[n].fifo))
<1>1. mcu[n].fifo \in Seq(Frames \cup {Other}) /\ FifoInv(n, mcu[n], written[n])
  BY Kept DEF NodeInv, NodeCore, NodeRecords
<1>2. Head(mcu[n].fifo) = mcu[n].fifo[1] /\ 1 \in 1 .. Len(mcu[n].fifo)
  BY <1>1, TailFacts
<1> QED
  BY <1>1, <1>2 DEF FifoInv

\* log_receiver_accept copies whole frames.
LEMMA AcceptTypes ==
  ASSUME ReceiverTypes, NEW frame \in Frames, log_receiver_accept(frame), spoilt' \in BOOLEAN
  PROVE  ReceiverTypes'
<1> DEFINE r == AtFrame(receiver, frame)
           line == Append(r.line, frame)
<1>1. /\ r \in [active : BOOLEAN, line : Seq(Frames), next_fragment : Nat]
      /\ r.next_fragment = Len(r.line)
  <2>1. <<>> \in Seq(Frames) /\ Len(<<>>) = 0
    OBVIOUS
  <2> QED
    BY <2>1 DEF AtFrame, ReceiverTypes
<1>2. line \in Seq(Frames) /\ Len(line) = r.next_fragment + 1
  BY <1>1, AppendFacts
<1>3. <<>> \in Seq(Frames) /\ Len(<<>>) = 0
  OBVIOUS
<1>4. \/ receiver' = ResetReceiver /\ sink' \in {<<>>, line}
      \/ /\ receiver' = [active |-> TRUE, line |-> line, next_fragment |-> r.next_fragment + 1]
         /\ sink' = <<>>
  BY DEF log_receiver_accept
<1> HIDE DEF r, line
<1>5. CASE receiver' = ResetReceiver /\ sink' \in {<<>>, line}
  BY <1>2, <1>3, <1>5 DEF ResetReceiver, ReceiverTypes
<1>6. CASE /\ receiver' = [active |-> TRUE, line |-> line, next_fragment |-> r.next_fragment + 1]
           /\ sink' = <<>>
  BY <1>1, <1>2, <1>3, <1>6 DEF ReceiverTypes
<1> QED
  BY <1>4, <1>5, <1>6

LEMMA AbortTypes ==
  ASSUME ReceiverTypes, log_receiver_abort, UNCHANGED spoilt
  PROVE  ReceiverTypes'
<1>1. <<>> \in Seq(Frames) /\ Len(<<>>) = 0
  OBVIOUS
<1> QED
  BY <1>1 DEF log_receiver_abort, ResetReceiver, ReceiverTypes

LEMMA QuietTypes ==
  ASSUME ReceiverTypes, sink' = <<>>, UNCHANGED <<receiver, spoilt>>
  PROVE  ReceiverTypes'
<1>1. <<>> \in Seq(Frames)
  OBVIOUS
<1> QED
  BY <1>1 DEF ReceiverTypes

\* A frame that arrives comes from its node, after all that arrived from there before.
LEMMA Arrival ==
  ASSUME LogInv, NEW n \in Nodes, Transmit(n)
  PROVE  LET frame == Head(mcu[n].fifo) IN
         /\ Proper(n, frame) /\ frame \in Frames /\ frame.record.node = n
         /\ before' = [before EXCEPT ![n] = frame] /\ before'[n] = frame
         /\ log_receiver_accept(frame) /\ spoilt' = SpoiltBy(before[n], frame)
         /\ NodesInv'
         /\ frame # before[n] /\ before[n] # None => Precedes(before[n], frame.record, frame.index)
<1> DEFINE frame == Head(mcu[n].fifo)
<1>1. /\ NodesInv /\ Sent(n) /\ mcu[n].fifo # <<>> /\ frame # Other /\ Arrives(frame)
  BY DEF LogInv, Transmit, Sent
<1>2. Proper(n, frame) /\ frame \in Frames /\ frame.record.node = n
  BY <1>1, HeadIsProper DEF Proper
<1>3. /\ before' = [before EXCEPT ![n] = frame]
      /\ log_receiver_accept(frame) /\ spoilt' = SpoiltBy(before[n], frame)
  <2> HIDE DEF frame
  <2> QED
    BY <1>1, <1>2 DEF Arrives
<1>4. before'[n] = frame
  BY <1>1, <1>3 DEF NodesInv
<1>5. NodesInv' /\ (frame # before[n] /\ before[n] # None => Precedes(before[n], frame.record, frame.index))
  BY <1>1, <1>3, SentStep
<1> QED
  BY <1>2, <1>3, <1>4, <1>5

LEMMA UnseenInv ==
  ASSUME LogInv, NEW n \in Nodes, TransmitUnseen(n)
  PROVE  LogInv'
<1>1. /\ NodesInv /\ ReceiverTypes /\ Sent(n) /\ sink' = <<>>
      /\ UNCHANGED <<receiver, before, spoilt>>
  BY DEF LogInv, TransmitUnseen
<1>2. before' = [before EXCEPT ![n] = before[n]]
  BY <1>1, Kept
<1>3. NodesInv'
  BY <1>1, <1>2, SentStep
<1> QED
  BY <1>1, <1>3, QuietTypes DEF LogInv

LEMMA InitInv == Init => LogInv
<1> SUFFICES ASSUME Init PROVE LogInv
  OBVIOUS
<1>1. /\ mcu \in [Nodes -> {StartedNode(assigned) : assigned \in BOOLEAN}]
      /\ written = [n \in Nodes |-> 0] /\ before = [n \in Nodes |-> None]
      /\ receiver = ResetReceiver /\ sink = <<>> /\ spoilt = FALSE
  BY DEF Init, InitNodes, InitReceiver
<1>2. 0 \in 0 .. MaxRecords
  BY LogConstants
<1>3. ASSUME NEW n \in Nodes PROVE NodeInv(n, mcu[n], written[n], before[n])
  <2>1. PICK assigned \in BOOLEAN : mcu[n] = StartedNode(assigned)
    BY <1>1
  <2>2. written[n] = 0 /\ before[n] = None
    BY <1>1
  <2>3. None \in Frames \cup {None}
    OBVIOUS
  <2>4. NodeInv(n, StartedNode(assigned), 0, None)
    BY <1>2, <2>3, StartedInv
  <2> QED
    BY <2>1, <2>2, <2>4
<1>4. mcu \in [Nodes -> NodeRecords]
  <2>1. \A n \in Nodes : mcu[n] \in NodeRecords
    BY <1>3 DEF NodeInv, NodeCore
  <2> QED
    BY <1>1, <2>1
<1>5. NodesInv
  BY <1>1, <1>2, <1>3, <1>4 DEF NodesInv
<1>6. ReceiverTypes
  <2>1. <<>> \in Seq(Frames) /\ Len(<<>>) = 0
    OBVIOUS
  <2> QED
    BY <1>1, <2>1 DEF ReceiverTypes, ResetReceiver
<1> QED
  BY <1>5, <1>6 DEF LogInv

LEMMA StepInv == LogInv /\ [Next]_vars => LogInv'
<1> SUFFICES ASSUME LogInv, [Next]_vars PROVE LogInv'
  OBVIOUS
<1>1. ASSUME NEW n \in Nodes, Node(n) PROVE LogInv'
  <2>1. NodesInv'
    BY <1>1, NodeTurn DEF LogInv
  <2>2. sink' = <<>> /\ UNCHANGED <<receiver, spoilt>>
    BY <1>1 DEF Node
  <2> QED
    BY <2>1, <2>2, QuietTypes DEF LogInv
<1>2. ASSUME NEW n \in Nodes, Transmit(n) PROVE LogInv'
  <2> DEFINE frame == Head(mcu[n].fifo)
  <2>1. /\ frame \in Frames /\ log_receiver_accept(frame) /\ NodesInv'
        /\ spoilt' = SpoiltBy(before[n], frame)
    BY <1>2, Arrival
  <2>2. spoilt' \in BOOLEAN
    BY <2>1 DEF SpoiltBy
  <2> QED
    BY <2>1, <2>2, AcceptTypes DEF LogInv
<1>3. ASSUME NEW n \in Nodes, TransmitUnseen(n) PROVE LogInv'
  BY <1>3, UnseenInv
<1>4. CASE Malformed
  <2>1. ReceiverTypes'
    BY <1>4, AbortTypes DEF Malformed, LogInv
  <2>2. NodesInv'
    BY <1>4 DEF Malformed, LogInv, NodesInv
  <2> QED
    BY <2>1, <2>2 DEF LogInv
<1>5. CASE UNCHANGED vars
  BY <1>5 DEF vars, LogInv, NodesInv, ReceiverTypes
<1> QED
  BY <1>1, <1>2, <1>3, <1>4, <1>5 DEF Next

\* The inductive invariant holds in every reachable state.
LEMMA Invariance == Spec => []LogInv
  BY InitInv, StepInv, PTL DEF Spec

----------------------------------------------------------------------------
(* One node: what the receiver assembles *)

\* A frame that is not padded is what the backend built.
LEMMA NotPadded ==
  ASSUME NEW n, NEW frame, Proper(n, frame), ~ Padded(frame)
  PROVE  frame = ULogCanWire_BuildFrame(frame.record, frame.index)
<1> DEFINE record == frame.record
           index == frame.index
<1>1. /\ frame \in Frames /\ record \in Records /\ index \in Nat
      /\ index <= LastFragment(record) /\ record.node = n
  BY DEF Proper, Frames
<1> DEFINE built == ULogCanWire_BuildFrame(record, index)
<1>2. /\ Proper(n, built) /\ built.record = record /\ built.index = index
      /\ built.payload = PayloadOf(record, index) /\ built \in Frames
  BY <1>1, Builds DEF Proper
<1>3. frame.payload = built.payload
  BY <1>2 DEF Padded
<1>4. frame.start = built.start /\ frame.end = built.end
  <2>1. /\ frame.start \in BOOLEAN /\ frame.end \in BOOLEAN
        /\ built.start \in BOOLEAN /\ built.end \in BOOLEAN
    BY <1>1, <1>2 DEF Frames
  <2>2. (frame.start <=> built.start) /\ (frame.end <=> built.end)
    BY <1>2, Zenon DEF Proper
  <2> QED
    BY <2>1, <2>2
<1>5. frame = [record |-> frame.record, index |-> frame.index, start |-> frame.start,
               end |-> frame.end, payload |-> frame.payload]
  BY <1>1 DEF Frames
<1>6. built = [record |-> built.record, index |-> built.index, start |-> built.start,
               end |-> built.end, payload |-> built.payload]
  BY DEF ULogCanWire_BuildFrame
<1> HIDE DEF built
<1>7. frame = built
  BY <1>2, <1>3, <1>4, <1>5, <1>6
<1> QED
  BY <1>7 DEF built

LEMMA BeginsOnce ==
  ASSUME NEW record \in Records, NEW frame, frame = ULogCanWire_BuildFrame(record, 0)
  PROVE  Begins(Append(<<>>, frame), record, 1)
<1>1. Append(<<>>, frame) = <<frame>>
  OBVIOUS
<1>2. <<frame>> = [i \in 1 .. 1 |-> ULogCanWire_BuildFrame(record, i - 1)]
  OBVIOUS
<1> QED
  BY <1>1, <1>2 DEF Begins

LEMMA BeginsFurther ==
  ASSUME NEW record \in Records, NEW k \in Nat, NEW line \in Seq(Frames),
         NEW frame \in Frames, Begins(line, record, k),
         frame = ULogCanWire_BuildFrame(record, k)
  PROVE  Begins(Append(line, frame), record, k + 1)
<1>1. Len(line) = k /\ \A i \in 1 .. k : line[i] = ULogCanWire_BuildFrame(record, i - 1)
  BY DEF Begins
<1>2. /\ Append(line, frame) \in Seq(Frames) /\ Len(Append(line, frame)) = k + 1
      /\ \A i \in 1 .. k : Append(line, frame)[i] = line[i]
      /\ Append(line, frame)[k + 1] = frame
  BY <1>1, AppendFacts
<1>3. Append(line, frame) = [i \in 1 .. k + 1 |-> Append(line, frame)[i]]
  <2> DEFINE longer == Append(line, frame)
  <2>1. longer \in [1 .. Len(longer) -> Frames]
    BY <1>2, LenProperties
  <2> HIDE DEF longer
  <2>2. longer = [i \in 1 .. Len(longer) |-> longer[i]]
    BY <2>1
  <2>3. Len(longer) = k + 1
    BY <1>2 DEF longer
  <2> QED
    BY <2>2, <2>3 DEF longer
<1>4. \A i \in 1 .. k + 1 : Append(line, frame)[i] = ULogCanWire_BuildFrame(record, i - 1)
  <2>1. \A i \in 1 .. k + 1 : i \in 1 .. k \/ i = k + 1
    OBVIOUS
  <2>2. (k + 1) - 1 = k
    OBVIOUS
  <2> QED
    BY <1>1, <1>2, <2>1, <2>2
<1> HIDE DEF ULogCanWire_BuildFrame
<1> QED
  BY <1>3, <1>4 DEF Begins

\* All fragments of a record are the whole record.
LEMMA BeginsWhole ==
  ASSUME NEW record \in Records, NEW line, Begins(line, record, LastFragment(record) + 1)
  PROVE  Whole(line)
<1>1. LastFragment(record) \in Nat
  BY LastIsNatural
<1>2. /\ DOMAIN line = 1 .. LastFragment(record) + 1 /\ 1 \in DOMAIN line
      /\ line[1] = ULogCanWire_BuildFrame(record, 1 - 1)
  BY <1>1 DEF Begins
<1>3. line[1].record = record
  BY <1>2 DEF ULogCanWire_BuildFrame
<1>4. record \in {frame.record : frame \in {line[i] : i \in DOMAIN line}}
  BY <1>2, <1>3
<1> QED
  BY <1>4 DEF Begins, Whole

\* The next frame goes on with the record under assembly, unless two fragments are missing.
LEMMA SameRecord ==
  ASSUME NEW n, NEW earlier, NEW frame, Proper(n, earlier), Proper(n, frame),
         frame # earlier => Precedes(earlier, frame.record, frame.index),
         earlier.index < LastFragment(earlier.record), frame.index = earlier.index + 1,
         ~ Missing(earlier, frame) >= 2
  PROVE  frame.record = earlier.record
<1> SUFFICES ASSUME frame.record # earlier.record PROVE FALSE
  OBVIOUS
<1>1. /\ earlier.record \in Records /\ earlier.record.number \in Nat
      /\ frame.record.number \in Nat /\ earlier.index \in Nat
  BY DEF Proper, Frames, Records
<1>2. LastFragment(earlier.record) \in Nat
  BY <1>1, LastIsNatural
<1>3. earlier.record.number < frame.record.number
  BY DEF Precedes
<1>4. Missing(earlier, frame) =
        (LastFragment(earlier.record) - earlier.index)
          + ((frame.record.number - earlier.record.number) - 1) + frame.index
  BY Zenon DEF Missing
<1> QED
  BY <1>1, <1>2, <1>3, <1>4

LEMMA StartFrame ==
  ASSUME NEW n, NEW frame, Proper(n, frame), frame.start, log_receiver_accept(frame),
         ~ Padded(frame)
  PROVE  /\ sink' # <<>> => Whole(sink')
         /\ receiver'.active =>
              /\ frame.index < LastFragment(frame.record)
              /\ Begins(receiver'.line, frame.record, frame.index + 1)
<1> DEFINE line == Append(<<>>, frame)
<1>1. /\ frame.record \in Records /\ frame.index = 0
      /\ frame = ULogCanWire_BuildFrame(frame.record, 0)
  BY NotPadded DEF Proper, Frames
<1>2. Begins(line, frame.record, 1)
  BY <1>1, BeginsOnce
<1>3. LastFragment(frame.record) \in Nat
  BY <1>1, LastIsNatural
<1>4. AtFrame(receiver, frame) = [active |-> TRUE, line |-> <<>>, next_fragment |-> 0]
  BY DEF AtFrame
<1>5. Accepts(AtFrame(receiver, frame), frame) /\ AtFrame(receiver, frame).line = <<>>
  BY <1>1, <1>4 DEF Accepts
<1>6. CASE frame.end
  <2>1. receiver' = ResetReceiver /\ sink' = line
    BY <1>5, <1>6, Zenon DEF log_receiver_accept
  <2>2. LastFragment(frame.record) = 0
    BY <1>1, <1>6 DEF Proper
  <2>3. Whole(line)
    BY <1>1, <1>2, <2>2, BeginsWhole
  <2> HIDE DEF line
  <2> QED
    BY <2>1, <2>3 DEF ResetReceiver
<1>7. CASE ~ frame.end
  <2>1. receiver'.line = line /\ sink' = <<>>
    BY <1>5, <1>7 DEF log_receiver_accept
  <2>2. frame.index < LastFragment(frame.record)
    BY <1>1, <1>3, <1>7 DEF Proper
  <2> HIDE DEF line
  <2> QED
    BY <1>1, <1>2, <2>1, <2>2
<1> QED
  BY <1>6, <1>7

LEMMA FurtherFrame ==
  ASSUME NEW n, NEW earlier, NEW frame, Proper(n, earlier), Proper(n, frame), ~ frame.start,
         ReceiverTypes,
         receiver.active =>
           /\ earlier.index < LastFragment(earlier.record)
           /\ Begins(receiver.line, earlier.record, earlier.index + 1),
         frame # earlier => Precedes(earlier, frame.record, frame.index),
         log_receiver_accept(frame), ~ Padded(frame), ~ Missing(earlier, frame) >= 2
  PROVE  /\ sink' # <<>> => Whole(sink')
         /\ receiver'.active =>
              /\ frame.index < LastFragment(frame.record)
              /\ Begins(receiver'.line, frame.record, frame.index + 1)
<1> DEFINE line == Append(receiver.line, frame)
<1>1. AtFrame(receiver, frame) = receiver
  BY DEF AtFrame
<1>2. CASE ~ Accepts(receiver, frame)
  <2>1. receiver' = ResetReceiver /\ sink' = <<>>
    BY <1>1, <1>2, Zenon DEF log_receiver_accept
  <2> QED
    BY <2>1 DEF ResetReceiver
<1>3. CASE Accepts(receiver, frame)
  <2>1. receiver.active /\ receiver.next_fragment = frame.index
    BY <1>3 DEF Accepts
  <2>2. /\ earlier.index < LastFragment(earlier.record)
        /\ Begins(receiver.line, earlier.record, earlier.index + 1)
    BY <2>1
  <2>3. /\ earlier.index \in Nat /\ frame.index \in Nat
        /\ frame.record \in Records /\ frame \in Frames
    BY DEF Proper, Frames
  <2>4. receiver.line \in Seq(Frames) /\ receiver.next_fragment = Len(receiver.line)
    BY DEF ReceiverTypes
  <2>5. Len(receiver.line) = earlier.index + 1
    BY <2>2, <2>3 DEF Begins
  <2>6. frame.index = earlier.index + 1
    BY <2>1, <2>4, <2>5
  <2>7. frame.record = earlier.record
    BY <2>2, <2>6, SameRecord
  <2>8. frame = ULogCanWire_BuildFrame(frame.record, frame.index)
    BY NotPadded
  <2>9. Begins(line, frame.record, frame.index + 1)
    <3> DEFINE record == frame.record
               k == frame.index
    <3>1. Begins(receiver.line, record, k)
      BY <2>2, <2>6, <2>7
    <3>2. frame = ULogCanWire_BuildFrame(record, k) /\ record \in Records /\ k \in Nat
      BY <2>3, <2>8
    <3> HIDE DEF record, k
    <3>3. Begins(line, record, k + 1)
      BY <2>3, <2>4, <3>1, <3>2, BeginsFurther
    <3> QED
      BY <3>3 DEF record, k
  <2>10. LastFragment(frame.record) \in Nat
    BY <2>3, LastIsNatural
  <2>11. CASE frame.end
    <3>1. receiver' = ResetReceiver /\ sink' = line
      BY <1>1, <1>3, <2>11, Zenon DEF log_receiver_accept
    <3>2. LastFragment(frame.record) = frame.index
      BY <2>11 DEF Proper
    <3>3. Whole(line)
      BY <2>3, <2>9, <3>2, BeginsWhole
    <3> HIDE DEF line
    <3> QED
      BY <3>1, <3>3 DEF ResetReceiver
  <2>12. CASE ~ frame.end
    <3>1. receiver'.line = line /\ sink' = <<>>
      BY <1>1, <1>3, <2>12 DEF log_receiver_accept
    <3>2. frame.index < LastFragment(frame.record)
      BY <2>3, <2>10, <2>12 DEF Proper
    <3> HIDE DEF line
    <3> QED
      BY <2>9, <3>1, <3>2
  <2> QED
    BY <2>11, <2>12
<1> QED
  BY <1>2, <1>3

LoneInv(n) == LogInv /\ Assembly(n) /\ OneLossIsSeen

LEMMA LoneTransmit ==
  ASSUME NEW n \in Nodes, LoneInv(n), Transmit(n)
  PROVE  Assembly(n)' /\ OneLossIsSeen'
<1> DEFINE frame == Head(mcu[n].fifo)
           earlier == before[n]
<1>1. /\ Proper(n, frame) /\ log_receiver_accept(frame) /\ before'[n] = frame
      /\ spoilt' = SpoiltBy(earlier, frame) /\ frame \in Frames
      /\ frame # earlier /\ earlier # None => Precedes(earlier, frame.record, frame.index)
  BY Arrival DEF LoneInv
<1>2. ReceiverTypes /\ (earlier # None => Proper(n, earlier)) /\ Assembly(n)
  BY Kept DEF LoneInv, LogInv, NodeInv, NodeCore, ArrivedInv
<1> HIDE DEF frame
<1>3. frame # None
  BY <1>1, NoneIsNothing
<1> SUFFICES ASSUME ~ spoilt'
             PROVE  /\ sink' # <<>> => Whole(sink')
                    /\ receiver'.active =>
                         /\ frame.index < LastFragment(frame.record)
                         /\ Begins(receiver'.line, frame.record, frame.index + 1)
  BY <1>1, <1>3, Zenon DEF Assembly, OneLossIsSeen
<1>4. ~ Padded(frame)
  BY <1>1, Zenon DEF SpoiltBy
<1>5. CASE frame.start
  BY <1>1, <1>4, <1>5, StartFrame
<1>6. CASE ~ frame.start
  <2>1. ~ spoilt /\ earlier # None /\ ~ Missing(earlier, frame) >= 2
    BY <1>1, <1>6, Zenon DEF SpoiltBy
  <2>2. receiver.active =>
          /\ earlier.index < LastFragment(earlier.record)
          /\ Begins(receiver.line, earlier.record, earlier.index + 1)
    BY <1>2, <2>1 DEF Assembly
  <2> HIDE DEF earlier
  <2> QED
    BY <1>1, <1>2, <1>4, <1>6, <2>1, <2>2, FurtherFrame
<1> QED
  BY <1>5, <1>6

LEMMA LoneStep ==
  ASSUME NEW n, Nodes = {n}
  PROVE  LoneInv(n) /\ [Next]_vars => LoneInv(n)'
<1> SUFFICES ASSUME LoneInv(n), [Next]_vars PROVE LoneInv(n)'
  OBVIOUS
<1>1. n \in Nodes /\ LogInv'
  BY StepInv DEF LoneInv
<1>2. CASE Transmit(n)
  BY <1>1, <1>2, LoneTransmit DEF LoneInv
<1>3. CASE Malformed
  BY <1>1, <1>3 DEF Malformed, log_receiver_abort, ResetReceiver, LoneInv, Assembly, OneLossIsSeen
<1>4. CASE Node(n) \/ TransmitUnseen(n)
  <2>1. sink' = <<>> /\ UNCHANGED <<receiver, before, spoilt>>
    BY <1>4, Zenon DEF Node, TransmitUnseen
  <2> QED
    BY <1>1, <2>1 DEF LoneInv, Assembly, OneLossIsSeen
<1>5. CASE UNCHANGED vars
  BY <1>1, <1>5 DEF vars, LoneInv, Assembly, OneLossIsSeen
<1> QED
  BY <1>2, <1>3, <1>4, <1>5 DEF Next

----------------------------------------------------------------------------
(* The theorems *)

\* The queue, the FIFO and the receiver's line keep within their sizes.
THEOREM TypeCorrect == Spec => []TypeOK
<1>1. LogInv => TypeOK
  <2> SUFFICES ASSUME LogInv PROVE TypeOK
    OBVIOUS
  <2>1. NodesInv /\ ReceiverTypes
    BY DEF LogInv
  <2>2. ASSUME NEW n \in Nodes PROVE NodeTypeOK(mcu[n])
    <3> DEFINE node == mcu[n]
    <3>1. /\ node \in NodeRecords /\ BlocksInUse(node) <= QueueCapacity
          /\ Len(node.fifo) <= FifoDepth
          /\ QueueInv(n, node, written[n]) /\ BufferInv(n, node, written[n])
      BY <2>1, Kept DEF NodeInv, NodeCore
    <3>2. node.active # None => node.fragment \in 0 .. LastFragment(node.active)
      <4> SUFFICES ASSUME node.active # None
                   PROVE  node.fragment \in 0 .. LastFragment(node.active)
        OBVIOUS
      <4>1. node.active \in Records /\ node.fragment \in Nat
        BY <3>1 DEF NodeRecords
      <4>2. node.fragment <= LastFragment(node.active)
        BY <3>1 DEF QueueInv
      <4> QED
        BY <4>1, <4>2, LastIsNatural
    <3>3. node.built => node.frame # None
      BY <3>1, NoneIsNothing DEF BufferInv, Proper
    <3> HIDE DEF node
    <3>4. NodeTypeOK(node)
      BY <3>1, <3>2, <3>3 DEF NodeTypeOK, NodeRecords
    <3> QED
      BY <3>4 DEF node
  <2>3. DOMAIN mcu = Nodes
    BY <2>1 DEF NodesInv
  <2> QED
    BY <2>1, <2>2, <2>3 DEF TypeOK, NodesInv, ReceiverTypes
<1> QED
  BY <1>1, Invariance, PTL

\* A buffer that is full has frames in the FIFO before it, whose end is an interrupt that empties it.
THEOREM WaitAlwaysEnds == Spec => []WaitingEnds
<1>1. LogInv => WaitingEnds
  BY DEF LogInv, NodesInv, NodeInv, WaitingEnds
<1> QED
  BY <1>1, Invariance, PTL

\* No restart, LSS or full FIFO makes a node send a fragment twice or behind a later one.
THEOREM NoneOvertakes == Spec => FramesInOrder
<1>1. LogInv /\ [Next]_vars =>
        [\A n \in Nodes :
           before'[n] # before[n] /\ before[n] # None => Missing(before[n], before'[n]) >= 0]_before
  <2> SUFFICES ASSUME LogInv, [Next]_vars, before' # before, NEW n \in Nodes,
                      before'[n] # before[n], before[n] # None
               PROVE  Missing(before[n], before'[n]) >= 0
    BY Zenon
  <2>1. PICK m \in Nodes : Transmit(m)
    BY Zenon DEF Next, Node, TransmitUnseen, Malformed, vars
  <2> DEFINE frame == Head(mcu[m].fifo)
  <2>2. /\ Proper(m, frame) /\ before' = [before EXCEPT ![m] = frame] /\ before'[m] = frame
        /\ frame # before[m] /\ before[m] # None => Precedes(before[m], frame.record, frame.index)
    BY <2>1, Arrival
  <2> HIDE DEF frame
  <2>3. m = n
    BY <2>2 DEF LogInv, NodesInv
  <2>4. Proper(n, before[n])
    BY Kept DEF LogInv, NodeInv, NodeCore, ArrivedInv
  <2> QED
    BY <2>2, <2>3, <2>4, PrecedesMissesNone
<1> QED
  BY <1>1, Invariance, PTL DEF Spec, FramesInOrder

\* With one node a single loss is always seen: the index of a frame tells records apart as long as
\* the end of one and the start of the next are not lost together.
THEOREM SingleLossSeen ==
  ASSUME NEW n, Nodes = {n}
  PROVE  Spec => []OneLossIsSeen
<1>1. Init => LoneInv(n)
  BY InitInv DEF Init, InitReceiver, ResetReceiver, LoneInv, Assembly, OneLossIsSeen
<1>2. LoneInv(n) /\ [Next]_vars => LoneInv(n)'
  BY LoneStep
<1>3. LoneInv(n) => OneLossIsSeen
  BY DEF LoneInv
<1> QED
  BY <1>1, <1>2, <1>3, PTL DEF Spec
=============================================================================
