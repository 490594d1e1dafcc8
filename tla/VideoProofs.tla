------------------------------ MODULE VideoProofs ------------------------------
(***************************************************************************)
(* The packet queues of the video player are first in, first out, no       *)
(* wake-up is lost, and the sizes of the queues stay within the reader's   *)
(* limits: proved for every file, every capacity and every number of       *)
(* commands.                                                               *)
(*                                                                         *)
(* QueueFifo speaks about two linked lists.  It is not inductive: a node   *)
(* is appended by writing the next field of the last node, which must not  *)
(* be another node of the list.  FifoInv adds that a queue has its packets *)
(* in the order of the file (Ordered), so that no node occurs twice and a  *)
(* new one is new; and that nothing was put when the reader initialises    *)
(* the queues (Fresh), which needs that it is started once (Once).         *)
(*                                                                         *)
(* NoLostWake has an invariant of its own, WakeInv, in the second part,    *)
(* and SizeBound another, SizeInv, in the third.                           *)
(***************************************************************************)
EXTENDS VideoPlayer, WellFoundedInduction, TLAPS

\* The packets of s are nodes, in the order of the file and not beyond its n-th.
Ordered(s, n) ==
  /\ s \in Seq(Pkts)
  /\ \A i \in 1..Len(s) : s[i] <= n
  /\ \A i, j \in 1..Len(s) : i < j => s[i] < s[j]

Shapes ==
  /\ file \in Files /\ read \in 0..Len(file.packets)
  /\ DOMAIN pc = Threads
  /\ DOMAIN queues = Kinds
  /\ \A k \in Kinds : queues[k].next \in [Pkts -> Ptrs]
  /\ DOMAIN sent = Kinds
  /\ got \in [Kinds -> Nat]
  /\ DOMAIN pkt = Kinds

Once  == ~running => pc["reader"] = "off"
Fresh == pc["reader"] \in {"off", "open"} => \A k \in Kinds : sent[k] = <<>>

FifoInv ==
  /\ Shapes
  /\ \A k \in Kinds : Ordered(sent[k], read)
  /\ QueueFifo
  /\ Once
  /\ Fresh

-------------------------------------------------------------------------------
\* packet_queue_put: a new node joins the list at its end.
LEMMA PutHolds ==
  ASSUME NEW s \in Seq(Pkts), NEW n \in Nat, NEW q, NEW p \in Pkts, NEW bytes,
         q.next \in [Pkts -> Ptrs],
         Holds(q, s, n),
         \A i \in 1..Len(s) : s[i] < p,
         \A i, j \in 1..Len(s) : i < j => s[i] < s[j]
  PROVE  /\ Holds(packet_queue_put(q, p, bytes), Append(s, p), n)
         /\ packet_queue_put(q, p, bytes).next \in [Pkts -> Ptrs]
<1> DEFINE r == packet_queue_put(q, p, bytes)
           t == Append(s, p)
           L == Len(s)
<1>1. /\ L \in Nat /\ Len(t) = L + 1
      /\ \A i \in 1..L : t[i] = s[i] /\ s[i] \in Pkts
      /\ t[L + 1] = p
      /\ n \in 0..L /\ q.nb = L - n
  BY DEF Holds
<1>2. Pkts \subseteq Nat /\ Null \notin Pkts
  BY PacketAssumption DEF Pkts, Null
<1>3. CASE n = L
  <2>1. q.first = Null /\ q.last = Null
    BY <1>3 DEF Holds
  <2>2. r.first = p /\ r.last = p /\ r.nb = 1 /\ r.next = [q.next EXCEPT ![p] = Null]
    BY <2>1, <1>1, <1>3 DEF packet_queue_put
  <2>3. r.next[p] = Null /\ r.next \in [Pkts -> Ptrs]
    BY <2>2 DEF Ptrs
  <2> QED
    BY <2>2, <2>3, <1>1, <1>3 DEF Holds
<1>4. CASE n < L
  <2>1. /\ q.first = s[n + 1] /\ q.last = s[L]
        /\ \A i \in n + 1..L - 1 : q.next[s[i]] = s[i + 1]
    BY <1>4 DEF Holds
  <2>2. s[L] \in Pkts /\ s[L] # p /\ s[L] # Null
    BY <1>1, <1>2, <1>4
  <2>3. /\ r.first = s[n + 1] /\ r.last = p /\ r.nb = L - n + 1
        /\ r.next = [[q.next EXCEPT ![s[L]] = p] EXCEPT ![p] = Null]
    BY <2>1, <2>2, <1>1 DEF packet_queue_put
  <2>4. r.next \in [Pkts -> Ptrs] /\ r.next[p] = Null /\ r.next[s[L]] = p
    BY <2>2, <2>3 DEF Ptrs
  <2>5. ASSUME NEW i \in n + 1..L - 1
        PROVE  r.next[s[i]] = s[i + 1]
    <3>1. i \in 1..L /\ L \in 1..L /\ i < L
      BY <1>1, <1>4
    <3>2. s[i] \in Pkts /\ s[i] < s[L] /\ s[i] < p
      BY <3>1, <1>1
    <3>3. s[i] # s[L] /\ s[i] # p
      BY <3>2, <2>2, <1>2
    <3>4. r.next[s[i]] = q.next[s[i]]
      BY <3>2, <3>3, <2>3
    <3> QED
      BY <3>4, <2>1
  <2>6. \A i \in n + 1..L : r.next[t[i]] = t[i + 1]
    <3> SUFFICES ASSUME NEW i \in n + 1..L
                 PROVE  r.next[t[i]] = t[i + 1]
      OBVIOUS
    <3>1. CASE i = L
      BY <3>1, <2>4, <1>1, <1>4
    <3>2. CASE i # L
      <4>1. i \in n + 1..L - 1 /\ i \in 1..L /\ i + 1 \in 1..L
        BY <3>2, <1>1
      <4> QED
        BY <4>1, <2>5, <1>1
    <3> QED
      BY <3>1, <3>2
  <2>7. t[n + 1] = s[n + 1]
    BY <1>1, <1>4
  <2> HIDE DEF r, t, L
  <2>8. /\ n \in 0..Len(t) /\ r.nb = Len(t) - n /\ n < Len(t)
        /\ r.first = t[n + 1] /\ r.last = t[Len(t)] /\ r.next[t[Len(t)]] = Null
    BY <2>3, <2>4, <2>7, <1>1, <1>4
  <2>9. \A i \in n + 1..Len(t) - 1 : r.next[t[i]] = t[i + 1]
    BY <2>6, <1>1
  <2>10. Holds(r, t, n)
    BY <2>8, <2>9 DEF Holds
  <2> QED
    BY <2>10, <2>4 DEF r, t
<1> QED
  BY <1>1, <1>3, <1>4

\* packet_queue_get: the first packet leaves the list, and the last one leaves it
\* empty.
LEMMA GetHolds ==
  ASSUME NEW s \in Seq(Pkts), NEW n \in Nat, NEW q, NEW bytes,
         Holds(q, s, n), q.first # Null
  PROVE  /\ n + 1 \in 1..Len(s) /\ q.first = s[n + 1]
         /\ Holds(packet_queue_get(q, bytes), s, n + 1)
         /\ packet_queue_get(q, bytes).next = q.next
<1> DEFINE r == packet_queue_get(q, bytes)
           L == Len(s)
<1>1. L \in Nat /\ n \in 0..L /\ n < L /\ q.nb = L - n
  BY DEF Holds
<1>2. /\ q.first = s[n + 1] /\ q.last = s[L] /\ q.next[s[L]] = Null
      /\ \A i \in n + 1..L - 1 : q.next[s[i]] = s[i + 1]
  BY <1>1 DEF Holds
<1>3. r.next = q.next /\ r.nb = L - (n + 1) /\ r.first = q.next[s[n + 1]]
  BY <1>1, <1>2 DEF packet_queue_get
<1>4. CASE n + 1 = L
  <2>1. r.first = Null /\ r.last = Null
    BY <1>2, <1>4 DEF packet_queue_get
  <2> QED
    BY <2>1, <1>1, <1>2, <1>3, <1>4 DEF Holds
<1>5. CASE n + 1 < L
  <2>1. n + 1 \in n + 1..L - 1 /\ n + 2 \in 1..L
    BY <1>1, <1>5
  <2>2. r.first = s[n + 2]
    BY <2>1, <1>2, <1>3
  <2>3. s[n + 2] # Null
    BY <2>1, PacketAssumption DEF Pkts, Null
  <2>4. r.last = s[L]
    BY <2>2, <2>3, <1>2, <1>3 DEF packet_queue_get
  <2> QED
    BY <2>2, <2>4, <1>1, <1>2, <1>3, <1>5 DEF Holds
<1> QED
  BY <1>1, <1>2, <1>3, <1>4, <1>5

-------------------------------------------------------------------------------
LEMMA NodesAreNumbers ==
  ASSUME NEW s \in Seq(Pkts)
  PROVE  \A i \in 1..Len(s) : s[i] \in Nat
<1>1. \A i \in 1..Len(s) : s[i] \in Pkts
  OBVIOUS
<1>2. Pkts \subseteq Nat
  BY PacketAssumption DEF Pkts
<1> QED
  BY <1>1, <1>2

LEMMA InitHolds == Holds(packet_queue_init, <<>>, 0)
BY DEF Holds, packet_queue_init

\* A step that leaves the queues alone and does not bring the reader back.
LEMMA Quiet ==
  ASSUME FifoInv, UNCHANGED <<file, running, read, queues, sent, got, pkt>>,
         DOMAIN pc' = Threads,
         \/ pc'["reader"] = pc["reader"]
         \/ pc["reader"] # "off" /\ pc'["reader"] \notin {"off", "open"}
  PROVE  FifoInv'
<1>1. Shapes'
  BY DEF FifoInv, Shapes
<1>2. QueueFifo' /\ \A k \in Kinds : Ordered(sent[k], read)'
  BY DEF FifoInv, QueueFifo, Holds, Ordered
<1>3. Once' /\ Fresh'
  BY DEF FifoInv, Once, Fresh
<1> QED
  BY <1>1, <1>2, <1>3 DEF FifoInv

LEMMA FifoInit == Init => FifoInv
<1> SUFFICES ASSUME Init PROVE FifoInv
  OBVIOUS
<1>1. /\ file \in Files /\ read = 0 /\ ~running
      /\ pc = [t \in Threads |-> IF t = "main" THEN "loop" ELSE "off"]
      /\ queues = [k \in Kinds |-> packet_queue_init]
      /\ sent = [k \in Kinds |-> <<>>] /\ got = [k \in Kinds |-> 0]
      /\ DOMAIN pkt = Kinds
  BY DEF Init
<1>2. packet_queue_init.next \in [Pkts -> Ptrs]
  BY DEF packet_queue_init, Ptrs
<1>3. read \in 0..Len(file.packets)
  BY <1>1, VideoAssumption
<1>4. Shapes
  BY <1>1, <1>2, <1>3 DEF Shapes
<1>5. \A k \in Kinds : sent[k] = <<>> /\ got[k] = 0 /\ queues[k] = packet_queue_init
  BY <1>1
<1>6. Ordered(<<>>, read)
  BY DEF Ordered
<1>7. QueueFifo /\ \A k \in Kinds : Ordered(sent[k], read)
  BY <1>5, <1>6, InitHolds DEF QueueFifo
<1>8. Once /\ Fresh
  BY <1>1, <1>5 DEF Once, Fresh, Threads
<1> QED
  BY <1>4, <1>7, <1>8 DEF FifoInv

\* 940-957: only a program that was not started gets a reader.
LEMMA StartFifo == FifoInv /\ CmdStart => FifoInv'
<1> SUFFICES ASSUME FifoInv, CmdStart PROVE FifoInv'
  OBVIOUS
<1>1. UNCHANGED <<file, read, queues, sent, got, pkt>>
  BY DEF CmdStart, readerVars, decoderVars
<1>2. CASE MayStart
  <2>1. running' = TRUE /\ pc' = [pc EXCEPT !["reader"] = "open"]
    BY <1>2 DEF CmdStart, Goto
  <2>2. pc["reader"] = "off" /\ DOMAIN pc' = Threads
    BY <1>2, <2>1 DEF MayStart, FifoInv, Once, Shapes
  <2>3. Shapes'
    BY <1>1, <2>2 DEF FifoInv, Shapes
  <2>4. QueueFifo' /\ \A k \in Kinds : Ordered(sent[k], read)'
    BY <1>1 DEF FifoInv, QueueFifo, Holds, Ordered
  <2>5. Once' /\ Fresh'
    BY <1>1, <2>1, <2>2 DEF FifoInv, Once, Fresh
  <2> QED
    BY <2>3, <2>4, <2>5 DEF FifoInv
<1>3. CASE ~MayStart
  <2>1. UNCHANGED <<running, pc>>
    BY <1>3 DEF CmdStart
  <2> QED
    BY <1>1, <2>1, Quiet DEF FifoInv, Shapes
<1> QED
  BY <1>2, <1>3

\* 775-805: the reader initialises queues that nobody has used.
LEMMA OpenFifo == FifoInv /\ OpenStreams => FifoInv'
<1> SUFFICES ASSUME FifoInv, OpenStreams PROVE FifoInv'
  OBVIOUS
<1>1. /\ UNCHANGED <<file, read, running, sent, got, pkt>>
      /\ queues' = [k \in Kinds |-> packet_queue_init]
      /\ pc["reader"] = "open"
  BY DEF OpenStreams, mainVars, decoderVars, At
<1>2. \A k \in Kinds : sent[k] = <<>> /\ got[k] = 0
  <2>1. \A k \in Kinds : sent[k] = <<>>
    BY <1>1 DEF FifoInv, Fresh
  <2>2. \A k \in Kinds : got[k] \in 0..Len(sent[k])
    BY DEF FifoInv, QueueFifo, Holds
  <2> QED
    BY <2>1, <2>2
<1>3. DOMAIN pc' = Threads /\ pc'["reader"] \notin {"off", "open"}
  <2>1. PICK sound \in BOOLEAN, picture \in BOOLEAN :
          pc' = [pc EXCEPT !["reader"] = IF picture THEN "loop" ELSE "done",
                           !["audio"]  = IF sound THEN "idle" ELSE @,
                           !["video"]  = IF picture THEN "get" ELSE @]
    BY DEF OpenStreams
  <2> QED
    BY <2>1 DEF FifoInv, Shapes, Threads, Kinds
<1>4. packet_queue_init.next \in [Pkts -> Ptrs]
  BY DEF packet_queue_init, Ptrs
<1>5. Shapes'
  BY <1>1, <1>3, <1>4 DEF FifoInv, Shapes
<1>6. QueueFifo'
  BY <1>1, <1>2, InitHolds DEF QueueFifo
<1>7. \A k \in Kinds : Ordered(sent[k], read)'
  BY <1>1 DEF FifoInv, Ordered
<1>8. Once' /\ Fresh'
  BY <1>1, <1>3 DEF FifoInv, Once, Fresh
<1> QED
  BY <1>5, <1>6, <1>7, <1>8 DEF FifoInv

\* 818-833: the packet that is read comes after those that were put.
LEMMA ReadFifo == FifoInv /\ ReadPacket => FifoInv'
<1> SUFFICES ASSUME FifoInv, ReadPacket PROVE FifoInv'
  OBVIOUS
<1>1. /\ UNCHANGED <<file, running, got, pkt>>
      /\ read < Len(file.packets) /\ read' = read + 1 /\ pc["reader"] = "loop"
  BY DEF ReadPacket, mainVars, decoderVars, At
<1>2. read \in Nat /\ read' \in Pkts /\ read' \in 0..Len(file.packets)
  BY <1>1, PacketAssumption, VideoAssumption DEF FifoInv, Shapes, Pkts
<1>3. ASSUME NEW s, Ordered(s, read)
      PROVE  Ordered(s, read')
  <2>1. \A i \in 1..Len(s) : s[i] \in Nat
    BY <1>3, NodesAreNumbers DEF Ordered
  <2>2. \A i \in 1..Len(s) : s[i] <= read + 1
    <3> TAKE i \in 1..Len(s)
    <3>1. s[i] <= read /\ s[i] \in Nat /\ read \in Nat
      BY <1>2, <1>3, <2>1 DEF Ordered
    <3> QED
      BY <3>1
  <2> QED
    BY <1>1, <1>3, <2>2 DEF Ordered
<1>4. CASE UNCHANGED <<queues, sent, pc>>
  <2>1. Shapes'
    BY <1>1, <1>2, <1>4 DEF FifoInv, Shapes
  <2>2. \A k \in Kinds : Ordered(sent[k], read)'
    BY <1>3, <1>4 DEF FifoInv, Ordered
  <2>3. QueueFifo' /\ Once' /\ Fresh'
    BY <1>1, <1>4 DEF FifoInv, QueueFifo, Holds, Once, Fresh
  <2> QED
    BY <2>1, <2>2, <2>3 DEF FifoInv
<1>5. ASSUME NEW k \in Kinds,
             queues' = [queues EXCEPT ![k] = packet_queue_put(@, read', Bytes(read'))],
             sent' = [sent EXCEPT ![k] = Append(@, read')],
             pc' = [pc EXCEPT ![k] = Woken(@)]
      PROVE  FifoInv'
  <2>1. pc'["reader"] = pc["reader"] /\ DOMAIN pc' = Threads
    BY <1>5 DEF FifoInv, Shapes, Kinds, Threads
  <2>2. /\ sent[k] \in Seq(Pkts) /\ got[k] \in Nat /\ Holds(queues[k], sent[k], got[k])
        /\ \A i \in 1..Len(sent[k]) : sent[k][i] < read'
        /\ \A i, j \in 1..Len(sent[k]) : i < j => sent[k][i] < sent[k][j]
        /\ queues[k].next \in [Pkts -> Ptrs]
    <3>1. /\ sent[k] \in Seq(Pkts) /\ got[k] \in Nat /\ queues[k].next \in [Pkts -> Ptrs]
          /\ \A i \in 1..Len(sent[k]) : sent[k][i] <= read
          /\ \A i, j \in 1..Len(sent[k]) : i < j => sent[k][i] < sent[k][j]
      BY DEF FifoInv, Shapes, Ordered
    <3>2. \A i \in 1..Len(sent[k]) : sent[k][i] \in Nat
      BY <3>1, NodesAreNumbers
    <3>3. \A i \in 1..Len(sent[k]) : sent[k][i] < read'
      <4> TAKE i \in 1..Len(sent[k])
      <4>1. sent[k][i] <= read /\ sent[k][i] \in Nat
        BY <3>1, <3>2
      <4> QED
        BY <1>1, <1>2, <4>1
    <3>4. Holds(queues[k], sent[k], got[k])
      BY DEF FifoInv, QueueFifo
    <3> QED
      BY <3>1, <3>3, <3>4
  <2>3. /\ queues'[k] = packet_queue_put(queues[k], read', Bytes(read'))
        /\ sent'[k] = Append(sent[k], read')
        /\ DOMAIN queues' = Kinds /\ DOMAIN sent' = Kinds
        /\ \A j \in Kinds \ {k} : queues'[j] = queues[j] /\ sent'[j] = sent[j]
    BY <1>5 DEF FifoInv, Shapes
  <2>4. /\ Holds(queues'[k], sent'[k], got[k])
        /\ queues'[k].next \in [Pkts -> Ptrs]
    <3> DEFINE r == packet_queue_put(queues[k], read', Bytes(read'))
    <3>1. Holds(r, Append(sent[k], read'), got[k]) /\ r.next \in [Pkts -> Ptrs]
      BY <1>2, <2>2, PutHolds
    <3> HIDE DEF r
    <3> QED
      BY <2>3, <3>1 DEF r
  <2>5. Shapes'
    BY <1>1, <1>2, <2>1, <2>3, <2>4 DEF FifoInv, Shapes
  <2>6. got[k] > 0 => pkt[k] = sent'[k][got[k]]
    BY <2>2, <2>3 DEF FifoInv, QueueFifo, Holds
  <2>7. QueueFifo'
    <3>1. \A j \in Kinds \ {k} : /\ Holds(queues'[j], sent'[j], got[j])
                                 /\ got[j] > 0 => pkt[j] = sent'[j][got[j]]
      BY <2>3 DEF FifoInv, QueueFifo
    <3> QED
      BY <1>1, <2>4, <2>6, <3>1 DEF QueueFifo
  <2>8. Ordered(sent'[k], read')
    <3> DEFINE L == Len(sent[k])
               t == sent'[k]
    <3>1. /\ t \in Seq(Pkts) /\ L \in Nat /\ Len(t) = L + 1
          /\ t[L + 1] = read' /\ \A i \in 1..L : t[i] = sent[k][i]
      BY <1>2, <2>2, <2>3
    <3>2. \A i \in 1..L : t[i] < read'
      BY <2>2, <3>1
    <3>3. \A i, j \in 1..L : i < j => t[i] < t[j]
      BY <2>2, <3>1
    <3> HIDE DEF t, L
    <3>4. \A i \in 1..L : t[i] \in Nat
      BY <3>1, NodesAreNumbers
    <3>5. \A i \in 1..Len(t) : t[i] <= read'
      <4> TAKE i \in 1..Len(t)
      <4>1. CASE i = L + 1
        BY <1>2, <3>1, <4>1
      <4>2. CASE i # L + 1
        <5>1. i \in 1..L
          BY <3>1, <4>2
        <5> QED
          BY <1>2, <3>2, <3>4, <5>1 DEF Pkts
      <4> QED
        BY <4>1, <4>2
    <3>6. \A i, j \in 1..Len(t) : i < j => t[i] < t[j]
      <4> SUFFICES ASSUME NEW i \in 1..Len(t), NEW j \in 1..Len(t), i < j
                   PROVE  t[i] < t[j]
        OBVIOUS
      <4>1. i \in 1..L
        BY <3>1
      <4>2. CASE j = L + 1
        BY <3>1, <3>2, <4>1, <4>2
      <4>3. CASE j # L + 1
        <5>1. j \in 1..L
          BY <3>1, <4>3
        <5> QED
          BY <3>3, <4>1, <5>1
      <4> QED
        BY <4>2, <4>3
    <3>7. Ordered(t, read')
      BY <3>1, <3>5, <3>6 DEF Ordered
    <3> QED
      BY <3>7 DEF t
  <2>9. \A j \in Kinds : Ordered(sent[j], read)'
    BY <1>3, <2>3, <2>8 DEF FifoInv
  <2>10. Once' /\ Fresh'
    BY <1>1, <2>1 DEF FifoInv, Once, Fresh
  <2> QED
    BY <2>5, <2>7, <2>9, <2>10 DEF FifoInv
<1> QED
  BY <1>4, <1>5 DEF ReadPacket

\* 49-76: a decoder takes the packet that is next.
LEMMA LookFifo == ASSUME NEW k \in Kinds PROVE FifoInv /\ packet_queue_look(k) => FifoInv'
<1> SUFFICES ASSUME FifoInv, packet_queue_look(k) PROVE FifoInv'
  OBVIOUS
<1>1. UNCHANGED <<file, running, read, sent>>
  BY DEF packet_queue_look, mainVars, readerVars
<1>2. pc'["reader"] = pc["reader"] /\ DOMAIN pc' = Threads
  <2>1. \E l : pc' = [pc EXCEPT ![k] = l]
    BY DEF packet_queue_look, Goto
  <2> QED
    BY <2>1 DEF FifoInv, Shapes, Kinds, Threads
<1>3. CASE quit \/ queues[k].first = Null
  <2>1. UNCHANGED <<queues, got, pkt>>
    BY <1>3 DEF packet_queue_look, decoderVars
  <2> QED
    BY <1>1, <1>2, <2>1, Quiet
<1>4. CASE ~quit /\ queues[k].first # Null
  <2> DEFINE p == queues[k].first
  <2>1. /\ pkt' = [pkt EXCEPT ![k] = p]
        /\ queues' = [queues EXCEPT ![k] = packet_queue_get(@, Bytes(p))]
        /\ got' = [got EXCEPT ![k] = @ + 1]
    BY <1>4 DEF packet_queue_look
  <2>2. /\ pkt'[k] = p /\ DOMAIN pkt' = Kinds
        /\ queues'[k] = packet_queue_get(queues[k], Bytes(p)) /\ DOMAIN queues' = Kinds
        /\ got'[k] = got[k] + 1 /\ got' \in [Kinds -> Nat]
        /\ \A j \in Kinds \ {k} : queues'[j] = queues[j] /\ got'[j] = got[j] /\ pkt'[j] = pkt[j]
    BY <2>1 DEF FifoInv, Shapes
  <2>3. /\ sent[k] \in Seq(Pkts) /\ got[k] \in Nat /\ Holds(queues[k], sent[k], got[k])
    BY DEF FifoInv, Shapes, QueueFifo, Ordered
  <2>4. /\ p = sent[k][got[k] + 1]
        /\ Holds(queues'[k], sent[k], got[k] + 1)
        /\ queues'[k].next = queues[k].next
    BY <1>4, <2>2, <2>3, GetHolds
  <2> HIDE DEF p
  <2>5. Shapes'
    BY <1>1, <1>2, <2>2, <2>4 DEF FifoInv, Shapes
  <2>6. QueueFifo'
    <3>1. \A j \in Kinds \ {k} : /\ Holds(queues'[j], sent[j], got'[j])
                                 /\ got'[j] > 0 => pkt'[j] = sent[j][got'[j]]
      BY <2>2 DEF FifoInv, QueueFifo
    <3> QED
      BY <1>1, <2>2, <2>4, <3>1 DEF QueueFifo
  <2>7. (\A j \in Kinds : Ordered(sent[j], read)') /\ Once' /\ Fresh'
    BY <1>1, <1>2 DEF FifoInv, Ordered, Once, Fresh
  <2> QED
    BY <2>5, <2>6, <2>7 DEF FifoInv
<1> QED
  BY <1>3, <1>4

\* The other steps of the main thread.
LEMMA MainFifo == FifoInv /\ Main => FifoInv'
<1> SUFFICES ASSUME FifoInv, Main PROVE FifoInv'
  OBVIOUS
<1> USE DEF mainVars, readerVars, decoderVars
<1>1. DOMAIN pc = Threads
  BY DEF FifoInv, Shapes
<1>2. CASE CmdStop
  BY <1>1, <1>2, Quiet DEF CmdStop
<1>3. CASE CmdStart
  BY <1>3, StartFifo
<1>4. CASE CmdOther
  BY <1>1, <1>4, Quiet DEF CmdOther, Goto, Threads
<1>5. CASE RefreshEmpty
  BY <1>1, <1>5, Quiet DEF RefreshEmpty
<1>6. CASE RefreshShow
  BY <1>1, <1>6, Quiet DEF RefreshShow, Goto, Threads
<1>7. CASE video_display
  <2>1. Goto("main", "crashed") \/ GotoLoopAndSignal
    BY <1>7 DEF video_display
  <2> QED
    BY <1>1, <1>7, <2>1, Quiet DEF video_display, Goto, GotoLoopAndSignal, Threads
<1>8. CASE alloc_picture
  <2>1. UNCHANGED pc \/ GotoLoopAndSignal
    BY <1>8 DEF alloc_picture
  <2> QED
    BY <1>1, <1>8, <2>1, Quiet DEF alloc_picture, GotoLoopAndSignal, Threads
<1>9. CASE QuitSignal
  <2>1. pc' = [t \in Threads |-> IF t = "main" THEN "quit" ELSE Woken(pc[t])]
    BY <1>9 DEF QuitSignal
  <2>2. DOMAIN pc' = Threads /\ pc'["reader"] = Woken(pc["reader"])
    BY <2>1 DEF Threads
  <2>3. \/ pc'["reader"] = pc["reader"]
        \/ pc["reader"] # "off" /\ pc'["reader"] \notin {"off", "open"}
    BY <2>2 DEF Woken
  <2> QED
    BY <1>9, <2>2, <2>3, Quiet DEF QuitSignal
<1>10. CASE QuitSet
  BY <1>1, <1>10, Quiet DEF QuitSet, Goto, Threads
<1>11. CASE QuitDone
  BY <1>1, <1>11, Quiet DEF QuitDone, Goto, Threads
<1> QED
  BY <1>2, <1>3, <1>4, <1>5, <1>6, <1>7, <1>8, <1>9, <1>10, <1>11 DEF Main

LEMMA ReaderFifo == FifoInv /\ (Reader \/ ReadError) => FifoInv'
<1> SUFFICES ASSUME FifoInv, Reader \/ ReadError PROVE FifoInv'
  OBVIOUS
<1> USE DEF mainVars, readerVars, decoderVars, At, Goto, Threads
<1>1. DOMAIN pc = Threads
  BY DEF FifoInv, Shapes
<1>2. CASE OpenFails
  BY <1>1, <1>2, Quiet DEF OpenFails
<1>3. CASE OpenStreams
  BY <1>3, OpenFifo
<1>4. CASE ReadPacket
  BY <1>4, ReadFifo
<1>5. CASE ReadError
  BY <1>1, <1>5, Quiet DEF ReadError
<1>6. CASE ReaderFlood
  BY <1>1, <1>6, Quiet DEF ReaderFlood
<1>7. CASE ReaderQuits
  BY <1>1, <1>7, Quiet DEF ReaderQuits
<1> QED
  BY <1>2, <1>3, <1>4, <1>5, <1>6, <1>7 DEF Reader

\* The steps of the decoders that do not look into a queue.
LEMMA DecoderFifo ==
  FifoInv /\ (Video \/ Audio \/ audio_callback \/ \E k \in Kinds : Spurious(k)) => FifoInv'
<1> SUFFICES ASSUME FifoInv, Video \/ Audio \/ audio_callback \/ \E k \in Kinds : Spurious(k)
             PROVE  FifoInv'
  OBVIOUS
<1>1. ASSUME UNCHANGED <<file, running, read, queues, sent, got, pkt>>,
             NEW k \in Kinds, NEW l, Goto(k, l)
      PROVE  FifoInv'
  BY <1>1, Quiet DEF FifoInv, Shapes, Goto, Threads, Kinds
<1> USE DEF mainVars, readerVars, decoderVars
<1>2. ASSUME NEW k \in Kinds, packet_queue_look(k) \/ QueueSleep(k) \/ Spurious(k)
      PROVE  FifoInv'
  BY <1>1, <1>2, LookFifo DEF QueueSleep, Spurious
<1>3. "video" \in Kinds /\ "audio" \in Kinds
  BY DEF Kinds
<1>4. CASE VideoQuits
  BY <1>1, <1>3, <1>4 DEF VideoQuits
<1>5. CASE queue_picture_space
  <2>1. \E l : Goto("video", l)
    BY <1>5 DEF queue_picture_space
  <2> QED
    BY <1>1, <1>3, <1>5, <2>1 DEF queue_picture_space
<1>6. CASE queue_picture_alloc
  BY <1>1, <1>3, <1>6 DEF queue_picture_alloc
<1>7. CASE queue_picture_fill
  BY <1>1, <1>3, <1>7 DEF queue_picture_fill
<1>8. CASE audio_callback
  BY <1>1, <1>3, <1>8 DEF audio_callback
<1>9. CASE DecodeAudio
  <2>1. \E l : Goto("audio", l)
    BY <1>9 DEF DecodeAudio, NextPiece
  <2> QED
    BY <1>1, <1>3, <1>9, <2>1 DEF DecodeAudio
<1>10. CASE Silence
  <2>1. \E l : Goto("audio", l)
    BY <1>10 DEF Silence, NextPiece
  <2> QED
    BY <1>1, <1>3, <1>10, <2>1 DEF Silence
<1> QED
  BY <1>2, <1>3, <1>4, <1>5, <1>6, <1>7, <1>8, <1>9, <1>10 DEF Video, Audio

LEMMA FifoStep == FifoInv /\ [Next]_vars => FifoInv'
<1> SUFFICES ASSUME FifoInv, [Next]_vars PROVE FifoInv'
  OBVIOUS
<1>1. DOMAIN pc = Threads
  BY DEF FifoInv, Shapes
<1> USE DEF mainVars, readerVars, decoderVars
<1>2. CASE FireTimer
  BY <1>1, <1>2, Quiet DEF FireTimer
<1>3. ASSUME NEW c \in Commands, Command(c) PROVE FifoInv'
  BY <1>1, <1>3, Quiet DEF Command
<1>4. CASE UNCHANGED vars
  BY <1>1, <1>4, Quiet DEF vars
<1> QED
  BY <1>2, <1>3, <1>4, MainFifo, ReaderFifo, DecoderFifo DEF Next, Environment

\* Packets reach the decoders in the order of the file, none twice and none from a
\* node that left the list, whatever the threads do.
THEOREM PacketsInOrder == Spec => []QueueFifo
<1>1. FifoInv => QueueFifo
  BY DEF FifoInv
<1> QED
  BY <1>1, FifoInit, FifoStep, PTL DEF Spec
-------------------------------------------------------------------------------
(***************************************************************************)
(* No wake-up is lost                                                      *)
(*                                                                         *)
(* NoLostWake says nothing of a thread that has looked and does not sleep  *)
(* yet. The condition must hold from its look on (Looked, Room), and main  *)
(* must find a picture to take when it makes room (Showing).               *)
(***************************************************************************)
Fields == {"bmp", "raw", "dim", "allocated", "frame"}

Pictures ==
  /\ pictq \in [size : 0..VIDEO_PICTURE_QUEUE_SIZE, rindex : Slots, windex : Slots]
  /\ DOMAIN slot = Slots /\ \A i \in Slots : DOMAIN slot[i] = Fields

Looked  == \A k \in Kinds : pc[k] \in {"towait", "asleep"} => queues[k].first = Null
Room    == pc["video"] \in {"unalloc", "noalloc", "fill"} =>
             pictq.size < VIDEO_PICTURE_QUEUE_SIZE
NoRoom  == pc["video"] = "nospace" => pictq.size = VIDEO_PICTURE_QUEUE_SIZE
Awaited == pc["video"] = "noalloc" => ~Write.allocated
Showing == pc["main"] = "show" => pictq.size > 0

WakeInv ==
  /\ DOMAIN pc = Threads /\ DOMAIN queues = Kinds
  /\ Pictures /\ Looked /\ Room /\ NoRoom /\ Awaited /\ Showing

LEMMA WakeInit == Init => WakeInv
<1> SUFFICES ASSUME Init PROVE WakeInv
  OBVIOUS
<1>1. VIDEO_PICTURE_QUEUE_SIZE \in Nat /\ 0 \in Slots
  BY VideoAssumption DEF Slots
<1>2. Pictures
  BY <1>1 DEF Init, Pictures, EmptySlot, Fields
<1>3. pc = [t \in Threads |-> IF t = "main" THEN "loop" ELSE "off"] /\ DOMAIN queues = Kinds
  BY DEF Init
<1>4. pc["main"] = "loop" /\ \A k \in Kinds : pc[k] = "off"
  BY <1>3 DEF Threads, Kinds
<1>5. pc["video"] = "off"
  BY <1>4 DEF Kinds
<1> QED
  BY <1>2, <1>3, <1>4, <1>5 DEF WakeInv, Looked, Room, NoRoom, Awaited, Showing

\* A step in which one thread moves, to where it may wait only for what is so.
LEMMA WakeGoto ==
  ASSUME WakeInv, NEW t \in Threads, NEW l, Goto(t, l), UNCHANGED <<queues, pictq, slot>>,
         t \in Kinds /\ l \in {"towait", "asleep"} => queues[t].first = Null,
         t = "video" /\ l \in {"unalloc", "noalloc", "fill"} =>
           pictq.size < VIDEO_PICTURE_QUEUE_SIZE,
         t = "video" /\ l = "nospace" => pictq.size = VIDEO_PICTURE_QUEUE_SIZE,
         t = "video" /\ l = "noalloc" => ~Write.allocated,
         t = "main" /\ l = "show" => pictq.size > 0
  PROVE  WakeInv'
<1>1. /\ DOMAIN pc' = Threads /\ pc'[t] = l
      /\ \A u \in Threads \ {t} : pc'[u] = pc[u]
  BY DEF WakeInv, Goto
<1>2. "main" \in Threads /\ "video" \in Threads /\ Kinds \subseteq Threads
  BY DEF Threads, Kinds
<1>3. Looked'
  BY <1>1, <1>2 DEF WakeInv, Looked
<1>4. Room' /\ NoRoom' /\ Showing'
  BY <1>1, <1>2 DEF WakeInv, Room, NoRoom, Showing
<1>5. Awaited'
  BY <1>1, <1>2 DEF WakeInv, Awaited, Write
<1> QED
  BY <1>1, <1>3, <1>4, <1>5 DEF WakeInv, Pictures

\* A step in which no thread moves.
LEMMA WakeStay ==
  ASSUME WakeInv, UNCHANGED <<pc, queues, pictq, slot>>
  PROVE  WakeInv'
BY DEF WakeInv, Pictures, Looked, Room, NoRoom, Awaited, Showing, Write

\* 288-327, 386-392: a picture is taken out, and whoever waited for room goes on.
LEMMA DisplayWake == WakeInv /\ video_display => WakeInv'
<1> SUFFICES ASSUME WakeInv, video_display PROVE WakeInv'
  OBVIOUS
<1> SUFFICES ASSUME GotoLoopAndSignal PROVE WakeInv'
  <2>1. CASE Goto("main", "crashed") /\ UNCHANGED <<queues, pictq, slot>>
    BY <2>1, WakeGoto DEF Threads, Kinds
  <2> QED
    BY <2>1 DEF video_display
<1> DEFINE N == VIDEO_PICTURE_QUEUE_SIZE
<1>1. N \in Nat /\ N > 0 /\ Slots = 0..N - 1
  BY VideoAssumption DEF Slots
<1>2. pictq.size \in 1..N /\ pictq.rindex \in Slots
  BY <1>1 DEF WakeInv, Pictures, Showing, video_display, At
<1>3. UNCHANGED <<queues, slot>>
  BY DEF video_display
<1> DEFINE r == (pictq.rindex + 1) % N
<1>4. /\ pictq' = [pictq EXCEPT !.rindex = r, !.size = @ - 1]
      /\ pictq \in [size : 0..N, rindex : Slots, windex : Slots]
  <2>1. pictq' = [pictq EXCEPT !.rindex = r, !.size = @ - 1] \/ Goto("main", "crashed")
    BY DEF video_display
  <2>2. ~Goto("main", "crashed")
    BY DEF Goto, GotoLoopAndSignal, WakeInv, Threads
  <2> QED
    BY <2>1, <2>2 DEF WakeInv, Pictures
<1>5. r \in Slots
  BY <1>1, <1>2
<1> HIDE DEF r
<1>6. pictq' \in [size : 0..N, rindex : Slots, windex : Slots] /\ pictq'.size < N
  <2> DEFINE n == pictq.size - 1
  <2>1. n \in 0..N /\ n < N /\ pictq' = [pictq EXCEPT !.rindex = r, !.size = n]
    BY <1>1, <1>2, <1>4
  <2> HIDE DEF n, N
  <2> QED
    BY <1>4, <1>5, <2>1
<1>7. /\ DOMAIN pc' = Threads /\ pc'["main"] = "loop"
      /\ pc'["audio"] = pc["audio"]
      /\ pc'["video"] = CASE pc["video"] = "nospace" -> "space"
                          [] pc["video"] = "noalloc" -> "unalloc"
                          [] OTHER -> pc["video"]
  BY DEF GotoLoopAndSignal, WakeInv, Threads, Kinds
<1>8. pc'["video"] \notin {"nospace", "noalloc"} /\ (pc'["video"] \in {"towait", "asleep"} =>
        pc["video"] = pc'["video"])
  BY <1>7
<1>9. Looked'
  BY <1>3, <1>7, <1>8 DEF WakeInv, Looked, Kinds
<1> HIDE DEF N
<1> QED
  BY <1>3, <1>6, <1>7, <1>8, <1>9 DEF WakeInv, Pictures, Room, NoRoom, Awaited, Showing, N

\* 399-447: the picture is allocated and its waiter goes on, or neither.
LEMMA AllocWake == WakeInv /\ alloc_picture => WakeInv'
<1> SUFFICES ASSUME WakeInv, alloc_picture PROVE WakeInv'
  OBVIOUS
<1> DEFINE w == pictq.windex
<1>1. UNCHANGED <<queues, pictq>> /\ w \in Slots /\ pc["main"] = "loop"
  BY DEF alloc_picture, Take, At, WakeInv, Pictures
<1>2. \E s : /\ slot' = [slot EXCEPT ![w] = s] /\ DOMAIN s = Fields
             /\ \/ GotoLoopAndSignal
                \/ UNCHANGED pc /\ s.allocated = slot[w].allocated
  <2>1. PICK texture, frame, buffer \in BOOLEAN :
          /\ slot' = [slot EXCEPT ![w] = Allocate(@, texture, frame, buffer)]
          /\ IF frame THEN GotoLoopAndSignal ELSE UNCHANGED pc
    BY DEF alloc_picture
  <2>2. DOMAIN slot[w] = Fields
    BY <1>1 DEF WakeInv, Pictures
  <2> DEFINE a == Allocate(slot[w], texture, frame, buffer)
  <2>3. slot' = [slot EXCEPT ![w] = a]
    BY <2>1
  <2>4. /\ DOMAIN a = Fields
        /\ ~frame => a.allocated = slot[w].allocated
    BY <2>2 DEF a, Allocate, Fields
  <2> HIDE DEF a
  <2> QED
    BY <2>1, <2>3, <2>4
<1>3. PICK s : /\ slot' = [slot EXCEPT ![w] = s] /\ DOMAIN s = Fields
               /\ \/ GotoLoopAndSignal
                  \/ UNCHANGED pc /\ s.allocated = slot[w].allocated
  BY <1>2
<1>4. DOMAIN slot' = Slots /\ slot'[w] = s /\ \A i \in Slots : DOMAIN slot'[i] = Fields
  BY <1>1, <1>3 DEF WakeInv, Pictures
<1>5. Pictures'
  BY <1>1, <1>4 DEF WakeInv, Pictures
<1>6. CASE GotoLoopAndSignal
  <2>1. /\ DOMAIN pc' = Threads /\ pc'["main"] = "loop"
        /\ pc'["audio"] = pc["audio"]
        /\ pc'["video"] = CASE pc["video"] = "nospace" -> "space"
                            [] pc["video"] = "noalloc" -> "unalloc"
                            [] OTHER -> pc["video"]
    BY <1>6 DEF GotoLoopAndSignal, WakeInv, Threads, Kinds
  <2>2. /\ pc'["video"] \notin {"nospace", "noalloc"}
        /\ pc'["video"] \in {"towait", "asleep"} => pc["video"] = pc'["video"]
        /\ pc'["video"] \in {"unalloc", "fill"} => pc["video"] \in {"unalloc", "noalloc", "fill"}
    BY <2>1
  <2>3. Looked'
    BY <1>1, <2>1, <2>2 DEF WakeInv, Looked, Kinds
  <2> QED
    BY <1>1, <1>5, <2>1, <2>2, <2>3 DEF WakeInv, Room, NoRoom, Awaited, Showing
<1>7. CASE UNCHANGED pc /\ s.allocated = slot[w].allocated
  <2>1. Awaited'
    BY <1>1, <1>4, <1>7 DEF WakeInv, Awaited, Write
  <2> QED
    BY <1>1, <1>5, <1>7, <2>1 DEF WakeInv, Looked, Room, NoRoom, Showing
<1> QED
  BY <1>3, <1>6, <1>7

\* 912-913: the decoders are signalled.
LEMMA SignalWake == WakeInv /\ QuitSignal => WakeInv'
<1> SUFFICES ASSUME WakeInv, QuitSignal PROVE WakeInv'
  OBVIOUS
<1>1. /\ pc' = [t \in Threads |-> IF t = "main" THEN "quit" ELSE Woken(pc[t])]
      /\ UNCHANGED <<queues, pictq, slot>>
  BY DEF QuitSignal, pictVars
<1>2. /\ DOMAIN pc' = Threads /\ pc'["main"] = "quit"
      /\ pc'["video"] = Woken(pc["video"]) /\ pc'["audio"] = Woken(pc["audio"])
  BY <1>1 DEF Threads, Kinds
<1>3. \A k \in Kinds : pc'[k] = pc[k] \/ pc'[k] = "get"
  BY <1>2 DEF Kinds, Woken
<1>4. Looked'
  BY <1>1, <1>3 DEF WakeInv, Looked
<1>5. pc'["video"] = pc["video"] \/ pc'["video"] = "get"
  BY <1>3 DEF Kinds
<1> QED
  BY <1>1, <1>2, <1>4, <1>5 DEF WakeInv, Pictures, Room, NoRoom, Awaited, Showing, Write

LEMMA MainWake == WakeInv /\ Main => WakeInv'
<1> SUFFICES ASSUME WakeInv, Main PROVE WakeInv'
  OBVIOUS
<1> USE DEF pictVars
<1>1. "main" \in Threads /\ "reader" \in Threads /\ "main" \notin Kinds /\ "reader" \notin Kinds
  BY DEF Threads, Kinds
<1>2. ASSUME NEW t \in {"main", "reader"}, NEW l, Goto(t, l), l # "show",
             UNCHANGED <<queues, pictq, slot>>
      PROVE  WakeInv'
  BY <1>1, <1>2, WakeGoto
<1>3. CASE CmdStop
  BY <1>3, WakeStay DEF CmdStop
<1>4. CASE CmdStart
  BY <1>2, <1>4, WakeStay DEF CmdStart
<1>5. CASE CmdOther
  BY <1>2, <1>5, WakeStay DEF CmdOther
<1>6. CASE RefreshEmpty
  BY <1>6, WakeStay DEF RefreshEmpty
<1>7. CASE RefreshShow
  <2>1. Goto("main", "show") /\ pictq.size > 0 /\ UNCHANGED <<queues, pictq, slot>>
    BY <1>7 DEF RefreshShow
  <2> QED
    BY <1>1, <2>1, WakeGoto
<1>8. CASE QuitSet
  BY <1>2, <1>8 DEF QuitSet
<1>9. CASE QuitDone
  BY <1>2, <1>9 DEF QuitDone
<1> QED
  BY <1>3, <1>4, <1>5, <1>6, <1>7, <1>8, <1>9, DisplayWake, AllocWake, SignalWake DEF Main

\* 818-833: what is put wakes the one who waits for it.
LEMMA ReadWake == WakeInv /\ ReadPacket => WakeInv'
<1> SUFFICES ASSUME WakeInv, ReadPacket PROVE WakeInv'
  OBVIOUS
<1>1. UNCHANGED <<pictq, slot>>
  BY DEF ReadPacket, pictVars
<1>2. CASE UNCHANGED <<queues, sent, pc>>
  BY <1>1, <1>2, WakeStay
<1>3. ASSUME NEW k \in Kinds, Unlocked(k), NEW q,
             queues' = [queues EXCEPT ![k] = q],
             pc' = [pc EXCEPT ![k] = Woken(@)]
      PROVE  WakeInv'
  <2>1. /\ DOMAIN pc' = Threads /\ pc'[k] = Woken(pc[k])
        /\ \A t \in Threads \ {k} : pc'[t] = pc[t]
        /\ k \in Threads /\ Kinds \subseteq Threads
    BY <1>3 DEF WakeInv, Threads
  <2>2. pc'[k] \notin {"towait", "asleep"} /\ (pc'[k] = pc[k] \/ pc'[k] = "get")
    BY <1>3, <2>1 DEF Unlocked, Woken
  <2>3. DOMAIN queues' = Kinds /\ \A j \in Kinds \ {k} : queues'[j] = queues[j]
    BY <1>3 DEF WakeInv
  <2>4. Looked'
    BY <2>1, <2>2, <2>3 DEF WakeInv, Looked
  <2>5. /\ pc'["video"] = pc["video"] \/ pc'["video"] = "get"
        /\ pc'["main"] = pc["main"]
    BY <2>1, <2>2 DEF Threads, Kinds
  <2> QED
    BY <1>1, <2>1, <2>3, <2>4, <2>5
       DEF WakeInv, Pictures, Room, NoRoom, Awaited, Showing, Write
<1> QED
  BY <1>2, <1>3 DEF ReadPacket

LEMMA ReaderWake == WakeInv /\ (Reader \/ ReadError) => WakeInv'
<1> SUFFICES ASSUME WakeInv, Reader \/ ReadError PROVE WakeInv'
  OBVIOUS
<1> USE DEF pictVars
<1>1. "reader" \in Threads /\ "reader" \notin Kinds
  BY DEF Threads, Kinds
<1>2. ASSUME NEW l, Goto("reader", l), UNCHANGED <<queues, pictq, slot>> PROVE WakeInv'
  BY <1>1, <1>2, WakeGoto
<1>3. CASE OpenFails
  BY <1>2, <1>3 DEF OpenFails
<1>4. CASE OpenStreams
  <2>1. PICK sound, picture \in BOOLEAN :
          pc' = [pc EXCEPT !["reader"] = IF picture THEN "loop" ELSE "done",
                           !["audio"]  = IF sound THEN "idle" ELSE @,
                           !["video"]  = IF picture THEN "get" ELSE @]
    BY <1>4 DEF OpenStreams
  <2>2. /\ DOMAIN pc' = Threads /\ pc'["main"] = pc["main"]
        /\ pc'["video"] = pc["video"] \/ pc'["video"] = "get"
    BY <2>1 DEF WakeInv, Threads, Kinds
  <2>3. DOMAIN queues' = Kinds /\ \A k \in Kinds : queues'[k].first = Null
    BY <1>4 DEF OpenStreams, packet_queue_init
  <2>4. Looked'
    BY <2>3 DEF Looked
  <2>5. UNCHANGED <<pictq, slot>>
    BY <1>4 DEF OpenStreams
  <2> QED
    BY <2>2, <2>3, <2>4, <2>5 DEF WakeInv, Pictures, Room, NoRoom, Awaited, Showing, Write
<1>5. CASE ReadError
  BY <1>2, <1>5 DEF ReadError
<1>6. CASE ReaderFlood
  BY <1>6, WakeStay DEF ReaderFlood
<1>7. CASE ReaderQuits
  BY <1>2, <1>7 DEF ReaderQuits
<1> QED
  BY <1>3, <1>4, <1>5, <1>6, <1>7, ReadWake DEF Reader

\* 49-76: a thread sleeps on an empty queue only.
LEMMA LookWake == ASSUME NEW k \in Kinds PROVE WakeInv /\ packet_queue_look(k) => WakeInv'
<1> SUFFICES ASSUME WakeInv, packet_queue_look(k) PROVE WakeInv'
  OBVIOUS
<1>1. UNCHANGED <<pictq, slot>> /\ k \in Threads
  BY DEF packet_queue_look, pictVars, Threads
<1>2. CASE quit \/ queues[k].first = Null
  <2>1. /\ UNCHANGED queues
        /\ \/ Goto(k, "quit")
           \/ Goto(k, "towait") /\ queues[k].first = Null
    BY <1>2 DEF packet_queue_look
  <2> QED
    BY <1>1, <2>1, WakeGoto
<1>3. CASE ~quit /\ queues[k].first # Null
  <2>1. PICK q : queues' = [queues EXCEPT ![k] = q]
    BY <1>3 DEF packet_queue_look
  <2>2. PICK l \in {"decode", "space", "get"} : Goto(k, l)
    BY <1>3 DEF packet_queue_look, Decoded
  <2>3. /\ DOMAIN pc' = Threads /\ pc'[k] = l
        /\ \A t \in Threads \ {k} : pc'[t] = pc[t]
        /\ DOMAIN queues' = Kinds /\ \A j \in Kinds \ {k} : queues'[j] = queues[j]
    BY <1>1, <2>1, <2>2 DEF WakeInv, Goto
  <2>4. Looked'
    BY <2>3 DEF WakeInv, Looked, Threads
  <2>5. /\ pc'["video"] = pc["video"] \/ pc'["video"] \in {"decode", "space", "get"}
        /\ pc'["main"] = pc["main"]
    BY <2>3 DEF Threads, Kinds
  <2> QED
    BY <1>1, <2>3, <2>4, <2>5 DEF WakeInv, Pictures, Room, NoRoom, Awaited, Showing, Write
<1> QED
  BY <1>2, <1>3

\* 489-504: the slot joins the queue, for which there is room.
LEMMA FillWake == WakeInv /\ queue_picture_fill => WakeInv'
<1> SUFFICES ASSUME WakeInv, queue_picture_fill PROVE WakeInv'
  OBVIOUS
<1> SUFFICES ASSUME Goto("video", "get") PROVE WakeInv'
  <2>1. CASE Goto("video", "crashed") /\ UNCHANGED <<queues, pictq, slot>>
    BY <2>1, WakeGoto DEF Threads, Kinds
  <2> QED
    BY <2>1 DEF queue_picture_fill, pictVars
<1> DEFINE N == VIDEO_PICTURE_QUEUE_SIZE
<1>1. N \in Nat /\ N > 0 /\ Slots = 0..N - 1
  BY VideoAssumption DEF Slots
<1>2. Goto("video", "get") /\ UNCHANGED queues /\ pc["video"] = "fill"
  BY DEF queue_picture_fill, At
<1>3. /\ DOMAIN pc' = Threads /\ pc'["video"] = "get"
      /\ pc'["main"] = pc["main"] /\ pc'["audio"] = pc["audio"]
  BY <1>2 DEF Goto, WakeInv, Threads, Kinds
<1>4. pictq \in [size : 0..N, rindex : Slots, windex : Slots] /\ pictq.size < N
  BY <1>2 DEF WakeInv, Pictures, Room
<1>5. pictq'.size >= pictq.size /\ Pictures'
  <2>1. CASE UNCHANGED pictVars
    BY <1>1, <1>4, <2>1 DEF WakeInv, Pictures, pictVars
  <2>2. CASE /\ slot' = [slot EXCEPT ![pictq.windex].frame = pkt["video"]]
             /\ pictq' = [pictq EXCEPT !.windex = (@ + 1) % N, !.size = @ + 1]
    <3> DEFINE w == (pictq.windex + 1) % N
               n == pictq.size + 1
    <3>1. /\ w \in Slots /\ n \in 0..N /\ n >= pictq.size
          /\ pictq' = [pictq EXCEPT !.windex = w, !.size = n]
      BY <1>1, <1>4, <2>2
    <3> HIDE DEF w, n, N
    <3>2. pictq' \in [size : 0..N, rindex : Slots, windex : Slots] /\ pictq'.size >= pictq.size
      BY <1>4, <3>1
    <3>3. DOMAIN slot' = Slots /\ \A i \in Slots : DOMAIN slot'[i] = Fields
      BY <1>4, <2>2 DEF WakeInv, Pictures
    <3> QED
      BY <3>2, <3>3 DEF Pictures, N
  <2> QED
    BY <2>1, <2>2 DEF queue_picture_fill
<1>6. Looked'
  BY <1>2, <1>3 DEF WakeInv, Looked, Kinds
<1>7. pictq'.size \in Int /\ pictq.size \in Int
  BY <1>1, <1>4, <1>5 DEF Pictures
<1> HIDE DEF N
<1>8. Showing'
  BY <1>3, <1>5, <1>7 DEF WakeInv, Showing
<1> QED
  BY <1>2, <1>3, <1>5, <1>6, <1>8 DEF WakeInv, Room, NoRoom, Awaited

LEMMA DecoderWake ==
  WakeInv /\ (Video \/ Audio \/ audio_callback \/ \E k \in Kinds : Spurious(k)) => WakeInv'
<1> SUFFICES ASSUME WakeInv, Video \/ Audio \/ audio_callback \/ \E k \in Kinds : Spurious(k)
             PROVE  WakeInv'
  OBVIOUS
<1> USE DEF pictVars
<1>1. /\ "video" \in Kinds /\ "audio" \in Kinds /\ Kinds \subseteq Threads
      /\ "main" \notin Kinds /\ "audio" # "video"
  BY DEF Kinds, Threads
<1>2. ASSUME NEW k \in Kinds, NEW l, Goto(k, l), UNCHANGED <<queues, pictq, slot>>,
             l \notin {"towait", "asleep", "unalloc", "noalloc", "fill", "nospace"}
      PROVE  WakeInv'
  BY <1>1, <1>2, WakeGoto
<1>3. ASSUME NEW k \in Kinds, QueueSleep(k) PROVE WakeInv'
  <2>1. Goto(k, "asleep") /\ UNCHANGED <<queues, pictq, slot>> /\ queues[k].first = Null
    BY <1>3 DEF QueueSleep, At, WakeInv, Looked
  <2> QED
    BY <1>1, <2>1, WakeGoto
<1>4. ASSUME NEW k \in Kinds, Spurious(k) PROVE WakeInv'
  BY <1>2, <1>4 DEF Spurious
<1>5. CASE VideoQuits
  BY <1>1, <1>2, <1>5 DEF VideoQuits
<1>6. CASE queue_picture_space
  <2> DEFINE N == VIDEO_PICTURE_QUEUE_SIZE
  <2>1. N \in Nat /\ pictq.size \in 0..N /\ pictq.windex \in Slots
    BY VideoAssumption DEF WakeInv, Pictures
  <2>2. UNCHANGED <<queues, pictq>>
    BY <1>6 DEF queue_picture_space
  <2>3. \/ Goto("video", "done") /\ UNCHANGED slot
        \/ Goto("video", "nospace") /\ UNCHANGED slot /\ pictq.size = N
        \/ Goto("video", "fill") /\ UNCHANGED slot /\ pictq.size < N
        \/ /\ Goto("video", "unalloc") /\ pictq.size < N
           /\ slot' = [slot EXCEPT ![pictq.windex].allocated = FALSE]
    BY <1>6, <2>1 DEF queue_picture_space, NoSpace
  <2>4. CASE UNCHANGED slot
    BY <1>1, <2>2, <2>3, <2>4, WakeGoto
  <2>5. CASE /\ Goto("video", "unalloc") /\ pictq.size < N
             /\ slot' = [slot EXCEPT ![pictq.windex].allocated = FALSE]
    <3>1. DOMAIN slot' = Slots /\ \A i \in Slots : DOMAIN slot'[i] = Fields
      BY <2>1, <2>5 DEF WakeInv, Pictures
    <3>2. /\ DOMAIN pc' = Threads /\ pc'["video"] = "unalloc"
          /\ pc'["main"] = pc["main"] /\ pc'["audio"] = pc["audio"]
      BY <2>5 DEF Goto, WakeInv, Threads, Kinds
    <3>3. Looked'
      BY <2>2, <3>2 DEF WakeInv, Looked, Kinds
    <3> QED
      BY <2>2, <2>5, <3>1, <3>2, <3>3 DEF WakeInv, Pictures, Room, NoRoom, Awaited, Showing
  <2> QED
    BY <2>3, <2>4, <2>5
<1>7. CASE queue_picture_alloc
  <2>1. /\ UNCHANGED <<queues, pictq, slot>>
        /\ pictq.size < VIDEO_PICTURE_QUEUE_SIZE
        /\ \/ Goto("video", "done") \/ Goto("video", "fill")
           \/ Goto("video", "noalloc") /\ ~Write.allocated
    BY <1>7 DEF queue_picture_alloc, Allocated, At, WakeInv, Room
  <2> QED
    BY <1>1, <2>1, WakeGoto
<1>8. CASE audio_callback
  <2>1. \E l \in {"decode", "get"} : Goto("audio", l)
    BY <1>8 DEF audio_callback, NextFrame
  <2> QED
    BY <1>1, <1>2, <1>8, <2>1 DEF audio_callback
<1>9. CASE DecodeAudio
  <2>1. \E l \in {"decode", "get", "idle", "quit"} : Goto("audio", l)
    BY <1>9 DEF DecodeAudio, NextPiece, NextFrame
  <2> QED
    BY <1>1, <1>2, <1>9, <2>1 DEF DecodeAudio
<1>10. CASE Silence
  <2>1. \E l \in {"decode", "get", "idle", "crashed"} : Goto("audio", l)
    BY <1>10 DEF Silence, NextPiece, NextFrame
  <2> QED
    BY <1>1, <1>2, <1>10, <2>1 DEF Silence
<1> QED
  BY <1>1, <1>3, <1>4, <1>5, <1>6, <1>7, <1>8, <1>9, <1>10, LookWake, FillWake DEF Video, Audio

LEMMA WakeStep == WakeInv /\ [Next]_vars => WakeInv'
<1> SUFFICES ASSUME WakeInv, [Next]_vars PROVE WakeInv'
  OBVIOUS
<1>1. CASE FireTimer
  BY <1>1, WakeStay DEF FireTimer, pictVars
<1>2. ASSUME NEW c \in Commands, Command(c) PROVE WakeInv'
  BY <1>2, WakeStay DEF Command, pictVars
<1>3. CASE UNCHANGED vars
  BY <1>3, WakeStay DEF vars
<1> QED
  BY <1>1, <1>2, <1>3, MainWake, ReaderWake, DecoderWake DEF Next, Environment

\* A thread sleeps only while what it waits for is not there: whoever provides it
\* wakes the sleeper in the same step.
THEOREM WakeUpsArrive == Spec => []NoLostWake
<1>1. WakeInv => NoLostWake
  BY DEF WakeInv, Looked, NoRoom, Awaited, NoLostWake
<1> QED
  BY <1>1, WakeInit, WakeStep, PTL DEF Spec
-------------------------------------------------------------------------------
(***************************************************************************)
(* The sizes of the queues                                                 *)
(*                                                                         *)
(* SizeBound speaks about the sum of the bytes of the packets that wait,   *)
(* which BytesAfter computes by recursion: the lemmas about it rest on the *)
(* least counterexample (Smallest).  That a queue is within its limit but  *)
(* for one packet is inductive when that packet is named: it is the one    *)
(* put last (SizeInv), since the first ones only leave.                    *)
(***************************************************************************)
\* Every set of natural numbers that is not empty has a smallest element.
LEMMA Smallest ==
  ASSUME NEW S \in SUBSET Nat, S # {}
  PROVE  \E m \in S : \A n \in S : m <= n
<1>1. PICK m \in S : \A k \in S : <<k, m>> \notin OpToRel(<, Nat)
  BY WFMin, NatLessThanWellFounded, Zenon
<1>2. \A n \in S : ~(n < m)
  BY <1>1, Zenon DEF OpToRel
<1> QED
  BY <1>2

\* The sum of b[m + 1] to b[L], by a recursive function as in WaitingBytes.
SumStep(f, b, m, n) == IF n <= m THEN 0 ELSE f[n - 1] + b[n]
IsSum(f, b, m, L)   == f = [n \in 0..L |-> SumStep(f, b, m, n)]
Weighs(w, b, m, L)  == \E f : IsSum(f, b, m, L) /\ w = f[L]

LEMMA SumAgrees ==
  ASSUME NEW L \in Nat, NEW m \in Nat, NEW b, NEW c, NEW f, NEW g,
         IsSum(f, b, m, L), IsSum(g, c, m, L), \A i \in 1..L : b[i] = c[i]
  PROVE  \A n \in 0..L : f[n] = g[n]
<1>1. \A n \in 0..L : f[n] = SumStep(f, b, m, n) /\ g[n] = SumStep(g, c, m, n)
  BY DEF IsSum
<1> DEFINE S == {n \in Nat : n <= L /\ f[n] # g[n]}
<1>2. SUFFICES ASSUME S # {} PROVE FALSE
  OBVIOUS
<1>3. PICK n \in S : \A i \in S : n <= i
  BY <1>2, Smallest
<1>4. CASE n <= m
  BY <1>1, <1>3, <1>4 DEF SumStep
<1>5. CASE ~(n <= m)
  <2>1. n \in Nat /\ n <= L /\ n > m /\ f[n] # g[n]
    BY <1>3, <1>5
  <2>2. n \in 1..L /\ n - 1 \in Nat /\ n - 1 <= L /\ n \in 0..L /\ ~(n <= n - 1)
    BY <2>1
  <2>3. f[n - 1] = g[n - 1]
    BY <1>3, <2>2
  <2>4. f[n] = f[n - 1] + b[n] /\ g[n] = g[n - 1] + c[n]
    BY <1>1, <1>5, <2>2 DEF SumStep
  <2> QED
    BY <2>1, <2>2, <2>3, <2>4
<1> QED
  BY <1>4, <1>5

LEMMA WeighUnique ==
  ASSUME NEW L \in Nat, NEW m \in Nat, NEW b, NEW c, NEW v, NEW w,
         Weighs(v, b, m, L), Weighs(w, c, m, L), \A i \in 1..L : b[i] = c[i]
  PROVE  v = w
BY SumAgrees DEF Weighs

LEMMA SumNat ==
  ASSUME NEW L \in Nat, NEW m \in Nat, NEW b, NEW f, IsSum(f, b, m, L),
         \A i \in 1..L : b[i] \in Nat
  PROVE  \A n \in 0..L : f[n] \in Nat
<1>1. \A n \in 0..L : f[n] = SumStep(f, b, m, n)
  BY DEF IsSum
<1> DEFINE S == {n \in Nat : n <= L /\ f[n] \notin Nat}
<1>2. SUFFICES ASSUME S # {} PROVE FALSE
  OBVIOUS
<1>3. PICK n \in S : \A i \in S : n <= i
  BY <1>2, Smallest
<1>4. CASE n <= m
  BY <1>1, <1>3, <1>4 DEF SumStep
<1>5. CASE ~(n <= m)
  <2>1. n \in Nat /\ n <= L /\ n > m /\ f[n] \notin Nat
    BY <1>3, <1>5
  <2>2. n \in 1..L /\ n - 1 \in Nat /\ n - 1 <= L /\ n \in 0..L /\ ~(n <= n - 1)
    BY <2>1
  <2>3. f[n - 1] \in Nat
    BY <1>3, <2>2
  <2>4. f[n] = f[n - 1] + b[n]
    BY <1>1, <1>5, <2>2 DEF SumStep
  <2> QED
    BY <2>1, <2>2, <2>3, <2>4
<1> QED
  BY <1>4, <1>5

LEMMA WeighNone ==
  ASSUME NEW L \in Nat, NEW b
  PROVE  Weighs(0, b, L, L)
<1> DEFINE f == [n \in 0..L |-> 0]
<1>1. f = [n \in 0..L |-> SumStep(f, b, L, n)]
  BY DEF SumStep
<1>2. f[L] = 0
  OBVIOUS
<1> QED
  BY <1>1, <1>2 DEF Weighs, IsSum

\* A summand joins at the end.
LEMMA WeighAppend ==
  ASSUME NEW L \in Nat, NEW m \in 0..L, NEW b, NEW c, NEW w,
         Weighs(w, b, m, L), \A i \in 1..L : b[i] = c[i]
  PROVE  Weighs(w + c[L + 1], c, m, L + 1)
<1>1. PICK f : IsSum(f, b, m, L) /\ w = f[L]
  BY DEF Weighs
<1>2. \A n \in 0..L : f[n] = SumStep(f, b, m, n)
  BY <1>1 DEF IsSum
<1> DEFINE g == [n \in 0..L + 1 |-> IF n <= L THEN f[n] ELSE f[L] + c[L + 1]]
<1>3. ASSUME NEW n \in 0..L + 1 PROVE g[n] = SumStep(g, c, m, n)
  <2>1. CASE n <= m
    <3>1. n \in 0..L
      BY <2>1
    <3> QED
      BY <1>2, <2>1, <3>1 DEF SumStep
  <2>2. CASE ~(n <= m) /\ n <= L
    <3>1. n \in 1..L /\ n - 1 \in 0..L /\ n - 1 \in 0..L + 1 /\ n - 1 <= L /\ n \in 0..L
      BY <2>2
    <3>2. f[n] = f[n - 1] + c[n]
      BY <1>2, <2>2, <3>1 DEF SumStep
    <3>3. g[n] = f[n] /\ g[n - 1] = f[n - 1]
      BY <2>2, <3>1
    <3> HIDE DEF g
    <3> QED
      BY <2>2, <3>2, <3>3 DEF SumStep
  <2>3. CASE ~(n <= m) /\ ~(n <= L)
    <3>1. n = L + 1 /\ n - 1 = L
      BY <2>3
    <3>2. g[n] = f[L] + c[L + 1] /\ g[L] = f[L]
      BY <3>1
    <3> HIDE DEF g
    <3> QED
      BY <2>3, <3>1, <3>2 DEF SumStep
  <2> QED
    BY <2>1, <2>2, <2>3
<1>4. IsSum(g, c, m, L + 1)
  BY <1>3 DEF IsSum
<1>5. g[L + 1] = w + c[L + 1]
  BY <1>1
<1> QED
  BY <1>4, <1>5 DEF Weighs

\* The first summand is taken away.
LEMMA WeighTake ==
  ASSUME NEW L \in Nat, NEW m \in Nat, m < L, NEW b, NEW w, Weighs(w, b, m, L),
         \A i \in 1..L : b[i] \in Nat
  PROVE  Weighs(w - b[m + 1], b, m + 1, L)
<1>1. PICK f : IsSum(f, b, m, L) /\ w = f[L]
  BY DEF Weighs
<1>2. \A n \in 0..L : f[n] = SumStep(f, b, m, n) /\ f[n] \in Nat
  BY <1>1, SumNat DEF IsSum
<1> DEFINE d == b[m + 1]
           g == [n \in 0..L |-> IF n <= m THEN 0 ELSE f[n] - d]
<1>3. d \in Nat /\ m + 1 \in 1..L /\ m + 1 \in 0..L /\ m \in 0..L
  OBVIOUS
<1>4. f[m + 1] = d
  <2>1. f[m] = 0 /\ f[m + 1] = f[m] + d
    BY <1>2, <1>3 DEF SumStep
  <2> QED
    BY <1>3, <2>1
<1> HIDE DEF d
<1>5. ASSUME NEW n \in 0..L PROVE g[n] = SumStep(g, b, m + 1, n)
  <2>1. CASE n <= m
    BY <2>1 DEF SumStep
  <2>2. CASE n = m + 1
    <3>1. g[n] = 0
      BY <1>3, <1>4, <2>2
    <3> HIDE DEF g
    <3> QED
      BY <2>2, <3>1 DEF SumStep
  <2>3. CASE n > m + 1
    <3>1. n \in 1..L /\ n - 1 \in 0..L /\ ~(n <= m) /\ ~(n - 1 <= m) /\ ~(n <= m + 1)
      BY <2>3
    <3>2. f[n] = f[n - 1] + b[n] /\ b[n] \in Nat /\ f[n - 1] \in Nat
      BY <1>2, <3>1 DEF SumStep
    <3>3. g[n] = f[n] - d /\ g[n - 1] = f[n - 1] - d
      BY <3>1
    <3> HIDE DEF g
    <3>4. g[n] = g[n - 1] + b[n]
      BY <1>3, <3>2, <3>3
    <3> QED
      BY <3>1, <3>4 DEF SumStep
  <2> QED
    BY <2>1, <2>2, <2>3
<1>6. IsSum(g, b, m + 1, L)
  BY <1>5 DEF IsSum
<1>7. g[L] = w - d
  BY <1>1
<1> HIDE DEF g
<1> QED
  BY <1>6, <1>7 DEF Weighs, d

LEMMA WeighExists ==
  ASSUME NEW m \in Nat, NEW b
  PROVE  \A L \in Nat : m <= L => \E w : Weighs(w, b, m, L)
<1> DEFINE S == {L \in Nat : m <= L /\ ~\E w : Weighs(w, b, m, L)}
<1>1. SUFFICES ASSUME S # {} PROVE FALSE
  OBVIOUS
<1>2. PICK L \in S : \A i \in S : L <= i
  BY <1>1, Smallest
<1>3. L # m
  BY <1>2, WeighNone
<1>4. L - 1 \in Nat /\ m <= L - 1 /\ m \in 0..L - 1 /\ (L - 1) + 1 = L
  BY <1>2, <1>3
<1>5. PICK w : Weighs(w, b, m, L - 1)
  BY <1>2, <1>4
<1>6. Weighs(w + b[(L - 1) + 1], b, m, (L - 1) + 1)
  BY <1>4, <1>5, WeighAppend
<1> QED
  BY <1>2, <1>4, <1>6
-------------------------------------------------------------------------------
\* BytesAfter is such a sum.
LEMMA BytesWeigh ==
  ASSUME NEW packets, NEW s, Len(s) \in Nat, NEW n \in 0..Len(s),
         NEW b, \A i \in 1..Len(s) : b[i] = packets[s[i]].bytes
  PROVE  Weighs(BytesAfter(packets, s, n), b, n, Len(s))
<1> DEFINE L == Len(s)
           c == [i \in 1..L |-> packets[s[i]].bytes]
           Step(f) == [i \in 0..L |-> IF i <= n THEN 0 ELSE f[i - 1] + packets[s[i]].bytes]
           g == CHOOSE f : f = Step(f)
<1>1. \A f : IsSum(f, b, n, L) => f = Step(f)
  <2> TAKE f
  <2>1. ASSUME NEW i \in 0..L
        PROVE  SumStep(f, b, n, i) = IF i <= n THEN 0 ELSE f[i - 1] + packets[s[i]].bytes
    BY DEF SumStep
  <2> QED
    BY <2>1 DEF IsSum
<1>2. \A f : f = Step(f) => IsSum(f, b, n, L)
  <2> TAKE f
  <2>1. ASSUME NEW i \in 0..L
        PROVE  SumStep(f, b, n, i) = IF i <= n THEN 0 ELSE f[i - 1] + packets[s[i]].bytes
    BY DEF SumStep
  <2> QED
    BY <2>1 DEF IsSum
<1>3. \E f : IsSum(f, b, n, L)
  <2>1. n \in Nat /\ L \in Nat /\ n <= L
    OBVIOUS
  <2>2. \E w : Weighs(w, b, n, L)
    BY <2>1, WeighExists
  <2> QED
    BY <2>2 DEF Weighs
<1>4. g = Step(g)
  BY <1>1, <1>3
<1>5. BytesAfter(packets, s, n) = g[L]
  BY DEF BytesAfter
<1> HIDE DEF g
<1> QED
  BY <1>2, <1>4, <1>5 DEF Weighs

\* The bytes after the first n members of s, and each of them.
Sized(packets, s) == \A i \in 1..Len(s) : packets[s[i]].bytes \in Nat

LEMMA BytesNone ==
  ASSUME NEW packets, NEW s, Len(s) \in Nat
  PROVE  BytesAfter(packets, s, Len(s)) = 0
<1> DEFINE b == [i \in 1..Len(s) |-> packets[s[i]].bytes]
<1>1. Weighs(BytesAfter(packets, s, Len(s)), b, Len(s), Len(s))
  BY BytesWeigh
<1>2. Weighs(0, b, Len(s), Len(s))
  BY WeighNone
<1> HIDE DEF b
<1> QED
  BY <1>1, <1>2, WeighUnique

LEMMA BytesAppend ==
  ASSUME NEW packets, NEW S, NEW s \in Seq(S), NEW p \in S, NEW n \in 0..Len(s)
  PROVE  BytesAfter(packets, Append(s, p), n) = BytesAfter(packets, s, n) + packets[p].bytes
<1> DEFINE L == Len(s)
           t == Append(s, p)
           c == [i \in 1..L + 1 |-> packets[t[i]].bytes]
<1>1. /\ L \in Nat /\ Len(t) = L + 1 /\ n \in 0..L + 1 /\ t[L + 1] = p /\ L + 1 \in Nat
      /\ \A i \in 1..L : t[i] = s[i]
  OBVIOUS
<1> HIDE DEF t
<1>2. \A i \in 1..L : c[i] = packets[s[i]].bytes
  BY <1>1
<1>3. (\A i \in 1..L + 1 : c[i] = packets[t[i]].bytes) /\ c[L + 1] = packets[p].bytes
  BY <1>1
<1> HIDE DEF c
<1>4. Weighs(BytesAfter(packets, s, n), c, n, L)
  BY <1>1, <1>2, BytesWeigh
<1>5. Weighs(BytesAfter(packets, t, n), c, n, L + 1)
  BY <1>1, <1>3, BytesWeigh
<1>6. Weighs(BytesAfter(packets, s, n) + c[L + 1], c, n, L + 1)
  BY <1>1, <1>4, WeighAppend
<1>7. BytesAfter(packets, t, n) = BytesAfter(packets, s, n) + c[L + 1]
  BY <1>1, <1>5, <1>6, WeighUnique
<1> QED
  BY <1>3, <1>7 DEF t

LEMMA BytesTake ==
  ASSUME NEW packets, NEW s, Len(s) \in Nat, NEW n \in Nat, n < Len(s), Sized(packets, s)
  PROVE  BytesAfter(packets, s, n + 1)
           = BytesAfter(packets, s, n) - packets[s[n + 1]].bytes
<1> DEFINE L == Len(s)
           b == [i \in 1..L |-> packets[s[i]].bytes]
<1>1. /\ L \in Nat /\ n \in 0..L /\ n + 1 \in 0..L /\ n + 1 \in 1..L
      /\ \A i \in 1..L : b[i] \in Nat /\ b[i] = packets[s[i]].bytes
  BY DEF Sized
<1> HIDE DEF b
<1>2. Weighs(BytesAfter(packets, s, n), b, n, L)
  BY <1>1, BytesWeigh
<1>3. Weighs(BytesAfter(packets, s, n + 1), b, n + 1, L)
  BY <1>1, BytesWeigh
<1>4. Weighs(BytesAfter(packets, s, n) - b[n + 1], b, n + 1, L)
  BY <1>1, <1>2, WeighTake
<1>5. n + 1 \in Nat
  OBVIOUS
<1>6. BytesAfter(packets, s, n + 1) = BytesAfter(packets, s, n) - b[n + 1]
  BY <1>1, <1>3, <1>4, <1>5, WeighUnique
<1> QED
  BY <1>1, <1>6

LEMMA BytesNat ==
  ASSUME NEW packets, NEW s, Len(s) \in Nat, NEW n \in 0..Len(s), Sized(packets, s)
  PROVE  BytesAfter(packets, s, n) \in Nat
<1> DEFINE b == [i \in 1..Len(s) |-> packets[s[i]].bytes]
<1>1. \A i \in 1..Len(s) : b[i] \in Nat /\ b[i] = packets[s[i]].bytes
  BY DEF Sized
<1> HIDE DEF b
<1>2. Weighs(BytesAfter(packets, s, n), b, n, Len(s))
  BY <1>1, BytesWeigh
<1> QED
  BY <1>1, <1>2, SumNat DEF Weighs
-------------------------------------------------------------------------------
\* The size of each queue is that of its packets, and the packet put last found it
\* within its limit.
SizeInv ==
  \A k \in Kinds :
    /\ queues[k].size = BytesAfter(file.packets, sent[k], got[k])
    /\ got[k] < Len(sent[k]) => queues[k].size - Bytes(sent[k][Len(sent[k])]) <= Limit(k)

LEMMA PacketsSized ==
  ASSUME FifoInv
  PROVE  \A p \in 1..Len(file.packets) : file.packets[p].bytes \in Nat
<1>1. file.packets \in Seq(PacketInfo)
  BY VideoAssumption DEF FifoInv, Shapes
<1>2. \A p \in 1..Len(file.packets) : file.packets[p] \in PacketInfo
  BY <1>1
<1> QED
  BY <1>2 DEF PacketInfo

LEMMA SentSized ==
  ASSUME FifoInv, NEW k \in Kinds
  PROVE  Len(sent[k]) \in Nat /\ Sized(file.packets, sent[k])
<1>1. sent[k] \in Seq(Pkts) /\ (\A i \in 1..Len(sent[k]) : sent[k][i] <= read)
      /\ read \in 0..Len(file.packets)
  BY DEF FifoInv, Ordered, Shapes
<1>2. \A i \in 1..Len(sent[k]) : sent[k][i] \in Nat /\ sent[k][i] >= 1
  <2>1. \A i \in 1..Len(sent[k]) : sent[k][i] \in Pkts
    BY <1>1
  <2> QED
    BY <2>1, PacketAssumption DEF Pkts
<1>3. Len(file.packets) \in Nat
  BY VideoAssumption, PacketAssumption DEF FifoInv, Shapes
<1>4. \A i \in 1..Len(sent[k]) : sent[k][i] \in 1..Len(file.packets)
  BY <1>1, <1>2, <1>3
<1> QED
  BY <1>1, <1>4, PacketsSized DEF Sized

LEMMA SizeInit == Init => SizeInv
<1> SUFFICES ASSUME Init, NEW k \in Kinds
             PROVE  /\ queues[k].size = BytesAfter(file.packets, sent[k], got[k])
                    /\ got[k] = Len(sent[k])
  BY DEF SizeInv
<1>1. queues[k] = packet_queue_init /\ sent[k] = <<>> /\ got[k] = 0
  BY DEF Init
<1>2. packet_queue_init.size = 0 /\ Len(<<>>) = 0
  BY DEF packet_queue_init
<1>3. BytesAfter(file.packets, <<>>, Len(<<>>)) = 0
  BY <1>2, BytesNone
<1> QED
  BY <1>1, <1>2, <1>3

\* A step that leaves the queues alone.
LEMMA SizeKept == SizeInv /\ UNCHANGED <<file, queues, sent, got>> => SizeInv'
BY DEF SizeInv, Bytes, Limit

\* 775-805: the queues are reset before anything is put.
LEMMA OpenSize == FifoInv /\ OpenStreams => SizeInv'
<1> SUFFICES ASSUME FifoInv, OpenStreams, NEW k \in Kinds
             PROVE  /\ queues'[k].size = BytesAfter(file'.packets, sent'[k], got'[k])
                    /\ got'[k] = Len(sent'[k])
  BY DEF SizeInv
<1>1. /\ UNCHANGED <<sent, got>> /\ queues'[k] = packet_queue_init /\ pc["reader"] = "open"
  BY DEF OpenStreams, mainVars, decoderVars, At
<1>2. sent[k] = <<>> /\ got[k] \in 0..Len(sent[k])
  BY <1>1 DEF FifoInv, Fresh, QueueFifo, Holds
<1>3. packet_queue_init.size = 0 /\ Len(<<>>) = 0
  BY DEF packet_queue_init
<1>4. got[k] = 0
  BY <1>2, <1>3
<1>5. BytesAfter(file'.packets, <<>>, Len(<<>>)) = 0
  BY <1>3, BytesNone
<1> QED
  BY <1>1, <1>2, <1>3, <1>4, <1>5

\* 814-833: a packet joins a queue that is within its limit.
LEMMA ReadSize == FifoInv /\ SizeInv /\ ReadPacket => SizeInv'
<1> SUFFICES ASSUME FifoInv, SizeInv, ReadPacket PROVE SizeInv'
  OBVIOUS
<1>1. UNCHANGED <<file, got>> /\ ~Full /\ read < Len(file.packets) /\ read' = read + 1
  BY DEF ReadPacket, decoderVars
<1>2. CASE UNCHANGED <<queues, sent, pc>>
  BY <1>1, <1>2, SizeKept
<1>3. ASSUME NEW k \in Kinds,
             queues' = [queues EXCEPT ![k] = packet_queue_put(@, read', Bytes(read'))],
             sent' = [sent EXCEPT ![k] = Append(@, read')]
      PROVE  SizeInv'
  <2> DEFINE bytes == file.packets[read + 1].bytes
  <2>1. /\ DOMAIN queues = Kinds /\ DOMAIN sent = Kinds /\ got[k] \in 0..Len(sent[k])
        /\ sent[k] \in Seq(Pkts) /\ read + 1 \in Pkts /\ read + 1 \in 1..Len(file.packets)
    <3>1. DOMAIN queues = Kinds /\ DOMAIN sent = Kinds /\ sent[k] \in Seq(Pkts)
          /\ read \in 0..Len(file.packets)
      BY DEF FifoInv, Shapes, Ordered
    <3>2. got[k] \in 0..Len(sent[k])
      BY DEF FifoInv, QueueFifo, Holds
    <3>3. Len(file.packets) \in 0..NumPkts
      BY VideoAssumption DEF FifoInv, Shapes
    <3> QED
      BY <1>1, <3>1, <3>2, <3>3, PacketAssumption DEF Pkts
  <2>2. /\ queues'[k].size = queues[k].size + bytes
        /\ sent'[k] = Append(sent[k], read + 1)
        /\ \A j \in Kinds \ {k} : queues'[j] = queues[j] /\ sent'[j] = sent[j]
    <3>1. Bytes(read') = bytes
      BY <1>1 DEF Bytes
    <3> HIDE DEF bytes
    <3>2. queues'[k] = packet_queue_put(queues[k], read', bytes)
      BY <1>3, <2>1, <3>1
    <3>3. queues'[k].size = queues[k].size + bytes
      BY <3>2 DEF packet_queue_put
    <3> QED
      BY <1>1, <1>3, <2>1, <3>1, <3>3
  <2>3. bytes \in Nat
    BY <2>1, PacketsSized
  <2>4. queues[k].size = BytesAfter(file.packets, sent[k], got[k])
    BY DEF SizeInv
  <2>5. queues[k].size \in Nat
    BY <2>1, <2>4, SentSized, BytesNat
  <2>6. queues[k].size <= Limit(k)
    <3>1. Limit(k) \in Nat /\ MAX_AUDIO_SIZE \in Nat /\ MAX_VIDEO_SIZE \in Nat
      BY VideoAssumption DEF Limit
    <3>2. k \in {"audio", "video"}
      BY DEF Kinds
    <3> QED
      BY <1>1, <2>5, <3>1, <3>2 DEF Full, Limit
  <2>7. BytesAfter(file.packets, Append(sent[k], read + 1), got[k])
          = BytesAfter(file.packets, sent[k], got[k]) + bytes
    BY <2>1, BytesAppend
  <2>8. /\ queues'[k].size = BytesAfter(file'.packets, sent'[k], got'[k])
        /\ queues'[k].size - bytes <= Limit(k)
    <3> HIDE DEF bytes
    <3>1. queues'[k].size - bytes = queues[k].size
      BY <2>2, <2>3, <2>5
    <3> QED
      BY <1>1, <2>2, <2>4, <2>6, <2>7, <3>1
  <2>9. sent'[k][Len(sent'[k])] = read + 1
    BY <2>1, <2>2
  <2>10. Bytes(sent[k][Len(sent[k])])' = bytes
    BY <1>1, <2>9 DEF Bytes
  <2> HIDE DEF bytes
  <2> QED
    BY <1>1, <2>2, <2>8, <2>10 DEF SizeInv, Bytes, Limit
<1> QED
  BY <1>2, <1>3 DEF ReadPacket

\* 49-76: the bytes of the first packet are given back.
LEMMA LookSize ==
  ASSUME NEW k \in Kinds PROVE FifoInv /\ SizeInv /\ packet_queue_look(k) => SizeInv'
<1> SUFFICES ASSUME FifoInv, SizeInv, packet_queue_look(k) PROVE SizeInv'
  OBVIOUS
<1>1. UNCHANGED <<file, sent>>
  BY DEF packet_queue_look, mainVars, readerVars
<1>2. CASE quit \/ queues[k].first = Null
  <2>1. UNCHANGED <<queues, got>>
    BY <1>2 DEF packet_queue_look, decoderVars
  <2> QED
    BY <1>1, <2>1, SizeKept
<1>3. CASE ~quit /\ queues[k].first # Null
  <2> DEFINE p == queues[k].first
             bytes == file.packets[p].bytes
  <2>1. /\ queues' = [queues EXCEPT ![k] = packet_queue_get(@, Bytes(p))]
        /\ got' = [got EXCEPT ![k] = @ + 1]
    BY <1>3 DEF packet_queue_look
  <2>2. DOMAIN queues = Kinds /\ DOMAIN got = Kinds /\ got[k] \in Nat
        /\ sent[k] \in Seq(Pkts) /\ Holds(queues[k], sent[k], got[k])
    BY DEF FifoInv, Shapes, Ordered, QueueFifo
  <2>3. /\ queues'[k].size = queues[k].size - bytes /\ got'[k] = got[k] + 1
        /\ \A j \in Kinds \ {k} : queues'[j] = queues[j] /\ got'[j] = got[j]
    BY <2>1, <2>2 DEF packet_queue_get, Bytes
  <2>4. got[k] < Len(sent[k]) /\ p = sent[k][got[k] + 1]
    BY <1>3, <2>2 DEF Holds
  <2> HIDE DEF p
  <2>5. Len(sent[k]) \in Nat /\ Sized(file.packets, sent[k]) /\ got[k] \in 0..Len(sent[k])
    BY <2>2, <2>4, SentSized
  <2>6. BytesAfter(file.packets, sent[k], got[k] + 1)
          = BytesAfter(file.packets, sent[k], got[k]) - bytes
    BY <2>2, <2>4, <2>5, BytesTake
  <2>7. /\ queues[k].size = BytesAfter(file.packets, sent[k], got[k])
        /\ queues[k].size - Bytes(sent[k][Len(sent[k])]) <= Limit(k)
    BY <2>4 DEF SizeInv
  <2>8. queues[k].size \in Nat /\ bytes \in Nat /\ Bytes(sent[k][Len(sent[k])]) \in Nat
        /\ Limit(k) \in Nat
    <3>1. queues[k].size \in Nat
      BY <2>5, <2>7, BytesNat
    <3>2. got[k] + 1 \in 1..Len(sent[k]) /\ Len(sent[k]) \in 1..Len(sent[k])
      BY <2>2, <2>4, <2>5
    <3>3. bytes \in Nat /\ Bytes(sent[k][Len(sent[k])]) \in Nat
      BY <2>4, <2>5, <3>2 DEF Sized, Bytes
    <3> QED
      BY <3>1, <3>3, VideoAssumption DEF Limit
  <2> HIDE DEF bytes
  <2>9. queues'[k].size - Bytes(sent[k][Len(sent[k])]) <= Limit(k)
    BY <2>3, <2>7, <2>8
  <2>10. queues'[k].size = BytesAfter(file'.packets, sent'[k], got'[k])
    BY <1>1, <2>3, <2>6, <2>7
  <2> QED
    BY <1>1, <2>3, <2>9, <2>10 DEF SizeInv, Bytes, Limit
<1> QED
  BY <1>2, <1>3

LEMMA SizeStep == FifoInv /\ SizeInv /\ [Next]_vars => SizeInv'
<1> SUFFICES ASSUME FifoInv, SizeInv, [Next]_vars PROVE SizeInv'
  OBVIOUS
<1> USE DEF mainVars, readerVars, decoderVars
<1>1. CASE Main
  BY <1>1, SizeKept
     DEF Main, CmdStop, CmdStart, CmdOther, RefreshEmpty, RefreshShow, video_display,
         alloc_picture, QuitSignal, QuitSet, QuitDone
<1>2. CASE Reader
  BY <1>2, SizeKept, OpenSize, ReadSize
     DEF Reader, OpenFails, ReaderFlood, ReaderQuits
<1>3. ASSUME NEW k \in Kinds, packet_queue_look(k) PROVE SizeInv'
  BY <1>3, LookSize
<1>4. CASE Video
  BY <1>3, <1>4, SizeKept
     DEF Video, Kinds, QueueSleep, VideoQuits, queue_picture_space, queue_picture_alloc,
         queue_picture_fill
<1>5. CASE Audio
  BY <1>3, <1>5, SizeKept DEF Audio, Kinds, QueueSleep, DecodeAudio, Silence
<1>6. CASE Environment \/ FireTimer
  BY <1>6, SizeKept DEF Environment, Command, Spurious, ReadError, audio_callback, FireTimer
<1>7. CASE UNCHANGED vars
  BY <1>7, SizeKept DEF vars
<1> QED
  BY <1>1, <1>2, <1>4, <1>5, <1>6, <1>7 DEF Next

\* packet_queue_put, packet_queue_get, 814: the reader's limits hold, whatever the sizes
\* of the packets: what is counted is what waits, and a queue exceeds its limit by no
\* more than the packet put into it last.
THEOREM QueuesStayBounded == Spec => []SizeBound
<1>1. ASSUME FifoInv, SizeInv PROVE SizeBound
  <2> SUFFICES ASSUME NEW k \in Kinds
               PROVE  \E last \in {0} \cup {Bytes(p) : p \in Waiting(k)} :
                        queues[k].size - last <= Limit(k)
    BY <1>1 DEF SizeBound, SizeInv
  <2>1. Len(sent[k]) \in Nat /\ got[k] \in 0..Len(sent[k])
    BY <1>1, SentSized DEF FifoInv, QueueFifo, Holds
  <2>2. CASE got[k] < Len(sent[k])
    <3>1. sent[k][Len(sent[k])] \in Waiting(k)
      BY <2>1, <2>2 DEF Waiting
    <3> QED
      BY <1>1, <2>2, <3>1 DEF SizeInv
  <2>3. CASE got[k] = Len(sent[k])
    <3>1. queues[k].size = 0
      BY <1>1, <2>1, <2>3, BytesNone DEF SizeInv
    <3> QED
      BY <3>1, VideoAssumption DEF Limit
  <2> QED
    BY <2>1, <2>2, <2>3
<1>2. Init => FifoInv /\ SizeInv
  BY FifoInit, SizeInit
<1>3. FifoInv /\ SizeInv /\ [Next]_vars => (FifoInv /\ SizeInv)'
  BY FifoStep, SizeStep
<1> QED
  BY <1>1, <1>2, <1>3, PTL DEF Spec
===============================================================================
