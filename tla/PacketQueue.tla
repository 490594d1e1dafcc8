------------------------------ MODULE PacketQueue ------------------------------
(***************************************************************************)
(* The packet queue of wallyvideo (wallyvideo.c 13-81) without its mutex:  *)
(* a singly linked list with a pointer to each end and two counters.  A    *)
(* list node belongs to one packet for as long as it is queued, so a node  *)
(* is named by its packet, and the packets by their places in the file.    *)
(* The threads that call these operators are in module VideoPlayer.        *)
(***************************************************************************)
EXTENDS Integers, Sequences

CONSTANT NumPkts   \* packets of the longest file

ASSUME PacketAssumption == NumPkts \in Nat

Pkts == 1..NumPkts
Null == 0          \* the NULL pointer
Ptrs == {Null} \cup Pkts

Queues == [first : Ptrs, last : Ptrs, next : [Pkts -> Ptrs], nb : Int, size : Int]

packet_queue_init ==
  [first |-> Null, last |-> Null, next |-> [p \in Pkts |-> Null], nb |-> 0, size |-> 0]

\* A new node is the first of an empty list and follows the last of another.
packet_queue_put(q, p, bytes) ==
  LET linked == IF q.last = Null THEN q.next ELSE [q.next EXCEPT ![q.last] = p]
  IN  [first |-> IF q.last = Null THEN p ELSE q.first,
       last  |-> p,
       next  |-> [linked EXCEPT ![p] = Null],
       nb    |-> q.nb + 1,
       size  |-> q.size + bytes]

\* Defect: last_pkt keeps pointing to the node that was taken and freed.
GetKeepsLast(q, bytes) ==
  LET rest == q.next[q.first]
  IN  [first |-> rest, last |-> q.last, next |-> q.next,
       nb |-> q.nb - 1, size |-> q.size - bytes]

\* Defect: the size of a packet is not given back.
GetKeepsSize(q, bytes) ==
  LET rest == q.next[q.first]
  IN  [first |-> rest, last |-> IF rest = Null THEN Null ELSE q.last,
       next |-> q.next, nb |-> q.nb - 1, size |-> q.size]

\* The queue after its first packet was taken.
packet_queue_get(q, bytes) ==
  LET rest == q.next[q.first]
  IN  [first |-> rest,
       last  |-> IF rest = Null THEN Null ELSE q.last,
       next  |-> q.next,
       nb    |-> q.nb - 1,
       size  |-> q.size - bytes]

-------------------------------------------------------------------------------
\* The list of q holds the members of s after the first n, in this order.
Holds(q, s, n) ==
  /\ n \in 0..Len(s)
  /\ q.nb = Len(s) - n
  /\ n = Len(s) => q.first = Null /\ q.last = Null
  /\ n < Len(s) => /\ q.first = s[n + 1] /\ q.last = s[Len(s)]
                   /\ q.next[s[Len(s)]] = Null
  /\ \A i \in n + 1..Len(s) - 1 : q.next[s[i]] = s[i + 1]

===============================================================================
