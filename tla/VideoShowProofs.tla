---------------------------- MODULE VideoShowProofs ----------------------------
(***************************************************************************)
(* The picture queue of the video player, for every file, every number of  *)
(* pictures, every interleaving and every allocation that fails: pictures  *)
(* come to their turn in the order in which they were queued, with what    *)
(* was queued of them to be seen (ShownOrder), in slots that have a buffer *)
(* and that nobody writes (PictureSafe).                                   *)
(*                                                                         *)
(* Neither is inductive.  The n-th picture queued is in slot n - 1 modulo  *)
(* the number of slots (Counted), and stays there untouched until it is    *)
(* shown (Waits), whether or not it can be seen.  That main allocates only the slot the video thread has  *)
(* asked for, while that thread waits or has given up, is Asking; Sound    *)
(* and Given say what an allocation leaves in a slot.                      *)
(*                                                                         *)
(* The second part is about the redraws (RefreshOnce), the third about     *)
(* types (TypeOK).                                                         *)
(***************************************************************************)
EXTENDS VideoProofs, FiniteSetTheorems

N == VIDEO_PICTURE_QUEUE_SIZE

Events  == Commands \cup {"refresh", "alloc"}
Pending == {"unalloc", "noalloc", "done"}

Typed ==
  /\ events \in Seq(Events) /\ pkt \in [Kinds -> Ptrs]
  /\ queued \in Seq(Ptrs) /\ shown \in Seq(Ptrs)

Counted ==
  /\ Len(queued) = Len(shown) + pictq.size
  /\ pictq.rindex = Len(shown) % N /\ pictq.windex = Len(queued) % N

ShownFirst == \A i \in 1..Len(shown) : shown[i] = queued[i]

\* The slot s has a buffer and the dimensions of its frame, and v can be seen of it.
Complete(s, v) == Held(s) /\ s.dim = VideoDim(s.frame) /\ Visible(s) = v

Waits == \A j \in Len(shown)..Len(queued) - 1 : Complete(slot[j % N], queued[j + 1])

Sound ==
  \A i \in Slots :
    /\ slot[i].allocated => Held(slot[i])
    /\ slot[i].bmp => slot[i].allocated \/ (i = pictq.windex /\ pc["video"] \in Pending)

Asked(es)     == \E i \in 1..Len(es) : es[i] = "alloc"
AtMostOne(es) == \A i, j \in 1..Len(es) : es[i] = "alloc" /\ es[j] = "alloc" => i = j

Asking ==
  /\ AtMostOne(events)
  /\ Asked(events) => pc["video"] \in Pending /\ ~Write.allocated /\ pictq.size < N

Given ==
  /\ pc["video"] \in {"unalloc", "noalloc"} /\ Write.allocated =>
       Write.dim = VideoDim(pkt["video"])
  /\ pc["video"] = "fill" => Write.allocated /\ Write.dim = VideoDim(pkt["video"])

Born == pc["reader"] \in {"off", "open"} => pc["video"] = "off"

ShowInv ==
  /\ Typed /\ Counted /\ ShownFirst /\ Waits /\ Sound /\ Asking /\ Given /\ Born
-------------------------------------------------------------------------------
(***************************************************************************)
(* Places in a ring                                                        *)
(***************************************************************************)
LEMMA Remainder ==
  ASSUME NEW n \in Nat \ {0}, NEW q \in Int, NEW r \in 0..n - 1
  PROVE  (q * n + r) % n = r
OBVIOUS

LEMMA Division ==
  ASSUME NEW n \in Nat \ {0}, NEW a \in Int
  PROVE  a \div n \in Int /\ a % n \in 0..n - 1 /\ a = (a \div n) * n + (a % n)
OBVIOUS

LEMMA NextPlace ==
  ASSUME NEW n \in Nat \ {0}, NEW a \in Nat
  PROVE  ((a % n) + 1) % n = (a + 1) % n
<1> DEFINE q == a \div n
           r == a % n
<1>1. q \in Int /\ r \in 0..n - 1 /\ a = q * n + r
  BY Division
<1> HIDE DEF q, r
<1>2. CASE r + 1 < n
  <2>1. r + 1 \in 0..n - 1 /\ a + 1 = q * n + (r + 1)
    BY <1>1, <1>2
  <2>2. (a + 1) % n = r + 1
    BY <1>1, <2>1, Remainder
  <2>3. (r + 1) % n = r + 1
    <3>1. r + 1 = 0 * n + (r + 1)
      BY <1>1
    <3> QED
      BY <2>1, <3>1, Remainder
  <2> QED
    BY <2>2, <2>3 DEF r
<1>3. CASE r + 1 = n
  <2>1. a + 1 = (q + 1) * n + 0 /\ r + 1 = 1 * n + 0 /\ q + 1 \in Int /\ 0 \in 0..n - 1
    BY <1>1, <1>3
  <2>2. (a + 1) % n = 0 /\ (r + 1) % n = 0
    BY <2>1, Remainder
  <2> QED
    BY <2>2 DEF r
<1> QED
  BY <1>1, <1>2, <1>3

\* Two places less than a round apart are different.
LEMMA OtherPlace ==
  ASSUME NEW n \in Nat \ {0}, NEW a \in Nat, NEW b \in Nat, a < b, b < a + n
  PROVE  a % n # b % n
<1> SUFFICES ASSUME a % n = b % n PROVE FALSE
  OBVIOUS
<1> DEFINE p == a \div n
           q == b \div n
           r == a % n
<1>1. p \in Int /\ q \in Int /\ r \in 0..n - 1 /\ a = p * n + r /\ b = q * n + r
  BY Division
<1> HIDE DEF p, q, r
<1>2. (q - p) * n = b - a
  BY <1>1
<1>3. CASE q - p <= 0
  <2>1. (q - p) * n <= 0
    BY <1>1, <1>3
  <2> QED
    BY <1>2, <2>1
<1>4. CASE q - p >= 1
  <2>1. (q - p) * n >= n
    BY <1>1, <1>4
  <2> QED
    BY <1>2, <2>1
<1> QED
  BY <1>1, <1>3, <1>4

LEMMA Ring ==
  ASSUME WakeInv
  PROVE  /\ N \in Nat \ {0} /\ Slots = 0..N - 1
         /\ pictq \in [size : 0..N, rindex : Slots, windex : Slots]
         /\ pictq.size \in 0..N /\ pictq.rindex \in Slots /\ pictq.windex \in Slots
         /\ DOMAIN slot = Slots /\ \A i \in Slots : DOMAIN slot[i] = Fields
BY VideoAssumption DEF WakeInv, Pictures, N, Slots

\* The slots that wait are not the one that is written, if there is room.
LEMMA NotWritten ==
  ASSUME WakeInv, Typed, Counted, pictq.size < N
  PROVE  /\ Len(shown) \in Nat /\ Len(queued) \in Nat
         /\ \A j \in Len(shown)..Len(queued) - 1 : j % N \in Slots /\ j % N # pictq.windex
<1>1. /\ N \in Nat \ {0} /\ Slots = 0..N - 1 /\ pictq.size \in 0..N
      /\ Len(shown) \in Nat /\ Len(queued) \in Nat
  BY Ring DEF Typed
<1> SUFFICES ASSUME NEW j \in Len(shown)..Len(queued) - 1
             PROVE  j % N \in Slots /\ j % N # pictq.windex
  BY <1>1
<1>2. j \in Nat /\ j < Len(queued) /\ Len(queued) < j + N
  <2>1. Len(queued) = Len(shown) + pictq.size /\ pictq.size < N
    BY DEF Counted
  <2> HIDE DEF N
  <2> QED
    BY <1>1, <2>1
<1>3. j % N # Len(queued) % N
  BY <1>1, <1>2, OtherPlace
<1> QED
  BY <1>1, <1>2, <1>3, Division DEF Counted

-------------------------------------------------------------------------------
(***************************************************************************)
(* The event queue                                                         *)
(***************************************************************************)
LEMMA Pushed ==
  ASSUME NEW es \in Seq(Events), NEW e \in Events
  PROVE  /\ Push(es, e) \in Seq(Events)
         /\ e # "alloc" => /\ AtMostOne(es) => AtMostOne(Push(es, e))
                           /\ Asked(Push(es, e)) => Asked(es)
         /\ ~Asked(es) => AtMostOne(Push(es, e))
<1> DEFINE r == Append(es, e)
<1>1. /\ r \in Seq(Events) /\ Len(es) \in Nat /\ Len(r) = Len(es) + 1
      /\ r[Len(es) + 1] = e /\ \A i \in 1..Len(es) : r[i] = es[i]
  OBVIOUS
<1> HIDE DEF r
<1>2. e # "alloc" => (AtMostOne(es) => AtMostOne(r)) /\ (Asked(r) => Asked(es))
  BY <1>1 DEF AtMostOne, Asked
<1>3. ~Asked(es) => AtMostOne(es) /\ AtMostOne(r)
  BY <1>1 DEF AtMostOne, Asked
<1>4. Push(es, e) = r \/ Push(es, e) = es
  BY DEF Push, r
<1> QED
  BY <1>1, <1>2, <1>3, <1>4

LEMMA Taken ==
  ASSUME NEW es \in Seq(Events), es # <<>>
  PROVE  /\ Tail(es) \in Seq(Events)
         /\ AtMostOne(es) => AtMostOne(Tail(es))
         /\ Asked(Tail(es)) => Asked(es)
         /\ AtMostOne(es) /\ Head(es) = "alloc" => Asked(es) /\ ~Asked(Tail(es))
<1> DEFINE r == Tail(es)
<1>1. /\ r \in Seq(Events) /\ Len(es) \in Nat \ {0} /\ Len(r) = Len(es) - 1
      /\ Head(es) = es[1] /\ \A i \in 1..Len(r) : r[i] = es[i + 1]
  OBVIOUS
<1> HIDE DEF r
<1>2. \A i \in 1..Len(r) : i + 1 \in 1..Len(es) /\ i + 1 # 1
  BY <1>1
<1>3. AtMostOne(es) => AtMostOne(r)
  BY <1>1, <1>2 DEF AtMostOne
<1>4. Asked(r) => Asked(es)
  BY <1>1, <1>2 DEF Asked
<1>5. 1 \in 1..Len(es)
  BY <1>1
<1>6. AtMostOne(es) /\ Head(es) = "alloc" => Asked(es) /\ ~Asked(r)
  BY <1>1, <1>2, <1>5 DEF AtMostOne, Asked
<1> QED
  BY <1>1, <1>3, <1>4, <1>6 DEF r

\* What a step of the event queue leaves of the request for a picture.
Quiets(es) == /\ es \in Seq(Events)
              /\ AtMostOne(events) => AtMostOne(es)
              /\ Asked(es) => Asked(events)

LEMMA QuietEvents ==
  ASSUME Typed
  PROVE  /\ Quiets(events)
         /\ \A e \in Events \ {"alloc"} : Quiets(Push(events, e))
         /\ events # <<>> => Quiets(Tail(events)) /\ Quiets(Push(Tail(events), "quit"))
<1>1. events \in Seq(Events)
  BY DEF Typed
<1>2. Quiets(events)
  BY <1>1 DEF Quiets
<1>3. \A e \in Events \ {"alloc"} : Quiets(Push(events, e))
  BY <1>1, Pushed DEF Quiets
<1>4. ASSUME events # <<>> PROVE Quiets(Tail(events)) /\ Quiets(Push(Tail(events), "quit"))
  <2>1. "quit" \in Events /\ "quit" # "alloc"
    BY DEF Events, Commands
  <2> QED
    BY <1>1, <1>4, <2>1, Taken, Pushed DEF Quiets
<1> QED
  BY <1>2, <1>3, <1>4

-------------------------------------------------------------------------------
LEMMA ShowInit == Init => ShowInv
<1> SUFFICES ASSUME Init PROVE ShowInv
  OBVIOUS
<1>1. N \in Nat \ {0} /\ Slots = 0..N - 1 /\ 0 \in Slots
  BY VideoAssumption DEF N, Slots
<1>2. pc["reader"] = "off" /\ pc["video"] = "off"
  BY DEF Init, Threads, Kinds
<1>3. \A i \in Slots : ~slot[i].allocated /\ ~slot[i].bmp
  BY DEF Init, EmptySlot
<1>4. /\ events = <<>> /\ queued = <<>> /\ shown = <<>>
      /\ pictq.size = 0 /\ pictq.rindex = 0 /\ pictq.windex = 0
      /\ pkt = [k \in Kinds |-> Null]
  BY DEF Init
<1>5. Len(queued) = 0 /\ Len(shown) = 0 /\ Len(events) = 0 /\ 0 % N = 0
  BY <1>1, <1>4
<1>6. Typed
  BY <1>4 DEF Typed, Ptrs
<1>7. Counted /\ ShownFirst /\ Waits
  BY <1>4, <1>5 DEF Counted, ShownFirst, Waits
<1>8. Sound /\ Asking /\ Given /\ Born
  BY <1>2, <1>3, <1>5 DEF Sound, Asking, Asked, AtMostOne, Given, Born
<1> QED
  BY <1>6, <1>7, <1>8 DEF ShowInv

\* A step that leaves the pictures alone, asks for none, and in which the video
\* thread neither comes to wait for one nor stops doing so.
LEMMA ShowKept ==
  ASSUME WakeInv, ShowInv, UNCHANGED <<file, pictq, slot, queued, shown>>,
         pkt' \in [Kinds -> Ptrs], Quiets(events'),
         pc["video"] \in Pending => pc'["video"] \in Pending,
         pc'["video"] \in {"unalloc", "noalloc"} =>
           pc["video"] \in {"unalloc", "noalloc"} /\ pkt'["video"] = pkt["video"],
         pc'["video"] = "fill" => pc["video"] = "fill" /\ pkt'["video"] = pkt["video"],
         Born'
  PROVE  ShowInv'
<1>1. Write' = Write
  BY DEF Write
<1>2. Typed' /\ Counted' /\ ShownFirst'
  BY DEF ShowInv, Typed, Counted, ShownFirst, Quiets, N
<1>3. Waits'
  BY DEF ShowInv, Waits, Complete, Held, Visible, VideoDim, N
<1>4. Sound'
  BY DEF ShowInv, Sound, Held
<1>5. Asking'
  BY <1>1 DEF ShowInv, Asking, Quiets, N
<1>6. Given'
  BY <1>1 DEF ShowInv, Given, VideoDim
<1> QED
  BY <1>2, <1>3, <1>4, <1>5, <1>6 DEF ShowInv

\* The same when the video thread does not move.
LEMMA ShowStay ==
  ASSUME WakeInv, ShowInv, UNCHANGED <<file, pictq, slot, queued, shown, pkt>>,
         Quiets(events'), pc'["video"] = pc["video"],
         pc'["reader"] = pc["reader"] \/ pc'["reader"] \notin {"off", "open"}
  PROVE  ShowInv'
<1>1. pkt' \in [Kinds -> Ptrs]
  BY DEF ShowInv, Typed
<1>2. Born'
  BY DEF ShowInv, Born
<1> QED
  BY <1>1, <1>2, ShowKept

-------------------------------------------------------------------------------
(***************************************************************************)
(* The steps that change pictures                                          *)
(***************************************************************************)

\* 288-327, 386-392: the picture shown is the one that was queued next.
LEMMA DisplayShow == WakeInv /\ ShowInv /\ video_display => ShowInv'
<1> SUFFICES ASSUME WakeInv, ShowInv, video_display PROVE ShowInv'
  OBVIOUS
<1> SUFFICES ASSUME GotoLoopAndSignal PROVE ShowInv'
  <2>1. CASE Goto("main", "crashed") /\ UNCHANGED <<file, pictq, slot, queued, shown, pkt, events>>
    <3>1. pc'["video"] = pc["video"] /\ pc'["reader"] = pc["reader"]
      BY <2>1 DEF Goto, WakeInv, Threads, Kinds
    <3> QED
      BY <2>1, <3>1, QuietEvents, ShowStay DEF ShowInv
  <2> QED
    BY <2>1 DEF video_display, decoderVars
<1> DEFINE m == Len(shown)
<1>0. /\ shown' = Append(shown, Visible(slot[pictq.rindex]))
      /\ pictq' = [pictq EXCEPT !.rindex = (@ + 1) % N, !.size = @ - 1]
  <2>1. ~Goto("main", "crashed")
    BY DEF Goto, GotoLoopAndSignal, WakeInv, Threads
  <2> QED
    BY <2>1 DEF video_display, N
<1>1. /\ N \in Nat \ {0} /\ Slots = 0..N - 1 /\ pictq.size \in 1..N
      /\ pictq \in [size : 0..N, rindex : Slots, windex : Slots]
  BY Ring DEF WakeInv, Showing, video_display, At
<1>2. /\ Typed /\ Counted /\ ShownFirst /\ Waits
      /\ m \in Nat /\ Len(queued) \in Nat /\ Len(queued) = m + pictq.size
  BY DEF ShowInv, Typed, Counted
<1>3. m \in m..Len(queued) - 1 /\ m + 1 \in 1..Len(queued)
  BY <1>1, <1>2
<1>4. Complete(slot[pictq.rindex], queued[m + 1])
  BY <1>2, <1>3 DEF Waits, Counted
<1>5. /\ shown' = Append(shown, queued[m + 1])
      /\ UNCHANGED <<file, slot, queued, events, pkt>>
  BY <1>0, <1>4 DEF video_display, Complete, decoderVars
<1>6. queued[m + 1] \in Ptrs /\ shown \in Seq(Ptrs)
  BY <1>2, <1>3 DEF Typed
<1>7. /\ shown' \in Seq(Ptrs) /\ Len(shown') = m + 1
      /\ shown'[m + 1] = queued[m + 1] /\ \A i \in 1..m : shown'[i] = shown[i]
  BY <1>5, <1>6
<1>8. /\ pictq'.size = pictq.size - 1 /\ pictq'.windex = pictq.windex
      /\ pictq'.rindex = (pictq.rindex + 1) % N
  BY <1>0, <1>1
<1>9. pictq'.rindex = (m + 1) % N
  <2>1. ((m % N) + 1) % N = (m + 1) % N
    BY <1>1, <1>2, NextPlace
  <2> QED
    BY <1>2, <1>8, <2>1 DEF Counted
<1>10. /\ pc'["reader"] = pc["reader"]
       /\ pc'["video"] = CASE pc["video"] = "nospace" -> "space"
                           [] pc["video"] = "noalloc" -> "unalloc"
                           [] OTHER -> pc["video"]
  BY DEF GotoLoopAndSignal, WakeInv, Threads, Kinds
<1>11. /\ pc["video"] \in Pending => pc'["video"] \in Pending
       /\ pc'["video"] \in {"unalloc", "noalloc"} => pc["video"] \in {"unalloc", "noalloc"}
       /\ pc'["video"] = "fill" => pc["video"] = "fill"
       /\ pc["video"] = "off" => pc'["video"] = "off"
  BY <1>10 DEF Pending
<1>12. Typed'
  BY <1>2, <1>5, <1>7 DEF Typed
<1>13. Counted'
  <2>1. pictq'.rindex = Len(shown') % N
    BY <1>7, <1>9
  <2>2. pictq'.windex = Len(queued') % N
    BY <1>2, <1>5, <1>8 DEF Counted
  <2>3. Len(queued') = Len(shown') + pictq'.size
    BY <1>1, <1>2, <1>5, <1>7, <1>8
  <2> QED
    BY <2>1, <2>2, <2>3 DEF Counted, N
<1>14. ShownFirst'
  <2> SUFFICES ASSUME NEW i \in 1..Len(shown') PROVE shown'[i] = queued[i]
    BY <1>5 DEF ShownFirst
  <2>1. i \in 1..m \/ i = m + 1
    BY <1>2, <1>7
  <2> QED
    BY <1>2, <1>7, <2>1 DEF ShownFirst
<1>15. Waits'
  <2>1. Len(shown')..Len(queued') - 1 \subseteq m..Len(queued) - 1
    BY <1>2, <1>5, <1>7
  <2> QED
    BY <1>2, <1>5, <2>1 DEF Waits, Complete, Held, Visible, VideoDim, N
<1>16. Write' = Write
  BY <1>5, <1>8 DEF Write
<1>17. Sound'
  BY <1>5, <1>8, <1>11 DEF ShowInv, Sound, Held
<1>18. Asking'
  BY <1>1, <1>5, <1>8, <1>11, <1>16 DEF ShowInv, Asking, N
<1>19. Given'
  BY <1>5, <1>11, <1>16 DEF ShowInv, Given, VideoDim
<1>20. Born'
  BY <1>10, <1>11 DEF ShowInv, Born
<1> QED
  BY <1>12, <1>13, <1>14, <1>15, <1>17, <1>18, <1>19, <1>20 DEF ShowInv

\* 399-447: the slot that was asked for gets a picture; no picture waits in it.
LEMMA AllocShow == WakeInv /\ ShowInv /\ alloc_picture => ShowInv'
<1> SUFFICES ASSUME WakeInv, ShowInv, alloc_picture PROVE ShowInv'
  OBVIOUS
<1> DEFINE w == pictq.windex
<1>1. /\ w \in Slots /\ DOMAIN slot = Slots /\ DOMAIN slot[w] = Fields
      /\ Typed /\ Counted /\ events \in Seq(Events)
  BY Ring DEF ShowInv, Typed
<1>2. /\ events # <<>> /\ Head(events) = "alloc" /\ events' = Tail(events)
      /\ UNCHANGED <<file, pictq, queued, shown, pkt>>
  BY DEF alloc_picture, Take, decoderVars, mainVars
<1>3. Asked(events) /\ ~Asked(events') /\ AtMostOne(events') /\ events' \in Seq(Events)
  BY <1>1, <1>2, Taken DEF ShowInv, Asking
<1>4. pc["video"] \in Pending /\ ~slot[w].allocated /\ pictq.size < N
  BY <1>3 DEF ShowInv, Asking, Write
<1>5. \E s : /\ slot' = [slot EXCEPT ![w] = s] /\ s.dim = VideoDim(pkt["video"])
             /\ \/ GotoLoopAndSignal /\ s.allocated /\ Held(s)
                \/ UNCHANGED pc /\ ~s.allocated
  <2>1. PICK texture, frame, buffer \in BOOLEAN :
          /\ slot' = [slot EXCEPT ![w] = Allocate(@, texture, frame, buffer)]
          /\ IF frame THEN GotoLoopAndSignal ELSE UNCHANGED pc
    BY DEF alloc_picture
  <2> DEFINE a == Allocate(slot[w], texture, frame, buffer)
  <2>2. slot' = [slot EXCEPT ![w] = a]
    BY <2>1
  <2>3. a.dim = VideoDim(pkt["video"]) /\ (frame => a.allocated = TRUE)
    BY <1>1 DEF a, Allocate, Fields
  <2>4. ~frame => a.allocated = slot[w].allocated
    BY <1>1 DEF a, Allocate, Fields
  <2>5. frame => a.raw \in {"live", "null"}
    BY <1>1 DEF a, Allocate, Fields
  <2> HIDE DEF a
  <2> QED
    BY <1>4, <2>1, <2>2, <2>3, <2>4, <2>5 DEF Held
<1>6. PICK s : /\ slot' = [slot EXCEPT ![w] = s] /\ s.dim = VideoDim(pkt["video"])
               /\ \/ GotoLoopAndSignal /\ s.allocated /\ Held(s)
                  \/ UNCHANGED pc /\ ~s.allocated
  BY <1>5
<1>7. slot'[w] = s /\ (\A i \in Slots \ {w} : slot'[i] = slot[i]) /\ Write' = s
  BY <1>1, <1>2, <1>6 DEF Write
<1>8. pc'["video"] \in Pending /\ pc'["reader"] = pc["reader"]
  <2>1. CASE GotoLoopAndSignal
    BY <1>4, <2>1 DEF GotoLoopAndSignal, WakeInv, Threads, Kinds, Pending
  <2>2. CASE UNCHANGED pc
    BY <1>4, <2>2
  <2> QED
    BY <1>6, <2>1, <2>2
<1>9. pc'["video"] # "fill" /\ pc["video"] # "off"
  BY <1>4, <1>8 DEF Pending
<1>10. Typed' /\ Counted' /\ ShownFirst'
  BY <1>2, <1>3 DEF ShowInv, Typed, Counted, ShownFirst, N
<1>11. Waits'
  <2>1. \A j \in Len(shown)..Len(queued) - 1 : j % N \in Slots /\ j % N # w
    BY <1>1, <1>4, NotWritten
  <2> QED
    BY <1>2, <1>7, <2>1 DEF ShowInv, Waits, Complete, Held, Visible, VideoDim, N
<1>12. Sound'
  BY <1>2, <1>6, <1>7, <1>8 DEF ShowInv, Sound, Held
<1>13. Asking'
  BY <1>3 DEF Asking
<1>14. Given'
  BY <1>2, <1>6, <1>7, <1>9 DEF Given, VideoDim
<1>15. Born'
  BY <1>8, <1>9 DEF ShowInv, Born
<1> QED
  BY <1>10, <1>11, <1>12, <1>13, <1>14, <1>15 DEF ShowInv

\* 455-476: the slot is ready for the frame, or a picture is asked for.
LEMMA SpaceShow == WakeInv /\ ShowInv /\ queue_picture_space => ShowInv'
<1> SUFFICES ASSUME WakeInv, ShowInv, queue_picture_space PROVE ShowInv'
  OBVIOUS
<1> DEFINE w == pictq.windex
<1>1. /\ w \in Slots /\ DOMAIN slot = Slots /\ DOMAIN slot[w] = Fields
      /\ N \in Nat \ {0} /\ pictq.size \in 0..N
      /\ Typed /\ Counted /\ events \in Seq(Events) /\ pkt \in [Kinds -> Ptrs]
  BY Ring DEF ShowInv, Typed
<1>2. /\ pc["video"] = "space" /\ UNCHANGED <<file, pictq, queued, shown, pkt>>
      /\ "video" \in Threads /\ DOMAIN pc = Threads
  BY DEF queue_picture_space, At, decoderVars, mainVars, WakeInv, Threads, Kinds
<1>3. ASSUME NEW l, Goto("video", l)
      PROVE  pc'["video"] = l /\ pc'["reader"] = pc["reader"]
  BY <1>2, <1>3 DEF Goto, Threads, Kinds
<1>4. Born' <=> pc["reader"] \notin {"off", "open"} \/ pc'["video"] = "off"
  <2>1. \E l : Goto("video", l)
    BY DEF queue_picture_space
  <2> QED
    BY <1>3, <2>1 DEF Born
<1>5. pc["reader"] \notin {"off", "open"}
  BY <1>2 DEF ShowInv, Born
<1>6. CASE /\ Goto("video", "done") \/ Goto("video", "nospace")
           /\ UNCHANGED <<events, slot>>
  <2>1. pc'["video"] \in {"done", "nospace"} /\ pc["video"] \notin Pending
    BY <1>2, <1>3, <1>6 DEF Pending
  <2> QED
    BY <1>1, <1>2, <1>4, <1>5, <1>6, <2>1, QuietEvents, ShowKept
<1>7. CASE /\ Goto("video", "fill") /\ UNCHANGED <<events, slot>>
           /\ Write.bmp /\ Write.dim = VideoDim(pkt["video"])
  <2>1. pc'["video"] = "fill" /\ pc["video"] \notin Pending
    BY <1>2, <1>3, <1>7 DEF Pending
  <2>2. Write.allocated
    BY <1>1, <1>7, <2>1 DEF ShowInv, Sound, Held, Write
  <2>3. Typed' /\ Counted' /\ ShownFirst'
    BY <1>2, <1>7 DEF ShowInv, Typed, Counted, ShownFirst, N
  <2>4. Waits'
    BY <1>2, <1>7 DEF ShowInv, Waits, Complete, Held, Visible, VideoDim, N
  <2>5. Write' = Write
    BY <1>2, <1>7 DEF Write
  <2>6. Sound'
    BY <1>2, <1>7, <2>1 DEF ShowInv, Sound, Held
  <2>7. Asking'
    BY <1>2, <1>7, <2>1 DEF ShowInv, Asking
  <2>8. Given'
    BY <1>2, <1>7, <2>1, <2>2, <2>5 DEF Given, VideoDim
  <2> QED
    BY <1>4, <1>5, <2>3, <2>4, <2>6, <2>7, <2>8 DEF ShowInv
<1>8. CASE /\ Goto("video", "unalloc") /\ pictq.size < N
           /\ slot' = [slot EXCEPT ![w].allocated = FALSE]
           /\ events' = Push(events, "alloc")
  <2>1. pc'["video"] = "unalloc" /\ pc["video"] \notin Pending
    BY <1>2, <1>3, <1>8 DEF Pending
  <2>2. slot'[w].allocated = FALSE /\ \A i \in Slots \ {w} : slot'[i] = slot[i]
    BY <1>1, <1>8 DEF Fields
  <2>3. "alloc" \in Events
    BY DEF Events
  <2>4. ~Asked(events)
    BY <2>1 DEF ShowInv, Asking
  <2>5. events' \in Seq(Events) /\ AtMostOne(events')
    BY <1>1, <1>8, <2>3, <2>4, Pushed
  <2>6. Typed' /\ Counted' /\ ShownFirst'
    BY <1>2, <2>5 DEF ShowInv, Typed, Counted, ShownFirst, N
  <2>7. Waits'
    <3>1. \A j \in Len(shown)..Len(queued) - 1 : j % N \in Slots /\ j % N # w
      BY <1>1, <1>8, NotWritten
    <3> QED
      BY <1>2, <2>2, <3>1 DEF ShowInv, Waits, Complete, Held, Visible, VideoDim, N
  <2>8. Write' = slot'[w]
    BY <1>2 DEF Write
  <2>9. Sound'
    BY <1>2, <2>1, <2>2 DEF ShowInv, Sound, Held, Pending
  <2>10. Asking'
    BY <1>2, <1>8, <2>1, <2>2, <2>5, <2>8 DEF Asking, Pending, N
  <2>11. Given'
    BY <2>1, <2>2, <2>8 DEF Given
  <2> QED
    BY <1>4, <1>5, <2>6, <2>7, <2>9, <2>10, <2>11 DEF ShowInv
<1>9. \/ (Goto("video", "done") \/ Goto("video", "nospace")) /\ UNCHANGED <<events, slot>>
      \/ /\ Goto("video", "fill") /\ UNCHANGED <<events, slot>>
         /\ Write.bmp /\ Write.dim = VideoDim(pkt["video"])
      \/ /\ Goto("video", "unalloc") /\ pictq.size < N
         /\ slot' = [slot EXCEPT ![w].allocated = FALSE]
         /\ events' = Push(events, "alloc")
  BY <1>1 DEF queue_picture_space, NoSpace, N
<1> QED
  BY <1>6, <1>7, <1>8, <1>9

\* 478-486: the thread goes on with a slot that has been allocated.
LEMMA AwaitShow == WakeInv /\ ShowInv /\ queue_picture_alloc => ShowInv'
<1> SUFFICES ASSUME WakeInv, ShowInv, queue_picture_alloc PROVE ShowInv'
  OBVIOUS
<1>1. /\ pc["video"] = "unalloc"
      /\ UNCHANGED <<file, pictq, slot, queued, shown, pkt, events>>
  BY DEF queue_picture_alloc, At, decoderVars, mainVars, pictVars
<1>2. /\ pc'["reader"] = pc["reader"]
      /\ pc'["video"] \in {"done", "noalloc"} \/ (pc'["video"] = "fill" /\ Write.allocated)
  BY DEF queue_picture_alloc, Goto, Allocated, WakeInv, Threads, Kinds
<1>3. Born'
  BY <1>1, <1>2 DEF ShowInv, Born
<1>4. CASE pc'["video"] \in {"done", "noalloc"}
  BY <1>1, <1>3, <1>4, QuietEvents, ShowKept DEF ShowInv, Typed, Pending
<1>5. CASE pc'["video"] = "fill" /\ Write.allocated
  <2>1. ~Asked(events)
    BY <1>5 DEF ShowInv, Asking
  <2>2. Typed' /\ Counted' /\ ShownFirst'
    BY <1>1 DEF ShowInv, Typed, Counted, ShownFirst, N
  <2>3. Waits'
    BY <1>1 DEF ShowInv, Waits, Complete, Held, Visible, VideoDim, N
  <2>4. Write' = Write
    BY <1>1 DEF Write
  <2>5. Sound'
    BY <1>1, <1>5 DEF ShowInv, Sound, Held, Write
  <2>6. Asking'
    BY <1>1, <2>1 DEF ShowInv, Asking
  <2>7. Given'
    BY <1>1, <1>5, <2>4 DEF ShowInv, Given, VideoDim
  <2> QED
    BY <1>3, <2>2, <2>3, <2>5, <2>6, <2>7 DEF ShowInv
<1> QED
  BY <1>2, <1>4, <1>5

\* 489-504: the frame is put into its slot, and the slot waits.
LEMMA FillShow == WakeInv /\ ShowInv /\ queue_picture_fill => ShowInv'
<1> SUFFICES ASSUME WakeInv, ShowInv, queue_picture_fill PROVE ShowInv'
  OBVIOUS
<1> SUFFICES ASSUME Goto("video", "get") PROVE ShowInv'
  <2>1. CASE /\ Goto("video", "crashed") /\ At("video", "fill")
             /\ UNCHANGED <<file, pictq, slot, queued, shown, pkt, events>>
    <3>1. pc'["video"] = "crashed" /\ pc'["reader"] = pc["reader"] /\ pc["video"] = "fill"
      BY <2>1 DEF Goto, At, WakeInv, Threads, Kinds
    <3>2. pc["video"] \notin Pending /\ Born' /\ pkt' \in [Kinds -> Ptrs]
      BY <2>1, <3>1 DEF Pending, ShowInv, Born, Typed
    <3> QED
      BY <2>1, <3>1, <3>2, QuietEvents, ShowKept DEF ShowInv
  <2> QED
    BY <2>1 DEF queue_picture_fill, pictVars, mainVars, decoderVars
<1> DEFINE w == pictq.windex
           m == Len(queued)
           p == pkt["video"]
<1>1. /\ w \in Slots /\ DOMAIN slot = Slots /\ DOMAIN slot[w] = Fields
      /\ N \in Nat \ {0} /\ Slots = 0..N - 1 /\ pictq.size \in 0..N
      /\ pictq \in [size : 0..N, rindex : Slots, windex : Slots]
      /\ Typed /\ Counted /\ queued \in Seq(Ptrs) /\ pkt \in [Kinds -> Ptrs] /\ p \in Ptrs
      /\ m \in Nat /\ Len(shown) \in Nat /\ m = Len(shown) + pictq.size
  BY Ring DEF ShowInv, Typed, Counted, Kinds
<1>2. /\ pc["video"] = "fill" /\ UNCHANGED <<file, events, shown, pkt>>
      /\ pc'["video"] = "get" /\ pc'["reader"] = pc["reader"]
  BY DEF queue_picture_fill, At, Goto, decoderVars, mainVars, WakeInv, Threads, Kinds
<1>3. /\ Write.allocated /\ Write.dim = VideoDim(p)
      /\ Held(Write) /\ pictq.size < N /\ ~Asked(events)
  BY <1>1, <1>2 DEF ShowInv, Given, Sound, Write, WakeInv, Room, Asking, Pending, N
<1>4. /\ slot' = [slot EXCEPT ![w].frame = p]
      /\ pictq' = [pictq EXCEPT !.windex = (@ + 1) % N, !.size = @ + 1]
      /\ queued' = Append(queued, Visible(slot'[w]))
  <2>1. Write.raw # "none"
    BY <1>3 DEF Held
  <2>2. ~Goto("video", "crashed")
    BY DEF Goto, WakeInv, Threads, Kinds
  <2> QED
    BY <2>1, <2>2 DEF queue_picture_fill, N
<1>5. /\ slot'[w].frame = p /\ Held(slot'[w]) /\ slot'[w].allocated
      /\ slot'[w].dim = VideoDim(p)
      /\ \A i \in Slots \ {w} : slot'[i] = slot[i]
  BY <1>1, <1>3, <1>4 DEF Write, Fields, Held
<1>6. Visible(slot'[w]) \in Ptrs
  BY <1>1, <1>5 DEF Visible, Ptrs
<1>7. /\ queued' \in Seq(Ptrs) /\ Len(queued') = m + 1
      /\ queued'[m + 1] = Visible(slot'[w]) /\ \A i \in 1..m : queued'[i] = queued[i]
  BY <1>1, <1>4, <1>6
<1>8. /\ pictq'.size = pictq.size + 1 /\ pictq'.rindex = pictq.rindex
      /\ pictq'.windex = (w + 1) % N
  BY <1>1, <1>4
<1>9. pictq'.windex = (m + 1) % N
  <2>1. ((m % N) + 1) % N = (m + 1) % N
    BY <1>1, NextPlace
  <2> QED
    BY <1>1, <1>8, <2>1 DEF Counted
<1>10. Typed'
  BY <1>1, <1>2, <1>7 DEF Typed
<1>11. Counted'
  BY <1>1, <1>2, <1>7, <1>8, <1>9 DEF Counted, N
<1>12. ShownFirst'
  <2>1. \A i \in 1..Len(shown) : i \in 1..m
    BY <1>1
  <2> QED
    BY <1>2, <1>7, <2>1 DEF ShowInv, ShownFirst
<1>13. Waits'
  <2> SUFFICES ASSUME NEW j \in Len(shown)..Len(queued') - 1
               PROVE  Complete(slot'[j % N], queued'[j + 1])
    BY <1>2 DEF Waits, Complete, Held, Visible, VideoDim, N
  <2>1. CASE j = m
    <3>1. j % N = w
      BY <1>1, <2>1 DEF Counted
    <3> QED
      BY <1>2, <1>5, <1>7, <2>1, <3>1 DEF Complete, Held, Visible, VideoDim
  <2>2. CASE j # m
    <3>1. j \in Len(shown)..m - 1 /\ j + 1 \in 1..m
      BY <1>1, <1>7, <2>2
    <3>2. j % N \in Slots /\ j % N # w
      BY <1>1, <1>3, <3>1, NotWritten
    <3> QED
      BY <1>2, <1>5, <1>7, <3>1, <3>2 DEF ShowInv, Waits, Complete, Held, Visible, VideoDim
  <2> QED
    BY <2>1, <2>2
<1>14. Sound'
  <2>1. \A i \in Slots \ {w} : slot[i].bmp => slot[i].allocated
    BY <1>2 DEF ShowInv, Sound, Held
  <2>2. \A i \in Slots : /\ slot'[i].allocated => Held(slot'[i])
                         /\ slot'[i].bmp => slot'[i].allocated
    BY <1>5, <2>1 DEF ShowInv, Sound, Held
  <2> QED
    BY <2>2 DEF Sound
<1>15. Asking'
  BY <1>2, <1>3 DEF ShowInv, Asking
<1>16. Given' /\ Born'
  BY <1>2 DEF ShowInv, Given, Born
<1> QED
  BY <1>10, <1>11, <1>12, <1>13, <1>14, <1>15, <1>16 DEF ShowInv

-------------------------------------------------------------------------------
(***************************************************************************)
(* The other steps                                                         *)
(***************************************************************************)
LEMMA MainShow == FifoInv /\ WakeInv /\ ShowInv /\ Main => ShowInv'
<1> SUFFICES ASSUME FifoInv, WakeInv, ShowInv, Main PROVE ShowInv'
  OBVIOUS
<1> USE DEF mainVars, decoderVars, pictVars
<1>1. DOMAIN pc = Threads /\ Typed
  BY DEF WakeInv, ShowInv
<1>2. ASSUME UNCHANGED <<file, pictq, slot, queued, shown, pkt>>, Quiets(events'),
             UNCHANGED pc \/ \E l : Goto("main", l)
      PROVE  ShowInv'
  <2>1. pc'["video"] = pc["video"] /\ pc'["reader"] = pc["reader"]
    BY <1>1, <1>2 DEF Goto, Threads, Kinds
  <2> QED
    BY <1>2, <2>1, ShowStay
<1>3. CASE CmdStop
  <2>1. Quiets(events')
    BY <1>1, <1>3, QuietEvents DEF CmdStop, Take, StopEvent
  <2> QED
    BY <1>2, <1>3, <2>1 DEF CmdStop
<1>4. ASSUME events # <<>>, events' = Tail(events) PROVE Quiets(events')
  BY <1>1, <1>4, QuietEvents
<1>5. CASE CmdStart
  <2>1. UNCHANGED <<file, pictq, slot, queued, shown, pkt>> /\ Quiets(events')
    BY <1>4, <1>5 DEF CmdStart, Take
  <2>2. CASE MayStart
    <3>1. pc["reader"] = "off" /\ pc["video"] = "off"
      BY <2>2 DEF MayStart, FifoInv, Once, ShowInv, Born
    <3>2. pc'["video"] = "off"
      BY <1>1, <1>5, <2>2, <3>1 DEF CmdStart, Goto, Threads, Kinds
    <3>3. Born' /\ pkt' \in [Kinds -> Ptrs]
      BY <1>1, <2>1, <3>2 DEF Born, Typed
    <3> QED
      BY <2>1, <3>1, <3>2, <3>3, ShowKept DEF Pending
  <2>3. CASE ~MayStart
    BY <1>2, <1>5, <2>1, <2>3 DEF CmdStart
  <2> QED
    BY <2>2, <2>3
<1>6. CASE CmdOther
  BY <1>2, <1>4, <1>6 DEF CmdOther, Take
<1>7. CASE RefreshEmpty
  BY <1>2, <1>4, <1>7 DEF RefreshEmpty, Take
<1>8. CASE RefreshShow
  BY <1>2, <1>4, <1>8 DEF RefreshShow, Take
<1>9. CASE QuitSignal
  <2>1. UNCHANGED <<file, pictq, slot, queued, shown, pkt>> /\ Quiets(events')
    BY <1>4, <1>9 DEF QuitSignal, Take
  <2>2. pc'["video"] = Woken(pc["video"]) /\ pc'["reader"] = Woken(pc["reader"])
    BY <1>9 DEF QuitSignal, Threads, Kinds
  <2>3. Born' /\ pkt' \in [Kinds -> Ptrs]
    BY <1>1, <2>1, <2>2 DEF ShowInv, Born, Woken, Typed
  <2> QED
    BY <2>1, <2>2, <2>3, ShowKept DEF Pending, Woken
<1>10. CASE QuitSet
  BY <1>1, <1>2, <1>10, QuietEvents DEF QuitSet
<1>11. CASE QuitDone
  BY <1>1, <1>2, <1>11, QuietEvents DEF QuitDone
<1> QED
  BY <1>3, <1>5, <1>6, <1>7, <1>8, <1>9, <1>10, <1>11, DisplayShow, AllocShow DEF Main

LEMMA ReaderShow == WakeInv /\ ShowInv /\ (Reader \/ ReadError) => ShowInv'
<1> SUFFICES ASSUME WakeInv, ShowInv, Reader \/ ReadError PROVE ShowInv'
  OBVIOUS
<1> USE DEF mainVars, decoderVars, pictVars
<1>1. DOMAIN pc = Threads /\ Typed /\ pkt \in [Kinds -> Ptrs]
  BY DEF WakeInv, ShowInv, Typed
<1>2. "quit" \in Events \ {"alloc"}
  BY DEF Events, Commands
<1>3. Quiets(events) /\ Quiets(Push(events, "quit"))
  BY <1>1, <1>2, QuietEvents
<1>4. ASSUME UNCHANGED <<file, pictq, slot, queued, shown, pkt>>,
             UNCHANGED events \/ events' = Push(events, "quit"),
             UNCHANGED pc \/ \E l \in {"done", "flood"} : Goto("reader", l)
      PROVE  ShowInv'
  <2>1. /\ pc'["video"] = pc["video"]
        /\ pc'["reader"] = pc["reader"] \/ pc'["reader"] \notin {"off", "open"}
    BY <1>1, <1>4 DEF Goto, Threads, Kinds
  <2> QED
    BY <1>3, <1>4, <2>1, ShowStay
<1>5. CASE OpenFails
  BY <1>4, <1>5 DEF OpenFails
<1>6. CASE OpenStreams
  <2>1. PICK sound, picture \in BOOLEAN :
          pc' = [pc EXCEPT !["reader"] = IF picture THEN "loop" ELSE "done",
                           !["audio"]  = IF sound THEN "idle" ELSE @,
                           !["video"]  = IF picture THEN "get" ELSE @]
    BY <1>6 DEF OpenStreams
  <2>2. UNCHANGED <<file, pictq, slot, queued, shown, pkt>> /\ Quiets(events')
    BY <1>3, <1>6 DEF OpenStreams, fail
  <2>3. pc["video"] = "off"
    BY <1>6 DEF OpenStreams, At, ShowInv, Born
  <2>4. pc'["video"] \in {"off", "get"} /\ pc'["reader"] \in {"loop", "done"}
    BY <1>1, <2>1, <2>3 DEF Threads, Kinds
  <2>5. Born'
    BY <2>4 DEF Born
  <2> QED
    BY <1>1, <2>2, <2>3, <2>4, <2>5, ShowKept DEF Pending
<1>7. CASE ReadPacket
  <2>1. UNCHANGED <<file, pictq, slot, queued, shown, pkt, events>>
    BY <1>7 DEF ReadPacket
  <2>2. UNCHANGED pc \/ \E k \in Kinds : pc' = [pc EXCEPT ![k] = Woken(@)]
    BY <1>7 DEF ReadPacket
  <2>3. /\ pc'["reader"] = pc["reader"]
        /\ pc'["video"] = pc["video"] \/ pc'["video"] = Woken(pc["video"])
    BY <1>1, <2>2 DEF Threads, Kinds
  <2>4. Born'
    BY <2>3 DEF ShowInv, Born, Woken
  <2>5. Quiets(events') /\ pkt' \in [Kinds -> Ptrs]
    BY <1>1, <1>3, <2>1
  <2> QED
    BY <2>1, <2>3, <2>4, <2>5, ShowKept DEF Pending, Woken
<1>8. CASE ReadError
  BY <1>4, <1>8 DEF ReadError
<1>9. CASE ReaderFlood
  BY <1>4, <1>9 DEF ReaderFlood
<1>10. CASE ReaderQuits
  BY <1>4, <1>10 DEF ReaderQuits, fail
<1> QED
  BY <1>5, <1>6, <1>7, <1>8, <1>9, <1>10 DEF Reader

\* 49-76: the thread takes another packet only when it has no picture to wait for.
LEMMA LookShow ==
  ASSUME NEW k \in Kinds PROVE FifoInv /\ WakeInv /\ ShowInv /\ packet_queue_look(k) => ShowInv'
<1> SUFFICES ASSUME FifoInv, WakeInv, ShowInv, packet_queue_look(k) PROVE ShowInv'
  OBVIOUS
<1>1. /\ DOMAIN pc = Threads /\ Typed /\ pkt \in [Kinds -> Ptrs] /\ k \in Threads
      /\ pc[k] = "get" /\ UNCHANGED <<file, pictq, slot, queued, shown, events>>
  BY DEF WakeInv, ShowInv, Typed, packet_queue_look, At, pictVars, mainVars, Threads
<1>2. \E l \in {"quit", "towait", "decode", "space", "get"} : Goto(k, l)
  BY DEF packet_queue_look, Decoded
<1>3. /\ pc'["reader"] = pc["reader"]
      /\ k = "video" => pc'["video"] \in {"quit", "towait", "decode", "space", "get"}
      /\ k # "video" => pc'["video"] = pc["video"]
  BY <1>1, <1>2 DEF Goto, Threads, Kinds
<1>4. pkt' \in [Kinds -> Ptrs] /\ (k # "video" => pkt'["video"] = pkt["video"])
  <2>1. CASE UNCHANGED pkt
    BY <1>1, <2>1
  <2>2. CASE pkt' = [pkt EXCEPT ![k] = queues[k].first]
    <3>1. Holds(queues[k], sent[k], got[k]) /\ sent[k] \in Seq(Pkts) /\ got[k] \in Nat
      BY DEF FifoInv, QueueFifo, Ordered, Shapes
    <3>2. queues[k].first \in Ptrs
      <4>1. CASE got[k] = Len(sent[k])
        BY <3>1, <4>1 DEF Holds, Ptrs
      <4>2. CASE got[k] < Len(sent[k])
        <5>1. got[k] + 1 \in 1..Len(sent[k]) /\ queues[k].first = sent[k][got[k] + 1]
          BY <3>1, <4>2 DEF Holds
        <5> QED
          BY <3>1, <5>1 DEF Ptrs
      <4> QED
        BY <3>1, <4>1, <4>2 DEF Holds
    <3> QED
      BY <1>1, <2>2, <3>2 DEF Kinds
  <2> QED
    BY <2>1, <2>2 DEF packet_queue_look, decoderVars
<1>5. k = "video" => pc["reader"] \notin {"off", "open"}
  BY <1>1 DEF ShowInv, Born
<1>6. Born'
  BY <1>3, <1>5 DEF ShowInv, Born
<1>7. Quiets(events')
  BY <1>1, QuietEvents
<1> QED
  BY <1>1, <1>3, <1>4, <1>6, <1>7, ShowKept DEF Pending

LEMMA DecoderShow ==
  FifoInv /\ WakeInv /\ ShowInv /\ (Video \/ Audio \/ audio_callback \/ \E k \in Kinds : Spurious(k))
    => ShowInv'
<1> SUFFICES ASSUME FifoInv, WakeInv, ShowInv,
                    Video \/ Audio \/ audio_callback \/ \E k \in Kinds : Spurious(k)
             PROVE  ShowInv'
  OBVIOUS
<1> USE DEF mainVars, decoderVars, pictVars
<1>1. /\ DOMAIN pc = Threads /\ pkt \in [Kinds -> Ptrs] /\ Quiets(events)
      /\ "video" \in Kinds /\ "audio" \in Kinds
  BY QuietEvents DEF WakeInv, ShowInv, Typed, Kinds
<1>2. ASSUME UNCHANGED <<file, pictq, slot, queued, shown, pkt, events>>,
             NEW k \in Kinds, NEW l, Goto(k, l), pc[k] \notin Pending \cup {"off"},
             l \notin {"unalloc", "noalloc", "fill"}
      PROVE  ShowInv'
  <2>1. /\ pc'["reader"] = pc["reader"]
        /\ pc'["video"] = pc["video"] \/
           (/\ pc["video"] \notin Pending \cup {"off"}
            /\ pc'["video"] \notin {"unalloc", "noalloc", "fill"})
    BY <1>1, <1>2 DEF Goto, Threads, Kinds
  <2>2. Born'
    BY <2>1 DEF ShowInv, Born
  <2>3. Quiets(events') /\ pkt' \in [Kinds -> Ptrs]
    BY <1>1, <1>2
  <2> QED
    BY <1>2, <2>1, <2>2, <2>3, ShowKept
<1>3. ASSUME UNCHANGED <<file, pictq, slot, queued, shown, pkt, events>>,
             NEW l, Goto("audio", l)
      PROVE  ShowInv'
  <2>1. pc'["video"] = pc["video"] /\ pc'["reader"] = pc["reader"]
    BY <1>1, <1>3 DEF Goto, Threads, Kinds
  <2> QED
    BY <1>1, <1>3, <2>1, ShowStay
<1>4. ASSUME NEW k \in Kinds, QueueSleep(k) \/ Spurious(k) PROVE ShowInv'
  <2>1. pc[k] \in {"towait", "asleep"} /\ \E l \in {"asleep", "get"} : Goto(k, l)
    BY <1>4 DEF QueueSleep, Spurious, At
  <2>2. UNCHANGED <<file, pictq, slot, queued, shown, pkt, events>>
    BY <1>4 DEF QueueSleep, Spurious
  <2> QED
    BY <1>2, <2>1, <2>2 DEF Pending
<1>5. CASE VideoQuits
  <2>1. pc["video"] = "quit" /\ Goto("video", "done")
    BY <1>5 DEF VideoQuits, At
  <2>2. UNCHANGED <<file, pictq, slot, queued, shown, pkt, events>>
    BY <1>5 DEF VideoQuits
  <2> QED
    BY <1>1, <1>2, <2>1, <2>2 DEF Pending
<1>6. CASE audio_callback
  <2>1. \E l : Goto("audio", l)
    BY <1>6 DEF audio_callback
  <2> QED
    BY <1>3, <1>6, <2>1 DEF audio_callback
<1>7. CASE DecodeAudio
  <2>1. \E l : Goto("audio", l)
    BY <1>7 DEF DecodeAudio, NextPiece
  <2> QED
    BY <1>3, <1>7, <2>1 DEF DecodeAudio
<1>8. CASE Silence
  <2>1. \E l : Goto("audio", l)
    BY <1>8 DEF Silence, NextPiece
  <2> QED
    BY <1>3, <1>8, <2>1 DEF Silence
<1> QED
  BY <1>1, <1>4, <1>5, <1>6, <1>7, <1>8, LookShow, SpaceShow, AwaitShow, FillShow DEF Video, Audio

LEMMA ShowStep == FifoInv /\ WakeInv /\ ShowInv /\ [Next]_vars => ShowInv'
<1> SUFFICES ASSUME FifoInv, WakeInv, ShowInv, [Next]_vars PROVE ShowInv'
  OBVIOUS
<1> USE DEF mainVars, decoderVars, pictVars
<1>1. Typed
  BY DEF ShowInv
<1>2. CASE FireTimer
  <2>1. "refresh" \in Events \ {"alloc"}
    BY DEF Events
  <2> QED
    BY <1>1, <1>2, <2>1, QuietEvents, ShowStay DEF FireTimer
<1>3. ASSUME NEW c \in Commands, Command(c) PROVE ShowInv'
  <2>1. c \in Events \ {"alloc"}
    BY DEF Events, Commands
  <2> QED
    BY <1>1, <1>3, <2>1, QuietEvents, ShowStay DEF Command
<1>4. CASE UNCHANGED vars
  BY <1>1, <1>4, QuietEvents, ShowStay DEF vars
<1> QED
  BY <1>2, <1>3, <1>4, MainShow, ReaderShow, DecoderShow DEF Next, Environment

LEMMA ShowAlways == Spec => [](WakeInv /\ ShowInv)
BY FifoInit, FifoStep, WakeInit, WakeStep, ShowInit, ShowStep, PTL DEF Spec

\* Pictures come to their turn in the order in which they were queued, each one once
\* and with what was queued of it to be seen: its frame, or nothing when its texture or
\* its buffer could not be allocated.
THEOREM PicturesInOrder == Spec => []ShownOrder
<1>1. WakeInv /\ ShowInv => ShownOrder
  <2> SUFFICES ASSUME WakeInv, ShowInv PROVE ShownOrder
    OBVIOUS
  <2>1. /\ shown \in Seq(Ptrs) /\ queued \in Seq(Ptrs) /\ pictq.size \in Nat
        /\ Len(queued) = Len(shown) + pictq.size
    BY Ring DEF ShowInv, Typed, Counted
  <2>2. \A i \in 1..Len(shown) : shown[i] = queued[i]
    BY DEF ShowInv, ShownFirst
  <2>3. shown = SubSeq(queued, 1, Len(shown))
    BY <2>1, <2>2
  <2> QED
    BY <2>1, <2>3 DEF ShownOrder
<1> QED
  BY <1>1, ShowAlways, PTL

\* A picture that is displayed has a buffer and the dimensions of its frame, and nobody
\* writes it; a picture that is written has a buffer of its dimensions, and no buffer
\* that was freed is used, whichever of the allocations of alloc_picture fail.
THEOREM PicturesAreSafe == Spec => []PictureSafe
<1>1. WakeInv /\ ShowInv => PictureSafe
  <2> SUFFICES ASSUME WakeInv, ShowInv PROVE PictureSafe
    OBVIOUS
  <2> DEFINE m == Len(shown)
  <2>1. /\ N \in Nat \ {0} /\ Slots = 0..N - 1 /\ pictq.size \in 0..N /\ pictq.windex \in Slots
        /\ m \in Nat /\ Len(queued) = m + pictq.size /\ pictq.rindex = m % N
        /\ Typed /\ Counted
    BY Ring DEF ShowInv, Typed, Counted
  <2>2. ASSUME pc["main"] = "show"
        PROVE  /\ Complete(slot[pictq.rindex], queued[m + 1])
               /\ pc["video"] = "fill" => pictq.windex # pictq.rindex
    <3>1. m \in m..Len(queued) - 1
      BY <2>1, <2>2 DEF WakeInv, Showing
    <3>2. pc["video"] = "fill" => pictq.size < N
      BY DEF WakeInv, Room, N
    <3> QED
      BY <2>1, <3>1, <3>2, NotWritten DEF ShowInv, Waits
  <2>3. ASSUME pc["video"] = "fill"
        PROVE  Write.allocated /\ Held(Write) /\ Write.dim = VideoDim(pkt["video"])
    BY <2>1, <2>3 DEF ShowInv, Given, Sound, Write
  <2> QED
    BY <2>2, <2>3 DEF PictureSafe, Complete
<1> QED
  BY <1>1, ShowAlways, PTL

-------------------------------------------------------------------------------
(***************************************************************************)
(* Redraws                                                                 *)
(*                                                                         *)
(* RefreshOnce is not inductive: a redraw could be lost when its timer     *)
(* finds the event queue full.  What fills the queue is counted by Few:    *)
(* before a quit there are no more events in it than commands were sent,   *)
(* and at most one request for a picture and one redraw.                   *)
(***************************************************************************)
Has(es, e)    == \E i \in 1..Len(es) : es[i] = e
Single(es, e) == \A i, j \in 1..Len(es) : es[i] = e /\ es[j] = e => i = j

Leaving == pc["main"] \in {"quit", "closing", "ended"}
Bit(b)  == IF b THEN 1 ELSE 0

\* One redraw at most is under way: its timer runs, or it is in the queue.
OneRedraw == \/ timer = 0 /\ Single(events, "refresh")
             \/ timer = 1 /\ ~Has(events, "refresh")

NoRedraw == timer = 0 /\ ~Has(events, "refresh")

Few == Has(events, "quit") \/ Leaving
         \/ Len(events) + Bit(running)
              <= cmds + Bit(Asked(events)) + Bit(Has(events, "refresh"))

RedrawInv ==
  /\ running \in BOOLEAN /\ cmds \in 0..MaxCmds /\ frameFail \in 0..FrameFailMax + 1
  /\ Len(events) <= MaxEvents
  /\ OneRedraw
  /\ ~running => frameFail = 0 /\ NoRedraw
  /\ frameFail > FrameFailMax => NoRedraw
  /\ Few

\* No redraw is lost, if the queue has room for one more event than commands are sent.
Redrawn == MaxCmds < MaxEvents /\ NoRedraw =>
             ~running \/ frameFail > FrameFailMax \/ Has(events, "quit") \/ Leaving

LEMMA PushHas ==
  ASSUME NEW es \in Seq(Events), NEW e \in Events
  PROVE  \/ Push(es, e) = es /\ Len(es) >= MaxEvents
         \/ /\ Len(es) < MaxEvents
            /\ Len(Push(es, e)) = Len(es) + 1
            /\ \A x : Has(Push(es, e), x) <=> Has(es, x) \/ x = e
            /\ \A x : Single(es, x) /\ (x = e => ~Has(es, x)) => Single(Push(es, e), x)
<1> DEFINE r == Append(es, e)
<1>1. /\ Len(es) \in Nat /\ Len(r) = Len(es) + 1 /\ MaxEvents \in Nat
      /\ r[Len(es) + 1] = e /\ \A i \in 1..Len(es) : r[i] = es[i]
  BY VideoAssumption
<1> HIDE DEF r
<1>2. \A i : i \in 1..Len(r) <=> i \in 1..Len(es) \/ i = Len(es) + 1
  BY <1>1
<1>3. \A x : Has(r, x) <=> Has(es, x) \/ x = e
  BY <1>1, <1>2 DEF Has
<1>4. \A x : Single(es, x) /\ (x = e => ~Has(es, x)) => Single(r, x)
  BY <1>1, <1>2 DEF Has, Single
<1>5. CASE Len(es) < MaxEvents
  BY <1>1, <1>3, <1>4, <1>5 DEF Push, r
<1>6. CASE ~(Len(es) < MaxEvents)
  BY <1>1, <1>6 DEF Push
<1> QED
  BY <1>5, <1>6

LEMMA TailHas ==
  ASSUME NEW es \in Seq(Events), es # <<>>
  PROVE  /\ Tail(es) \in Seq(Events)
         /\ Len(Tail(es)) = Len(es) - 1 /\ Len(es) \in Nat
         /\ \A x : Has(es, x) <=> Has(Tail(es), x) \/ x = Head(es)
         /\ \A x : Single(es, x) => Single(Tail(es), x)
                     /\ (x = Head(es) => ~Has(Tail(es), x))
<1> DEFINE r == Tail(es)
<1>1. /\ r \in Seq(Events) /\ Len(es) \in Nat \ {0} /\ Len(r) = Len(es) - 1
      /\ Head(es) = es[1] /\ \A i \in 1..Len(r) : r[i] = es[i + 1]
  OBVIOUS
<1> HIDE DEF r
<1>2. /\ \A i \in 1..Len(r) : i + 1 \in 1..Len(es) /\ i + 1 # 1
      /\ \A i, j \in 1..Len(r) : i + 1 = j + 1 => i = j
      /\ 1 \in 1..Len(es)
      /\ \A i \in 1..Len(es) : i = 1 \/ \E j \in 1..Len(r) : i = j + 1
  <2>1. \A i \in 1..Len(es) : i = 1 \/ (i - 1 \in 1..Len(r) /\ i = (i - 1) + 1)
    BY <1>1
  <2>2. /\ \A i \in 1..Len(r) : i + 1 \in 1..Len(es) /\ i + 1 # 1
        /\ \A i, j \in 1..Len(r) : i + 1 = j + 1 => i = j
        /\ 1 \in 1..Len(es)
    BY <1>1
  <2> QED
    BY <2>1, <2>2, Zenon
<1>3. ASSUME NEW x PROVE Has(es, x) <=> Has(r, x) \/ x = Head(es)
  <2>1. ASSUME Has(es, x) PROVE Has(r, x) \/ x = Head(es)
    <3>1. PICK i \in 1..Len(es) : es[i] = x
      BY <2>1 DEF Has
    <3>2. CASE i = 1
      BY <1>1, <3>1, <3>2
    <3>3. CASE i # 1
      <4>1. PICK j \in 1..Len(r) : i = j + 1
        BY <1>2, <3>3
      <4> QED
        BY <1>1, <3>1, <4>1 DEF Has
    <3> QED
      BY <3>2, <3>3
  <2>2. ASSUME Has(r, x) \/ x = Head(es) PROVE Has(es, x)
    BY <1>1, <1>2, <2>2 DEF Has
  <2> QED
    BY <2>1, <2>2
<1>4. ASSUME NEW x, Single(es, x) PROVE Single(r, x) /\ (x = Head(es) => ~Has(r, x))
  <2>1. ASSUME NEW i \in 1..Len(r), NEW j \in 1..Len(r), r[i] = x, r[j] = x PROVE i = j
    <3>1. i + 1 \in 1..Len(es) /\ j + 1 \in 1..Len(es) /\ es[i + 1] = x /\ es[j + 1] = x
      BY <1>1, <1>2, <2>1
    <3> QED
      BY <1>2, <1>4, <3>1 DEF Single
  <2>2. ASSUME NEW i \in 1..Len(r), r[i] = x, x = es[1] PROVE FALSE
    <3>1. i + 1 \in 1..Len(es) /\ i + 1 # 1 /\ es[i + 1] = x
      BY <1>1, <1>2, <2>2
    <3> QED
      BY <1>2, <1>4, <2>2, <3>1 DEF Single
  <2> QED
    BY <1>1, <2>1, <2>2 DEF Has, Single
<1> QED
  BY <1>1, <1>3, <1>4 DEF r

LEMMA RedrawInit == Init => RedrawInv /\ Redrawn
<1> SUFFICES ASSUME Init PROVE RedrawInv /\ Redrawn
  OBVIOUS
<1>1. /\ running = FALSE /\ frameFail = 0 /\ events = <<>> /\ timer = 0 /\ cmds = 0
      /\ MaxCmds \in Nat /\ MaxEvents \in Nat /\ FrameFailMax \in Nat
  BY VideoAssumption DEF Init
<1>2. Len(events) = 0 /\ \A x : ~Has(events, x) /\ Single(events, x)
  BY <1>1 DEF Has, Single
<1>3. Few
  BY <1>1, <1>2 DEF Few, Bit
<1>4. NoRedraw /\ OneRedraw /\ Len(events) <= MaxEvents
  BY <1>1, <1>2 DEF OneRedraw, NoRedraw
<1>5. cmds \in 0..MaxCmds /\ frameFail \in 0..FrameFailMax + 1 /\ ~(frameFail > FrameFailMax)
  BY <1>1
<1> QED
  BY <1>1, <1>3, <1>4, <1>5 DEF RedrawInv, Redrawn

\* A step that adds at most the end of the program to the events.
LEMMA RedrawKept ==
  ASSUME Typed, RedrawInv, Redrawn, UNCHANGED <<running, frameFail, timer, cmds>>,
         Leaving => Leaving',
         events' = events \/ events' = Push(events, "quit")
  PROVE  RedrawInv' /\ Redrawn'
<1>1. CASE events' = events
  BY <1>1 DEF RedrawInv, Redrawn, OneRedraw, NoRedraw, Few
<1>2. CASE events' # events
  <2>1. "quit" \in Events /\ events \in Seq(Events) /\ events' = Push(events, "quit")
    BY <1>2 DEF Events, Commands, Typed
  <2>2. /\ Len(events) < MaxEvents /\ Len(events') = Len(events) + 1 /\ Len(events) \in Nat
        /\ \A x : Has(events', x) <=> Has(events, x) \/ x = "quit"
        /\ Single(events, "refresh") => Single(events', "refresh")
    BY <1>2, <2>1, PushHas
  <2>3. Len(events') <= MaxEvents
    BY <2>2, VideoAssumption
  <2>4. OneRedraw' /\ NoRedraw' = NoRedraw
    BY <2>2 DEF RedrawInv, OneRedraw, NoRedraw
  <2>5. Few' /\ Redrawn'
    BY <2>2 DEF Few, Redrawn
  <2> QED
    BY <2>3, <2>4, <2>5 DEF RedrawInv
<1> QED
  BY <1>1, <1>2

\* 928-957: a command leaves the queue; the first start arms the timer.
LEMMA StartRedraw ==
  ASSUME Typed, RedrawInv, Redrawn, DOMAIN pc = Threads, CmdStart
  PROVE  RedrawInv' /\ Redrawn'
<1>1. /\ events # <<>> /\ Head(events) = "start" /\ events \in Seq(Events)
      /\ events' = Tail(events) /\ UNCHANGED <<frameFail, cmds>> /\ ~Leaving
  BY DEF CmdStart, Take, At, Typed, Leaving
<1>2. /\ Len(events') = Len(events) - 1 /\ Len(events) \in Nat
      /\ \A x : x # "start" => (Has(events', x) <=> Has(events, x))
      /\ Single(events, "refresh") => Single(events', "refresh")
  BY <1>1, TailHas
<1>3. /\ Len(events') <= MaxEvents /\ cmds \in Int
      /\ \A x : x \in {"alloc", "refresh", "quit"} => (Has(events', x) <=> Has(events, x))
      /\ \A es : Asked(es) <=> Has(es, "alloc")
  <2>1. MaxEvents \in Nat /\ MaxCmds \in Nat
    BY VideoAssumption
  <2>2. \A es : Asked(es) <=> Has(es, "alloc")
    BY DEF Asked, Has
  <2> QED
    BY <1>2, <2>1, <2>2 DEF RedrawInv
<1>4. CASE MayStart
  <2>1. running' = TRUE /\ timer' = timer + 1 /\ running = FALSE
    BY <1>4 DEF CmdStart, MayStart, RedrawInv
  <2>2. frameFail = 0 /\ timer' = 1 /\ ~Has(events', "refresh")
    BY <1>3, <2>1 DEF RedrawInv, NoRedraw
  <2>3. ~(frameFail > FrameFailMax)
    BY <2>2, VideoAssumption
  <2>4. OneRedraw' /\ ~NoRedraw'
    BY <2>2 DEF OneRedraw, NoRedraw
  <2>5. Few'
    BY <1>1, <1>2, <1>3, <2>1 DEF RedrawInv, Few, Bit
  <2> QED
    BY <1>1, <1>3, <2>1, <2>2, <2>3, <2>4, <2>5 DEF RedrawInv, Redrawn
<1>5. CASE ~MayStart
  <2>1. UNCHANGED <<running, timer, pc>>
    BY <1>5 DEF CmdStart
  <2>2. Few' /\ OneRedraw' /\ NoRedraw' = NoRedraw /\ Leaving' = Leaving
    BY <1>1, <1>2, <1>3, <2>1 DEF RedrawInv, OneRedraw, NoRedraw, Few, Bit, Leaving
  <2> QED
    BY <1>1, <1>2, <1>3, <2>1, <2>2 DEF RedrawInv, Redrawn
<1> QED
  BY <1>4, <1>5

\* What is left of the events when main has taken the first.
LEMMA TakenEvents ==
  ASSUME Typed, RedrawInv, NEW e, Take(e)
  PROVE  /\ ~Leaving /\ events # <<>> /\ e = Head(events)
         /\ Len(Tail(events)) = Len(events) - 1 /\ Len(events) \in Nat
         /\ Len(Tail(events)) < MaxEvents /\ MaxEvents \in Nat /\ cmds \in Int
         /\ Tail(events) \in Seq(Events)
         /\ \A x : x # e => (Has(Tail(events), x) <=> Has(events, x))
         /\ Has(events, e)
         /\ Single(events, "refresh") => Single(Tail(events), "refresh")
         /\ e = "refresh" => timer = 0 /\ ~Has(Tail(events), "refresh")
<1>1. pc["main"] = "loop" /\ events # <<>> /\ Head(events) = e /\ events \in Seq(Events)
  BY DEF Take, At, Typed
<1>2. /\ Tail(events) \in Seq(Events)
      /\ Len(Tail(events)) = Len(events) - 1 /\ Len(events) \in Nat
      /\ \A x : Has(events, x) <=> Has(Tail(events), x) \/ x = e
      /\ \A x : Single(events, x) => Single(Tail(events), x)
                  /\ (x = e => ~Has(Tail(events), x))
  BY <1>1, TailHas
<1>3. MaxEvents \in Nat /\ MaxCmds \in Nat
  BY VideoAssumption
<1>4. Len(Tail(events)) < MaxEvents /\ cmds \in Int
  BY <1>2, <1>3 DEF RedrawInv
<1>5. e = "refresh" => timer = 0 /\ ~Has(Tail(events), "refresh")
  BY <1>2 DEF RedrawInv, OneRedraw
<1> QED
  BY <1>1, <1>2, <1>3, <1>4, <1>5 DEF Leaving

LEMMA BitNumber == \A b : Bit(b) \in 0..1 /\ (b => Bit(b) = 1) /\ (~b => Bit(b) = 0)
BY DEF Bit

\* Few is kept when an event leaves the queue: it counted as many as it takes.
LEMMA FewTaken ==
  ASSUME Few, ~Leaving, cmds \in Int, UNCHANGED <<running, cmds>>,
         Len(events) \in Nat, Len(events') = Len(events) - 1,
         Has(events, "quit") => Has(events', "quit"),
         (Asked(events') <=> Asked(events))
           \/ (Has(events', "refresh") <=> Has(events, "refresh"))
  PROVE  Few'
<1>1. CASE Has(events', "quit") \/ Leaving'
  BY <1>1 DEF Few
<1>2. CASE ~Has(events', "quit")
  <2>1. Len(events) + Bit(running) <= cmds + Bit(Asked(events)) + Bit(Has(events, "refresh"))
    BY <1>2 DEF Few
  <2>2. /\ Bit(running) \in 0..1 /\ Bit(Asked(events)) \in 0..1 /\ Bit(Has(events, "refresh")) \in 0..1
        /\ Bit(Asked(events')) \in 0..1 /\ Bit(Has(events', "refresh")) \in 0..1
    BY BitNumber
  <2>3. \/ Bit(Asked(events')) = Bit(Asked(events))
        \/ Bit(Has(events', "refresh")) = Bit(Has(events, "refresh"))
    BY DEF Bit
  <2> QED
    BY <2>1, <2>2, <2>3 DEF Few
<1> QED
  BY <1>1, <1>2

LEMMA AskedIsHas == \A es : Asked(es) <=> Has(es, "alloc")
BY DEF Asked, Has

\* An event other than a redraw and a request for a picture is taken.
LEMMA DropRedraw ==
  ASSUME Typed, RedrawInv, Redrawn, NEW e \in Commands, Take(e), events' = Tail(events),
         UNCHANGED <<running, frameFail, timer, cmds>>,
         e = "quit" => Leaving'
  PROVE  RedrawInv' /\ Redrawn'
<1>1. /\ ~Leaving /\ e # "refresh" /\ e # "alloc"
      /\ Len(events') = Len(events) - 1 /\ Len(events) \in Nat
      /\ Len(events') < MaxEvents /\ MaxEvents \in Nat /\ cmds \in Int
      /\ \A x : x # e => (Has(events', x) <=> Has(events, x))
      /\ Single(events, "refresh") => Single(events', "refresh")
  BY TakenEvents DEF Commands
<1>2. Has(events', "refresh") <=> Has(events, "refresh")
  BY <1>1
<1>3. Asked(events') <=> Asked(events)
  BY <1>1, AskedIsHas
<1>4. e # "quit" => (Has(events', "quit") <=> Has(events, "quit"))
  BY <1>1
<1>5. Len(events') <= MaxEvents
  BY <1>1
<1>6. OneRedraw' /\ NoRedraw' = NoRedraw
  BY <1>1, <1>2 DEF RedrawInv, OneRedraw, NoRedraw
<1>7. Few'
  <2>1. CASE e = "quit"
    BY <2>1 DEF Few
  <2>2. CASE e # "quit"
    BY <1>1, <1>2, <1>4, <2>2, FewTaken DEF RedrawInv
  <2> QED
    BY <2>1, <2>2
<1>8. Redrawn'
  BY <1>1, <1>4, <1>6 DEF Redrawn
<1> QED
  BY <1>5, <1>6, <1>7, <1>8 DEF RedrawInv

\* 928-935: a stop is replaced by a quit, for which there is room.
LEMMA StopRedraw ==
  ASSUME Typed, RedrawInv, Redrawn, CmdStop
  PROVE  RedrawInv' /\ Redrawn'
<1>1. /\ Take("stop") /\ events' = Push(Tail(events), "quit")
      /\ UNCHANGED <<running, frameFail, timer, cmds>>
  BY DEF CmdStop, StopEvent, mainVars
<1>2. /\ Len(Tail(events)) < MaxEvents /\ MaxEvents \in Nat
      /\ Tail(events) \in Seq(Events)
      /\ Has(Tail(events), "refresh") <=> Has(events, "refresh")
      /\ Single(events, "refresh") => Single(Tail(events), "refresh")
  BY <1>1, TakenEvents
<1>3. Len(Tail(events)) \in Nat /\ "quit" \in Events
  BY <1>2 DEF Events, Commands
<1>4. /\ Len(events') = Len(Tail(events)) + 1
      /\ \A x : Has(events', x) <=> Has(Tail(events), x) \/ x = "quit"
      /\ Single(Tail(events), "refresh") => Single(events', "refresh")
  <2> DEFINE r == Tail(events)
  <2>1. r \in Seq(Events) /\ Len(r) < MaxEvents /\ Len(r) \in Nat /\ events' = Push(r, "quit")
    BY <1>1, <1>2, <1>3
  <2> HIDE DEF r
  <2>2. /\ Len(events') = Len(r) + 1
        /\ \A x : Has(events', x) <=> Has(r, x) \/ x = "quit"
        /\ Single(r, "refresh") => Single(events', "refresh")
    BY <1>2, <1>3, <2>1, PushHas
  <2> QED
    BY <2>2 DEF r
<1>5. Len(events') <= MaxEvents
  BY <1>2, <1>3, <1>4
<1>6. OneRedraw' /\ NoRedraw' = NoRedraw
  BY <1>1, <1>2, <1>4 DEF RedrawInv, OneRedraw, NoRedraw
<1>7. Has(events', "quit")
  BY <1>4
<1> QED
  BY <1>1, <1>5, <1>6, <1>7 DEF RedrawInv, Redrawn, Few

\* 329-397: a redraw is taken and the next one armed, unless too many have failed.
LEMMA RefreshRedraw ==
  ASSUME Typed, RedrawInv, Redrawn, RefreshEmpty \/ RefreshShow, DOMAIN pc = Threads
  PROVE  RedrawInv' /\ Redrawn'
<1>1. Take("refresh") /\ events' = Tail(events) /\ UNCHANGED <<running, cmds>>
  BY DEF RefreshEmpty, RefreshShow
<1>2. /\ ~Leaving
      /\ Len(events') = Len(events) - 1 /\ Len(events) \in Nat
      /\ Len(events') < MaxEvents /\ MaxEvents \in Nat /\ cmds \in Int
      /\ \A x : x # "refresh" => (Has(events', x) <=> Has(events, x))
      /\ Has(events, "refresh") /\ ~Has(events', "refresh") /\ timer = 0
  BY <1>1, TakenEvents
<1>3. running = TRUE /\ ~(frameFail > FrameFailMax)
  BY <1>2 DEF RedrawInv, NoRedraw
<1>4. frameFail \in 0..FrameFailMax /\ FrameFailMax \in Nat
  BY <1>3, VideoAssumption DEF RedrawInv
<1>5. /\ frameFail' \in 0..FrameFailMax + 1
      /\ \/ frameFail' > FrameFailMax /\ timer' = 0
         \/ ~(frameFail' > FrameFailMax) /\ timer' = 1
  BY <1>2, <1>4 DEF RefreshEmpty, RefreshShow, Reschedule
<1>6. Single(events', "refresh")
  BY <1>2 DEF Has, Single
<1>7. OneRedraw' /\ (frameFail' > FrameFailMax <=> NoRedraw')
  BY <1>2, <1>5, <1>6 DEF OneRedraw, NoRedraw
<1>8. Few'
  <2>1. (Asked(events') <=> Asked(events)) /\ (Has(events', "quit") <=> Has(events, "quit"))
    BY <1>2, AskedIsHas
  <2> QED
    BY <1>1, <1>2, <2>1, FewTaken DEF RedrawInv
<1>9. Len(events') <= MaxEvents
  BY <1>2
<1> QED
  BY <1>1, <1>3, <1>5, <1>7, <1>8, <1>9 DEF RedrawInv, Redrawn

\* 399-447: the request for a picture is taken.
LEMMA AllocRedraw ==
  ASSUME Typed, Asking, RedrawInv, Redrawn, alloc_picture, DOMAIN pc = Threads
  PROVE  RedrawInv' /\ Redrawn'
<1>1. Take("alloc") /\ events' = Tail(events) /\ UNCHANGED <<running, frameFail, timer, cmds>>
  BY DEF alloc_picture, mainVars
<1>2. /\ ~Leaving
      /\ Len(events') = Len(events) - 1 /\ Len(events) \in Nat
      /\ Len(events') < MaxEvents /\ MaxEvents \in Nat /\ cmds \in Int
      /\ \A x : x # "alloc" => (Has(events', x) <=> Has(events, x))
      /\ Has(events, "alloc")
      /\ Single(events, "refresh") => Single(events', "refresh")
  BY <1>1, TakenEvents
<1>3. (Has(events', "quit") <=> Has(events, "quit"))
      /\ (Has(events', "refresh") <=> Has(events, "refresh"))
  BY <1>2
<1>4. OneRedraw' /\ NoRedraw' = NoRedraw
  BY <1>1, <1>2, <1>3 DEF RedrawInv, OneRedraw, NoRedraw
<1>5. Few'
  BY <1>1, <1>2, <1>3, FewTaken DEF RedrawInv
<1>6. Len(events') <= MaxEvents
  BY <1>2
<1> QED
  BY <1>1, <1>2, <1>3, <1>4, <1>5, <1>6 DEF RedrawInv, Redrawn

\* 455-476: a picture is asked for, when none is asked for yet.
LEMMA SpaceRedraw ==
  ASSUME Typed, Asking, RedrawInv, Redrawn, queue_picture_space, DOMAIN pc = Threads
  PROVE  RedrawInv' /\ Redrawn'
<1>1. UNCHANGED <<running, frameFail, timer, cmds>> /\ pc["video"] = "space"
  BY DEF queue_picture_space, mainVars, At
<1>2. pc'["main"] = pc["main"]
  BY DEF queue_picture_space, Goto, Threads, Kinds
<1>3. Leaving' = Leaving
  BY <1>2 DEF Leaving
<1>4. CASE events' = events
  BY <1>1, <1>3, <1>4, RedrawKept
<1>5. CASE events' # events
  <2>1. events' = Push(events, "alloc") /\ "alloc" \in Events /\ events \in Seq(Events)
    BY <1>5 DEF queue_picture_space, Events, Typed
  <2>2. /\ Len(events) < MaxEvents /\ Len(events') = Len(events) + 1 /\ Len(events) \in Nat
        /\ \A x : Has(events', x) <=> Has(events, x) \/ x = "alloc"
        /\ Single(events, "refresh") => Single(events', "refresh")
    BY <1>5, <2>1, PushHas
  <2>3. ~Asked(events) /\ Asked(events')
    BY <1>1, <2>2, AskedIsHas DEF Asking, Pending
  <2>4. (Has(events', "quit") <=> Has(events, "quit"))
        /\ (Has(events', "refresh") <=> Has(events, "refresh"))
    BY <2>2
  <2>5. OneRedraw' /\ NoRedraw' = NoRedraw
    BY <1>1, <2>2, <2>4 DEF RedrawInv, OneRedraw, NoRedraw
  <2>6. Few'
    <3>1. cmds \in Int
      BY VideoAssumption DEF RedrawInv
    <3> QED
      BY <1>1, <1>3, <2>2, <2>3, <2>4, <3>1 DEF RedrawInv, Few, Bit
  <2>7. Len(events') <= MaxEvents
    BY <2>2, VideoAssumption
  <2> QED
    BY <1>1, <1>3, <2>4, <2>5, <2>6, <2>7 DEF RedrawInv, Redrawn
<1> QED
  BY <1>4, <1>5

\* Someone sends a command.
LEMMA CommandRedraw ==
  ASSUME Typed, RedrawInv, Redrawn, NEW c \in Commands, Command(c)
  PROVE  RedrawInv' /\ Redrawn'
<1>1. /\ UNCHANGED <<running, frameFail, timer, pc>> /\ cmds < MaxCmds
      /\ cmds' = cmds + 1 /\ events' = Push(events, c) /\ events \in Seq(Events)
      /\ c \in Events /\ c # "refresh" /\ c # "alloc"
  BY DEF Command, mainVars, Typed, Events, Commands
<1>2. MaxCmds \in Nat /\ MaxEvents \in Nat /\ Len(events) \in Nat
  BY <1>1, VideoAssumption
<1>3. cmds' \in 0..MaxCmds /\ cmds \in Int
  BY <1>1, <1>2 DEF RedrawInv
<1>4. Leaving' = Leaving
  BY <1>1 DEF Leaving
<1>5. CASE events' = events
  <2>1. OneRedraw' /\ NoRedraw' = NoRedraw
    BY <1>1, <1>5 DEF RedrawInv, OneRedraw, NoRedraw
  <2>2. Few'
    BY <1>1, <1>2, <1>3, <1>4, <1>5 DEF RedrawInv, Few, Bit
  <2> QED
    BY <1>1, <1>3, <1>4, <1>5, <2>1, <2>2 DEF RedrawInv, Redrawn
<1>6. CASE events' # events
  <2>1. /\ Len(events) < MaxEvents /\ Len(events') = Len(events) + 1
        /\ \A x : Has(events', x) <=> Has(events, x) \/ x = c
        /\ Single(events, "refresh") => Single(events', "refresh")
    BY <1>1, <1>6, PushHas
  <2>2. /\ Has(events, "quit") => Has(events', "quit")
        /\ Has(events', "refresh") <=> Has(events, "refresh")
        /\ Asked(events') <=> Asked(events)
    BY <1>1, <2>1, AskedIsHas
  <2>3. OneRedraw' /\ NoRedraw' = NoRedraw
    BY <1>1, <2>1, <2>2 DEF RedrawInv, OneRedraw, NoRedraw
  <2>4. Few'
    BY <1>1, <1>2, <1>3, <1>4, <2>1, <2>2 DEF RedrawInv, Few, Bit
  <2>5. Len(events') <= MaxEvents
    BY <1>2, <2>1
  <2> QED
    BY <1>1, <1>3, <1>4, <2>2, <2>3, <2>4, <2>5 DEF RedrawInv, Redrawn
<1> QED
  BY <1>5, <1>6

\* The timer fires: there is room for its redraw, as long as no quit is on its way.
LEMMA TimerRedraw ==
  ASSUME Typed, RedrawInv, Redrawn, FireTimer
  PROVE  RedrawInv' /\ Redrawn'
<1>1. /\ UNCHANGED <<running, frameFail, cmds, pc>> /\ timer > 0 /\ timer' = timer - 1
      /\ events' = Push(events, "refresh") /\ events \in Seq(Events) /\ "refresh" \in Events
  BY DEF FireTimer, Typed, Events
<1>2. timer = 1 /\ ~Has(events, "refresh") /\ running = TRUE /\ ~(frameFail > FrameFailMax)
  BY <1>1 DEF RedrawInv, OneRedraw, NoRedraw
<1>3. MaxCmds \in Nat /\ MaxEvents \in Nat /\ Len(events) \in Nat /\ cmds \in 0..MaxCmds
  BY <1>1, VideoAssumption DEF RedrawInv
<1>4. Leaving' = Leaving /\ timer' = 0
  BY <1>1, <1>2 DEF Leaving
<1>5. CASE Len(events) < MaxEvents
  <2>1. /\ Len(events') = Len(events) + 1
        /\ \A x : Has(events', x) <=> Has(events, x) \/ x = "refresh"
        /\ Single(events, "refresh") => Single(events', "refresh")
    BY <1>1, <1>2, <1>3, <1>5, PushHas
  <2>2. Single(events, "refresh")
    BY <1>2 DEF Has, Single
  <2>3. /\ Has(events', "quit") <=> Has(events, "quit")
        /\ Asked(events') <=> Asked(events)
        /\ Has(events', "refresh")
    BY <2>1, AskedIsHas
  <2>4. OneRedraw' /\ ~NoRedraw'
    BY <1>4, <2>1, <2>2, <2>3 DEF OneRedraw, NoRedraw
  <2>5. Few'
    BY <1>1, <1>2, <1>3, <1>4, <2>1, <2>3 DEF RedrawInv, Few, Bit
  <2>6. Len(events') <= MaxEvents
    BY <1>3, <1>5, <2>1
  <2> QED
    BY <1>1, <1>2, <1>3, <1>4, <2>4, <2>5, <2>6 DEF RedrawInv, Redrawn
<1>6. CASE ~(Len(events) < MaxEvents)
  <2>1. events' = events
    BY <1>1, <1>6 DEF Push
  <2>2. MaxCmds < MaxEvents => Has(events, "quit") \/ Leaving
    BY <1>2, <1>3, <1>6 DEF RedrawInv, Few, Bit
  <2>3. OneRedraw' /\ NoRedraw'
    BY <1>2, <1>4, <2>1 DEF OneRedraw, NoRedraw, Has, Single
  <2>4. Few' /\ Redrawn'
    BY <1>1, <1>4, <2>1, <2>2 DEF RedrawInv, Few, Redrawn
  <2> QED
    BY <1>1, <1>2, <2>1, <2>3, <2>4 DEF RedrawInv
<1> QED
  BY <1>5, <1>6


LEMMA MainRedraw ==
  ASSUME WakeInv, ShowInv, RedrawInv, Redrawn, Main
  PROVE  RedrawInv' /\ Redrawn'
<1> USE DEF mainVars, decoderVars, pictVars
<1>1. DOMAIN pc = Threads /\ Typed /\ Asking /\ "main" \in Threads
  BY DEF WakeInv, ShowInv, Threads
<1>2. CASE CmdOther
  <2>1. Take("other") /\ "other" \in Commands /\ events' = Tail(events)
        /\ UNCHANGED <<running, frameFail, timer, cmds>>
    BY <1>2 DEF CmdOther, Commands
  <2> QED
    BY <1>1, <2>1, DropRedraw
<1>3. CASE QuitSignal
  <2>1. Take("quit") /\ "quit" \in Commands /\ events' = Tail(events) /\ Leaving'
        /\ UNCHANGED <<running, frameFail, timer, cmds>>
    BY <1>1, <1>3 DEF QuitSignal, Commands, Leaving
  <2> QED
    BY <1>1, <2>1, DropRedraw
<1>4. CASE video_display
  <2>1. ~Leaving /\ UNCHANGED <<running, frameFail, timer, cmds, events>>
    BY <1>4 DEF video_display, At, Leaving
  <2> QED
    BY <1>1, <2>1, RedrawKept
<1>5. CASE QuitSet
  <2>1. Leaving' /\ UNCHANGED <<running, frameFail, timer, cmds, events>>
    BY <1>1, <1>5 DEF QuitSet, Goto, Leaving
  <2> QED
    BY <1>1, <2>1, RedrawKept
<1>6. CASE QuitDone
  <2>1. Leaving' /\ UNCHANGED <<running, frameFail, timer, cmds, events>>
    BY <1>1, <1>6 DEF QuitDone, Goto, Leaving
  <2> QED
    BY <1>1, <2>1, RedrawKept
<1> QED
  BY <1>1, <1>2, <1>3, <1>4, <1>5, <1>6, StopRedraw, StartRedraw, RefreshRedraw, AllocRedraw
  DEF Main

LEMMA ReaderRedraw ==
  ASSUME WakeInv, ShowInv, RedrawInv, Redrawn, Reader \/ ReadError
  PROVE  RedrawInv' /\ Redrawn'
<1> USE DEF mainVars, decoderVars, pictVars
<1>1. DOMAIN pc = Threads /\ Typed
  BY DEF WakeInv, ShowInv
<1>2. UNCHANGED <<running, frameFail, timer, cmds>>
      /\ (events' = events \/ events' = Push(events, "quit"))
  BY DEF Reader, ReadError, OpenFails, OpenStreams, ReadPacket, ReaderFlood, ReaderQuits, fail
<1>3. pc'["main"] = pc["main"]
  <2>1. \/ UNCHANGED pc
        \/ \E l : Goto("reader", l)
        \/ \E k \in Kinds : pc' = [pc EXCEPT ![k] = Woken(@)]
        \/ \E x, y, z : pc' = [pc EXCEPT !["reader"] = x, !["audio"] = y, !["video"] = z]
    BY DEF Reader, ReadError, OpenFails, OpenStreams, ReadPacket, ReaderFlood, ReaderQuits
  <2> QED
    BY <1>1, <2>1 DEF Goto, Threads, Kinds
<1>4. Leaving' = Leaving
  BY <1>3 DEF Leaving
<1> QED
  BY <1>1, <1>2, <1>4, RedrawKept

LEMMA DecoderRedraw ==
  ASSUME WakeInv, ShowInv, RedrawInv, Redrawn,
         Video \/ Audio \/ audio_callback \/ \E k \in Kinds : Spurious(k)
  PROVE  RedrawInv' /\ Redrawn'
<1> USE DEF mainVars, decoderVars, pictVars
<1>1. DOMAIN pc = Threads /\ Typed /\ Asking /\ "video" \in Kinds /\ "audio" \in Kinds
  BY DEF WakeInv, ShowInv, Kinds
<1>2. ASSUME UNCHANGED <<running, frameFail, timer, cmds, events>>,
             \E k \in Kinds : \E l : Goto(k, l)
      PROVE  RedrawInv' /\ Redrawn'
  <2>1. pc'["main"] = pc["main"]
    BY <1>1, <1>2 DEF Goto, Threads, Kinds
  <2>2. Leaving' = Leaving
    BY <2>1 DEF Leaving
  <2> QED
    BY <1>1, <1>2, <2>2, RedrawKept
<1>3. ASSUME NEW k \in Kinds, packet_queue_look(k) \/ QueueSleep(k) \/ Spurious(k)
      PROVE  RedrawInv' /\ Redrawn'
  <2>1. UNCHANGED <<running, frameFail, timer, cmds, events>>
    BY <1>3 DEF packet_queue_look, QueueSleep, Spurious
  <2>2. \E l : Goto(k, l)
    BY <1>3 DEF packet_queue_look, QueueSleep, Spurious, Decoded
  <2> QED
    BY <1>2, <2>1, <2>2
<1>4. CASE VideoQuits \/ queue_picture_alloc \/ queue_picture_fill
  <2>1. UNCHANGED <<running, frameFail, timer, cmds, events>>
    BY <1>4 DEF VideoQuits, queue_picture_alloc, queue_picture_fill
  <2>2. \E l : Goto("video", l)
    BY <1>4 DEF VideoQuits, queue_picture_alloc, queue_picture_fill
  <2> QED
    BY <1>1, <1>2, <2>1, <2>2
<1>5. CASE audio_callback \/ DecodeAudio \/ Silence
  <2>1. UNCHANGED <<running, frameFail, timer, cmds, events>>
    BY <1>5 DEF audio_callback, DecodeAudio, Silence
  <2>2. \E l : Goto("audio", l)
    BY <1>5 DEF audio_callback, DecodeAudio, Silence, NextPiece, NextFrame
  <2> QED
    BY <1>1, <1>2, <2>1, <2>2
<1> QED
  BY <1>1, <1>3, <1>4, <1>5, SpaceRedraw DEF Video, Audio

LEMMA RedrawStep ==
  ASSUME WakeInv, ShowInv, RedrawInv, Redrawn, [Next]_vars
  PROVE  RedrawInv' /\ Redrawn'
<1>1. Typed
  BY DEF ShowInv
<1>2. CASE UNCHANGED vars
  <2>1. UNCHANGED <<running, frameFail, timer, cmds, events>> /\ Leaving' = Leaving
    BY <1>2 DEF vars, Leaving, mainVars, decoderVars, pictVars
  <2> QED
    BY <1>1, <2>1, RedrawKept
<1> QED
  BY <1>1, <1>2, MainRedraw, ReaderRedraw, DecoderRedraw, CommandRedraw, TimerRedraw
  DEF Next, Environment

LEMMA RedrawAlways == Spec => [](Typed /\ RedrawInv /\ Redrawn)
<1>1. WakeInv /\ ShowInv /\ RedrawInv /\ Redrawn /\ [Next]_vars => RedrawInv' /\ Redrawn'
  BY RedrawStep
<1>2. WakeInv /\ ShowInv => Typed
  BY DEF ShowInv
<1> QED
  BY <1>1, <1>2, RedrawInit, ShowAlways, PTL DEF Spec

LEMMA CountRedraws ==
  ASSUME Typed, RedrawInv
  PROVE  Redraws \in 0..1 /\ (Redraws = 0 <=> NoRedraw)
<1> DEFINE S == {i \in DOMAIN events : events[i] = "refresh"}
<1>1. DOMAIN events = 1..Len(events)
  BY DEF Typed
<1>2. S = {} <=> ~Has(events, "refresh")
  BY <1>1 DEF Has
<1>3. ASSUME Single(events, "refresh"), Has(events, "refresh") PROVE \E i : S = {i}
  <2>1. PICK i \in 1..Len(events) : events[i] = "refresh"
    BY <1>3 DEF Has
  <2>2. S = {i}
    BY <1>1, <1>3, <2>1 DEF Single
  <2> QED
    BY <2>2
<1> HIDE DEF S
<1>4. /\ Redraws = timer + Cardinality(S)
      /\ S = {} => Cardinality(S) = 0
      /\ (\E i : S = {i}) => Cardinality(S) = 1
  BY FS_EmptySet, FS_Singleton DEF Redraws, S
<1>5. CASE Has(events, "refresh")
  <2>1. timer = 0 /\ Cardinality(S) = 1
    BY <1>3, <1>4, <1>5 DEF RedrawInv, OneRedraw
  <2> QED
    BY <1>4, <1>5, <2>1 DEF NoRedraw
<1>6. CASE ~Has(events, "refresh")
  <2>1. timer \in 0..1 /\ Cardinality(S) = 0
    BY <1>2, <1>4, <1>6 DEF RedrawInv, OneRedraw
  <2> QED
    BY <1>4, <1>6, <2>1 DEF NoRedraw
<1> QED
  BY <1>5, <1>6

\* There is never more than one redraw under way, however full the queue is.
THEOREM OneRedrawOnly == Spec => [](Redraws <= 1)
<1>1. Typed /\ RedrawInv /\ Redrawn => Redraws <= 1
  BY CountRedraws
<1> QED
  BY <1>1, RedrawAlways, PTL

\* When the queue has room for one more event than commands are sent, there is never
\* more than one redraw under way, and one while the video runs.
THEOREM RedrawsGoOn ==
  ASSUME MaxCmds < MaxEvents
  PROVE  Spec => []RefreshOnce
<1>1. Typed /\ RedrawInv /\ Redrawn => RefreshOnce
  <2> SUFFICES ASSUME Typed, RedrawInv, Redrawn PROVE RefreshOnce
    OBVIOUS
  <2>1. Redraws \in 0..1 /\ (Redraws = 0 <=> NoRedraw)
    BY CountRedraws
  <2>2. Has(events, "quit") => \E i \in DOMAIN events : events[i] = "quit"
    BY DEF Typed, Has
  <2> QED
    BY <2>1, <2>2 DEF Redrawn, RefreshOnce, Leaving
<1> QED
  BY <1>1, RedrawAlways, PTL
-------------------------------------------------------------------------------
(***************************************************************************)
(* Types                                                                   *)
(*                                                                         *)
(* TypeOK is not inductive.  A frame is taken from the packet the audio    *)
(* thread decodes and a piece from what its callback needs, so that the    *)
(* places where it does so must have one (AudioTyped); a picture gets the  *)
(* dimensions of the packet taken last, and there must be one (Began).     *)
(***************************************************************************)
\* Every thread is at a place of its code.
Places == DOMAIN pc = Threads /\ \A t \in Threads : pc[t] \in Ids(t)

SlotTyped == slot \in [Slots -> [bmp : BOOLEAN, raw : {"none", "live", "null", "freed"}, dim : Nat,
                                 allocated : BOOLEAN, frame : Ptrs]]

\* A callback that is under way needs sound, and a packet that is decoded has a frame.
AudioTyped ==
  /\ audio \in [left : 0..AudioFrames, need : 0..Chunks, buf : BOOLEAN]
  /\ pc["audio"] = "decode" => audio.left > 0
  /\ pc["audio"] \in {"get", "towait", "asleep", "decode", "quit"} => audio.need > 0

\* Who asks for a picture has taken a packet.
Began == Asked(events) \/ pc["video"] \in {"space", "nospace", "unalloc", "noalloc", "fill"}
           => got["video"] > 0

PlaceInv ==
  /\ quit \in BOOLEAN /\ Places
  /\ streams \in [Kinds -> Nat] /\ queues \in [Kinds -> Queues]
  /\ SlotTyped /\ AudioTyped /\ Began

LEMMA IdsAre ==
  /\ Threads = {"main", "reader", "video", "audio"}
  /\ Ids("main") = {"loop", "show", "quit", "closing", "ended", "crashed"}
  /\ Ids("reader") = {"off", "open", "loop", "flood", "done"}
  /\ Ids("video") = {"off", "get", "towait", "asleep", "quit", "space", "nospace", "unalloc",
                     "noalloc", "fill", "done", "crashed"}
  /\ Ids("audio") = {"off", "get", "towait", "asleep", "decode", "quit", "idle", "crashed"}
BY DEF Ids, Threads, Kinds

\* A thread moves to a place of its code.
LEMMA PlaceGoto ==
  ASSUME Places, NEW t \in Threads, NEW l \in Ids(t), Goto(t, l)
  PROVE  Places'
BY DEF Places, Goto

LEMMA PlaceMoves ==
  ASSUME Places
  PROVE  /\ \A l \in {"quit", "closing", "ended", "show", "crashed"} : Goto("main", l) => Places'
         /\ \A l \in {"open", "flood", "done"} : Goto("reader", l) => Places'
         /\ \A k \in Kinds, l \in {"get", "towait", "asleep", "quit"} : Goto(k, l) => Places'
         /\ \A l \in {"space", "nospace", "unalloc", "noalloc", "fill", "done", "crashed"} :
               Goto("video", l) => Places'
         /\ \A l \in {"decode", "idle", "crashed"} : Goto("audio", l) => Places'
         /\ UNCHANGED pc => Places'
<1>1. \A k \in Kinds, l \in {"get", "towait", "asleep", "quit"} : k \in Threads /\ l \in Ids(k)
  BY IdsAre DEF Kinds
<1>2. UNCHANGED pc => Places'
  BY DEF Places
<1> QED
  BY <1>1, <1>2, IdsAre, PlaceGoto

LEMMA PlaceWoken ==
  ASSUME Places, NEW t \in Threads
  PROVE  Woken(pc[t]) \in Ids(t)
BY IdsAre DEF Places, Woken

LEMMA PlacesMain == Places /\ Main => Places'
<1> SUFFICES ASSUME Places, Main PROVE Places'
  OBVIOUS
<1>1. CASE CmdStop \/ CmdStart \/ CmdOther \/ RefreshEmpty \/ RefreshShow \/ QuitSet \/ QuitDone
  BY <1>1, PlaceMoves
     DEF CmdStop, CmdStart, CmdOther, RefreshEmpty, RefreshShow, QuitSet, QuitDone
<1>2. GotoLoopAndSignal => Places'
  <2> SUFFICES ASSUME GotoLoopAndSignal PROVE Places'
    OBVIOUS
  <2>1. /\ DOMAIN pc' = Threads /\ pc'["main"] = "loop"
        /\ pc'["reader"] = pc["reader"] /\ pc'["audio"] = pc["audio"]
        /\ pc'["video"] \in {pc["video"], "space", "unalloc"}
    BY IdsAre DEF GotoLoopAndSignal, Places
  <2> QED
    BY <2>1, IdsAre DEF Places
<1>3. CASE video_display
  BY <1>2, <1>3, PlaceMoves DEF video_display
<1>4. CASE alloc_picture
  BY <1>2, <1>4, PlaceMoves DEF alloc_picture
<1>5. CASE QuitSignal
  <2>1. pc' = [t \in Threads |-> IF t = "main" THEN "quit" ELSE Woken(pc[t])]
    BY <1>5 DEF QuitSignal
  <2>2. \A t \in Threads : pc'[t] \in Ids(t)
    BY <2>1, PlaceWoken, IdsAre
  <2> QED
    BY <2>1, <2>2 DEF Places
<1> QED
  BY <1>1, <1>3, <1>4, <1>5 DEF Main

LEMMA PlacesReader == Places /\ (Reader \/ ReadError) => Places'
<1> SUFFICES ASSUME Places, Reader \/ ReadError PROVE Places'
  OBVIOUS
<1>1. CASE OpenFails \/ ReaderFlood \/ ReaderQuits \/ ReadError
  BY <1>1, PlaceMoves DEF OpenFails, ReaderFlood, ReaderQuits, ReadError
<1>2. CASE OpenStreams
  <2>1. PICK sound, picture \in BOOLEAN :
          pc' = [pc EXCEPT !["reader"] = IF picture THEN "loop" ELSE "done",
                           !["audio"]  = IF sound THEN "idle" ELSE @,
                           !["video"]  = IF picture THEN "get" ELSE @]
    BY <1>2 DEF OpenStreams
  <2>2. /\ DOMAIN pc' = Threads /\ pc'["main"] = pc["main"] /\ pc'["reader"] \in {"loop", "done"}
        /\ pc'["audio"] \in {pc["audio"], "idle"} /\ pc'["video"] \in {pc["video"], "get"}
    BY <2>1, IdsAre DEF Places
  <2> QED
    BY <2>2, IdsAre DEF Places
<1>3. CASE ReadPacket
  <2>1. UNCHANGED pc \/ \E k \in Kinds : pc' = [pc EXCEPT ![k] = Woken(@)]
    BY <1>3 DEF ReadPacket
  <2>2. ASSUME NEW k \in Kinds, pc' = [pc EXCEPT ![k] = Woken(@)] PROVE Places'
    <3>1. k \in Threads
      BY DEF Threads
    <3> QED
      BY <2>2, <3>1, PlaceWoken DEF Places
  <2> QED
    BY <2>1, <2>2, PlaceMoves
<1> QED
  BY <1>1, <1>2, <1>3 DEF Reader

LEMMA PlacesDecoder ==
  Places /\ (Video \/ Audio \/ audio_callback \/ \E k \in Kinds : Spurious(k)) => Places'
<1> SUFFICES ASSUME Places, Video \/ Audio \/ audio_callback \/ \E k \in Kinds : Spurious(k)
             PROVE  Places'
  OBVIOUS
<1>1. ASSUME NEW k \in Kinds, packet_queue_look(k) PROVE Places'
  BY <1>1, PlaceMoves DEF packet_queue_look, Decoded, Kinds
<1>2. ASSUME NEW k \in Kinds, QueueSleep(k) \/ Spurious(k) PROVE Places'
  BY <1>2, PlaceMoves DEF QueueSleep, Spurious
<1>3. CASE VideoQuits \/ queue_picture_space \/ queue_picture_alloc \/ queue_picture_fill
  BY <1>3, PlaceMoves
     DEF VideoQuits, queue_picture_space, queue_picture_alloc, queue_picture_fill, Kinds
<1>4. CASE audio_callback \/ DecodeAudio \/ Silence
  BY <1>4, PlaceMoves DEF audio_callback, DecodeAudio, Silence, NextPiece, NextFrame, Kinds
<1>5. {"video", "audio"} \subseteq Kinds
  BY DEF Kinds
<1> QED
  BY <1>1, <1>2, <1>3, <1>4, <1>5 DEF Video, Audio

LEMMA PlacesStep == Places /\ [Next]_vars => Places'
<1>1. Places /\ UNCHANGED pc => Places'
  BY DEF Places
<1>2. UNCHANGED vars \/ FireTimer \/ (\E c \in Commands : Command(c)) => UNCHANGED pc
  BY DEF vars, FireTimer, Command
<1> QED
  BY <1>1, <1>2, PlacesMain, PlacesReader, PlacesDecoder DEF Next, Environment


-------------------------------------------------------------------------------
\* The reader finds its streams: 780, 785.
LEMMA LeastIsNat == ASSUME NEW S \in SUBSET Nat PROVE Least(S) \in Nat
<1>1. CASE S = {}
  BY <1>1 DEF Least, NoStream
<1>2. CASE S # {}
  <2>1. \E i \in S : \A j \in S : i <= j
    BY <1>2, Smallest
  <2> QED
    BY <1>2, <2>1 DEF Least
<1> QED
  BY <1>1, <1>2

LEMMA StreamsStep ==
  ASSUME FifoInv, streams \in [Kinds -> Nat], [Next]_vars
  PROVE  streams' \in [Kinds -> Nat]
<1> USE DEF mainVars, readerVars, decoderVars, pictVars
<1>1. CASE OpenStreams
  <2>1. file.streams \in Seq(StreamInfo)
    BY VideoAssumption DEF FifoInv, Shapes
  <2>2. DOMAIN file.streams \subseteq Nat
    BY <2>1
  <2>3. video_index \in Nat /\ audio_index \in Nat /\ NoStream \in Nat
    <3>1. /\ {i \in DOMAIN file.streams : file.streams[i].coder = 0} \in SUBSET Nat
          /\ {i \in DOMAIN file.streams : file.streams[i].type = "audio"} \in SUBSET Nat
      BY <2>2
    <3> QED
      BY <3>1, LeastIsNat DEF video_index, audio_index, NoStream
  <2>4. PICK sound, picture \in BOOLEAN :
          streams' = [audio |-> IF sound THEN audio_index ELSE NoStream,
                      video |-> IF picture THEN video_index ELSE NoStream]
    BY <1>1 DEF OpenStreams
  <2>5. DOMAIN streams' = Kinds /\ streams'["audio"] \in Nat /\ streams'["video"] \in Nat
    BY <2>3, <2>4 DEF Kinds
  <2>6. streams' = [k \in Kinds |-> streams'[k]]
    BY <2>4 DEF Kinds
  <2> QED
    BY <2>5, <2>6 DEF Kinds
<1>2. CASE Main
  BY <1>2 DEF Main, CmdStop, CmdStart, CmdOther, RefreshEmpty, RefreshShow, video_display,
              alloc_picture, QuitSignal, QuitSet, QuitDone
<1>3. CASE Reader
  BY <1>1, <1>3 DEF Reader, OpenFails, ReadPacket, ReaderFlood, ReaderQuits
<1>4. CASE Video \/ Audio
  BY <1>4 DEF Video, Audio, packet_queue_look, QueueSleep, VideoQuits, queue_picture_space,
              queue_picture_alloc, queue_picture_fill, DecodeAudio, Silence
<1>5. CASE Environment \/ FireTimer \/ UNCHANGED vars
  BY <1>5 DEF Environment, Command, Spurious, ReadError, audio_callback, FireTimer, vars
<1> QED
  BY <1>2, <1>3, <1>4, <1>5 DEF Next

LEMMA QuitStep == quit \in BOOLEAN /\ [Next]_vars => quit' \in BOOLEAN
<1> SUFFICES ASSUME quit \in BOOLEAN, [Next]_vars PROVE quit' \in BOOLEAN
  OBVIOUS
<1>1. CASE Main
  BY <1>1 DEF Main, CmdStop, CmdStart, CmdOther, RefreshEmpty, RefreshShow, video_display,
              alloc_picture, QuitSignal, QuitSet, QuitDone
<1>2. CASE Reader
  BY <1>2 DEF Reader, OpenFails, OpenStreams, ReadPacket, ReaderFlood, ReaderQuits
<1>3. CASE Video \/ Audio
  BY <1>3 DEF Video, Audio, packet_queue_look, QueueSleep, VideoQuits, queue_picture_space,
              queue_picture_alloc, queue_picture_fill, DecodeAudio, Silence
<1>4. CASE Environment \/ FireTimer \/ UNCHANGED vars
  BY <1>4 DEF Environment, Command, Spurious, ReadError, audio_callback, FireTimer, vars
<1> QED
  BY <1>1, <1>2, <1>3, <1>4 DEF Next

\* packet_queue_init, packet_queue_put, packet_queue_get
LEMMA QueueTypes ==
  /\ packet_queue_init \in Queues
  /\ \A q \in Queues, p \in Pkts, bytes \in Nat : packet_queue_put(q, p, bytes) \in Queues
  /\ \A q \in Queues, bytes \in Nat :
       q.first # Null => packet_queue_get(q, bytes) \in Queues
<1>1. packet_queue_init \in Queues
  BY DEF packet_queue_init, Queues, Ptrs
<1>2. ASSUME NEW q \in Queues, NEW p \in Pkts, NEW bytes \in Nat
      PROVE  packet_queue_put(q, p, bytes) \in Queues
  <2> DEFINE linked == IF q.last = Null THEN q.next ELSE [q.next EXCEPT ![q.last] = p]
  <2>1. q.next \in [Pkts -> Ptrs] /\ p \in Ptrs /\ Null \in Ptrs
    BY DEF Queues, Ptrs
  <2>2. linked \in [Pkts -> Ptrs]
    BY <2>1
  <2>3. [linked EXCEPT ![p] = Null] \in [Pkts -> Ptrs]
    BY <2>1, <2>2
  <2> HIDE DEF linked
  <2>4. packet_queue_put(q, p, bytes) =
          [first |-> IF q.last = Null THEN p ELSE q.first, last |-> p,
           next |-> [linked EXCEPT ![p] = Null], nb |-> q.nb + 1, size |-> q.size + bytes]
    BY DEF packet_queue_put, linked
  <2>5. /\ q.first \in Ptrs /\ q.nb + 1 \in Int /\ q.size + bytes \in Int
    BY DEF Queues
  <2> QED
    BY <2>1, <2>3, <2>4, <2>5 DEF Queues
<1>3. ASSUME NEW q \in Queues, NEW bytes \in Nat, q.first # Null
      PROVE  packet_queue_get(q, bytes) \in Queues
  <2>1. q.next[q.first] \in Ptrs /\ q.last \in Ptrs /\ Null \in Ptrs
    BY <1>3 DEF Queues, Ptrs
  <2> QED
    BY <2>1 DEF packet_queue_get, Queues
<1> QED
  BY <1>1, <1>2, <1>3

LEMMA QueuesStep ==
  ASSUME FifoInv, queues \in [Kinds -> Queues], [Next]_vars
  PROVE  queues' \in [Kinds -> Queues]
<1> USE DEF mainVars, readerVars, decoderVars, pictVars
<1>1. CASE ReadPacket
  <2>1. /\ read + 1 \in Pkts /\ read + 1 \in 1..Len(file.packets) /\ read' = read + 1
    <3>1. read \in 0..Len(file.packets) /\ Len(file.packets) \in 0..NumPkts
      BY VideoAssumption DEF FifoInv, Shapes
    <3> QED
      BY <1>1, <3>1, PacketAssumption DEF ReadPacket, Pkts
  <2>2. read' \in Pkts /\ Bytes(read') \in Nat
    BY <2>1, PacketsSized DEF Bytes
  <2>3. UNCHANGED queues \/ \E k \in Kinds :
          queues' = [queues EXCEPT ![k] = packet_queue_put(@, read', Bytes(read'))]
    BY <1>1 DEF ReadPacket
  <2> QED
    BY <2>2, <2>3, QueueTypes
<1>2. ASSUME NEW k \in Kinds, packet_queue_look(k) PROVE queues' \in [Kinds -> Queues]
  <2> DEFINE p == queues[k].first
  <2>1. CASE UNCHANGED queues
    BY <2>1
  <2>2. CASE p # Null /\ queues' = [queues EXCEPT ![k] = packet_queue_get(@, Bytes(p))]
    <3>1. /\ Holds(queues[k], sent[k], got[k]) /\ sent[k] \in Seq(Pkts)
          /\ Sized(file.packets, sent[k])
      BY SentSized DEF FifoInv, QueueFifo, Ordered
    <3>2. got[k] + 1 \in 1..Len(sent[k]) /\ p = sent[k][got[k] + 1]
      BY <2>2, <3>1 DEF Holds
    <3>3. Bytes(p) \in Nat
      BY <3>1, <3>2 DEF Sized, Bytes
    <3> QED
      BY <2>2, <3>3, QueueTypes
  <2> QED
    BY <1>2, <2>1, <2>2 DEF packet_queue_look
<1>3. CASE Main
  BY <1>3 DEF Main, CmdStop, CmdStart, CmdOther, RefreshEmpty, RefreshShow, video_display,
              alloc_picture, QuitSignal, QuitSet, QuitDone
<1>4. CASE Reader
  BY <1>1, <1>4, QueueTypes DEF Reader, OpenFails, OpenStreams, ReaderFlood, ReaderQuits
<1>5. CASE Video \/ Audio
  BY <1>2, <1>5 DEF Video, Audio, Kinds, QueueSleep, VideoQuits, queue_picture_space,
                    queue_picture_alloc, queue_picture_fill, DecodeAudio, Silence
<1>6. CASE Environment \/ FireTimer \/ UNCHANGED vars
  BY <1>6 DEF Environment, Command, Spurious, ReadError, audio_callback, FireTimer, vars
<1> QED
  BY <1>3, <1>4, <1>5, <1>6 DEF Next

\* Who asks for a picture has taken a packet, so that its dimensions are known.
LEMMA BeganStep ==
  ASSUME FifoInv, WakeInv, ShowInv, Began, [Next]_vars
  PROVE  Began'
<1> DEFINE Wants == {"space", "nospace", "unalloc", "noalloc", "fill"}
<1> USE DEF mainVars, readerVars, decoderVars, pictVars
<1>1. DOMAIN pc = Threads /\ Typed /\ events \in Seq(Events) /\ got["video"] \in Nat
  BY DEF WakeInv, ShowInv, Typed, FifoInv, Shapes, Kinds
<1>2. ASSUME Asked(events') => Asked(events), got' = got,
             pc'["video"] \in Wants => pc["video"] \in Wants
      PROVE  Began'
  BY <1>2 DEF Began
<1>3. \A es : Quiets(es) => (Asked(es) => Asked(events))
  BY DEF Quiets
<1>4. /\ Asked(events) => Asked(events)
      /\ \A e \in {"refresh", "stop", "start", "other", "quit"} :
           Asked(Push(events, e)) => Asked(events)
      /\ events # <<>> => /\ Asked(Tail(events)) => Asked(events)
                          /\ Asked(Push(Tail(events), "quit")) => Asked(events)
  <2>1. {"refresh", "stop", "start", "other", "quit"} \subseteq Events \ {"alloc"}
    BY DEF Events, Commands
  <2> QED
    BY <1>1, <1>3, <2>1, QuietEvents
<1>5. CASE Main
  <2>1. Asked(events') => Asked(events)
    BY <1>4, <1>5
    DEF Main, CmdStop, CmdStart, CmdOther, RefreshEmpty, RefreshShow, video_display,
        alloc_picture, QuitSignal, QuitSet, QuitDone, Take, StopEvent
  <2>2. got' = got
    BY <1>5
    DEF Main, CmdStop, CmdStart, CmdOther, RefreshEmpty, RefreshShow, video_display,
        alloc_picture, QuitSignal, QuitSet, QuitDone
  <2>3. \/ UNCHANGED pc \/ (\E l : Goto("main", l)) \/ GotoLoopAndSignal
        \/ Goto("reader", "open")
        \/ pc' = [t \in Threads |-> IF t = "main" THEN "quit" ELSE Woken(pc[t])]
    BY <1>5
    DEF Main, CmdStop, CmdStart, CmdOther, RefreshEmpty, RefreshShow, video_display,
        alloc_picture, QuitSignal, QuitSet, QuitDone
  <2>4. pc'["video"] \in Wants => pc["video"] \in Wants
    BY <1>1, <2>3, IdsAre DEF Goto, GotoLoopAndSignal, Woken
  <2> QED
    BY <1>2, <2>1, <2>2, <2>4
<1>6. CASE Reader \/ ReadError
  <2>1. Asked(events') => Asked(events)
    BY <1>4, <1>6
    DEF Reader, OpenFails, OpenStreams, ReadPacket, ReaderFlood, ReaderQuits, ReadError, fail
  <2>2. got' = got
    BY <1>6 DEF Reader, OpenFails, OpenStreams, ReadPacket, ReaderFlood, ReaderQuits, ReadError
  <2>3. pc'["video"] \in {pc["video"], "get", Woken(pc["video"])}
    BY <1>1, <1>6, IdsAre
    DEF Reader, OpenFails, OpenStreams, ReadPacket, ReaderFlood, ReaderQuits, ReadError, Goto,
        Kinds
  <2> QED
    BY <1>2, <2>1, <2>2, <2>3 DEF Woken
<1>7. CASE packet_queue_look("video")
  <2>1. events' = events /\ pc["video"] = "get"
    BY <1>7 DEF packet_queue_look, At
  <2>2. CASE quit \/ queues["video"].first = Null
    BY <1>1, <1>2, <1>7, <2>1, <2>2, IdsAre DEF packet_queue_look, Goto
  <2>3. CASE ~quit /\ queues["video"].first # Null
    <3>1. got' = [got EXCEPT !["video"] = @ + 1]
      BY <1>7, <2>3 DEF packet_queue_look
    <3>2. got'["video"] = got["video"] + 1
      BY <3>1 DEF FifoInv, Shapes, Kinds
    <3> QED
      BY <1>1, <3>2 DEF Began
  <2> QED
    BY <2>2, <2>3
<1>8. CASE packet_queue_look("audio")
  <2>1. events' = events /\ \E l : Goto("audio", l)
    BY <1>8 DEF packet_queue_look
  <2>2. got'["video"] = got["video"] /\ pc'["video"] = pc["video"]
    BY <1>1, <1>8, <2>1, IdsAre DEF packet_queue_look, Goto, FifoInv, Shapes, Kinds
  <2> QED
    BY <2>1, <2>2 DEF Began
<1>9. ASSUME NEW k \in Kinds, QueueSleep(k) \/ Spurious(k) PROVE Began'
  BY <1>1, <1>2, <1>9, IdsAre DEF QueueSleep, Spurious, Goto, Kinds
<1>10. CASE VideoQuits
  BY <1>1, <1>2, <1>10, IdsAre DEF VideoQuits, Goto
<1>11. CASE queue_picture_space \/ queue_picture_alloc \/ queue_picture_fill
  <2>1. pc["video"] \in Wants /\ got' = got
    BY <1>11 DEF queue_picture_space, queue_picture_alloc, queue_picture_fill, At
  <2> QED
    BY <2>1 DEF Began
<1>12. CASE DecodeAudio \/ Silence \/ audio_callback
  <2>1. \E l : Goto("audio", l)
    BY <1>12 DEF DecodeAudio, Silence, audio_callback, NextPiece
  <2>2. events' = events /\ got' = got
    BY <1>12 DEF DecodeAudio, Silence, audio_callback
  <2> QED
    BY <1>1, <1>2, <2>1, <2>2, IdsAre DEF Goto
<1>13. CASE FireTimer
  BY <1>2, <1>4, <1>13 DEF FireTimer
<1>14. ASSUME NEW c \in Commands, Command(c) PROVE Began'
  BY <1>2, <1>4, <1>14 DEF Command, Commands
<1>15. CASE UNCHANGED vars
  BY <1>2, <1>15 DEF vars
<1>16. {"video", "audio"} \subseteq Kinds
  BY DEF Kinds
<1> QED
  BY <1>5, <1>6, <1>7, <1>8, <1>9, <1>10, <1>11, <1>12, <1>13, <1>14, <1>15, <1>16
  DEF Next, Video, Audio, Environment


LEMMA SlotsStep ==
  ASSUME FifoInv, WakeInv, ShowInv, Began, SlotTyped, [Next]_vars
  PROVE  SlotTyped'
<1> DEFINE S == [bmp : BOOLEAN, raw : {"none", "live", "null", "freed"}, dim : Nat,
                 allocated : BOOLEAN, frame : Ptrs]
<1> USE DEF mainVars, readerVars, decoderVars, pictVars
<1>1. slot \in [Slots -> S] /\ pictq.windex \in Slots /\ pkt["video"] \in Ptrs
  BY Ring DEF SlotTyped, ShowInv, Typed, Kinds
<1>2. CASE alloc_picture
  <2> DEFINE d == VideoDim(pkt["video"])
  <2>1. d \in Nat
    <3>1. Asked(events)
      <4>1. events \in Seq(Events) /\ events # <<>> /\ Head(events) = "alloc"
        BY <1>2 DEF ShowInv, Typed, alloc_picture, Take
      <4>2. 1 \in 1..Len(events) /\ events[1] = "alloc"
        BY <4>1
      <4> QED
        BY <4>2 DEF Asked
    <3>2. got["video"] > 0 /\ got["video"] \in Nat
      BY <3>1 DEF Began, FifoInv, Shapes, Kinds
    <3>3. /\ Holds(queues["video"], sent["video"], got["video"])
          /\ Ordered(sent["video"], read) /\ pkt["video"] = sent["video"][got["video"]]
      BY <3>2 DEF FifoInv, QueueFifo, Kinds
    <3>4. got["video"] \in 1..Len(sent["video"])
      BY <3>2, <3>3 DEF Holds
    <3>5. pkt["video"] \in Pkts /\ pkt["video"] <= read
      BY <3>3, <3>4 DEF Ordered
    <3>6. read \in 0..Len(file.packets) /\ file.packets \in Seq(PacketInfo)
      BY VideoAssumption DEF FifoInv, Shapes
    <3>7. pkt["video"] \in 1..Len(file.packets)
      BY <3>5, <3>6, PacketAssumption DEF Pkts
    <3>8. file.packets[pkt["video"]] \in PacketInfo
      BY <3>6, <3>7
    <3> QED
      BY <3>8 DEF VideoDim, PacketInfo
  <2> HIDE DEF d
  <2>2. PICK texture, frame, buffer \in BOOLEAN :
          slot' = [slot EXCEPT ![pictq.windex] = Allocate(@, texture, frame, buffer)]
    BY <1>2 DEF alloc_picture
  <2> DEFINE a == Allocate(slot[pictq.windex], texture, frame, buffer)
  <2>3. slot' = [slot EXCEPT ![pictq.windex] = a]
    BY <2>2
  <2>4. a \in S
    BY <1>1, <2>1 DEF Allocate, d
  <2> HIDE DEF a, S
  <2>5. slot' \in [Slots -> S]
    BY <1>1, <2>3, <2>4
  <2> QED
    BY <2>5 DEF SlotTyped, S
<1>3. CASE queue_picture_space
  <2>1. UNCHANGED slot \/ slot' = [slot EXCEPT ![pictq.windex].allocated = FALSE]
    BY <1>3 DEF queue_picture_space
  <2>2. [slot[pictq.windex] EXCEPT !.allocated = FALSE] \in S
    BY <1>1
  <2>3. slot' \in [Slots -> S]
    BY <1>1, <2>1, <2>2
  <2> QED
    BY <2>3 DEF SlotTyped
<1>4. CASE queue_picture_fill
  <2>1. UNCHANGED slot \/ slot' = [slot EXCEPT ![pictq.windex].frame = pkt["video"]]
    BY <1>4 DEF queue_picture_fill
  <2>2. [slot[pictq.windex] EXCEPT !.frame = pkt["video"]] \in S
    BY <1>1
  <2>3. slot' \in [Slots -> S]
    BY <1>1, <2>1, <2>2
  <2> QED
    BY <2>3 DEF SlotTyped
<1>5. CASE UNCHANGED slot
  BY <1>1, <1>5 DEF SlotTyped
<1>6. CASE Main
  BY <1>2, <1>5, <1>6
  DEF Main, CmdStop, CmdStart, CmdOther, RefreshEmpty, RefreshShow, video_display, QuitSignal,
      QuitSet, QuitDone
<1>7. CASE Reader
  BY <1>5, <1>7 DEF Reader, OpenFails, OpenStreams, ReadPacket, ReaderFlood, ReaderQuits
<1>8. CASE Video \/ Audio
  BY <1>3, <1>4, <1>5, <1>8
  DEF Video, Audio, packet_queue_look, QueueSleep, VideoQuits, queue_picture_alloc, DecodeAudio,
      Silence
<1>9. CASE Environment \/ FireTimer \/ UNCHANGED vars
  BY <1>5, <1>9 DEF Environment, Command, Spurious, ReadError, audio_callback, FireTimer, vars
<1> QED
  BY <1>6, <1>7, <1>8, <1>9 DEF Next

\* 110-269: the audio thread decodes what it has and stops when it has enough.
LEMMA AudioStep ==
  ASSUME Places, AudioTyped, [Next]_vars
  PROVE  AudioTyped'
<1> DEFINE A == [left : 0..AudioFrames, need : 0..Chunks, buf : BOOLEAN]
           Under == {"get", "towait", "asleep", "decode", "quit"}
<1> USE DEF mainVars, readerVars, decoderVars, pictVars
<1>1. /\ DOMAIN pc = Threads /\ audio \in A
      /\ audio.left \in 0..AudioFrames /\ audio.need \in 0..Chunks /\ audio.buf \in BOOLEAN
      /\ AudioFrames \in Nat \ {0} /\ Chunks \in Nat \ {0}
  BY VideoAssumption DEF Places, AudioTyped
<1>2. ASSUME audio' = audio, pc'["audio"] = "decode" => pc["audio"] = "decode",
             pc'["audio"] \in Under => pc["audio"] \in Under
      PROVE  AudioTyped'
  BY <1>2 DEF AudioTyped
<1>3. ASSUME audio' = audio, pc'["audio"] \in {pc["audio"], Woken(pc["audio"]), "idle"}
      PROVE  AudioTyped'
  BY <1>2, <1>3 DEF Woken
<1>4. CASE Main
  <2>1. audio' = audio
    BY <1>4
    DEF Main, CmdStop, CmdStart, CmdOther, RefreshEmpty, RefreshShow, video_display,
        alloc_picture, QuitSignal, QuitSet, QuitDone
  <2>2. \/ UNCHANGED pc \/ (\E l : Goto("main", l)) \/ GotoLoopAndSignal
        \/ Goto("reader", "open")
        \/ pc' = [t \in Threads |-> IF t = "main" THEN "quit" ELSE Woken(pc[t])]
    BY <1>4
    DEF Main, CmdStop, CmdStart, CmdOther, RefreshEmpty, RefreshShow, video_display,
        alloc_picture, QuitSignal, QuitSet, QuitDone
  <2>3. pc'["audio"] \in {pc["audio"], Woken(pc["audio"])}
    BY <1>1, <2>2, IdsAre DEF Goto, GotoLoopAndSignal
  <2> QED
    BY <1>3, <2>1, <2>3
<1>5. CASE Reader \/ ReadError
  <2>1. audio' = audio
    BY <1>5 DEF Reader, OpenFails, OpenStreams, ReadPacket, ReaderFlood, ReaderQuits, ReadError
  <2>2. pc'["audio"] \in {pc["audio"], Woken(pc["audio"]), "idle"}
    BY <1>1, <1>5, IdsAre
    DEF Reader, OpenFails, OpenStreams, ReadPacket, ReaderFlood, ReaderQuits, ReadError, Goto,
        Kinds
  <2> QED
    BY <1>3, <2>1, <2>2
<1>6. CASE Video \/ QueueSleep("audio") \/ \E k \in Kinds : Spurious(k)
  <2>1. audio' = audio
    BY <1>6
    DEF Video, packet_queue_look, QueueSleep, VideoQuits, queue_picture_space,
        queue_picture_alloc, queue_picture_fill, Spurious
  <2>2. CASE Video
    <3>1. \E l : Goto("video", l)
      BY <2>2
      DEF Video, packet_queue_look, QueueSleep, VideoQuits, queue_picture_space,
          queue_picture_alloc, queue_picture_fill
    <3> QED
      BY <1>1, <1>3, <2>1, <3>1, IdsAre DEF Goto
  <2>3. ASSUME NEW k \in Kinds, QueueSleep(k) \/ Spurious(k) PROVE AudioTyped'
    <3>1. pc'["audio"] = pc["audio"]
          \/ (pc["audio"] \in {"towait", "asleep"} /\ pc'["audio"] \in {"asleep", "get"})
      BY <1>1, <2>3, IdsAre DEF QueueSleep, Spurious, Goto, At, Kinds
    <3> QED
      BY <1>2, <2>3, <3>1 DEF QueueSleep, Spurious
  <2> QED
    BY <1>6, <2>2, <2>3 DEF Kinds
<1>7. CASE packet_queue_look("audio")
  <2>1. pc["audio"] = "get" /\ audio.need > 0
    BY <1>7 DEF packet_queue_look, At, AudioTyped
  <2>2. CASE quit \/ queues["audio"].first = Null
    <3>1. audio' = audio /\ pc'["audio"] \in {"quit", "towait"}
      BY <1>1, <1>7, <2>2, IdsAre DEF packet_queue_look, Goto
    <3> QED
      BY <1>2, <2>1, <3>1
  <2>3. CASE ~quit /\ queues["audio"].first # Null
    <3>1. audio' = [audio EXCEPT !.left = AudioFrames] /\ pc'["audio"] = "decode"
      BY <1>1, <1>7, <2>3, IdsAre DEF packet_queue_look, Goto, Decoded
    <3>2. audio' \in A /\ audio'.left = AudioFrames /\ audio'.need = audio.need
      BY <1>1, <3>1
    <3> QED
      BY <1>1, <2>1, <3>1, <3>2 DEF AudioTyped
  <2> QED
    BY <2>2, <2>3
<1>8. CASE audio_callback
  <2>1. audio' = [audio EXCEPT !.need = Chunks] /\ pc'["audio"] = NextFrame(audio)
    BY <1>1, <1>8, IdsAre DEF audio_callback, Goto
  <2>2. audio' \in A /\ audio'.left = audio.left /\ audio'.need = Chunks
    BY <1>1, <2>1
  <2> QED
    BY <1>1, <2>1, <2>2 DEF AudioTyped, NextFrame
<1>9. ASSUME NEW a \in A, a.need > 0, NextPiece(a)
      PROVE  AudioTyped'
  <2>1. /\ a.need \in 0..Chunks /\ a.left \in 0..AudioFrames
        /\ audio' = [a EXCEPT !.need = @ - 1]
        /\ pc'["audio"] = IF a.need = 1 THEN "idle" ELSE NextFrame(a)
    BY <1>1, <1>9, IdsAre DEF NextPiece, Goto
  <2>2. audio' \in A /\ audio'.left = a.left /\ audio'.need = a.need - 1
    <3>1. a.need - 1 \in 0..Chunks
      BY <1>1, <1>9, <2>1
    <3> QED
      BY <2>1, <3>1
  <2>3. a.need # 1 => audio'.need > 0
    BY <1>1, <1>9, <2>1, <2>2
  <2> QED
    BY <2>1, <2>2, <2>3 DEF AudioTyped, NextFrame
<1>10. CASE DecodeAudio
  <2> DEFINE less == [audio EXCEPT !.left = @ - 1]
  <2>1. pc["audio"] = "decode" /\ audio.left > 0 /\ audio.need > 0
    BY <1>10 DEF DecodeAudio, At, AudioTyped
  <2>2. audio.left - 1 \in 0..AudioFrames
    BY <1>1, <2>1
  <2>3. /\ less \in A /\ less.need = audio.need /\ less.left = audio.left - 1
        /\ [less EXCEPT !.buf = TRUE] \in A /\ [less EXCEPT !.buf = TRUE].need = audio.need
    BY <1>1, <2>2
  <2>4. CASE NextPiece([less EXCEPT !.buf = TRUE])
    <3> DEFINE a == [less EXCEPT !.buf = TRUE]
    <3>1. a \in A /\ a.need > 0
      BY <2>1, <2>3
    <3>2. NextPiece(a)
      BY <2>4
    <3> HIDE DEF a
    <3> QED
      BY <1>9, <3>1, <3>2
  <2> HIDE DEF less
  <2>5. CASE audio' = less /\ Goto("audio", NextFrame(less))
    <3>1. pc'["audio"] = NextFrame(less)
      BY <1>1, <2>5, IdsAre DEF Goto
    <3> QED
      BY <2>1, <2>3, <2>5, <3>1 DEF AudioTyped, NextFrame
  <2>6. CASE audio' = [audio EXCEPT !.left = 0] /\ Goto("audio", "get")
    <3>1. pc'["audio"] = "get" /\ audio' \in A /\ audio'.need = audio.need
      BY <1>1, <2>6, IdsAre DEF Goto
    <3> QED
      BY <2>1, <3>1 DEF AudioTyped
  <2>7. CASE audio' = audio /\ (Goto("audio", "get") \/ Goto("audio", "quit"))
    <3>1. pc'["audio"] \in {"get", "quit"}
      BY <1>1, <2>7, IdsAre DEF Goto
    <3> QED
      BY <1>2, <2>1, <2>7, <3>1
  <2> QED
    BY <1>10, <2>4, <2>5, <2>6, <2>7 DEF DecodeAudio, less
<1>11. CASE Silence
  <2>1. pc["audio"] = "quit" /\ audio.need > 0
    BY <1>11 DEF Silence, At, AudioTyped
  <2>2. CASE NextPiece(audio)
    BY <1>1, <1>9, <2>1, <2>2
  <2>3. CASE audio' = audio /\ Goto("audio", "crashed")
    <3>1. pc'["audio"] = "crashed"
      BY <1>1, <2>3, IdsAre DEF Goto
    <3> QED
      BY <1>2, <2>3, <3>1
  <2> QED
    BY <1>11, <2>2, <2>3 DEF Silence
<1>12. CASE FireTimer \/ (\E c \in Commands : Command(c)) \/ UNCHANGED vars
  BY <1>3, <1>12 DEF FireTimer, Command, vars
<1> QED
  BY <1>4, <1>5, <1>6, <1>7, <1>8, <1>10, <1>11, <1>12 DEF Next, Audio, Environment

-------------------------------------------------------------------------------
LEMMA PlaceInit == Init => PlaceInv
<1> SUFFICES ASSUME Init PROVE PlaceInv
  OBVIOUS
<1>1. Places
  BY IdsAre DEF Init, Places
<1>2. streams \in [Kinds -> Nat] /\ queues \in [Kinds -> Queues] /\ quit \in BOOLEAN
  BY QueueTypes DEF Init, NoStream
<1>3. SlotTyped
  BY DEF Init, SlotTyped, EmptySlot, Ptrs, Null
<1>4. AudioTyped
  <2>1. AudioFrames \in Nat /\ Chunks \in Nat
    BY VideoAssumption
  <2>2. pc["audio"] = "off" /\ audio = [left |-> 0, need |-> 0, buf |-> FALSE]
    BY IdsAre DEF Init
  <2> QED
    BY <2>1, <2>2 DEF AudioTyped
<1>5. Began
  <2>1. pc["video"] = "off" /\ events = <<>>
    BY IdsAre DEF Init
  <2> QED
    BY <2>1 DEF Began, Asked
<1> QED
  BY <1>1, <1>2, <1>3, <1>4, <1>5 DEF PlaceInv

LEMMA PlaceStep ==
  ASSUME FifoInv, WakeInv, ShowInv, PlaceInv, [Next]_vars
  PROVE  PlaceInv'
<1>1. /\ quit \in BOOLEAN /\ Places /\ streams \in [Kinds -> Nat]
      /\ queues \in [Kinds -> Queues] /\ SlotTyped /\ AudioTyped /\ Began
  BY DEF PlaceInv
<1> QED
  BY <1>1, QuitStep, PlacesStep, StreamsStep, QueuesStep, SlotsStep, AudioStep, BeganStep
  DEF PlaceInv

\* Every thread is at a place of its code, a thread that decodes has something to
\* decode, a picture has dimensions, and every counter and queue stays within its
\* bounds, for every file and every size of the queues.
THEOREM PlayerTyped == Spec => []TypeOK
<1>1. ASSUME FifoInv, WakeInv, ShowInv, RedrawInv, PlaceInv PROVE TypeOK
  <2>1. file \in Files /\ read \in 0..Len(file.packets)
    BY <1>1 DEF FifoInv, Shapes
  <2>2. running \in BOOLEAN /\ quit \in BOOLEAN
    BY <1>1 DEF RedrawInv, PlaceInv
  <2>3. /\ frameFail \in 0..FrameFailMax + 1 /\ Len(events) <= MaxEvents /\ cmds \in 0..MaxCmds
        /\ timer \in Nat
    BY <1>1 DEF RedrawInv, OneRedraw
  <2>4. /\ pkt \in [Kinds -> Ptrs]
        /\ \A i \in DOMAIN events : events[i] \in Commands \cup {"refresh", "alloc"}
    BY <1>1 DEF ShowInv, Typed, Events
  <2>5. pictq \in [size : 0..VIDEO_PICTURE_QUEUE_SIZE, rindex : Slots, windex : Slots]
    BY <1>1 DEF WakeInv, Pictures
  <2>6. /\ \A t \in Threads : pc[t] \in Ids(t)
        /\ streams \in [Kinds -> Nat] /\ queues \in [Kinds -> Queues]
        /\ audio \in [left : 0..AudioFrames, need : 0..Chunks, buf : BOOLEAN]
        /\ slot \in [Slots -> [bmp : BOOLEAN, raw : {"none", "live", "null", "freed"}, dim : Nat,
                               allocated : BOOLEAN, frame : Ptrs]]
    BY <1>1 DEF PlaceInv, Places, AudioTyped, SlotTyped
  <2> QED
    BY <2>1, <2>2, <2>3, <2>4, <2>5, <2>6 DEF TypeOK
<1>2. FifoInv /\ WakeInv /\ ShowInv /\ PlaceInv /\ [Next]_vars => PlaceInv'
  BY PlaceStep
<1>3. FifoInv /\ WakeInv /\ ShowInv /\ RedrawInv /\ Redrawn /\ [Next]_vars => RedrawInv' /\ Redrawn'
  BY RedrawStep
<1> QED
  BY <1>1, <1>2, <1>3, FifoInit, FifoStep, WakeInit, WakeStep, ShowInit, ShowStep, RedrawInit,
     PlaceInit, PTL DEF Spec
===============================================================================
