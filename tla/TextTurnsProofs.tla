---------------------------- MODULE TextTurnsProofs ----------------------------
(***************************************************************************)
(* Proofs about the text slots when main and the command thread take       *)
(* turns, for any number of slots and commands and while the timer runs:   *)
(* the recursion of renderTexts, clearText and update ends, no destroyed   *)
(* texture is used, and what is on the display when nobody draws is what   *)
(* the slots hold.                                                         *)
(*                                                                         *)
(* Only one thread has calls then, and Now is its stack.  TurnsInv says    *)
(* what the levels of the recursion know of each other: a suspended level  *)
(* has cleared a slot of its own (Levels), and a level that goes on after  *)
(* an inner one finds in the back buffer all texts up to its place         *)
(* (Displays), none of which was destroyed (Remains).                      *)
(***************************************************************************)
EXTENDS TextSlotsProofs, FiniteSetTheorems

\* main and the command thread take turns: neither runs while the other draws or
\* sets up a text.  The timer may still run while the display is drawn.
Alternate ==
  /\ Separate
  /\ \A u \in Drawers, r \in {"setup", "render"} : <<u, r>> \notin Interrupts

\* The calls of the thread whose turn it is.
Alone == Idle("main") \/ Idle("cmd")
Now   == IF Idle("main") THEN calls["cmd"] ELSE calls["main"]

In(ps) == Now # <<>> /\ Now[1].pc \in ps

Clears == {"clear", "clearSlot"}

\* The suspended levels: each stands behind the slot that it has cleared, the
\* innermost one perhaps behind the slot that is being cleared now.
Inner(s) == IF s[1].pc \in Clears THEN 3 ELSE 2

Levels(s, F) ==
  /\ s[1].pc \notin SetupPlaces
  /\ \A k \in 2..Len(s) : s[k].pc = "texts" /\ s[k].id \in 1..NumTexts
  /\ \A k \in Inner(s)..Len(s) : F[s[k].id - 1].tex = NoTex
  /\ \A j, k \in Inner(s)..Len(s) : s[j].id = s[k].id => j = k
  /\ s[1].pc \in Clears /\ Len(s) > 1 => s[2].id = s[1].id + 1
  /\ s[1].pc = "clearSlot" => F[s[1].id].tex # NoTex

\* setupText and the redraw after it.
SetsUp(s) == Len(s) = 2 /\ s[1].pc \in SetupPlaces /\ s[2].pc = "draw"

Nested == Now = <<>> \/ SetsUp(Now) \/ Levels(Now, textFields)

\* A slot has a texture that exists or none, and no two slots have the same.
Owned ==
  \A i \in Ids : \/ textFields[i].tex \in live \cup {NoTex}
                 \/ In({"clearSlot", "setNull"}) /\ Now[1].id = i
Unshared ==
  \A i, j \in Ids : textFields[i].tex = textFields[j].tex /\ i # j => textFields[i].tex = NoTex

\* The texture of a command is new when setupText makes it.
New ==
  \A i \in Ids : /\ textFields[i].tex <= issued
                 /\ In(SetupPlaces) => textFields[i].tex < issued

Copying == In({"copy"}) => Now[1].tex = textFields[Now[1].id].tex

Holding == Owned /\ Unshared /\ New /\ Copying

\* A redraw has begun that will present, or nobody has touched the display.
Drawing == In({"texts", "read", "copy"}) \/ (In({"clear"}) /\ Len(Now) > 1)
Resting == Now = <<>> \/ (In({"clear"}) /\ Len(Now) = 1)

Displays ==
  ~Flips =>
    /\ Resting => \A i \in Ids : textFields[i].active => textFields[i].tex \in shown \cup {NoTex}
    /\ Drawing => \A i \in Ids : i < Now[1].id /\ textFields[i].active =>
                                   textFields[i].tex \in back \cup {NoTex}

Remains ==
  HasPicture /\ ~Flips =>
    /\ Resting => shown \subseteq live
    /\ Drawing => back \subseteq live

TurnsInv == Alone /\ Nested /\ Holding /\ Displays /\ Remains

-------------------------------------------------------------------------------
(* Whose turn it is                                                        *)

\* A command or a redraw request starts, and setupText goes on, only when no
\* redraw is under way.
LEMMA NobodyDraws ==
  ASSUME Alternate, NEW u \in Drawers, May(u)
  PROVE  \A t \in Drawers \ {u} : Idle(t)
<1> SUFFICES ASSUME NEW t \in Drawers \ {u}, ~Idle(t) PROVE FALSE
  OBVIOUS
<1>1. PICK r \in {"setup", "render"} : r \in Busy(t)
  BY DEF Busy, Drawers
<1>2. <<u, r>> \in Interrupts
  BY <1>1 DEF May, Threads
<1> QED
  BY <1>2 DEF Alternate

\* The thread at work is the one whose turn it is.
LEMMA Acting ==
  ASSUME Alone, Stacks, NEW t \in Drawers, ~Idle(t)
  PROVE  /\ Now = calls[t] /\ Now \in Seq(CallType) /\ Now # <<>> /\ Len(Now) \in Nat \ {0}
         /\ Top(t) = Now[1] /\ Now[1] \in CallType
         /\ \A k \in 2..Len(Now) : Now[k] \in CallType
         /\ \A u \in Drawers \ {t} : Idle(u)
<1>1. Now = calls[t] /\ \A u \in Drawers \ {t} : Idle(u)
  BY DEF Alone, Now, Drawers
<1>2. Now \in Seq(CallType) /\ Now # <<>>
  BY <1>1 DEF Stacks, Idle
<1>3. Len(Now) \in Nat \ {0} /\ \A k \in 1..Len(Now) : Now[k] \in CallType
  BY <1>2, EmptySeq, LenProperties
<1>4. Top(t) = Now[1]
  BY <1>1, <1>2, <1>3 DEF Top
<1> QED
  BY <1>1, <1>2, <1>3, <1>4

\* It keeps its turn while the other thread stays idle.
LEMMA Turned ==
  ASSUME NEW t \in Drawers, \A u \in Drawers \ {t} : Idle(u),
         \A u \in Drawers \ {t} : calls'[u] = calls[u]
  PROVE  Alone' /\ Now' = calls'[t]
BY DEF Alone, Now, Idle, Drawers

\* What Replace, Push and Return make of its stack.
LEMMA NowReplaced ==
  ASSUME Alone, Stacks, NEW t \in Drawers, ~Idle(t), NEW c \in CallType, Replace(t, c)
  PROVE  /\ Alone' /\ Now' \in Seq(CallType) /\ Now' # <<>> /\ Now'[1] = c
         /\ Len(Now') = Len(Now) /\ \A k \in 2..Len(Now) : Now'[k] = Now[k]
<1>1. /\ Now = calls[t] /\ Now \in Seq(CallType) /\ Now # <<>>
      /\ \A u \in Drawers \ {t} : Idle(u)
  BY Acting
<1>2. \A u \in Drawers \ {t} : calls'[u] = calls[u]
  BY Replaced
<1>3. Alone' /\ Now' = <<c>> \o Tail(Now)
  BY <1>1, <1>2, Turned DEF Replace, Stacks
<1> DEFINE n == <<c>> \o Tail(Now)
<1>4. /\ n \in Seq(CallType) /\ n # <<>> /\ Head(n) = c /\ Len(n) = Len(Now)
      /\ \A k \in 2..Len(Now) : n[k] = Now[k]
  BY <1>1, ReplaceTop
<1> HIDE DEF n
<1>5. n[1] = c
  BY <1>4
<1> QED
  BY <1>3, <1>4, <1>5 DEF n

LEMMA NowPushed ==
  ASSUME Alone, Stacks, NEW t \in Drawers, ~Idle(t), NEW c \in CallType, NEW d \in CallType,
         d.pc \notin SetupPlaces, Push(t, c, d)
  PROVE  /\ Alone' /\ Now' \in Seq(CallType) /\ Now' # <<>> /\ Now'[1] = c /\ Now'[2] = d
         /\ Len(Now') = Len(Now) + 1
         /\ \A k \in 3..Len(Now) + 1 : Now'[k] = Now[k - 1]
<1>1. /\ Now = calls[t] /\ Now \in Seq(CallType) /\ Now # <<>>
      /\ \A u \in Drawers \ {t} : Idle(u)
  BY Acting
<1>2. \A u \in Drawers \ {t} : calls'[u] = calls[u]
  BY Pushed
<1>3. Alone' /\ Now' = <<c, d>> \o Tail(Now)
  BY <1>1, <1>2, Turned DEF Push, Stacks
<1> DEFINE n == <<c, d>> \o Tail(Now)
<1>4. /\ n \in Seq(CallType) /\ n # <<>> /\ Head(n) = c /\ n[2] = d
      /\ Len(n) = Len(Now) + 1
      /\ \A k \in 3..Len(Now) + 1 : n[k] = Now[k - 1]
  BY <1>1, PushTop
<1> HIDE DEF n
<1>5. n[1] = c
  BY <1>4
<1> QED
  BY <1>3, <1>4, <1>5 DEF n

LEMMA NowReturned ==
  ASSUME Alone, Stacks, NEW t \in Drawers, ~Idle(t), Return(t)
  PROVE  /\ Alone' /\ Now' \in Seq(CallType) /\ Len(Now') = Len(Now) - 1
         /\ \A k \in 1..Len(Now') : Now'[k] = Now[k + 1]
         /\ Now' # <<>> => Len(Now') \in Nat \ {0}
<1>1. /\ Now = calls[t] /\ Now \in Seq(CallType) /\ Now # <<>>
      /\ \A u \in Drawers \ {t} : Idle(u)
  BY Acting
<1>2. \A u \in Drawers \ {t} : calls'[u] = calls[u]
  BY Returned
<1>3. Alone' /\ Now' = Tail(Now)
  BY <1>1, <1>2, Turned DEF Return, Stacks
<1> DEFINE n == Tail(Now)
<1>4. /\ n \in Seq(CallType) /\ Len(n) = Len(Now) - 1
      /\ \A k \in 1..Len(n) : n[k] = Now[k + 1]
  BY <1>1, PopTop
<1>5. n # <<>> => Len(n) \in Nat \ {0}
  BY <1>4, EmptySeq
<1> HIDE DEF n
<1> QED
  BY <1>3, <1>4, <1>5 DEF n

\* A thread starts when nobody draws.
LEMMA NowStarted ==
  ASSUME Alternate, Stacks, NEW t \in Drawers, May(t), NEW n \in Seq(CallType), Below(n),
         calls' = [calls EXCEPT ![t] = n]
  PROVE  Alone' /\ Now' = n
<1>1. \A u \in Drawers \ {t} : Idle(u)
  BY NobodyDraws
<1>2. calls'[t] = n /\ \A u \in Drawers \ {t} : calls'[u] = calls[u]
  BY Started
<1> QED
  BY <1>1, <1>2, Turned

-------------------------------------------------------------------------------
(* The levels of the recursion                                             *)

\* A step of the inner level that neither clears nor sets up.
LEMMA LevelsSwap ==
  ASSUME NEW s \in Seq(CallType), NEW n \in Seq(CallType), NEW F, Levels(s, F),
         s # <<>>, Len(n) = Len(s), \A k \in 2..Len(s) : n[k] = s[k],
         s[1].pc \notin Clears, n[1].pc \notin Clears \cup SetupPlaces
  PROVE  Levels(n, F)
<1>1. Inner(s) = 2 /\ Inner(n) = 2
  BY DEF Inner
<1> QED
  BY <1>1 DEF Levels, Clears

\* renderTexts suspends itself and has clearText clear the slot it was at.
LEMMA LevelsNest ==
  ASSUME TextAssumption, NEW s \in Seq(CallType), NEW n \in Seq(CallType), NEW F,
         Levels(s, F), Len(s) \in Nat \ {0}, s[1].pc \notin Clears, NEW i \in Ids,
         Len(n) = Len(s) + 1,
         n[1] = Call("clear", i), n[2] = Call("texts", i + 1),
         \A k \in 3..Len(s) + 1 : n[k] = s[k - 1]
  PROVE  Levels(n, F)
<1>1. n[1].pc = "clear" /\ n[1].id = i /\ n[2].pc = "texts" /\ n[2].id = i + 1
  BY DEF Call
<1>2. Inner(s) = 2 /\ Inner(n) = 3
  BY <1>1 DEF Inner, Clears
<1>3. i + 1 \in 1..NumTexts
  BY DEF Ids, TextAssumption
<1>4. \A k \in 2..Len(n) : n[k].pc = "texts" /\ n[k].id \in 1..NumTexts
  <2> SUFFICES ASSUME NEW k \in 2..Len(n), k # 2 PROVE n[k].pc = "texts" /\ n[k].id \in 1..NumTexts
    BY <1>1, <1>3
  <2>1. k \in 3..Len(s) + 1 /\ k - 1 \in 2..Len(s)
    OBVIOUS
  <2> QED
    BY <2>1 DEF Levels
<1>5. \A k \in 3..Len(n) : k - 1 \in 2..Len(s) /\ n[k] = s[k - 1]
  OBVIOUS
<1>6. \A k \in 3..Len(n) : F[n[k].id - 1].tex = NoTex
  BY <1>2, <1>5 DEF Levels
<1>7. \A j, k \in 3..Len(n) : n[j].id = n[k].id => j = k
  <2> SUFFICES ASSUME NEW j \in 3..Len(n), NEW k \in 3..Len(n), n[j].id = n[k].id
               PROVE  j = k
    OBVIOUS
  <2>1. \A a, b \in 2..Len(s) : s[a].id = s[b].id => a = b
    BY <1>2 DEF Levels
  <2>2. j - 1 \in 2..Len(s) /\ k - 1 \in 2..Len(s) /\ s[j - 1].id = s[k - 1].id
    BY <1>5
  <2>3. j - 1 = k - 1
    BY <2>1, <2>2
  <2> QED
    BY <2>3
<1> QED
  BY <1>1, <1>2, <1>4, <1>6, <1>7 DEF Levels, SetupPlaces, Clears

\* clearText has found a texture.
LEMMA LevelsFound ==
  ASSUME NEW s \in Seq(CallType), NEW n \in Seq(CallType), NEW F, Levels(s, F),
         s # <<>>, Len(n) = Len(s), \A k \in 2..Len(s) : n[k] = s[k],
         s[1].pc = "clear", n[1].pc = "clearSlot", n[1].id = s[1].id,
         F[s[1].id].tex # NoTex
  PROVE  Levels(n, F)
<1>1. Inner(s) = 3 /\ Inner(n) = 3
  BY DEF Inner, Clears
<1>2. \A k \in 3..Len(s) : n[k] = s[k]
  OBVIOUS
<1>3. Len(s) > 1 => n[2] = s[2]
  OBVIOUS
<1> QED
  BY <1>1, <1>2, <1>3 DEF Levels, Clears, SetupPlaces

\* clearText has forgotten the texture and redraws: one more slot is cleared, and
\* no other level stands behind it, because theirs had no texture before.
LEMMA LevelsForget ==
  ASSUME NEW s \in Seq(CallType), NEW n \in Seq(CallType), NEW F, NEW G, Levels(s, F),
         Len(s) \in Nat \ {0}, s[1].id \in Nat,
         Len(n) = Len(s), \A k \in 2..Len(s) : n[k] = s[k],
         s[1].pc = "clearSlot", n[1].pc = "draw",
         G[s[1].id].tex = NoTex,
         \A k \in 1..NumTexts : k - 1 # s[1].id => G[k - 1].tex = F[k - 1].tex
  PROVE  Levels(n, G)
<1>1. Inner(s) = 3 /\ Inner(n) = 2
  BY DEF Inner, Clears
<1>2. \A k \in 2..Len(n) : n[k].pc = "texts" /\ n[k].id \in 1..NumTexts
  BY DEF Levels
<1>3. Len(s) > 1 => n[2].id = s[1].id + 1
  BY DEF Levels, Clears
<1>4. \A k \in 3..Len(s) : /\ n[k].id \in 1..NumTexts
                           /\ F[n[k].id - 1].tex = NoTex
                           /\ n[k].id # s[1].id + 1
  <2> SUFFICES ASSUME NEW k \in 3..Len(s)
               PROVE  /\ n[k].id \in 1..NumTexts
                      /\ F[n[k].id - 1].tex = NoTex
                      /\ n[k].id # s[1].id + 1
    OBVIOUS
  <2>1. n[k] = s[k] /\ n[k].id \in 1..NumTexts
    BY <1>2
  <2>2. F[n[k].id - 1].tex = NoTex
    BY <2>1, <1>1 DEF Levels
  <2>3. F[s[1].id].tex # NoTex
    BY DEF Levels
  <2> QED
    BY <2>1, <2>2, <2>3
<1>5. \A k \in 2..Len(n) : G[n[k].id - 1].tex = NoTex
  <2> SUFFICES ASSUME NEW k \in 2..Len(n) PROVE G[n[k].id - 1].tex = NoTex
    OBVIOUS
  <2>1. CASE k = 2
    <3>1. n[k].id - 1 = s[1].id
      BY <2>1, <1>3
    <3> QED
      BY <3>1
  <2>2. CASE k # 2
    <3>1. k \in 3..Len(s)
      BY <2>2
    <3>2. n[k].id - 1 # s[1].id
      BY <3>1, <1>4
    <3> QED
      BY <3>1, <3>2, <1>4
  <2> QED
    BY <2>1, <2>2
<1>6. \A j, k \in 2..Len(n) : n[j].id = n[k].id => j = k
  <2> SUFFICES ASSUME NEW j \in 2..Len(n), NEW k \in 2..Len(n), n[j].id = n[k].id
               PROVE  j = k
    OBVIOUS
  <2>1. j # 2 /\ k # 2 => j \in 3..Len(s) /\ k \in 3..Len(s)
    OBVIOUS
  <2>2. CASE j # 2 /\ k # 2
    BY <2>1, <2>2, <1>1 DEF Levels
  <2>3. CASE j = 2 /\ k # 2
    <3>1. k \in 3..Len(s) /\ Len(s) > 1
      BY <2>3
    <3> QED
      BY <3>1, <2>3, <1>3, <1>4
  <2>4. CASE k = 2 /\ j # 2
    <3>1. j \in 3..Len(s) /\ Len(s) > 1
      BY <2>4
    <3> QED
      BY <3>1, <2>4, <1>3, <1>4
  <2> QED
    BY <2>2, <2>3, <2>4
<1> QED
  BY <1>1, <1>2, <1>5, <1>6 DEF Levels, SetupPlaces, Clears

\* The inner level is done.
LEMMA LevelsPop ==
  ASSUME NEW s \in Seq(CallType), NEW n \in Seq(CallType), NEW F, Levels(s, F),
         Len(s) \in Nat \ {0}, Len(n) = Len(s) - 1, Len(n) \in Nat \ {0},
         \A k \in 1..Len(n) : n[k] = s[k + 1]
  PROVE  Levels(n, F) /\ n[1].pc = "texts" /\ Len(s) > 1 /\ n[1] = s[2]
<1>1. n[1].pc = "texts" /\ n[1] = s[2] /\ Len(s) > 1
  <2>1. n[1] = s[2] /\ 2 \in 2..Len(s)
    OBVIOUS
  <2> QED
    BY <2>1 DEF Levels
<1>2. Inner(n) = 2
  BY <1>1 DEF Inner, Clears
<1>3. \A k \in 2..Len(n) : k + 1 \in Inner(s)..Len(s) /\ k + 1 \in 2..Len(s) /\ n[k] = s[k + 1]
  BY DEF Inner
<1>l. /\ \A k \in 2..Len(s) : s[k].pc = "texts" /\ s[k].id \in 1..NumTexts
      /\ \A k \in Inner(s)..Len(s) : F[s[k].id - 1].tex = NoTex
      /\ \A j, k \in Inner(s)..Len(s) : s[j].id = s[k].id => j = k
  BY DEF Levels
<1>4. \A k \in 2..Len(n) : /\ n[k].pc = "texts" /\ n[k].id \in 1..NumTexts
                           /\ F[n[k].id - 1].tex = NoTex
  <2> SUFFICES ASSUME NEW k \in 2..Len(n)
               PROVE  /\ n[k].pc = "texts" /\ n[k].id \in 1..NumTexts
                      /\ F[n[k].id - 1].tex = NoTex
    OBVIOUS
  <2>1. k + 1 \in Inner(s)..Len(s) /\ k + 1 \in 2..Len(s) /\ n[k] = s[k + 1]
    BY <1>3
  <2> QED
    BY <2>1, <1>l
<1>5. \A j, k \in 2..Len(n) : n[j].id = n[k].id => j = k
  <2> SUFFICES ASSUME NEW j \in 2..Len(n), NEW k \in 2..Len(n), n[j].id = n[k].id
               PROVE  j = k
    OBVIOUS
  <2>1. /\ j + 1 \in Inner(s)..Len(s) /\ k + 1 \in Inner(s)..Len(s)
        /\ s[j + 1].id = s[k + 1].id
    BY <1>3
  <2>2. j + 1 = k + 1
    BY <2>1, <1>l
  <2> QED
    BY <2>2
<1> QED
  BY <1>1, <1>2, <1>4, <1>5 DEF Levels, SetupPlaces, Clears

\* A stack of one call.
LEMMA LevelsOne ==
  ASSUME NEW n \in Seq(CallType), NEW F, Len(n) = 1,
         n[1].pc \notin SetupPlaces \cup {"clearSlot"}
  PROVE  Levels(n, F)
BY DEF Levels, Inner

\* There is at most one level for each slot, the one that clears and the first.
LEMMA LevelsBound ==
  ASSUME TextAssumption, NEW s \in Seq(CallType), NEW F, Levels(s, F)
  PROVE  Len(s) <= NumTexts + 2
<1> DEFINE S == Inner(s)..Len(s)
           T == 1..NumTexts
           f == [k \in S |-> s[k].id]
<1>1. Inner(s) \in {2, 3} /\ Len(s) \in Nat /\ NumTexts \in Nat
  BY LenProperties DEF Inner, TextAssumption
<1>2. IsFiniteSet(T) /\ Cardinality(T) = NumTexts
  BY <1>1, FS_Interval
<1>3. f \in [S -> T]
  BY <1>1 DEF Levels
<1>4. f \in Injection(S, T)
  BY <1>3 DEF Levels, Injection, IsInjective
<1>5. Cardinality(S) <= NumTexts
  BY <1>2, <1>4, FS_Injection
<1>6. Cardinality(S) = IF Inner(s) > Len(s) THEN 0 ELSE Len(s) - Inner(s) + 1
  <2>1. Inner(s) \in Int /\ Len(s) \in Int
    BY <1>1
  <2> QED
    BY <2>1, FS_Interval
<1> QED
  BY <1>1, <1>5, <1>6

\* The levels do not care for marks and durations.
LEMMA LevelsSame ==
  ASSUME NEW s \in Seq(CallType), NEW F, NEW G, Levels(s, F), s # <<>>,
         s[1].pc = "clearSlot" => s[1].id \in Ids, NumTexts \in Nat,
         \A i \in Ids : G[i].tex = F[i].tex
  PROVE  Levels(s, G)
<1>1. \A k \in Inner(s)..Len(s) : s[k].id - 1 \in Ids
  <2> SUFFICES ASSUME NEW k \in Inner(s)..Len(s) PROVE s[k].id - 1 \in Ids
    OBVIOUS
  <2>1. k \in 2..Len(s)
    BY DEF Inner
  <2>2. s[k].id \in 1..NumTexts
    BY <2>1 DEF Levels
  <2> QED
    BY <2>2 DEF Ids
<1> QED
  BY <1>1 DEF Levels

LEMMA RenderLevels ==
  ASSUME Nested, Now # <<>>, Now[1].pc \notin SetupPlaces
  PROVE  Levels(Now, textFields)
BY DEF Nested, SetsUp

-------------------------------------------------------------------------------
(* What the steps have in common                                           *)

\* Where the thread at work is, and the slot it is at.
LEMMA Here ==
  ASSUME TextAssumption, TInv, Alone, NEW t \in Drawers, NEW p, At(t, p)
  PROVE  /\ ~Idle(t) /\ Top(t) = Now[1] /\ Now \in Seq(CallType) /\ Now # <<>>
         /\ Len(Now) \in Nat \ {0} /\ Now[1].pc = p /\ Now[1].id \in 0..NumTexts
         /\ p \notin {"draw", "texts"} => Now[1].id \in Ids
<1>1. ~Idle(t) /\ Top(t).pc = p /\ Stacks
  BY DEF At, TInv
<1> QED
  BY <1>1, Acting, TopTyped

\* The textures stay with their slots when none is made, destroyed or forgotten.
LEMMA HoldingKept ==
  ASSUME Holding, UNCHANGED <<live, issued>>, ~In({"clearSlot", "setNull"}),
         \A i \in Ids : textFields'[i].tex = textFields[i].tex,
         In(SetupPlaces)' => In(SetupPlaces),
         In({"copy"})' => Now'[1].id \in Ids /\ Now'[1].tex = textFields[Now'[1].id].tex
  PROVE  Holding'
<1>1. Owned'
  BY DEF Holding, Owned
<1>2. Unshared'
  BY DEF Holding, Unshared
<1>3. New'
  BY DEF Holding, New
<1>4. Copying'
  BY DEF Copying, In
<1> QED
  BY <1>1, <1>2, <1>3, <1>4 DEF Holding

\* A redraw that has not begun and a text that is being set up say nothing of the
\* display.
LEMMA Unsaid ==
  ASSUME Now' # <<>>, Now'[1].pc \in {"draw", "clearSlot"} \cup SetupPlaces
  PROVE  Displays' /\ Remains'
BY DEF Displays, Remains, Drawing, Resting, In, SetupPlaces

\* A step between two places of renderTexts that leaves the buffers alone.
LEMMA GoesOn ==
  ASSUME Displays, Remains, Drawing, UNCHANGED <<textFields, live, back, shown>>,
         Drawing', ~Resting',
         \A i \in Ids : i < Now'[1].id /\ textFields[i].active =>
                          i < Now[1].id \/ textFields[i].tex = NoTex
  PROVE  Displays' /\ Remains'
BY DEF Displays, Remains

\* Steps of the timer and of a fade: the stack, the textures and the display stay,
\* and no text becomes active.
LEMMA QuietTurns ==
  ASSUME TextAssumption, TInv, TurnsInv,
         UNCHANGED <<calls, live, back, shown, issued>>,
         \A i \in Ids : /\ textFields'[i].tex = textFields[i].tex
                        /\ textFields'[i].active => textFields[i].active
  PROVE  TurnsInv'
<1>1. Now' = Now /\ Alone'
  BY DEF TurnsInv, Alone, Now, Idle
<1>2. \A ps : In(ps)' <=> In(ps)
  BY <1>1 DEF In
<1>3. Now # <<>> => Now \in Seq(CallType) /\ (Now[1].pc \in Places \ {"draw", "texts"} => Now[1].id \in Ids)
  <2> SUFFICES ASSUME Now # <<>>
               PROVE  Now \in Seq(CallType) /\ (Now[1].pc \in Places \ {"draw", "texts"} => Now[1].id \in Ids)
    OBVIOUS
  <2>1. PICK t \in Drawers : ~Idle(t)
    BY DEF Now, Idle, Drawers
  <2> QED
    BY <2>1, Acting, TopTyped DEF TurnsInv, TInv
<1>4. Nested'
  <2>1. CASE Levels(Now, textFields) /\ Now # <<>>
    <3>1. Now[1].pc = "clearSlot" => Now[1].id \in Ids
      BY <2>1, <1>3 DEF Places
    <3>2. Levels(Now, textFields')
      BY <2>1, <3>1, <1>3, LevelsSame DEF TextAssumption
    <3> QED
      BY <3>2, <1>1 DEF Nested
  <2>2. CASE ~(Levels(Now, textFields) /\ Now # <<>>)
    BY <2>2, <1>1 DEF TurnsInv, Nested, SetsUp
  <2> QED
    BY <2>1, <2>2
<1>5. Holding'
  <2>1. Owned' /\ Unshared' /\ New'
    BY <1>1, <1>2 DEF TurnsInv, Holding, Owned, Unshared, New
  <2>2. Copying'
    BY <1>1, <1>3 DEF TurnsInv, Holding, Copying, In, Places
  <2> QED
    BY <2>1, <2>2 DEF Holding
<1>6. (Drawing' <=> Drawing) /\ (Resting' <=> Resting)
  BY <1>1, <1>2 DEF Drawing, Resting
<1>7. Displays' /\ Remains'
  BY <1>1, <1>6 DEF TurnsInv, Displays, Remains
<1> QED
  BY <1>1, <1>4, <1>5, <1>7 DEF TurnsInv

-------------------------------------------------------------------------------
(* Redraws                                                                 *)

LEMMA DrawPictureTurns ==
  ASSUME TextAssumption, TInv, TurnsInv, NEW t \in Drawers, DrawPicture(t)
  PROVE  TurnsInv'
<1>1. At(t, "draw") /\ Replace(t, Call("texts", 0))
      /\ UNCHANGED <<textFields, live, issued>> /\ (HasPicture => back' = {})
  BY DEF DrawPicture, textVars
<1>2. /\ ~Idle(t) /\ Now \in Seq(CallType) /\ Now # <<>> /\ Len(Now) \in Nat \ {0}
      /\ Now[1].pc = "draw"
  BY <1>1, Here DEF TurnsInv
<1>3. Call("texts", 0) \in CallType /\ Call("texts", 0).pc = "texts" /\ Call("texts", 0).id = 0
  BY CallTyped DEF TextAssumption
<1>4. /\ Alone' /\ Now' \in Seq(CallType) /\ Now' # <<>> /\ Now'[1] = Call("texts", 0)
      /\ Len(Now') = Len(Now) /\ \A k \in 2..Len(Now) : Now'[k] = Now[k]
  BY <1>1, <1>2, <1>3, NowReplaced DEF TurnsInv, TInv
<1>5. Nested'
  <2>1. Levels(Now, textFields)
    BY <1>2, RenderLevels DEF TurnsInv, SetupPlaces
  <2>2. Levels(Now', textFields)
    BY <2>1, <1>2, <1>3, <1>4, LevelsSwap DEF Clears, SetupPlaces
  <2> QED
    BY <2>2, <1>1 DEF Nested
<1>6. Holding'
  BY <1>1, <1>2, <1>3, <1>4, HoldingKept DEF TurnsInv, In, SetupPlaces
<1>7. Displays'
  <2>1. ~Resting' /\ Now'[1].id = 0
    BY <1>3, <1>4 DEF Resting, In
  <2>2. \A i \in Ids : ~(i < 0)
    BY DEF Ids
  <2> QED
    BY <2>1, <2>2 DEF Displays
<1>8. Remains'
  <2>1. ~Resting'
    BY <1>3, <1>4 DEF Resting, In
  <2> QED
    BY <2>1, <1>1 DEF Remains
<1> QED
  BY <1>4, <1>5, <1>6, <1>7, <1>8 DEF TurnsInv

LEMMA VisitSlotTurns ==
  ASSUME TextAssumption, TInv, TurnsInv, NEW t \in Drawers, VisitSlot(t)
  PROVE  TurnsInv'
<1> DEFINE i == Now[1].id
<1>1. At(t, "texts") /\ ~Done(Top(t).id) /\ UNCHANGED <<textFields, live, back, shown, issued>>
  BY DEF VisitSlot, textVars
<1>2. /\ ~Idle(t) /\ Now \in Seq(CallType) /\ Now # <<>> /\ Len(Now) \in Nat \ {0}
      /\ Now[1].pc = "texts" /\ Top(t) = Now[1] /\ i \in 0..NumTexts
  BY <1>1, Here DEF TurnsInv
<1>3. i \in Ids /\ i + 1 \in 0..NumTexts
  BY <1>1, <1>2 DEF Done, Ids, TextAssumption
<1>4. /\ Call("clear", i) \in CallType /\ Call("texts", i + 1) \in CallType
      /\ Call("read", i) \in CallType
      /\ Call("clear", i).pc = "clear" /\ Call("texts", i + 1).pc = "texts"
      /\ Call("read", i).pc = "read" /\ Call("clear", i).id = i /\ Call("read", i).id = i
  BY <1>3, CallTyped DEF Places
<1>5. Levels(Now, textFields) /\ Alone /\ Stacks
  BY <1>2, RenderLevels DEF TurnsInv, TInv, SetupPlaces
<1>6. Drawing
  BY <1>2 DEF Drawing, In
<1>7. CASE textFields[i].destroy
  <2>1. Push(t, Call("clear", i), Call("texts", i + 1))
    BY <1>2, <1>7 DEF VisitSlot
  <2> HIDE DEF i
  <2>2. /\ Alone' /\ Now' \in Seq(CallType) /\ Now' # <<>> /\ Now'[1] = Call("clear", i)
        /\ Now'[2] = Call("texts", i + 1) /\ Len(Now') = Len(Now) + 1
        /\ \A k \in 3..Len(Now) + 1 : Now'[k] = Now[k - 1]
    BY <2>1, <1>2, <1>4, <1>5, NowPushed DEF SetupPlaces
  <2>3. Levels(Now', textFields)
    BY <2>2, <1>2, <1>3, <1>5, LevelsNest DEF Clears
  <2>4. Holding'
    BY <2>2, <1>1, <1>2, <1>4, HoldingKept DEF TurnsInv, In, SetupPlaces
  <2>5. Drawing' /\ ~Resting'
    BY <2>2, <1>2, <1>4 DEF Drawing, Resting, In
  <2>6. Displays' /\ Remains'
    BY <2>2, <2>5, <1>1, <1>4, <1>6, GoesOn DEF TurnsInv, i
  <2> QED
    BY <2>2, <2>3, <2>4, <2>6, <1>1 DEF TurnsInv, Nested
<1>8. CASE ~textFields[i].destroy
  <2>1. Replace(t, Call("read", i))
    BY <1>2, <1>8 DEF VisitSlot
  <2> HIDE DEF i
  <2>2. /\ Alone' /\ Now' \in Seq(CallType) /\ Now' # <<>> /\ Now'[1] = Call("read", i)
        /\ Len(Now') = Len(Now) /\ \A k \in 2..Len(Now) : Now'[k] = Now[k]
    BY <2>1, <1>2, <1>4, <1>5, NowReplaced
  <2>3. Levels(Now', textFields)
    BY <2>2, <1>2, <1>4, <1>5, LevelsSwap DEF Clears, SetupPlaces
  <2>4. Holding'
    BY <2>2, <1>1, <1>2, <1>4, HoldingKept DEF TurnsInv, In, SetupPlaces
  <2>5. Drawing' /\ ~Resting'
    BY <2>2, <1>4 DEF Drawing, Resting, In
  <2>6. Displays' /\ Remains'
    BY <2>2, <2>5, <1>1, <1>4, <1>6, GoesOn DEF TurnsInv, i
  <2> QED
    BY <2>2, <2>3, <2>4, <2>6, <1>1 DEF TurnsInv, Nested
<1> QED
  BY <1>7, <1>8

LEMMA ReadSlotTurns ==
  ASSUME TextAssumption, TInv, TurnsInv, NEW t \in Drawers, ReadSlot(t)
  PROVE  TurnsInv'
<1> DEFINE i == Now[1].id
           x == textFields[i].tex
<1>1. At(t, "read") /\ UNCHANGED <<textFields, live, back, shown, issued>>
  BY DEF ReadSlot, textVars
<1>2. /\ ~Idle(t) /\ Now \in Seq(CallType) /\ Now # <<>> /\ Len(Now) \in Nat \ {0}
      /\ Now[1].pc = "read" /\ Top(t) = Now[1] /\ i \in Ids
  BY <1>1, Here DEF TurnsInv
<1>3. x \in 0..MaxCmds /\ i + 1 \in 0..NumTexts /\ textFields[i].active \in BOOLEAN
  <2>1. x \in 0..MaxCmds /\ textFields[i].active \in BOOLEAN
    BY <1>2, FieldsTyped DEF TInv, Types
  <2>2. i + 1 \in 0..NumTexts
    BY <1>2 DEF Ids, TextAssumption
  <2> QED
    BY <2>1, <2>2
<1>4. Levels(Now, textFields) /\ Alone /\ Stacks
  BY <1>2, RenderLevels DEF TurnsInv, TInv, SetupPlaces
<1>5. Drawing
  BY <1>2 DEF Drawing, In
<1>6. CASE textFields[i].active
  <2> DEFINE c == [Call("copy", i) EXCEPT !.tex = x]
  <2>1. Replace(t, c)
    BY <1>2, <1>6 DEF ReadSlot
  <2>2. c \in CallType
    BY <1>2, <1>3, CallTyped DEF Places
  <2>3. c.pc = "copy" /\ c.id = i /\ c.tex = x
    BY DEF Call
  <2> HIDE DEF i, c
  <2>4. /\ Alone' /\ Now' \in Seq(CallType) /\ Now' # <<>> /\ Now'[1] = c
        /\ Len(Now') = Len(Now) /\ \A k \in 2..Len(Now) : Now'[k] = Now[k]
    BY <2>1, <2>2, <1>2, <1>4, NowReplaced
  <2>5. Levels(Now', textFields)
    BY <2>3, <2>4, <1>2, <1>4, LevelsSwap DEF Clears, SetupPlaces
  <2>6. Holding'
    BY <2>3, <2>4, <1>1, <1>2, HoldingKept DEF TurnsInv, In, SetupPlaces
  <2>7. Drawing' /\ ~Resting'
    BY <2>3, <2>4 DEF Drawing, Resting, In
  <2>8. Displays' /\ Remains'
    BY <2>3, <2>4, <2>7, <1>1, <1>5, GoesOn DEF TurnsInv, i
  <2> QED
    BY <2>4, <2>5, <2>6, <2>8, <1>1 DEF TurnsInv, Nested
<1>7. CASE ~textFields[i].active
  <2> DEFINE c == Call("texts", i + 1)
  <2>1. Replace(t, c)
    BY <1>2, <1>7 DEF ReadSlot
  <2>2. c \in CallType /\ c.pc = "texts" /\ c.id = i + 1
    BY <1>3, CallTyped
  <2> HIDE DEF c
  <2>4. /\ Alone' /\ Now' \in Seq(CallType) /\ Now' # <<>> /\ Now'[1] = c
        /\ Len(Now') = Len(Now) /\ \A k \in 2..Len(Now) : Now'[k] = Now[k]
    BY <2>1, <2>2, <1>2, <1>4, NowReplaced
  <2>5. Levels(Now', textFields)
    BY <2>2, <2>4, <1>2, <1>4, LevelsSwap DEF Clears, SetupPlaces
  <2>6. Holding'
    BY <2>2, <2>4, <1>1, <1>2, HoldingKept DEF TurnsInv, In, SetupPlaces
  <2>7. Drawing' /\ ~Resting'
    BY <2>2, <2>4 DEF Drawing, Resting, In
  <2>8. \A j \in Ids : j < i + 1 => j < i \/ j = i
    BY <1>2 DEF Ids
  <2>9. Displays' /\ Remains'
    BY <2>2, <2>4, <2>7, <2>8, <1>1, <1>5, <1>7, GoesOn DEF TurnsInv
  <2> QED
    BY <2>4, <2>5, <2>6, <2>9, <1>1 DEF TurnsInv, Nested
<1> QED
  BY <1>6, <1>7

LEMMA DrawTextTurns ==
  ASSUME TextAssumption, TInv, TurnsInv, NEW t \in Drawers, DrawText(t)
  PROVE  TurnsInv'
<1> DEFINE i == Now[1].id
           x == textFields[i].tex
           c == Call("texts", i + 1)
<1>1. At(t, "copy") /\ UNCHANGED <<textFields, live, shown, issued>>
  BY DEF DrawText, textVars
<1>2. /\ ~Idle(t) /\ Now \in Seq(CallType) /\ Now # <<>> /\ Len(Now) \in Nat \ {0}
      /\ Now[1].pc = "copy" /\ Top(t) = Now[1] /\ i \in Ids
  BY <1>1, Here DEF TurnsInv
<1>3. c \in CallType /\ c.pc = "texts" /\ c.id = i + 1
  <2>1. i + 1 \in 0..NumTexts
    BY <1>2 DEF Ids, TextAssumption
  <2> QED
    BY <2>1, CallTyped
<1>4. Levels(Now, textFields) /\ Alone /\ Stacks
  BY <1>2, RenderLevels DEF TurnsInv, TInv, SetupPlaces
<1>5. Drawing /\ ~In({"clearSlot", "setNull"}) /\ Now[1].tex = x
  BY <1>2 DEF TurnsInv, Holding, Copying, Drawing, In
<1>6. Replace(t, c) /\ back' = back \cup ({x} \ {NoTex})
  BY <1>2, <1>5 DEF DrawText
<1>7. x \in live \cup {NoTex}
  BY <1>2, <1>5 DEF TurnsInv, Holding, Owned
<1> HIDE DEF c
<1>8. /\ Alone' /\ Now' \in Seq(CallType) /\ Now' # <<>> /\ Now'[1] = c
      /\ Len(Now') = Len(Now) /\ \A k \in 2..Len(Now) : Now'[k] = Now[k]
  BY <1>2, <1>3, <1>4, <1>6, NowReplaced
<1>9. Nested'
  <2>1. Levels(Now', textFields)
    BY <1>2, <1>3, <1>4, <1>8, LevelsSwap DEF Clears, SetupPlaces
  <2> QED
    BY <2>1, <1>1 DEF Nested
<1>10. Holding'
  BY <1>1, <1>3, <1>5, <1>8, HoldingKept DEF TurnsInv, In, SetupPlaces
<1>11. ~Resting' /\ Now'[1].id = i + 1
  BY <1>3, <1>8 DEF Resting, In
<1>12. Displays'
  <2>1. \A j \in Ids : j < i + 1 => j < i \/ j = i
    BY <1>2 DEF Ids
  <2>2. ASSUME ~Flips, NEW j \in Ids, j < i + 1, textFields[j].active
        PROVE  textFields[j].tex \in back' \cup {NoTex}
    BY <2>1, <2>2, <1>5, <1>6 DEF TurnsInv, Displays
  <2> QED
    BY <2>2, <1>1, <1>11 DEF Displays
<1>13. Remains'
  <2>1. HasPicture /\ ~Flips => back \subseteq live
    BY <1>5 DEF TurnsInv, Remains
  <2> QED
    BY <2>1, <1>1, <1>6, <1>7, <1>11 DEF Remains
<1> QED
  BY <1>8, <1>9, <1>10, <1>12, <1>13 DEF TurnsInv

\* A redraw presents and returns to the one that it interrupted, if any.
LEMMA PresentTurns ==
  ASSUME TextAssumption, TInv, TurnsInv, NEW t \in Drawers, Present(t)
  PROVE  TurnsInv'
<1>1. /\ At(t, "texts") /\ Done(Top(t).id) /\ UNCHANGED <<textFields, live, issued>>
      /\ shown' = back /\ (~Flips => back' = back) /\ Return(t)
  BY DEF Present, textVars
<1>2. /\ ~Idle(t) /\ Now \in Seq(CallType) /\ Now # <<>> /\ Len(Now) \in Nat \ {0}
      /\ Now[1].pc = "texts" /\ Now[1].id = NumTexts
  BY <1>1, Here DEF TurnsInv, Done
<1>3. Levels(Now, textFields) /\ Alone /\ Stacks
  BY <1>2, RenderLevels DEF TurnsInv, TInv, SetupPlaces
<1>4. Drawing
  BY <1>2 DEF Drawing, In
<1>5. /\ Alone' /\ Now' \in Seq(CallType) /\ Len(Now') = Len(Now) - 1
      /\ \A k \in 1..Len(Now') : Now'[k] = Now[k + 1]
      /\ Now' # <<>> => Len(Now') \in Nat \ {0}
  BY <1>1, <1>2, <1>3, NowReturned
<1>6. \A j \in Ids : j < NumTexts
  BY DEF Ids, TextAssumption
<1>7. /\ ~Flips => \A j \in Ids : textFields[j].active => textFields[j].tex \in back \cup {NoTex}
      /\ HasPicture /\ ~Flips => back \subseteq live
  BY <1>2, <1>4, <1>6 DEF TurnsInv, Displays, Remains
<1>8. Displays' /\ Remains'
  BY <1>1, <1>7 DEF Displays, Remains
<1>9. Now' # <<>> => Levels(Now', textFields) /\ Now'[1].pc = "texts"
  BY <1>2, <1>3, <1>5, LevelsPop
<1>10. Nested'
  BY <1>1, <1>9 DEF Nested
<1>11. Holding'
  BY <1>1, <1>2, <1>9, HoldingKept DEF TurnsInv, In, SetupPlaces
<1> QED
  BY <1>5, <1>8, <1>10, <1>11 DEF TurnsInv

-------------------------------------------------------------------------------
(* clearText                                                               *)

\* Without a texture clearText returns; the redraw that it was called from goes on
\* behind the slot.
LEMMA NothingToClear ==
  ASSUME TextAssumption, TInv, TurnsInv, NEW t \in Drawers, At(t, "clear"),
         textFields[Top(t).id].tex = NoTex, Return(t),
         UNCHANGED <<textFields, live, back, shown, issued>>
  PROVE  TurnsInv'
<1> DEFINE i == Now[1].id
<1>1. /\ ~Idle(t) /\ Now \in Seq(CallType) /\ Now # <<>> /\ Len(Now) \in Nat \ {0}
      /\ Now[1].pc = "clear" /\ Top(t) = Now[1] /\ i \in Ids
  BY Here DEF TurnsInv
<1>2. Levels(Now, textFields) /\ Alone /\ Stacks
  BY <1>1, RenderLevels DEF TurnsInv, TInv, SetupPlaces
<1>3. /\ Alone' /\ Now' \in Seq(CallType) /\ Len(Now') = Len(Now) - 1
      /\ \A k \in 1..Len(Now') : Now'[k] = Now[k + 1]
      /\ Now' # <<>> => Len(Now') \in Nat \ {0}
  BY <1>1, <1>2, NowReturned
<1>4. Now' # <<>> => /\ Levels(Now', textFields) /\ Now'[1].pc = "texts" /\ Len(Now) > 1
                     /\ Now'[1].id = i + 1
  <2> SUFFICES ASSUME Now' # <<>>
               PROVE  /\ Levels(Now', textFields) /\ Now'[1].pc = "texts" /\ Len(Now) > 1
                      /\ Now'[1].id = i + 1
    OBVIOUS
  <2>1. /\ Levels(Now', textFields) /\ Now'[1].pc = "texts" /\ Len(Now) > 1
        /\ Now'[1] = Now[2]
    BY <1>1, <1>2, <1>3, LevelsPop
  <2> QED
    BY <2>1, <1>1, <1>2 DEF Levels, Clears
<1>5. Nested'
  BY <1>4 DEF Nested
<1>6. Holding'
  BY <1>1, <1>4, HoldingKept DEF TurnsInv, In, SetupPlaces
<1>7. Displays' /\ Remains'
  <2>1. CASE Now' = <<>>
    <3>1. Len(Now) = 1
      BY <2>1, <1>1, <1>3
    <3>2. Resting /\ ~Drawing'
      BY <3>1, <2>1, <1>1 DEF Resting, Drawing, In
    <3> QED
      BY <3>2 DEF TurnsInv, Displays, Remains
  <2>2. CASE Now' # <<>>
    <3>1. Drawing /\ Drawing' /\ ~Resting'
      BY <2>2, <1>1, <1>4 DEF Resting, Drawing, In
    <3>2. \A j \in Ids : j < i + 1 => j < i \/ j = i
      BY <1>1 DEF Ids
    <3> QED
      BY <2>2, <3>1, <3>2, <1>1, <1>4, GoesOn DEF TurnsInv
  <2> QED
    BY <2>1, <2>2
<1> QED
  BY <1>3, <1>5, <1>6, <1>7 DEF TurnsInv

\* The texture is destroyed: no other slot has it.
LEMMA DestroysText ==
  ASSUME TextAssumption, TInv, TurnsInv, NEW t \in Drawers, At(t, "clear"),
         textFields[Top(t).id].tex # NoTex,
         live' = live \ {textFields[Top(t).id].tex},
         Replace(t, Call("clearSlot", Top(t).id)), UNCHANGED <<textFields, issued>>
  PROVE  TurnsInv'
<1> DEFINE i == Now[1].id
           c == Call("clearSlot", i)
<1>1. /\ ~Idle(t) /\ Now \in Seq(CallType) /\ Now # <<>> /\ Len(Now) \in Nat \ {0}
      /\ Now[1].pc = "clear" /\ Top(t) = Now[1] /\ i \in Ids
  BY Here DEF TurnsInv
<1>2. Levels(Now, textFields) /\ Alone /\ Stacks
  BY <1>1, RenderLevels DEF TurnsInv, TInv, SetupPlaces
<1>3. c \in CallType /\ c.pc = "clearSlot" /\ c.id = i
  BY <1>1, CallTyped DEF Places
<1>4. Replace(t, c) /\ textFields[i].tex # NoTex /\ live' = live \ {textFields[i].tex}
  BY <1>1
<1> HIDE DEF c
<1>5. /\ Alone' /\ Now' \in Seq(CallType) /\ Now' # <<>> /\ Now'[1] = c
      /\ Len(Now') = Len(Now) /\ \A k \in 2..Len(Now) : Now'[k] = Now[k]
  BY <1>1, <1>2, <1>3, <1>4, NowReplaced
<1>6. Nested'
  <2>1. Levels(Now', textFields)
    BY <1>1, <1>2, <1>3, <1>4, <1>5, LevelsFound
  <2> QED
    BY <2>1 DEF Nested
<1>7. Owned'
  <2>1. ~In({"clearSlot", "setNull"}) /\ In({"clearSlot", "setNull"})' /\ Now'[1].id = i
    BY <1>1, <1>3, <1>5 DEF In
  <2>2. \A j \in Ids : textFields[j].tex \in live \cup {NoTex}
    BY <2>1 DEF TurnsInv, Holding, Owned
  <2>3. \A j \in Ids : j # i => textFields[j].tex # textFields[i].tex
    BY <1>1, <1>4 DEF TurnsInv, Holding, Unshared
  <2> QED
    BY <2>1, <2>2, <2>3, <1>4 DEF Owned
<1>8. Unshared' /\ New' /\ Copying'
  BY <1>3, <1>5 DEF TurnsInv, Holding, Unshared, New, Copying, In, SetupPlaces
<1>9. Displays' /\ Remains'
  BY <1>3, <1>5, Unsaid
<1> QED
  BY <1>5, <1>6, <1>7, <1>8, <1>9 DEF TurnsInv, Holding

LEMMA ClearTestTurns ==
  ASSUME TextAssumption, TInv, TurnsInv, NEW t \in Drawers, ClearTest(t)
  PROVE  TurnsInv'
BY NothingToClear, DestroysText DEF ClearTest, textVars

\* The texture is forgotten before the display is redrawn.
LEMMA ClearSlotTurns ==
  ASSUME TextAssumption, TInv, TurnsInv, NEW t \in Drawers, ClearSlot(t)
  PROVE  TurnsInv'
<1> DEFINE i == Now[1].id
           c == Call("draw", 0)
           f == textFields[i]
           g == [[f EXCEPT !.tex = NoTex] EXCEPT !.active = FALSE]
<1>1. At(t, "clearSlot") /\ Replace(t, c) /\ UNCHANGED <<live, back, shown, issued>>
  BY DEF ClearSlot, textVars
<1>2. /\ ~Idle(t) /\ Now \in Seq(CallType) /\ Now # <<>> /\ Len(Now) \in Nat \ {0}
      /\ Now[1].pc = "clearSlot" /\ Top(t) = Now[1] /\ i \in Ids
  BY <1>1, Here DEF TurnsInv
<1>3. Levels(Now, textFields) /\ Alone /\ Stacks /\ textFields \in [Ids -> FieldType]
  BY <1>2, RenderLevels DEF TurnsInv, TInv, Types, SetupPlaces
<1>4. c \in CallType /\ c.pc = "draw"
  BY CallTyped DEF TextAssumption
<1>5. textFields' = [textFields EXCEPT ![i] = g]
  BY <1>2, <1>3 DEF ClearSlot
<1>6. g.tex = NoTex /\ g \in FieldType
  <2>1. f \in FieldType
    BY <1>2, <1>3
  <2> DEFINE h == [f EXCEPT !.tex = NoTex]
  <2>2. h \in FieldType /\ h.tex = NoTex
    BY <2>1 DEF FieldType, NoTex, TextAssumption
  <2>3. g = [h EXCEPT !.active = FALSE]
    OBVIOUS
  <2> HIDE DEF h, g
  <2> QED
    BY <2>2, <2>3 DEF FieldType
<1> HIDE DEF c, g
<1>7. /\ textFields'[i].tex = NoTex
      /\ \A j \in Ids : j # i => textFields'[j] = textFields[j]
  BY <1>2, <1>3, <1>5, <1>6
<1>8. /\ Alone' /\ Now' \in Seq(CallType) /\ Now' # <<>> /\ Now'[1] = c
      /\ Len(Now') = Len(Now) /\ \A k \in 2..Len(Now) : Now'[k] = Now[k]
  BY <1>1, <1>2, <1>3, <1>4, NowReplaced
<1>9. Nested'
  <2>1. \A k \in 1..NumTexts : k - 1 \in Ids
    BY DEF Ids, TextAssumption
  <2>2. \A k \in 1..NumTexts : k - 1 # i => textFields'[k - 1].tex = textFields[k - 1].tex
    BY <2>1, <1>7
  <2>3. i \in Nat
    BY <1>2 DEF Ids, TextAssumption
  <2>4. /\ Now'[1].pc = "draw" /\ textFields'[Now[1].id].tex = NoTex
        /\ Now[1].id \in Nat
    BY <2>3, <1>4, <1>7, <1>8
  <2> HIDE DEF i
  <2>5. Levels(Now', textFields')
    BY <2>2, <2>4, <1>2, <1>3, <1>8, LevelsForget DEF i
  <2> QED
    BY <2>5 DEF Nested
<1>10. Owned'
  <2>1. \A j \in Ids : j # i => textFields[j].tex \in live \cup {NoTex}
    BY DEF TurnsInv, Holding, Owned
  <2> QED
    BY <2>1, <1>1, <1>7 DEF Owned
<1>11. Unshared'
  <2> SUFFICES ASSUME NEW j \in Ids, NEW k \in Ids, j # k,
                      textFields'[j].tex = textFields'[k].tex
               PROVE  textFields'[j].tex = NoTex
    BY DEF Unshared
  <2> QED
    BY <1>7 DEF TurnsInv, Holding, Unshared
<1>12. New' /\ Copying'
  <2>1. ~In(SetupPlaces)' /\ ~In({"copy"})'
    BY <1>4, <1>8 DEF In, SetupPlaces
  <2>2. issued \in Nat /\ NoTex <= issued
    BY DEF TInv, Types, NoTex, TextAssumption
  <2> QED
    BY <2>1, <2>2, <1>1, <1>7 DEF TurnsInv, Holding, New, Copying
<1>13. Displays' /\ Remains'
  BY <1>4, <1>8, Unsaid
<1> QED
  BY <1>8, <1>9, <1>10, <1>11, <1>12, <1>13 DEF TurnsInv, Holding

LEMMA DrawTurns ==
  ASSUME TextAssumption, TInv, TurnsInv, NEW t \in Drawers, Draw(t)
  PROVE  TurnsInv'
BY DrawPictureTurns, VisitSlotTurns, ReadSlotTurns, DrawTextTurns, PresentTurns,
   ClearTestTurns, ClearSlotTurns DEF Draw

-------------------------------------------------------------------------------
(* The commands                                                            *)

LEMMA TakeUpdTurns ==
  ASSUME TextAssumption, Alternate, TInv, TurnsInv, TakeUpd
  PROVE  TurnsInv'
<1>1. UNCHANGED <<textFields, live, back, shown, issued>> /\ May("main") /\ Idle("main")
  BY DEF TakeUpd
<1>2. CASE calls' = calls
  BY <1>1, <1>2, QuietTurns
<1>3. CASE calls' = [calls EXCEPT !["main"] = <<Call("draw", 0)>>]
  <2> DEFINE c == Call("draw", 0)
  <2>1. c \in CallType /\ c.pc = "draw"
    BY CallTyped DEF TextAssumption
  <2> HIDE DEF c
  <2>2. <<c>> \in Seq(CallType) /\ Below(<<c>>)
    BY <2>1, OneCall
  <2>3. Alone' /\ Now' = <<c>>
    BY <2>2, <1>1, <1>3, NowStarted DEF TInv, Drawers, c
  <2>4. Now' # <<>> /\ Now'[1] = c /\ Len(Now') = 1 /\ Now' \in Seq(CallType)
    BY <2>2, <2>3
  <2>5. Nested'
    <3>1. Levels(Now', textFields)
      BY <2>1, <2>4, LevelsOne DEF SetupPlaces
    <3> QED
      BY <3>1, <1>1 DEF Nested
  <2>6. Now = <<>>
    BY <1>1, NobodyDraws DEF Now, Idle, Drawers
  <2>7. Holding'
    BY <1>1, <2>1, <2>4, <2>6, HoldingKept DEF TurnsInv, In, SetupPlaces
  <2>8. Displays' /\ Remains'
    BY <2>1, <2>4, Unsaid
  <2> QED
    BY <2>3, <2>5, <2>7, <2>8 DEF TurnsInv
<1> QED
  BY <1>2, <1>3 DEF TakeUpd

LEMMA ClearCommandTurns ==
  ASSUME TextAssumption, Alternate, TInv, TurnsInv, ClearCommand
  PROVE  TurnsInv'
<1>1. /\ UNCHANGED <<textFields, live, back, shown>> /\ May("cmd") /\ Idle("cmd")
      /\ issued' = issued + 1 /\ issued \in Nat
  BY DEF ClearCommand, drawVars, TInv, Types, TextAssumption
<1>2. PICK i \in Ids : calls' = [calls EXCEPT !["cmd"] = <<Call("clear", i)>>]
  BY DEF ClearCommand
<1> DEFINE c == Call("clear", i)
<1>3. c \in CallType /\ c.pc = "clear"
  BY CallTyped DEF Places
<1> HIDE DEF c
<1>4. <<c>> \in Seq(CallType) /\ Below(<<c>>)
  BY <1>3, OneCall
<1>5. Alone' /\ Now' = <<c>>
  BY <1>4, <1>1, <1>2, NowStarted DEF TInv, Drawers, c
<1>6. Now' # <<>> /\ Now'[1] = c /\ Len(Now') = 1 /\ Now' \in Seq(CallType)
  BY <1>4, <1>5
<1>7. Nested'
  <2>1. Levels(Now', textFields)
    BY <1>3, <1>6, LevelsOne DEF SetupPlaces
  <2> QED
    BY <2>1, <1>1 DEF Nested
<1>8. Now = <<>>
  BY <1>1, NobodyDraws DEF Now, Idle, Drawers
<1>9. Owned' /\ Unshared' /\ Copying'
  BY <1>1, <1>3, <1>6, <1>8 DEF TurnsInv, Holding, Owned, Unshared, Copying, In
<1>10. New'
  <2>1. ~In(SetupPlaces)'
    BY <1>3, <1>6 DEF In, SetupPlaces
  <2>2. ASSUME NEW j \in Ids PROVE textFields[j].tex <= issued + 1
    <3>1. textFields[j].tex <= issued /\ textFields[j].tex \in 0..MaxCmds
      BY FieldsTyped DEF TurnsInv, Holding, New, TInv, Types
    <3> QED
      BY <3>1, <1>1 DEF TextAssumption
  <2> QED
    BY <2>1, <2>2, <1>1 DEF New
<1>11. Displays' /\ Remains'
  <2>1. Resting /\ ~Drawing'
    BY <1>3, <1>6, <1>8 DEF Resting, Drawing, In
  <2> QED
    BY <2>1, <1>1 DEF TurnsInv, Displays, Remains
<1> QED
  BY <1>5, <1>7, <1>9, <1>10, <1>11 DEF TurnsInv, Holding

LEMMA TextCommandTurns ==
  ASSUME TextAssumption, Alternate, TInv, TurnsInv, TextCommand
  PROVE  TurnsInv'
<1>1. /\ UNCHANGED <<textFields, live, back, shown>> /\ May("cmd") /\ Idle("cmd")
      /\ issued' = issued + 1 /\ issued \in Nat
  BY DEF TextCommand, drawVars, TInv, Types, TextAssumption
<1>2. PICK i \in Ids : calls' = [calls EXCEPT !["cmd"] = <<Call("setup", i), Call("draw", 0)>>]
  BY DEF TextCommand
<1> DEFINE c == Call("setup", i)
           d == Call("draw", 0)
<1>3. /\ c \in CallType /\ c.pc = "setup"
      /\ d \in CallType /\ d.pc = "draw" /\ d.pc \notin SetupPlaces
  BY CallTyped DEF Places, SetupPlaces, TextAssumption
<1> HIDE DEF c, d
<1>4. <<c, d>> \in Seq(CallType) /\ Below(<<c, d>>)
  BY <1>3, TwoCalls
<1>5. Alone' /\ Now' = <<c, d>>
  BY <1>4, <1>1, <1>2, NowStarted DEF TInv, Drawers, c, d
<1>6. Now' # <<>> /\ Now'[1] = c /\ Now'[2] = d /\ Len(Now') = 2
  BY <1>5
<1>7. Nested'
  BY <1>3, <1>6 DEF Nested, SetsUp, SetupPlaces
<1>8. Now = <<>>
  BY <1>1, NobodyDraws DEF Now, Idle, Drawers
<1>9. Owned' /\ Unshared' /\ Copying'
  BY <1>1, <1>3, <1>6, <1>8 DEF TurnsInv, Holding, Owned, Unshared, Copying, In
<1>10. New'
  <2>1. ASSUME NEW j \in Ids PROVE textFields[j].tex < issued + 1
    <3>1. textFields[j].tex <= issued /\ textFields[j].tex \in 0..MaxCmds
      BY FieldsTyped DEF TurnsInv, Holding, New, TInv, Types
    <3> QED
      BY <3>1, <1>1 DEF TextAssumption
  <2>2. ASSUME NEW j \in Ids PROVE textFields[j].tex <= issued + 1
    <3>1. textFields[j].tex < issued + 1 /\ textFields[j].tex \in 0..MaxCmds
      BY <2>1, FieldsTyped DEF TInv, Types
    <3> QED
      BY <3>1, <1>1 DEF TextAssumption
  <2> QED
    BY <2>1, <2>2, <1>1 DEF New
<1>11. Displays' /\ Remains'
  BY <1>3, <1>6, Unsaid DEF SetupPlaces
<1> QED
  BY <1>5, <1>7, <1>9, <1>10, <1>11 DEF TurnsInv, Holding

\* A step of setupText that is not its last.
LEMMA SetupStep ==
  ASSUME TextAssumption, TInv, TurnsInv, NEW p \in SetupPlaces, NEW q \in SetupPlaces,
         At("cmd", p), Replace("cmd", Call(q, Top("cmd").id))
  PROVE  /\ Top("cmd").id = Now[1].id /\ Now[1].id \in Ids /\ Now # <<>> /\ Now[1].pc = p
         /\ Now' # <<>> /\ Now'[1].pc = q /\ Now'[1].id = Now[1].id
         /\ Alone' /\ Nested' /\ Displays' /\ Remains'
<1> DEFINE i == Now[1].id
           c == Call(q, i)
<1>1. /\ ~Idle("cmd") /\ Now \in Seq(CallType) /\ Now # <<>> /\ Len(Now) \in Nat \ {0}
      /\ Now[1].pc = p /\ Top("cmd") = Now[1] /\ i \in Ids /\ "cmd" \in Drawers
  BY Here DEF TurnsInv, Drawers, SetupPlaces
<1>2. c \in CallType /\ c.pc = q /\ c.id = i
  BY <1>1, CallTyped DEF Places, SetupPlaces
<1>3. Replace("cmd", c) /\ Stacks /\ Alone
  BY <1>1 DEF TInv, TurnsInv
<1> HIDE DEF c
<1>4. /\ Alone' /\ Now' \in Seq(CallType) /\ Now' # <<>> /\ Now'[1] = c
      /\ Len(Now') = Len(Now) /\ \A k \in 2..Len(Now) : Now'[k] = Now[k]
  BY <1>1, <1>2, <1>3, NowReplaced
<1>5. SetsUp(Now)
  BY <1>1 DEF TurnsInv, Nested, Levels
<1>6. Nested'
  BY <1>2, <1>4, <1>5 DEF Nested, SetsUp
<1>7. Displays' /\ Remains'
  BY <1>2, <1>4, Unsaid
<1> QED
  BY <1>1, <1>2, <1>4, <1>6, <1>7

LEMMA SetupTurns ==
  ASSUME TextAssumption, TInv, TurnsInv, Setup
  PROVE  TurnsInv'
<1> DEFINE i == Now[1].id
<1>f. textFields \in [Ids -> FieldType] /\ Holding /\ issued \in Nat
  BY DEF TurnsInv, TInv, Types, TextAssumption
<1>1. ASSUME SetupDestroy PROVE TurnsInv'
  <2>1. At("cmd", "setup") /\ UNCHANGED <<textFields, issued>>
    BY <1>1 DEF SetupDestroy
  <2>2. CASE textFields[Top("cmd").id].tex # NoTex
    <3>1. /\ live' = live \ {textFields[Top("cmd").id].tex}
          /\ Replace("cmd", Call("setNull", Top("cmd").id))
      BY <1>1, <2>2 DEF SetupDestroy
    <3>2. /\ Top("cmd").id = i /\ i \in Ids /\ Now # <<>> /\ Now[1].pc = "setup"
          /\ Now' # <<>> /\ Now'[1].pc = "setNull" /\ Now'[1].id = i
          /\ Alone' /\ Nested' /\ Displays' /\ Remains'
      BY <2>1, <3>1, SetupStep DEF SetupPlaces
    <3> HIDE DEF i
    <3>3. Owned'
      <4>1. \A j \in Ids : textFields[j].tex \in live \cup {NoTex}
        BY <3>2, <1>f DEF Holding, Owned, In
      <4>2. \A j \in Ids : j # i => textFields[j].tex # textFields[i].tex
        BY <3>2, <2>2, <1>f DEF Holding, Unshared
      <4> QED
        BY <4>1, <4>2, <3>1, <3>2, <2>1 DEF Owned, In
    <3>4. Unshared' /\ New' /\ Copying'
      BY <3>2, <2>1, <1>f DEF Holding, Unshared, New, Copying, In, SetupPlaces
    <3> QED
      BY <3>2, <3>3, <3>4 DEF TurnsInv, Holding
  <2>3. CASE textFields[Top("cmd").id].tex = NoTex
    <3>1. UNCHANGED live /\ Replace("cmd", Call("activate", Top("cmd").id))
      BY <1>1, <2>3 DEF SetupDestroy
    <3>2. /\ Now # <<>> /\ Now[1].pc = "setup"
          /\ Now' # <<>> /\ Now'[1].pc = "activate"
          /\ Alone' /\ Nested' /\ Displays' /\ Remains'
      BY <2>1, <3>1, SetupStep DEF SetupPlaces
    <3>3. Holding'
      BY <3>1, <3>2, <2>1, <1>f, HoldingKept DEF In, SetupPlaces
    <3> QED
      BY <3>2, <3>3 DEF TurnsInv
  <2> QED
    BY <2>2, <2>3
<1>2. ASSUME SetupNull PROVE TurnsInv'
  <2>1. /\ At("cmd", "setNull") /\ UNCHANGED <<live, issued>>
        /\ textFields' = [textFields EXCEPT ![Top("cmd").id].tex = NoTex]
        /\ Replace("cmd", Call("activate", Top("cmd").id))
    BY <1>2 DEF SetupNull
  <2>2. /\ Top("cmd").id = i /\ i \in Ids /\ Now # <<>> /\ Now[1].pc = "setNull"
        /\ Now' # <<>> /\ Now'[1].pc = "activate" /\ Now[1].id = i
        /\ Alone' /\ Nested' /\ Displays' /\ Remains'
    BY <2>1, SetupStep DEF SetupPlaces
  <2> HIDE DEF i
  <2>3. textFields'[i].tex = NoTex /\ \A j \in Ids : j # i => textFields'[j] = textFields[j]
    BY <2>1, <2>2, <1>f DEF FieldType
  <2>4. Owned'
    <3>1. \A j \in Ids : j # i => textFields[j].tex \in live \cup {NoTex}
      BY <2>2, <1>f DEF Holding, Owned
    <3> QED
      BY <3>1, <2>1, <2>3 DEF Owned
  <2>5. Unshared'
    <3> SUFFICES ASSUME NEW j \in Ids, NEW k \in Ids, j # k,
                        textFields'[j].tex = textFields'[k].tex
                 PROVE  textFields'[j].tex = NoTex
      BY DEF Unshared
    <3> QED
      BY <2>3, <1>f DEF Holding, Unshared
  <2>6. New' /\ Copying'
    <3>1. \A j \in Ids : textFields[j].tex <= issued /\ textFields[j].tex < issued
      BY <2>2, <1>f DEF Holding, New, In, SetupPlaces
    <3>2. NoTex <= issued /\ NoTex < issued
      <4>1. textFields[i].tex \in Nat /\ textFields[i].tex < issued
        BY <2>2, <3>1, <1>f, FieldsTyped DEF TextAssumption
      <4> QED
        BY <4>1, <1>f DEF NoTex
    <3>3. ~In({"copy"})'
      BY <2>2 DEF In
    <3> QED
      BY <3>1, <3>2, <3>3, <2>1, <2>3 DEF New, Copying
  <2> QED
    BY <2>2, <2>4, <2>5, <2>6 DEF TurnsInv, Holding
<1>3. ASSUME SetupActivate PROVE TurnsInv'
  <2>1. /\ At("cmd", "activate") /\ UNCHANGED <<live, issued>>
        /\ textFields' = [textFields EXCEPT ![Top("cmd").id].active = TRUE,
                                            ![Top("cmd").id].destroy = FALSE]
        /\ Replace("cmd", Call("setTimeout", Top("cmd").id))
    BY <1>3 DEF SetupActivate
  <2>2. /\ Top("cmd").id = i /\ i \in Ids /\ Now # <<>> /\ Now[1].pc = "activate"
        /\ Now' # <<>> /\ Now'[1].pc = "setTimeout"
        /\ Alone' /\ Nested' /\ Displays' /\ Remains'
    BY <2>1, SetupStep DEF SetupPlaces
  <2> HIDE DEF i
  <2>3. \A j \in Ids : textFields'[j].tex = textFields[j].tex
    <3> DEFINE f == textFields[i]
               h == [f EXCEPT !.active = TRUE]
               g == [h EXCEPT !.destroy = FALSE]
    <3>1. f \in FieldType
      BY <2>2, <1>f
    <3>2. h \in FieldType /\ h.tex = f.tex
      BY <3>1 DEF FieldType
    <3>3. textFields' = [textFields EXCEPT ![i] = g]
      BY <2>1, <2>2, <1>f
    <3> HIDE DEF h
    <3>4. g.tex = f.tex
      BY <3>2 DEF FieldType
    <3> HIDE DEF g
    <3> QED
      BY <3>3, <3>4, <1>f
  <2>4. Holding'
    BY <2>1, <2>2, <2>3, <1>f, HoldingKept DEF In, SetupPlaces
  <2> QED
    BY <2>2, <2>4 DEF TurnsInv
<1>4. ASSUME SetupTimeout PROVE TurnsInv'
  <2>1. /\ At("cmd", "setTimeout") /\ UNCHANGED <<live, issued>>
        /\ textFields' = [textFields EXCEPT ![Top("cmd").id].timeout = asked]
        /\ Replace("cmd", Call("setTex", Top("cmd").id))
    BY <1>4 DEF SetupTimeout
  <2>2. /\ Top("cmd").id = i /\ i \in Ids /\ Now # <<>> /\ Now[1].pc = "setTimeout"
        /\ Now' # <<>> /\ Now'[1].pc = "setTex"
        /\ Alone' /\ Nested' /\ Displays' /\ Remains'
    BY <2>1, SetupStep DEF SetupPlaces
  <2> HIDE DEF i
  <2>3. \A j \in Ids : textFields'[j].tex = textFields[j].tex
    BY <2>1, <2>2, <1>f DEF FieldType
  <2>4. Holding'
    BY <2>1, <2>2, <2>3, <1>f, HoldingKept DEF In, SetupPlaces
  <2> QED
    BY <2>2, <2>4 DEF TurnsInv
<1>5. ASSUME SetupTex PROVE TurnsInv'
  <2>1. At("cmd", "setTex") /\ Return("cmd") /\ UNCHANGED issued
    BY <1>5 DEF SetupTex
  <2>2. /\ ~Idle("cmd") /\ Now \in Seq(CallType) /\ Now # <<>> /\ Len(Now) \in Nat \ {0}
        /\ Now[1].pc = "setTex" /\ Top("cmd") = Now[1] /\ i \in Ids
        /\ "cmd" \in Drawers /\ Alone /\ Stacks
    BY <2>1, Here DEF TurnsInv, Drawers, TInv
  <2>3. /\ Alone' /\ Now' \in Seq(CallType) /\ Len(Now') = Len(Now) - 1
        /\ \A k \in 1..Len(Now') : Now'[k] = Now[k + 1]
    BY <2>1, <2>2, NowReturned
  <2>4. SetsUp(Now)
    BY <2>2 DEF TurnsInv, Nested, Levels, SetupPlaces
  <2>5. Len(Now') = 1 /\ Now' # <<>> /\ Now'[1].pc = "draw"
    <3>1. Len(Now') = 1
      BY <2>3, <2>4 DEF SetsUp
    <3>2. Now' # <<>>
      BY <3>1, EmptySeq
    <3> QED
      BY <3>1, <3>2, <2>3, <2>4 DEF SetsUp
  <2>6. Nested'
    <3>1. Levels(Now', textFields')
      BY <2>3, <2>5, LevelsOne DEF SetupPlaces
    <3> QED
      BY <3>1 DEF Nested
  <2>7. Displays' /\ Remains'
    BY <2>5, Unsaid
  <2> HIDE DEF i
  <2>8. Holding'
    <3>1. CASE UNCHANGED <<live, textFields>>
      BY <3>1, <2>1, <2>2, <2>5, <1>f, HoldingKept DEF In, SetupPlaces
    <3>2. CASE /\ live' = live \cup {issued}
               /\ textFields' = [textFields EXCEPT ![i].tex = issued]
      <4>1. textFields'[i].tex = issued /\ \A j \in Ids : j # i => textFields'[j] = textFields[j]
        BY <3>2, <2>2, <1>f DEF FieldType
      <4>2. \A j \in Ids : /\ textFields[j].tex \in live \cup {NoTex}
                           /\ textFields[j].tex < issued /\ textFields[j].tex <= issued
                           /\ textFields[j].tex \in Nat
        BY <2>2, <1>f, FieldsTyped DEF Holding, Owned, New, In, SetupPlaces, TextAssumption
      <4>3. Owned'
        BY <4>1, <4>2, <3>2 DEF Owned
      <4>4. Unshared'
        <5> SUFFICES ASSUME NEW j \in Ids, NEW k \in Ids, j # k,
                            textFields'[j].tex = textFields'[k].tex
                     PROVE  textFields'[j].tex = NoTex
          BY DEF Unshared
        <5>1. j # i /\ k # i
          BY <4>1, <4>2, <1>f
        <5> QED
          BY <5>1, <4>1, <1>f DEF Holding, Unshared
      <4>5. New' /\ Copying'
        BY <4>1, <4>2, <2>1, <2>5, <1>f DEF New, Copying, In, SetupPlaces
      <4> QED
        BY <4>3, <4>4, <4>5 DEF Holding
    <3> QED
      BY <3>1, <3>2, <1>5, <2>2 DEF SetupTex, i
  <2> QED
    BY <2>3, <2>6, <2>7, <2>8 DEF TurnsInv
<1> QED
  BY <1>1, <1>2, <1>3, <1>4, <1>5 DEF Setup

\* The timer takes a text away, and never brings one back.
LEMMA TimerTurns ==
  ASSUME TextAssumption, TInv, TurnsInv, timerThread
  PROVE  TurnsInv'
<1> DEFINE i == timer.id
<1>1. UNCHANGED callVars /\ textFields \in [Ids -> FieldType] /\ i \in Ids
  BY DEF timerThread, TimerVisit, TimerDeactivate, TimerMark, TimerCount, TInv, Types
<1>2. \/ textFields' = textFields
      \/ textFields' = [textFields EXCEPT ![i].active = FALSE]
      \/ textFields' = [textFields EXCEPT ![i].destroy = TRUE]
      \/ textFields' = [textFields EXCEPT ![i].timeout = @ - 1]
  BY DEF timerThread, TimerVisit, TimerDeactivate, TimerMark, TimerCount
<1> HIDE DEF i
<1>3. \A j \in Ids : /\ textFields'[j].tex = textFields[j].tex
                     /\ textFields'[j].active => textFields[j].active
  BY <1>1, <1>2 DEF FieldType
<1> QED
  BY <1>1, <1>3, QuietTurns DEF callVars

-------------------------------------------------------------------------------
(* The theorems                                                            *)

LEMMA TurnsInit == ASSUME TextAssumption, Init PROVE TurnsInv
<1>1. Now = <<>> /\ Alone
  BY DEF Init, Now, Alone, Idle, Drawers
<1>2. \A i \in Ids : textFields[i].tex = NoTex /\ ~textFields[i].active
  BY DEF Init, NoText
<1>3. Holding
  BY <1>1, <1>2 DEF Init, Holding, Owned, Unshared, New, Copying, In, NoTex
<1>4. Displays /\ Remains
  BY <1>1, <1>2 DEF Init, Displays, Remains, Drawing, In
<1> QED
  BY <1>1, <1>3, <1>4 DEF TurnsInv, Nested

LEMMA TurnsStep ==
  ASSUME TextAssumption, Alternate, TInv, TurnsInv, [Next]_vars
  PROVE  TurnsInv'
<1>1. CASE UNCHANGED vars
  BY <1>1, QuietTurns DEF vars
<1>2. CASE FadeStep
  BY <1>2, QuietTurns DEF FadeStep
<1>3. CASE Next /\ ~FadeStep
  BY <1>3, DrawTurns, TakeUpdTurns, TextCommandTurns, ClearCommandTurns, SetupTurns,
     TimerTurns DEF Next
<1> QED
  BY <1>1, <1>2, <1>3

LEMMA TurnsSafe ==
  ASSUME Alternate
  PROVE  Spec => [](TInv /\ TurnsInv)
<1>1. Init => TInv /\ TurnsInv
  BY TextAssumption, TInvInit, TurnsInit
<1>2. TInv /\ TurnsInv /\ [Next]_vars => (TInv /\ TurnsInv)'
  BY TextAssumption, TInvStep, TurnsStep DEF Alternate
<1> QED
  BY <1>1, <1>2, PTL DEF Spec

\* A stack of calls holds at most one level for each slot, and two more: the
\* recursion of renderTexts, clearText and update (452, 509) ends, also while the
\* timer marks more texts during the redraws.
THEOREM RecursionEnds ==
  ASSUME Alternate
  PROVE  Spec => []RecursionBound
<1>1. TInv /\ TurnsInv => RecursionBound
  <2> SUFFICES ASSUME TInv, TurnsInv, NEW t \in Drawers
               PROVE  Len(calls[t]) <= NumTexts + 2
    BY DEF RecursionBound
  <2>1. CASE Idle(t)
    BY <2>1, EmptySeq, TextAssumption DEF Idle, TextAssumption
  <2>2. CASE ~Idle(t)
    <3>1. Now = calls[t] /\ Now \in Seq(CallType) /\ Now # <<>>
      BY <2>2, Acting DEF TurnsInv, TInv
    <3>2. Levels(Now, textFields) => Len(Now) <= NumTexts + 2
      BY <3>1, TextAssumption, LevelsBound
    <3>3. SetsUp(Now) => Len(Now) <= NumTexts + 2
      BY TextAssumption DEF SetsUp, TextAssumption
    <3> QED
      BY <3>1, <3>2, <3>3 DEF TurnsInv, Nested
  <2> QED
    BY <2>1, <2>2
<1> QED
  BY <1>1, TurnsSafe, PTL

\* A redraw never copies a destroyed texture to the display (464), and clearText and
\* setupText never destroy one twice (502, 525): only the slot that a thread is
\* clearing may hold a destroyed texture, and no two slots hold the same.
THEOREM TexturesLive ==
  ASSUME Alternate
  PROVE  Spec => []TextLive
<1>1. TInv /\ TurnsInv => TextLive
  <2> SUFFICES ASSUME TInv, TurnsInv, NEW t \in Drawers
               PROVE  /\ At(t, "copy") /\ Top(t).tex # NoTex => Top(t).tex \in live
                      /\ At(t, "clear") \/ At(t, "setup") =>
                           textFields[Top(t).id].tex \in live \cup {NoTex}
    BY DEF TextLive
  <2>1. ASSUME NEW p \in {"copy", "clear", "setup"}, At(t, p)
        PROVE  /\ textFields[Top(t).id].tex \in live \cup {NoTex}
               /\ p = "copy" => Top(t).tex = textFields[Top(t).id].tex
    <3>1. /\ Top(t) = Now[1] /\ Now # <<>> /\ Now[1].pc = p /\ Now[1].id \in Ids
      BY <2>1, TextAssumption, Here DEF TurnsInv
    <3> QED
      BY <3>1 DEF TurnsInv, Holding, Owned, Copying, In
  <2> QED
    BY <2>1
<1> QED
  BY <1>1, TurnsSafe, PTL

LEMMA AllIdleRests == ASSUME AllIdle PROVE Resting
BY DEF AllIdle, Resting, Now, Idle, Drawers

\* When nobody draws, every active text that has a texture is on the display: a
\* redraw that was suspended for another one goes on behind the texts which that
\* one has drawn. It is so when the renderer presents by copying; with two buffers
\* that are swapped, an inner redraw leaves the outer one a back buffer without
\* its texts.
THEOREM ActiveShown ==
  ASSUME Alternate, ~Flips
  PROVE  Spec => []TextShown
<1>1. TInv /\ TurnsInv => TextShown
  BY AllIdleRests DEF TurnsInv, Displays, TextShown
<1> QED
  BY <1>1, TurnsSafe, PTL

\* When nobody draws, no destroyed text is left on the display: clearText and
\* setupText are followed by a redraw, and the picture covers what was there.
THEOREM DestroyedGone ==
  ASSUME Alternate, HasPicture, ~Flips
  PROVE  Spec => []TextGone
<1>1. TInv /\ TurnsInv => TextGone
  BY AllIdleRests DEF TurnsInv, Remains, TextGone
<1> QED
  BY <1>1, TurnsSafe, PTL
===============================================================================
