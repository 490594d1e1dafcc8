---------------------------- MODULE TextSlotsProofs ----------------------------
(***************************************************************************)
(* Proofs about the text slots, for any number of slots, any durations and *)
(* any number of commands: the types, and that a text is not marked as     *)
(* expired before its duration has been counted.                           *)
(*                                                                         *)
(* The invariant TInv adds to TextLasts what makes it inductive: a slot's  *)
(* timeout is what is left of its duration (Countdown), only a text in its *)
(* last second is marked (LastSecond), and setupText has removed an old    *)
(* mark before it sets a new duration (Unmarked).  The last one needs that *)
(* setupText is never below a redraw on a stack of calls (Stacks).         *)
(***************************************************************************)
EXTENDS TextSlots, SequenceTheorems, TLAPS

SetupPlaces == {"setup", "setNull", "activate", "setTimeout", "setTex"}

\* Only a redraw may be at a slot behind the last one.
CallType == {c \in [pc : Places, id : 0..NumTexts, tex : 0..MaxCmds] :
               c.pc \in {"draw", "texts"} \/ c.id \in Ids}

FieldType == [tex : 0..MaxCmds, active : BOOLEAN, destroy : BOOLEAN,
              timeout : 0..MaxTimeout]

\* Neither the timer nor the set up of a text is interrupted by the other.
Separate == <<"timer", "setup">> \notin Interrupts
            /\ <<"cmd", "timer">> \notin Interrupts

\* setupText is called by the command only, never from inside a redraw.
Below(s) == \A k \in 2..Len(s) : s[k].pc \notin SetupPlaces

Stacks == /\ calls \in [Drawers -> Seq(CallType)]
          /\ \A t \in Drawers : Below(calls[t])

InSetup == ~Idle("cmd") /\ Top("cmd").pc \in SetupPlaces

Types ==
  /\ textFields \in [Ids -> FieldType]
  /\ live \subseteq 1..MaxCmds
  /\ timer \in [pc : {"visit", "deactivate", "mark", "count"}, id : Ids]
  /\ queue \in Seq({"all", "one"})
  /\ dirty \in BOOLEAN
  /\ back \subseteq 1..MaxCmds /\ shown \subseteq 1..MaxCmds
  /\ issued \in 0..MaxCmds
  /\ asked \in 0..MaxTimeout
  /\ lasts \in [Ids -> 0..MaxTimeout] /\ age \in [Ids -> 0..MaxTimeout]

\* A command that is executed has been read.
Reading == ~Idle("cmd") => issued > 0

\* The mark of the former text is gone before the new duration is set.
Unmarked == At("cmd", "setTimeout") => ~textFields[Top("cmd").id].destroy

\* The timeout of a slot is what is left of its duration; while the timer is at
\* the slot, it has aged already and is not counted down yet.
Visited(i) == timer.pc # "visit" /\ timer.id = i

Countdown == \A i \in Ids :
  /\ ~Visited(i) => lasts[i] = age[i] + textFields[i].timeout
  /\ Visited(i) => /\ age[i] > 0 /\ textFields[i].timeout > 0
                   /\ lasts[i] + 1 = age[i] + textFields[i].timeout

\* Only a text in its last second is marked.
LastSecond == timer.pc \in {"deactivate", "mark"} => textFields[timer.id].timeout = 1

Times == Countdown /\ LastSecond /\ TextLasts

TInv == Types /\ Stacks /\ Reading /\ Unmarked /\ Times

-------------------------------------------------------------------------------
(* Stacks of calls                                                         *)

\* What Replace, Push and Return make of a stack.
LEMMA ReplaceTop ==
  ASSUME NEW S, NEW s \in Seq(S), s # <<>>, NEW c \in S
  PROVE  /\ <<c>> \o Tail(s) \in Seq(S)
         /\ <<c>> \o Tail(s) # <<>>
         /\ Head(<<c>> \o Tail(s)) = c
         /\ Len(<<c>> \o Tail(s)) = Len(s)
         /\ \A k \in 2..Len(s) : (<<c>> \o Tail(s))[k] = s[k]
<1> DEFINE u == Tail(s)
<1>1. u \in Seq(S) /\ Len(u) = Len(s) - 1 /\ \A k \in 1..Len(u) : u[k] = s[k + 1]
  BY HeadTailProperties
<1>2. <<c>> \in Seq(S) /\ Len(<<c>>) = 1
  OBVIOUS
<1> HIDE DEF u
<1>3. /\ <<c>> \o u \in Seq(S) /\ Len(<<c>> \o u) = 1 + Len(u)
      /\ (<<c>> \o u)[1] = c
      /\ \A k \in 2..Len(u) + 1 : (<<c>> \o u)[k] = u[k - 1]
  BY <1>1, <1>2, ConcatProperties
<1> QED
  BY <1>1, <1>3 DEF u

LEMMA PushTop ==
  ASSUME NEW S, NEW s \in Seq(S), s # <<>>, NEW c \in S, NEW d \in S
  PROVE  /\ <<c, d>> \o Tail(s) \in Seq(S)
         /\ <<c, d>> \o Tail(s) # <<>>
         /\ Head(<<c, d>> \o Tail(s)) = c
         /\ Len(<<c, d>> \o Tail(s)) = Len(s) + 1
         /\ (<<c, d>> \o Tail(s))[2] = d
         /\ \A k \in 3..Len(s) + 1 : (<<c, d>> \o Tail(s))[k] = s[k - 1]
<1> DEFINE u == Tail(s)
<1>1. u \in Seq(S) /\ Len(u) = Len(s) - 1 /\ \A k \in 1..Len(u) : u[k] = s[k + 1]
  BY HeadTailProperties
<1>2. <<c, d>> \in Seq(S) /\ Len(<<c, d>>) = 2
  OBVIOUS
<1> HIDE DEF u
<1>3. /\ <<c, d>> \o u \in Seq(S) /\ Len(<<c, d>> \o u) = 2 + Len(u)
      /\ (<<c, d>> \o u)[1] = c /\ (<<c, d>> \o u)[2] = d
      /\ \A k \in 3..Len(u) + 2 : (<<c, d>> \o u)[k] = u[k - 2]
  BY <1>1, <1>2, ConcatProperties
<1> QED
  BY <1>1, <1>3 DEF u

LEMMA PopTop ==
  ASSUME NEW S, NEW s \in Seq(S), s # <<>>
  PROVE  /\ Tail(s) \in Seq(S)
         /\ Len(Tail(s)) = Len(s) - 1
         /\ \A k \in 1..Len(Tail(s)) : Tail(s)[k] = s[k + 1]
         /\ Tail(s) # <<>> => Len(s) >= 2 /\ Head(Tail(s)) = s[2]
<1>1. Tail(s) \in Seq(S) /\ Len(Tail(s)) = Len(s) - 1 /\ \A k \in 1..Len(Tail(s)) : Tail(s)[k] = s[k + 1]
  BY HeadTailProperties
<1>2. ASSUME Tail(s) # <<>> PROVE Len(s) >= 2 /\ Head(Tail(s)) = s[2]
  <2>1. Len(Tail(s)) # 0 /\ Len(Tail(s)) \in Nat /\ Len(s) \in Nat
    BY <1>1, <1>2, EmptySeq, LenProperties
  <2>2. Head(Tail(s)) = Tail(s)[1]
    BY <1>1, <1>2, HeadTailProperties
  <2> QED
    BY <1>1, <2>1, <2>2
<1> QED
  BY <1>1, <1>2

\* The same for the stacks of the threads: they keep their shape.
LEMMA Replaced ==
  ASSUME Stacks, NEW t \in Drawers, ~Idle(t), NEW c \in CallType, Replace(t, c)
  PROVE  /\ Stacks'
         /\ calls'[t] # <<>> /\ Head(calls'[t]) = c
         /\ \A u \in Drawers \ {t} : calls'[u] = calls[u]
<1> DEFINE s == calls[t]
           n == <<c>> \o Tail(s)
<1>1. s \in Seq(CallType) /\ s # <<>> /\ Below(s)
  BY DEF Stacks, Idle
<1>2. calls' = [calls EXCEPT ![t] = n]
  BY DEF Replace
<1>3. /\ n \in Seq(CallType) /\ n # <<>> /\ Head(n) = c /\ Len(n) = Len(s)
      /\ \A k \in 2..Len(s) : n[k] = s[k]
  BY <1>1, ReplaceTop
<1> HIDE DEF n, s
<1>4. Below(n)
  BY <1>1, <1>3 DEF Below
<1>5. calls' \in [Drawers -> Seq(CallType)] /\ calls'[t] = n
      /\ \A u \in Drawers \ {t} : calls'[u] = calls[u]
  BY <1>2, <1>3 DEF Stacks
<1>6. \A u \in Drawers : Below(calls'[u])
  BY <1>4, <1>5 DEF Stacks
<1> QED
  BY <1>3, <1>5, <1>6 DEF Stacks, Below

LEMMA Pushed ==
  ASSUME Stacks, NEW t \in Drawers, ~Idle(t), NEW c \in CallType, NEW d \in CallType,
         d.pc \notin SetupPlaces, Push(t, c, d)
  PROVE  /\ Stacks'
         /\ calls'[t] # <<>> /\ Head(calls'[t]) = c
         /\ \A u \in Drawers \ {t} : calls'[u] = calls[u]
<1> DEFINE s == calls[t]
           n == <<c, d>> \o Tail(s)
<1>1. s \in Seq(CallType) /\ s # <<>> /\ Below(s)
  BY DEF Stacks, Idle
<1>2. calls' = [calls EXCEPT ![t] = n]
  BY DEF Push
<1>3. /\ n \in Seq(CallType) /\ n # <<>> /\ Head(n) = c /\ Len(n) = Len(s) + 1
      /\ n[2] = d
      /\ \A k \in 3..Len(s) + 1 : n[k] = s[k - 1]
  BY <1>1, PushTop
<1>l. Len(s) \in Nat
  BY <1>1, LenProperties
<1> HIDE DEF n, s
<1>4. Below(n)
  <2> SUFFICES ASSUME NEW k \in 2..Len(n) PROVE n[k].pc \notin SetupPlaces
    BY DEF Below
  <2>1. CASE k = 2
    BY <2>1, <1>3
  <2>2. CASE k # 2
    <3>1. k \in 3..Len(s) + 1 /\ k - 1 \in 2..Len(s)
      BY <2>2, <1>3, <1>l
    <3> QED
      BY <3>1, <1>3, <1>1 DEF Below
  <2> QED
    BY <2>1, <2>2
<1>5. calls' \in [Drawers -> Seq(CallType)] /\ calls'[t] = n
      /\ \A u \in Drawers \ {t} : calls'[u] = calls[u]
  BY <1>2, <1>3 DEF Stacks
<1>6. \A u \in Drawers : Below(calls'[u])
  BY <1>4, <1>5 DEF Stacks
<1> QED
  BY <1>3, <1>5, <1>6 DEF Stacks, Below

LEMMA Returned ==
  ASSUME Stacks, NEW t \in Drawers, ~Idle(t), Return(t)
  PROVE  /\ Stacks'
         /\ calls'[t] = <<>> \/ Head(calls'[t]).pc \notin SetupPlaces
         /\ \A u \in Drawers \ {t} : calls'[u] = calls[u]
<1> DEFINE s == calls[t]
           n == Tail(s)
<1>1. s \in Seq(CallType) /\ s # <<>> /\ Below(s)
  BY DEF Stacks, Idle
<1>2. calls' = [calls EXCEPT ![t] = n]
  BY DEF Return
<1>3. /\ n \in Seq(CallType) /\ Len(n) = Len(s) - 1
      /\ \A k \in 1..Len(n) : n[k] = s[k + 1]
      /\ n # <<>> => Len(s) >= 2 /\ Head(n) = s[2]
  BY <1>1, PopTop
<1>l. Len(s) \in Nat /\ Len(n) \in Nat
  BY <1>1, <1>3, LenProperties
<1> HIDE DEF n, s
<1>4. Below(n)
  <2> SUFFICES ASSUME NEW k \in 2..Len(n) PROVE n[k].pc \notin SetupPlaces
    BY DEF Below
  <2>1. k \in 1..Len(n) /\ k + 1 \in 2..Len(s)
    BY <1>3, <1>l
  <2> QED
    BY <2>1, <1>3, <1>1 DEF Below
<1>5. calls' \in [Drawers -> Seq(CallType)] /\ calls'[t] = n
      /\ \A u \in Drawers \ {t} : calls'[u] = calls[u]
  BY <1>2, <1>3 DEF Stacks
<1>6. \A u \in Drawers : Below(calls'[u])
  BY <1>4, <1>5 DEF Stacks
<1>7. n = <<>> \/ Head(n).pc \notin SetupPlaces
  BY <1>1, <1>3, <1>l DEF Below
<1> QED
  BY <1>5, <1>6, <1>7 DEF Stacks, Below

-------------------------------------------------------------------------------

\* The calls the actions make, and the one a thread is in.
LEMMA CallTyped ==
  ASSUME TextAssumption
  PROVE  /\ \A p \in {"draw", "texts"}, i \in 0..NumTexts : Call(p, i) \in CallType
         /\ \A p \in Places, i \in Ids : Call(p, i) \in CallType
         /\ \A p \in Places, i \in Ids, x \in 0..MaxCmds :
              [Call(p, i) EXCEPT !.tex = x] \in CallType
         /\ \A p, i : Call(p, i).pc = p /\ Call(p, i).id = i
<1>1. \A p, i : Call(p, i).pc = p /\ Call(p, i).id = i
  BY DEF Call
<1>2. \A p \in {"draw", "texts"}, i \in 0..NumTexts : Call(p, i) \in CallType
  BY DEF CallType, Call, NoTex, Places, Ids, TextAssumption
<1>3. \A p \in Places, i \in Ids : Call(p, i) \in CallType
  BY DEF CallType, Call, NoTex, Ids, TextAssumption
<1>4. ASSUME NEW p \in Places, NEW i \in Ids, NEW x \in 0..MaxCmds
      PROVE  [Call(p, i) EXCEPT !.tex = x] \in CallType
  <2>1. [Call(p, i) EXCEPT !.tex = x] = [pc |-> p, id |-> i, tex |-> x]
    BY DEF Call
  <2>2. [pc |-> p, id |-> i, tex |-> x] \in CallType
    BY DEF CallType, Ids, TextAssumption
  <2> QED
    BY <2>1, <2>2
<1> QED
  BY <1>1, <1>2, <1>3, <1>4

LEMMA TopTyped ==
  ASSUME TextAssumption, Stacks, NEW t \in Drawers, ~Idle(t)
  PROVE  /\ Top(t) \in CallType
         /\ Top(t).id \in 0..NumTexts /\ Top(t).tex \in 0..MaxCmds
         /\ Top(t).pc \notin {"draw", "texts"} => Top(t).id \in Ids
<1>1. calls[t] \in Seq(CallType) /\ calls[t] # <<>>
  BY DEF Stacks, Idle
<1>2. Head(calls[t]) \in CallType
  BY <1>1, HeadTailProperties
<1> QED
  BY <1>2 DEF Top, CallType

\* Steps that leave durations and marks alone keep what is said of them.
LEMMA TimesKept ==
  ASSUME Types, Times, UNCHANGED <<timer, lasts, age>>,
         \A i \in Ids : /\ textFields'[i].destroy = textFields[i].destroy
                        /\ textFields'[i].timeout = textFields[i].timeout
  PROVE  Times'
<1>1. timer.id \in Ids
  BY DEF Types
<1>2. Countdown'
  BY DEF Times, Countdown, Visited
<1>3. LastSecond'
  BY <1>1 DEF Times, LastSecond
<1>4. TextLasts'
  BY DEF Times, TextLasts
<1> QED
  BY <1>2, <1>3, <1>4 DEF Times

\* A step of a drawing thread that is not in setupText, and is not in it after.
LEMMA RenderKeeps ==
  ASSUME TextAssumption, TInv, NEW t \in Drawers, ~Idle(t), Stacks', Types',
         calls'[t] = <<>> \/ Head(calls'[t]).pc \notin SetupPlaces,
         \A u \in Drawers \ {t} : calls'[u] = calls[u],
         UNCHANGED <<timer, issued, lasts, age>>,
         \A i \in Ids : /\ textFields'[i].destroy = textFields[i].destroy
                        /\ textFields'[i].timeout = textFields[i].timeout
  PROVE  TInv'
<1>1. Times'
  BY TimesKept DEF TInv
<1>2. Reading'
  BY DEF TInv, Reading, Idle, Drawers
<1>3. Unmarked'
  <2>1. CASE t = "cmd"
    BY <2>1 DEF Unmarked, At, Idle, Top, SetupPlaces
  <2>2. CASE t # "cmd"
    <3>1. calls'["cmd"] = calls["cmd"]
      BY <2>2 DEF Drawers
    <3>2. At("cmd", "setTimeout")' => At("cmd", "setTimeout") /\ Top("cmd")' = Top("cmd")
      BY <3>1 DEF At, Idle, Top
    <3>3. ASSUME At("cmd", "setTimeout") PROVE Top("cmd").id \in Ids
      BY <3>3, TopTyped DEF At, TInv, Drawers
    <3> QED
      BY <3>2, <3>3 DEF Unmarked, TInv
  <2> QED
    BY <2>1, <2>2
<1> QED
  BY <1>1, <1>2, <1>3 DEF TInv

\* The fields of a slot, and what clearText makes of them.
LEMMA FieldsTyped ==
  ASSUME textFields \in [Ids -> FieldType]
  PROVE  \A i \in Ids : /\ textFields[i] \in FieldType
                        /\ textFields[i].tex \in 0..MaxCmds
                        /\ textFields[i].active \in BOOLEAN
                        /\ textFields[i].destroy \in BOOLEAN
                        /\ textFields[i].timeout \in 0..MaxTimeout
BY DEF FieldType

LEMMA ClearedField ==
  ASSUME TextAssumption, NEW f \in FieldType, NEW g,
         g = [[f EXCEPT !.tex = NoTex] EXCEPT !.active = FALSE]
  PROVE  g \in FieldType /\ g.destroy = f.destroy /\ g.timeout = f.timeout
<1> DEFINE h == [f EXCEPT !.tex = NoTex]
<1>1. h \in FieldType /\ h.destroy = f.destroy /\ h.timeout = f.timeout
  BY DEF FieldType, NoTex, TextAssumption
<1>2. g = [h EXCEPT !.active = FALSE]
  OBVIOUS
<1> HIDE DEF h
<1>3. g \in FieldType /\ g.destroy = h.destroy /\ g.timeout = h.timeout
  BY <1>1, <1>2 DEF FieldType
<1> QED
  BY <1>1, <1>3

\* Redraws and clearText, by either thread.
LEMMA DrawKeeps ==
  ASSUME TextAssumption, TInv, NEW t \in Drawers, Draw(t)
  PROVE  TInv'
<1> DEFINE Same == \A i \in Ids : /\ textFields'[i].destroy = textFields[i].destroy
                                  /\ textFields'[i].timeout = textFields[i].timeout
<1>s. Stacks /\ Types
  BY DEF TInv
<1>1. ASSUME DrawPicture(t) PROVE TInv'
  <2>1. ~Idle(t) /\ Replace(t, Call("texts", 0))
    BY <1>1 DEF DrawPicture, At
  <2>2. Call("texts", 0) \in CallType /\ Call("texts", 0).pc = "texts"
    BY CallTyped DEF TextAssumption
  <2>3. Types'
    BY <1>1, <1>s DEF Types, DrawPicture, textVars
  <2>4. Same /\ UNCHANGED <<timer, issued, lasts, age>>
    BY <1>1 DEF DrawPicture, textVars
  <2>5. Stacks' /\ calls'[t] # <<>> /\ Head(calls'[t]) = Call("texts", 0)
        /\ \A u \in Drawers \ {t} : calls'[u] = calls[u]
    BY <2>1, <2>2, <1>s, Replaced
  <2> QED
    BY <2>1, <2>2, <2>3, <2>4, <2>5, RenderKeeps DEF SetupPlaces
<1>2. ASSUME VisitSlot(t) PROVE TInv'
  <2> DEFINE i == Top(t).id
  <2>1. ~Idle(t) /\ i \in Ids /\ i + 1 \in 0..NumTexts
    <3>1. ~Idle(t) /\ i # NumTexts
      BY <1>2 DEF VisitSlot, At, Done
    <3>2. i \in 0..NumTexts
      BY <3>1, <1>s, TopTyped
    <3> QED
      BY <3>1, <3>2 DEF Ids, TextAssumption
  <2>2. \/ Push(t, Call("clear", i), Call("texts", i + 1))
        \/ Replace(t, Call("read", i))
    BY <1>2 DEF VisitSlot
  <2> HIDE DEF i
  <2>3. /\ Call("clear", i) \in CallType /\ Call("texts", i + 1) \in CallType
        /\ Call("read", i) \in CallType
        /\ Call("clear", i).pc = "clear" /\ Call("texts", i + 1).pc = "texts"
        /\ Call("read", i).pc = "read"
    BY <2>1, CallTyped DEF Places
  <2>4. Types'
    BY <1>2, <1>s DEF Types, VisitSlot, textVars
  <2>5. Same /\ UNCHANGED <<timer, issued, lasts, age>>
    BY <1>2 DEF VisitSlot, textVars
  <2>6. /\ Stacks' /\ calls'[t] # <<>>
        /\ Head(calls'[t]) \in {Call("clear", i), Call("read", i)}
        /\ \A u \in Drawers \ {t} : calls'[u] = calls[u]
    <3>1. CASE Push(t, Call("clear", i), Call("texts", i + 1))
      <4>1. Call("texts", i + 1).pc \notin SetupPlaces
        BY <2>3 DEF SetupPlaces
      <4> QED
        BY <3>1, <4>1, <2>1, <2>3, <1>s, Pushed
    <3>2. CASE Replace(t, Call("read", i))
      BY <3>2, <2>1, <2>3, <1>s, Replaced
    <3> QED
      BY <2>2, <3>1, <3>2
  <2>7. Head(calls'[t]).pc \notin SetupPlaces
    BY <2>3, <2>6 DEF SetupPlaces
  <2> QED
    BY <2>1, <2>4, <2>5, <2>6, <2>7, RenderKeeps
<1>3. ASSUME ReadSlot(t) PROVE TInv'
  <2> DEFINE i == Top(t).id
             c == [Call("copy", i) EXCEPT !.tex = textFields[i].tex]
  <2>1. ~Idle(t) /\ i \in Ids /\ i + 1 \in 0..NumTexts
    <3>1. ~Idle(t) /\ Top(t).pc = "read"
      BY <1>3 DEF ReadSlot, At
    <3>2. i \in Ids
      BY <3>1, <1>s, TopTyped
    <3> QED
      BY <3>1, <3>2 DEF Ids, TextAssumption
  <2>2. Replace(t, c) \/ Replace(t, Call("texts", i + 1))
    BY <1>3 DEF ReadSlot
  <2>3. /\ c \in CallType /\ c.pc = "copy"
        /\ Call("texts", i + 1) \in CallType /\ Call("texts", i + 1).pc = "texts"
    <3>1. textFields[i].tex \in 0..MaxCmds
      BY <1>s, <2>1, FieldsTyped DEF Types
    <3>2. c \in CallType
      BY <2>1, <3>1, CallTyped DEF Places
    <3>3. c.pc = "copy"
      BY DEF Call
    <3>4. Call("texts", i + 1) \in CallType /\ Call("texts", i + 1).pc = "texts"
      BY <2>1, CallTyped DEF Places
    <3> QED
      BY <3>2, <3>3, <3>4
  <2> HIDE DEF c, i
  <2>4. Types'
    BY <1>3, <1>s DEF Types, ReadSlot, textVars
  <2>5. Same /\ UNCHANGED <<timer, issued, lasts, age>>
    BY <1>3 DEF ReadSlot, textVars
  <2>6. /\ Stacks' /\ calls'[t] # <<>>
        /\ Head(calls'[t]) \in {c, Call("texts", i + 1)}
        /\ \A u \in Drawers \ {t} : calls'[u] = calls[u]
    <3>1. CASE Replace(t, c)
      BY <3>1, <2>1, <2>3, <1>s, Replaced
    <3>2. CASE Replace(t, Call("texts", i + 1))
      BY <3>2, <2>1, <2>3, <1>s, Replaced
    <3> QED
      BY <2>2, <3>1, <3>2
  <2>7. Head(calls'[t]).pc \notin SetupPlaces
    BY <2>3, <2>6 DEF SetupPlaces
  <2> QED
    BY <2>1, <2>4, <2>5, <2>6, <2>7, RenderKeeps
<1>4. ASSUME DrawText(t) PROVE TInv'
  <2> DEFINE c == Call("texts", Top(t).id + 1)
  <2>1. ~Idle(t) /\ Top(t).id \in Ids /\ Top(t).tex \in 0..MaxCmds
    BY <1>4, <1>s, TopTyped DEF DrawText, At
  <2>2. c \in CallType /\ c.pc = "texts"
    <3>1. Top(t).id + 1 \in 0..NumTexts
      BY <2>1 DEF Ids, TextAssumption
    <3> QED
      BY <3>1, CallTyped
  <2>3. Replace(t, c)
    BY <1>4 DEF DrawText
  <2> HIDE DEF c
  <2>4. Types'
    <3> DEFINE x == Top(t).tex
    <3>2. x # NoTex => x \in 1..MaxCmds
      BY <2>1 DEF NoTex, TextAssumption
    <3>3. back' = back \cup ({x} \ {NoTex}) /\ back \subseteq 1..MaxCmds
      BY <1>4, <1>s DEF DrawText, Types
    <3> HIDE DEF x
    <3>1. back' \subseteq 1..MaxCmds
      BY <3>2, <3>3
    <3> QED
      BY <3>1, <1>4, <1>s DEF Types, DrawText, textVars
  <2>5. Same /\ UNCHANGED <<timer, issued, lasts, age>>
    BY <1>4 DEF DrawText, textVars
  <2>6. Stacks' /\ calls'[t] # <<>> /\ Head(calls'[t]) = c
        /\ \A u \in Drawers \ {t} : calls'[u] = calls[u]
    BY <2>1, <2>2, <2>3, <1>s, Replaced
  <2> QED
    BY <2>1, <2>2, <2>4, <2>5, <2>6, RenderKeeps DEF SetupPlaces
<1>5. ASSUME Present(t) PROVE TInv'
  <2>1. ~Idle(t) /\ Return(t)
    BY <1>5 DEF Present, At
  <2>2. Types'
    BY <1>5, <1>s DEF Types, Present, textVars
  <2>3. Same /\ UNCHANGED <<timer, issued, lasts, age>>
    BY <1>5 DEF Present, textVars
  <2> QED
    BY <2>1, <2>2, <2>3, <1>s, Returned, RenderKeeps
<1>6. ASSUME ClearTest(t) PROVE TInv'
  <2> DEFINE c == Call("clearSlot", Top(t).id)
  <2>1. ~Idle(t) /\ Top(t).id \in Ids
    BY <1>6, <1>s, TopTyped DEF ClearTest, At
  <2>2. c \in CallType /\ c.pc = "clearSlot"
    BY <2>1, CallTyped DEF Places
  <2>3. Return(t) \/ Replace(t, c)
    BY <1>6 DEF ClearTest
  <2> HIDE DEF c
  <2>4. Types'
    BY <1>6, <1>s DEF Types, ClearTest, textVars
  <2>5. Same /\ UNCHANGED <<timer, issued, lasts, age>>
    BY <1>6 DEF ClearTest, textVars
  <2>6. CASE Return(t)
    BY <2>1, <2>4, <2>5, <2>6, <1>s, Returned, RenderKeeps
  <2>7. CASE Replace(t, c)
    <3>1. Stacks' /\ calls'[t] # <<>> /\ Head(calls'[t]) = c
          /\ \A u \in Drawers \ {t} : calls'[u] = calls[u]
      BY <2>1, <2>2, <2>7, <1>s, Replaced
    <3> QED
      BY <2>1, <2>2, <2>4, <2>5, <3>1, RenderKeeps DEF SetupPlaces
  <2> QED
    BY <2>3, <2>6, <2>7
<1>7. ASSUME ClearSlot(t) PROVE TInv'
  <2> DEFINE j == Top(t).id
  <2>1. ~Idle(t) /\ j \in Ids
    BY <1>7, <1>s, TopTyped DEF ClearSlot, At
  <2>2. Call("draw", 0) \in CallType /\ Call("draw", 0).pc = "draw"
    BY CallTyped DEF TextAssumption
  <2>3. Replace(t, Call("draw", 0)) /\ UNCHANGED <<live, dirty, back, shown, textVars>>
    BY <1>7 DEF ClearSlot
  <2> DEFINE f == textFields[j]
             g == [[f EXCEPT !.tex = NoTex] EXCEPT !.active = FALSE]
  <2>4. textFields' = [textFields EXCEPT ![j] = g]
    BY <1>7, <1>s, <2>1 DEF ClearSlot, Types
  <2>g. g \in FieldType /\ g.destroy = f.destroy /\ g.timeout = f.timeout
    BY <1>s, <2>1, ClearedField DEF Types
  <2> HIDE DEF j, g
  <2>5. textFields' \in [Ids -> FieldType] /\ Same
    BY <1>s, <2>1, <2>4, <2>g DEF Types
  <2>6. Types'
    BY <1>s, <2>3, <2>5 DEF Types, textVars
  <2>7. Stacks' /\ calls'[t] # <<>> /\ Head(calls'[t]) = Call("draw", 0)
        /\ \A u \in Drawers \ {t} : calls'[u] = calls[u]
    BY <2>1, <2>2, <2>3, <1>s, Replaced
  <2>8. UNCHANGED <<timer, issued, lasts, age>>
    BY <2>3 DEF textVars
  <2> QED
    BY <2>1, <2>2, <2>5, <2>6, <2>7, <2>8, RenderKeeps DEF SetupPlaces
<1> QED
  BY <1>1, <1>2, <1>3, <1>4, <1>5, <1>6, <1>7 DEF Draw

-------------------------------------------------------------------------------
(* The commands                                                            *)

\* One slot gets a new value.
LEMMA SlotUpdate ==
  ASSUME textFields \in [Ids -> FieldType], NEW i \in Ids, NEW g \in FieldType,
         textFields' = [textFields EXCEPT ![i] = g]
  PROVE  /\ textFields' \in [Ids -> FieldType]
         /\ textFields'[i] = g
         /\ \A j \in Ids : j # i => textFields'[j] = textFields[j]
OBVIOUS

\* No thread is in a region that the thread at work may not interrupt.
LEMMA CmdWaits ==
  ASSUME Separate, May("cmd")
  PROVE  timer.pc = "visit"
<1>1. SUFFICES ASSUME timer.pc # "visit" PROVE FALSE
  OBVIOUS
<1>2. Busy("timer") = {"timer"}
  BY <1>1 DEF Busy
<1>3. "timer" \in Threads \ {"cmd"}
  BY DEF Threads, Drawers
<1> QED
  BY <1>2, <1>3 DEF May, Separate

LEMMA TimerWaits ==
  ASSUME Separate, May("timer")
  PROVE  ~InSetup
<1>1. SUFFICES ASSUME InSetup PROVE FALSE
  OBVIOUS
<1>2. Busy("cmd") = {"setup"}
  BY <1>1 DEF Busy, InSetup, SetupPlaces
<1>3. "cmd" \in Threads \ {"timer"}
  BY DEF Threads, Drawers
<1> QED
  BY <1>2, <1>3 DEF May, Separate

\* setupText, write by write.
LEMMA SetupKeeps ==
  ASSUME TextAssumption, Separate, TInv, Setup
  PROVE  TInv'
<1> DEFINE i == Top("cmd").id
           f == textFields[i]
           Same == \A j \in Ids : /\ textFields'[j].destroy = textFields[j].destroy
                                  /\ textFields'[j].timeout = textFields[j].timeout
<1>s. Stacks /\ Types /\ Times /\ Reading /\ "cmd" \in Drawers
  BY DEF TInv, Drawers
<1>i. /\ ~Idle("cmd") /\ i \in Ids /\ issued \in 1..MaxCmds
  <2>1. ~Idle("cmd") /\ Top("cmd").pc \in SetupPlaces
    BY DEF Setup, SetupDestroy, SetupNull, SetupActivate, SetupTimeout, SetupTex, At,
           SetupPlaces
  <2>2. i \in Ids
    BY <2>1, <1>s, TopTyped DEF SetupPlaces
  <2>3. issued \in 1..MaxCmds
    BY <2>1, <1>s DEF Reading, Types, TextAssumption
  <2> QED
    BY <2>1, <2>2, <2>3
<1>f. /\ f \in FieldType /\ f.tex \in 0..MaxCmds /\ f.timeout \in 0..MaxTimeout
      /\ textFields \in [Ids -> FieldType]
  BY <1>s, <1>i, FieldsTyped DEF Types
<1>c. \A p \in Places : Call(p, i) \in CallType /\ Call(p, i).pc = p /\ Call(p, i).id = i
  BY <1>i, CallTyped
<1>1. ASSUME SetupDestroy PROVE TInv'
  <2>1. Types'
    BY <1>1, <1>s DEF SetupDestroy, Types, drawVars
  <2>2. Times' /\ UNCHANGED <<issued, textFields>>
    BY <1>1, <1>s, TimesKept DEF SetupDestroy, drawVars
  <2>3. PICK p \in {"setNull", "activate"} : Replace("cmd", Call(p, i))
    BY <1>1 DEF SetupDestroy
  <2>4. Stacks' /\ calls'["cmd"] # <<>> /\ Head(calls'["cmd"]) = Call(p, i)
    BY <2>3, <1>s, <1>i, <1>c, Replaced DEF Places
  <2>5. Reading' /\ Unmarked'
    BY <2>2, <2>4, <1>c, <1>i DEF Reading, Unmarked, At, Top, Places
  <2> QED
    BY <2>1, <2>2, <2>4, <2>5 DEF TInv
<1>2. ASSUME SetupNull PROVE TInv'
  <2> DEFINE g == [f EXCEPT !.tex = NoTex]
  <2>1. textFields' = [textFields EXCEPT ![i] = g]
    BY <1>2, <1>f DEF SetupNull
  <2>2. g \in FieldType /\ g.destroy = f.destroy /\ g.timeout = f.timeout
    BY <1>f DEF FieldType, NoTex, TextAssumption
  <2>3. UNCHANGED <<live, issued, asked, lasts, age, drawVars>>
        /\ Replace("cmd", Call("activate", i))
    BY <1>2 DEF SetupNull
  <2> HIDE DEF g, i
  <2>4. textFields' \in [Ids -> FieldType] /\ Same
    BY <1>i, <1>f, <2>1, <2>2, SlotUpdate
  <2>5. Types'
    BY <1>s, <2>3, <2>4 DEF Types, drawVars
  <2>6. Times'
    BY <1>s, <2>3, <2>4, TimesKept DEF drawVars
  <2>7. Stacks' /\ calls'["cmd"] # <<>> /\ Head(calls'["cmd"]) = Call("activate", i)
    BY <2>3, <1>s, <1>i, <1>c, Replaced DEF Places
  <2>8. Reading' /\ Unmarked'
    BY <2>3, <2>7, <1>c, <1>i DEF Reading, Unmarked, At, Top, Places
  <2> QED
    BY <2>5, <2>6, <2>7, <2>8 DEF TInv
<1>3. ASSUME SetupActivate PROVE TInv'
  <2> DEFINE h == [f EXCEPT !.active = TRUE]
             g == [h EXCEPT !.destroy = FALSE]
  <2>1. textFields' = [textFields EXCEPT ![i] = g]
    BY <1>3, <1>f DEF SetupActivate
  <2>2. g \in FieldType /\ g.destroy = FALSE /\ g.timeout = f.timeout
    <3>1. h \in FieldType /\ h.timeout = f.timeout
      BY <1>f DEF FieldType
    <3> HIDE DEF h
    <3> QED
      BY <3>1 DEF FieldType
  <2>3. UNCHANGED <<live, issued, asked, lasts, age, drawVars>>
        /\ Replace("cmd", Call("setTimeout", i))
    BY <1>3 DEF SetupActivate
  <2> HIDE DEF g, h, i
  <2>4. /\ textFields' \in [Ids -> FieldType] /\ ~textFields'[i].destroy
        /\ \A j \in Ids : /\ textFields'[j].destroy => textFields[j].destroy
                          /\ textFields'[j].timeout = textFields[j].timeout
    BY <1>i, <1>f, <2>1, <2>2, SlotUpdate
  <2>5. Types'
    BY <1>s, <2>3, <2>4 DEF Types, drawVars
  <2>6. Times'
    <3>1. timer.id \in Ids /\ UNCHANGED <<timer, lasts, age>>
      BY <1>s, <2>3 DEF Types, drawVars
    <3>2. Countdown' /\ LastSecond'
      BY <1>s, <2>4, <3>1 DEF Times, Countdown, Visited, LastSecond
    <3>3. TextLasts'
      BY <1>s, <2>4, <3>1 DEF Times, TextLasts
    <3> QED
      BY <3>2, <3>3 DEF Times
  <2>7. Stacks' /\ calls'["cmd"] # <<>> /\ Head(calls'["cmd"]) = Call("setTimeout", i)
    BY <2>3, <1>s, <1>i, <1>c, Replaced DEF Places
  <2>8. Reading' /\ Unmarked'
    BY <2>3, <2>4, <2>7, <1>c, <1>i DEF Reading, Unmarked, At, Top, Places
  <2> QED
    BY <2>5, <2>6, <2>7, <2>8 DEF TInv
<1>4. ASSUME SetupTimeout PROVE TInv'
  <2> DEFINE g == [f EXCEPT !.timeout = asked]
  <2>0. timer.pc = "visit"
    BY CmdWaits DEF Setup
  <2>1. /\ textFields' = [textFields EXCEPT ![i] = g]
        /\ lasts' = [lasts EXCEPT ![i] = asked]
        /\ age' = [age EXCEPT ![i] = 0]
        /\ UNCHANGED <<live, issued, asked, drawVars>>
        /\ Replace("cmd", Call("setTex", i))
    BY <1>4, <1>f DEF SetupTimeout
  <2>2. g \in FieldType /\ g.destroy = f.destroy /\ g.timeout = asked
    BY <1>f, <1>s DEF FieldType, Types
  <2>3. ~f.destroy
    BY <1>4 DEF SetupTimeout, TInv, Unmarked
  <2> HIDE DEF g, i
  <2>4. /\ textFields' \in [Ids -> FieldType]
        /\ ~textFields'[i].destroy /\ textFields'[i].timeout = asked
        /\ \A j \in Ids : j # i => textFields'[j] = textFields[j]
    BY <1>i, <1>f, <2>1, <2>2, <2>3, SlotUpdate
  <2>5. /\ lasts' \in [Ids -> 0..MaxTimeout] /\ age' \in [Ids -> 0..MaxTimeout]
        /\ lasts'[i] = asked /\ age'[i] = 0 /\ asked \in 0..MaxTimeout
        /\ \A j \in Ids : j # i => lasts'[j] = lasts[j] /\ age'[j] = age[j]
    BY <1>s, <1>i, <2>1 DEF Types, TextAssumption
  <2>6. Types'
    BY <1>s, <2>1, <2>4, <2>5 DEF Types, drawVars
  <2>7. Times'
    <3>1. timer' = timer
      BY <2>1 DEF drawVars
    <3>2. Countdown'
      <4> SUFFICES ASSUME NEW j \in Ids
                   PROVE  lasts'[j] = age'[j] + textFields'[j].timeout
        BY <2>0, <3>1 DEF Countdown, Visited
      <4>1. CASE j = i
        BY <4>1, <2>4, <2>5
      <4>2. CASE j # i
        BY <4>2, <2>0, <2>4, <2>5, <1>s DEF Times, Countdown, Visited
      <4> QED
        BY <4>1, <4>2
    <3>3. LastSecond'
      BY <2>0, <3>1 DEF LastSecond
    <3>4. TextLasts'
      <4> SUFFICES ASSUME NEW j \in Ids, textFields'[j].destroy
                   PROVE  lasts'[j] > 0 /\ age'[j] >= lasts'[j]
        BY DEF TextLasts
      <4>1. j # i
        BY <2>4
      <4> QED
        BY <4>1, <2>4, <2>5, <1>s DEF Times, TextLasts
    <3> QED
      BY <3>2, <3>3, <3>4 DEF Times
  <2>8. Stacks' /\ calls'["cmd"] # <<>> /\ Head(calls'["cmd"]) = Call("setTex", i)
    BY <2>1, <1>s, <1>i, <1>c, Replaced DEF Places
  <2>9. Reading' /\ Unmarked'
    BY <2>1, <2>8, <1>c, <1>i DEF Reading, Unmarked, At, Top, Places
  <2> QED
    BY <2>6, <2>7, <2>8, <2>9 DEF TInv
<1>5. ASSUME SetupTex PROVE TInv'
  <2> DEFINE g == [f EXCEPT !.tex = issued]
  <2>1. UNCHANGED <<issued, asked, lasts, age, drawVars>> /\ Return("cmd")
    BY <1>5 DEF SetupTex
  <2>2. \/ live' = live \cup {issued} /\ textFields' = [textFields EXCEPT ![i] = g]
        \/ UNCHANGED <<live, textFields>>
    BY <1>5, <1>f DEF SetupTex
  <2>3. g \in FieldType /\ g.destroy = f.destroy /\ g.timeout = f.timeout
    BY <1>f, <1>s DEF FieldType, Types
  <2> HIDE DEF g, i
  <2>4. textFields' \in [Ids -> FieldType] /\ Same
    <3>1. CASE UNCHANGED <<live, textFields>>
      BY <3>1, <1>f
    <3>2. CASE textFields' = [textFields EXCEPT ![i] = g]
      BY <3>2, <1>i, <1>f, <2>3, SlotUpdate
    <3> QED
      BY <2>2, <3>1, <3>2
  <2>5. live' \subseteq 1..MaxCmds
    BY <1>i, <1>s, <2>2 DEF Types
  <2>6. Types'
    BY <1>s, <2>1, <2>4, <2>5 DEF Types, drawVars
  <2>7. Times'
    BY <1>s, <2>1, <2>4, TimesKept DEF drawVars
  <2>8. Stacks' /\ (calls'["cmd"] = <<>> \/ Head(calls'["cmd"]).pc \notin SetupPlaces)
    BY <2>1, <1>s, <1>i, Returned
  <2>9. Reading' /\ Unmarked'
    BY <2>1, <2>8, <1>i DEF Reading, Unmarked, At, Top, Idle, SetupPlaces
  <2> QED
    BY <2>6, <2>7, <2>8, <2>9 DEF TInv
<1> QED
  BY <1>1, <1>2, <1>3, <1>4, <1>5 DEF Setup

\* The stacks commands and redraw requests begin with.
LEMMA OneCall ==
  ASSUME NEW c \in CallType
  PROVE  /\ <<c>> \in Seq(CallType) /\ Below(<<c>>)
         /\ <<c>> # <<>> /\ Head(<<c>>) = c
BY DEF Below

LEMMA TwoCalls ==
  ASSUME NEW c \in CallType, NEW d \in CallType, d.pc \notin SetupPlaces
  PROVE  /\ <<c, d>> \in Seq(CallType) /\ Below(<<c, d>>)
         /\ <<c, d>> # <<>> /\ Head(<<c, d>>) = c
<1>1. \A k \in 2..Len(<<c, d>>) : <<c, d>>[k] = d
  OBVIOUS
<1>2. Below(<<c, d>>)
  BY <1>1 DEF Below
<1> QED
  BY <1>2

\* A new stack for one thread.
LEMMA Started ==
  ASSUME Stacks, NEW t \in Drawers, NEW n \in Seq(CallType), Below(n),
         calls' = [calls EXCEPT ![t] = n]
  PROVE  /\ Stacks' /\ calls'[t] = n
         /\ \A u \in Drawers \ {t} : calls'[u] = calls[u]
<1>1. /\ calls' \in [Drawers -> Seq(CallType)] /\ calls'[t] = n
      /\ \A u \in Drawers \ {t} : calls'[u] = calls[u]
  BY DEF Stacks
<1>2. \A u \in Drawers : Below(calls'[u])
  BY <1>1 DEF Stacks
<1> QED
  BY <1>1, <1>2 DEF Stacks, Below

LEMMA TextCommandKeeps ==
  ASSUME TextAssumption, TInv, TextCommand
  PROVE  TInv'
<1>s. Stacks /\ Types /\ Times /\ "cmd" \in Drawers
  BY DEF TInv, Drawers
<1>1. PICK i \in Ids, n \in 0..MaxTimeout :
        /\ calls' = [calls EXCEPT !["cmd"] = <<Call("setup", i), Call("draw", 0)>>]
        /\ asked' = n
  BY DEF TextCommand
<1>2. /\ issued' = issued + 1 /\ issued < MaxCmds
      /\ UNCHANGED <<textFields, live, lasts, age, drawVars>>
  BY DEF TextCommand
<1>3. issued' \in 1..MaxCmds
  BY <1>2, <1>s DEF Types, TextAssumption
<1>4. Types'
  BY <1>1, <1>2, <1>3, <1>s DEF Types, drawVars
<1>5. Times'
  BY <1>2, <1>s, TimesKept DEF drawVars
<1>6. /\ Call("setup", i) \in CallType /\ Call("setup", i).pc = "setup"
      /\ Call("draw", 0) \in CallType /\ Call("draw", 0).pc \notin SetupPlaces
  BY CallTyped DEF Places, SetupPlaces, TextAssumption
<1>7. /\ Stacks'
      /\ calls'["cmd"] # <<>> /\ Head(calls'["cmd"]) = Call("setup", i)
  BY <1>1, <1>6, <1>s, TwoCalls, Started
<1>8. Reading' /\ Unmarked'
  BY <1>3, <1>6, <1>7 DEF Reading, Unmarked, At, Top
<1> QED
  BY <1>4, <1>5, <1>7, <1>8 DEF TInv

LEMMA ClearCommandKeeps ==
  ASSUME TextAssumption, TInv, ClearCommand
  PROVE  TInv'
<1>s. Stacks /\ Types /\ Times /\ "cmd" \in Drawers
  BY DEF TInv, Drawers
<1>1. PICK i \in Ids : calls' = [calls EXCEPT !["cmd"] = <<Call("clear", i)>>]
  BY DEF ClearCommand
<1>2. /\ issued' = issued + 1 /\ issued < MaxCmds
      /\ UNCHANGED <<textFields, live, asked, lasts, age, drawVars>>
  BY DEF ClearCommand
<1>3. issued' \in 1..MaxCmds
  BY <1>2, <1>s DEF Types, TextAssumption
<1>4. Types'
  BY <1>2, <1>3, <1>s DEF Types, drawVars
<1>5. Times'
  BY <1>2, <1>s, TimesKept DEF drawVars
<1>6. Call("clear", i) \in CallType /\ Call("clear", i).pc = "clear"
  BY CallTyped DEF Places
<1>7. /\ Stacks'
      /\ calls'["cmd"] # <<>> /\ Head(calls'["cmd"]) = Call("clear", i)
  BY <1>1, <1>6, <1>s, OneCall, Started
<1>8. Reading' /\ Unmarked'
  BY <1>3, <1>6, <1>7 DEF Reading, Unmarked, At, Top
<1> QED
  BY <1>4, <1>5, <1>7, <1>8 DEF TInv

LEMMA TakeUpdKeeps ==
  ASSUME TextAssumption, TInv, TakeUpd
  PROVE  TInv'
<1>s. Stacks /\ Types /\ Times /\ "main" \in Drawers
  BY DEF TInv, Drawers
<1>1. /\ queue' = <<>>
      /\ UNCHANGED <<textFields, live, timer, dirty, back, shown, issued, asked,
                     lasts, age>>
      /\ calls' = calls \/ calls' = [calls EXCEPT !["main"] = <<Call("draw", 0)>>]
  BY DEF TakeUpd
<1>2. Types'
  BY <1>1, <1>s DEF Types
<1>3. Times'
  BY <1>1, <1>s, TimesKept
<1>4. Call("draw", 0) \in CallType
  BY CallTyped DEF TextAssumption
<1>5. Stacks' /\ calls'["cmd"] = calls["cmd"]
  <2>1. CASE calls' = calls
    BY <2>1, <1>s DEF Stacks, Below
  <2>2. CASE calls' = [calls EXCEPT !["main"] = <<Call("draw", 0)>>]
    <3>1. Stacks' /\ \A u \in Drawers \ {"main"} : calls'[u] = calls[u]
      BY <2>2, <1>4, <1>s, OneCall, Started
    <3> QED
      BY <3>1 DEF Drawers
  <2> QED
    BY <1>1, <2>1, <2>2
<1>6. Reading' /\ Unmarked'
  BY <1>1, <1>5 DEF TInv, Reading, Unmarked, At, Top, Idle
<1> QED
  BY <1>2, <1>3, <1>5, <1>6 DEF TInv

\* Steps that leave the stacks, the marks and the durations alone.
LEMMA QuietKeeps ==
  ASSUME TInv, Types', Times', UNCHANGED <<calls, issued>>, Unmarked'
  PROVE  TInv'
<1>1. Stacks'
  BY DEF TInv, Stacks, Below
<1>2. Reading'
  BY DEF TInv, Reading, Idle
<1> QED
  BY <1>1, <1>2 DEF TInv

LEMMA FadeStepKeeps ==
  ASSUME TextAssumption, TInv, FadeStep
  PROVE  TInv'
<1>1. /\ dirty' = TRUE /\ queue' = Append(queue, "one")
      /\ UNCHANGED <<textFields, live, calls, timer, back, shown, issued, asked,
                     lasts, age>>
  BY DEF FadeStep
<1>2. Types'
  BY <1>1 DEF TInv, Types
<1>3. Times'
  BY <1>1, TimesKept DEF TInv
<1>4. Unmarked'
  BY <1>1 DEF TInv, Unmarked, At, Top, Idle
<1> QED
  BY <1>1, <1>2, <1>3, <1>4, QuietKeeps

-------------------------------------------------------------------------------
(* The timer                                                               *)

\* The timer, write by write.
LEMMA TimerKeeps ==
  ASSUME TextAssumption, Separate, TInv, timerThread
  PROVE  TInv'
<1> DEFINE i == timer.id
           f == textFields[i]
<1>s. Types /\ Times /\ i \in Ids /\ f \in FieldType /\ f.timeout \in 0..MaxTimeout
  BY FieldsTyped DEF TInv, Types
<1>n. NextSlot(i) \in [pc : {"visit", "deactivate", "mark", "count"}, id : Ids]
      /\ NextSlot(i).pc = "visit"
  <2>1. (i + 1) % NumTexts \in Ids
    BY <1>s DEF Ids, TextAssumption
  <2> QED
    BY <2>1 DEF NextSlot
<1>u. UNCHANGED callVars
  BY DEF timerThread, TimerVisit, TimerDeactivate, TimerMark, TimerCount
<1>m. Unmarked'
  <2>1. ~InSetup
    BY TimerWaits DEF timerThread
  <2>2. ~At("cmd", "setTimeout")
    BY <2>1 DEF InSetup, At, SetupPlaces
  <2> QED
    BY <2>2, <1>u DEF Unmarked, At, Top, Idle, callVars
<1>1. ASSUME TimerVisit PROVE TInv'
  <2>1. timer.pc = "visit" /\ UNCHANGED <<textFields, queue>>
    BY <1>1 DEF TimerVisit
  <2>2. CASE Counts(i)
    <3>1. f.timeout > 0 /\ lasts[i] = age[i] + f.timeout
      BY <2>1, <2>2, <1>s DEF Counts, Times, Countdown, Visited
    <3>2. /\ timer' = [timer EXCEPT !.pc = IF Lapses(i) THEN "deactivate" ELSE "count"]
          /\ age' = [age EXCEPT ![i] = IF @ < MaxTimeout THEN @ + 1 ELSE @]
      BY <1>1, <2>2 DEF TimerVisit
    <3>3. age[i] < MaxTimeout /\ age[i] \in Nat
      BY <3>1, <1>s DEF Types, TextAssumption
    <3>4. /\ timer' \in [pc : {"visit", "deactivate", "mark", "count"}, id : Ids]
          /\ timer'.id = i
          /\ timer'.pc = IF Lapses(i) THEN "deactivate" ELSE "count"
      BY <3>2, <1>s DEF Types
    <3>5. /\ age' \in [Ids -> 0..MaxTimeout] /\ age'[i] = age[i] + 1
          /\ \A j \in Ids : j # i => age'[j] = age[j]
      BY <3>2, <3>3, <1>s DEF Types, TextAssumption
    <3> HIDE DEF i
    <3>6. Types'
      BY <3>4, <3>5, <2>1, <1>u, <1>s DEF Types, callVars
    <3>7. Countdown'
      <4> SUFFICES ASSUME NEW j \in Ids
                   PROVE  /\ ~Visited(j)' => lasts'[j] = age'[j] + textFields'[j].timeout
                          /\ Visited(j)' =>
                               /\ age'[j] > 0 /\ textFields'[j].timeout > 0
                               /\ lasts'[j] + 1 = age'[j] + textFields'[j].timeout
        BY DEF Countdown
      <4>1. Visited(j)' <=> j = i
        BY <3>4 DEF Visited
      <4>2. CASE j = i
        BY <4>1, <4>2, <3>1, <3>3, <3>5, <2>1, <1>u, <1>s DEF callVars
      <4>3. CASE j # i
        <5>1. lasts[j] = age[j] + textFields[j].timeout
          BY <2>1, <1>s DEF Times, Countdown, Visited
        <5> QED
          BY <5>1, <4>1, <4>3, <3>5, <2>1, <1>u DEF callVars
      <4> QED
        BY <4>2, <4>3
    <3>8. LastSecond'
      BY <3>4, <2>1, <1>s DEF LastSecond, Lapses
    <3>9. TextLasts'
      <4> SUFFICES ASSUME NEW j \in Ids, textFields[j].destroy
                   PROVE  lasts[j] > 0 /\ age'[j] >= lasts[j]
        BY <2>1, <1>u DEF TextLasts, callVars
      <4>1. lasts[j] > 0 /\ age[j] >= lasts[j]
        BY <1>s DEF Times, TextLasts
      <4>2. age'[j] >= age[j] /\ age[j] \in Nat /\ age'[j] \in Nat /\ lasts[j] \in Nat
        <5>1. age \in [Ids -> 0..MaxTimeout] /\ lasts \in [Ids -> 0..MaxTimeout]
          BY <1>s DEF Types
        <5>2. age[j] \in Nat /\ age'[j] \in Nat /\ lasts[j] \in Nat
          BY <5>1, <3>5
        <5>3. age'[j] = age[j] \/ age'[j] = age[j] + 1
          BY <3>5
        <5> QED
          BY <5>2, <5>3
      <4> QED
        BY <4>1, <4>2
    <3> QED
      BY <3>6, <3>7, <3>8, <3>9, <1>m, <1>u, QuietKeeps DEF Times, callVars
  <2>3. CASE ~Counts(i)
    <3>1. timer' = NextSlot(i) /\ age' = age
      BY <1>1, <2>3 DEF TimerVisit
    <3>2. Types'
      BY <3>1, <2>1, <1>u, <1>n, <1>s DEF Types, callVars
    <3>3. timer'.pc = "visit"
      BY <3>1, <1>n
    <3>4. Countdown' /\ LastSecond' /\ TextLasts'
      BY <3>1, <3>3, <2>1, <1>u, <1>s
         DEF Times, Countdown, Visited, LastSecond, TextLasts, callVars
    <3> QED
      BY <3>2, <3>4, <1>m, <1>u, QuietKeeps DEF Times, callVars
  <2> QED
    BY <2>2, <2>3
<1>2. ASSUME TimerDeactivate PROVE TInv'
  <2> DEFINE g == [f EXCEPT !.active = FALSE]
  <2>1. /\ timer.pc = "deactivate" /\ textFields' = [textFields EXCEPT ![i] = g]
        /\ timer' = [timer EXCEPT !.pc = "mark"] /\ UNCHANGED <<queue, age>>
    BY <1>2, <1>s DEF TimerDeactivate, Types
  <2>2. g \in FieldType /\ g.destroy = f.destroy /\ g.timeout = f.timeout
    BY <1>s DEF FieldType
  <2>3. /\ timer' \in [pc : {"visit", "deactivate", "mark", "count"}, id : Ids]
        /\ timer'.id = i /\ timer'.pc = "mark"
    BY <2>1, <1>s DEF Types
  <2> HIDE DEF g, i
  <2>4. /\ textFields' \in [Ids -> FieldType]
        /\ \A j \in Ids : /\ textFields'[j].destroy = textFields[j].destroy
                          /\ textFields'[j].timeout = textFields[j].timeout
    BY <2>1, <2>2, <1>s, SlotUpdate DEF Types
  <2>5. Types'
    BY <2>1, <2>3, <2>4, <1>u, <1>s DEF Types, callVars
  <2>6. \A j \in Ids : Visited(j)' <=> Visited(j)
    BY <2>1, <2>3 DEF Visited, i
  <2>7. Countdown' /\ TextLasts'
    BY <2>1, <2>4, <2>6, <1>u, <1>s DEF Times, Countdown, TextLasts, callVars
  <2>8. LastSecond'
    BY <2>1, <2>3, <2>4, <1>s DEF Times, LastSecond, i
  <2> QED
    BY <2>5, <2>7, <2>8, <1>m, <1>u, QuietKeeps DEF Times, callVars
<1>3. ASSUME TimerMark PROVE TInv'
  <2> DEFINE g == [f EXCEPT !.destroy = TRUE]
  <2>1. /\ timer.pc = "mark" /\ textFields' = [textFields EXCEPT ![i] = g]
        /\ queue' = Append(queue, "all")
        /\ timer' = [timer EXCEPT !.pc = "count"] /\ UNCHANGED age
    BY <1>3, <1>s DEF TimerMark, Types
  <2>2. g \in FieldType /\ g.timeout = f.timeout
    BY <1>s DEF FieldType
  <2>3. /\ timer' \in [pc : {"visit", "deactivate", "mark", "count"}, id : Ids]
        /\ timer'.id = i /\ timer'.pc = "count"
    BY <2>1, <1>s DEF Types
  <2>9. f.timeout = 1 /\ age[i] > 0 /\ lasts[i] + 1 = age[i] + f.timeout
    BY <2>1, <1>s DEF Times, LastSecond, Countdown, Visited
  <2> HIDE DEF g, i
  <2>4. /\ textFields' \in [Ids -> FieldType]
        /\ \A j \in Ids : /\ j # i => textFields'[j].destroy = textFields[j].destroy
                          /\ textFields'[j].timeout = textFields[j].timeout
    BY <2>1, <2>2, <1>s, SlotUpdate DEF Types
  <2>5. Types'
    BY <2>1, <2>3, <2>4, <1>u, <1>s DEF Types, callVars
  <2>6. \A j \in Ids : Visited(j)' <=> Visited(j)
    BY <2>1, <2>3 DEF Visited, i
  <2>7. Countdown'
    BY <2>1, <2>4, <2>6, <1>u, <1>s DEF Times, Countdown, callVars
  <2>8. LastSecond'
    BY <2>3 DEF LastSecond
  <2>10. TextLasts'
    <3> SUFFICES ASSUME NEW j \in Ids, textFields'[j].destroy
                 PROVE  lasts[j] > 0 /\ age[j] >= lasts[j]
      BY <2>1, <1>u DEF TextLasts, callVars
    <3>1. CASE j = i
      <4>1. lasts[i] \in Int /\ age[i] \in Int
        BY <1>s DEF Types
      <4> QED
        BY <3>1, <4>1, <2>9
    <3>2. CASE j # i
      BY <3>2, <2>4, <1>s DEF Times, TextLasts
    <3> QED
      BY <3>1, <3>2
  <2> QED
    BY <2>5, <2>7, <2>8, <2>10, <1>m, <1>u, QuietKeeps DEF Times, callVars
<1>4. ASSUME TimerCount PROVE TInv'
  <2> DEFINE g == [f EXCEPT !.timeout = @ - 1]
  <2>1. /\ timer.pc = "count" /\ textFields' = [textFields EXCEPT ![i] = g]
        /\ timer' = NextSlot(i) /\ UNCHANGED <<queue, age>>
    BY <1>4, <1>s DEF TimerCount, Types
  <2>2. f.timeout > 0 /\ lasts[i] + 1 = age[i] + f.timeout
    BY <2>1, <1>s DEF Times, Countdown, Visited
  <2>3. g \in FieldType /\ g.destroy = f.destroy /\ g.timeout = f.timeout - 1
    <3>1. f.timeout - 1 \in 0..MaxTimeout
      BY <2>2, <1>s DEF TextAssumption
    <3> QED
      BY <3>1, <1>s DEF FieldType
  <2>4. timer' \in [pc : {"visit", "deactivate", "mark", "count"}, id : Ids]
        /\ timer'.pc = "visit"
    BY <2>1, <1>n
  <2>p. timer.id = i
    OBVIOUS
  <2> HIDE DEF g, i
  <2>5. /\ textFields' \in [Ids -> FieldType]
        /\ textFields'[i].timeout = f.timeout - 1
        /\ \A j \in Ids : /\ textFields'[j].destroy = textFields[j].destroy
                          /\ j # i => textFields'[j].timeout = textFields[j].timeout
    BY <2>1, <2>3, <1>s, SlotUpdate DEF Types
  <2>6. Types'
    BY <2>1, <2>4, <2>5, <1>u, <1>s DEF Types, callVars
  <2>7. Countdown'
    <3> SUFFICES ASSUME NEW j \in Ids
                 PROVE  lasts[j] = age[j] + textFields'[j].timeout
      BY <2>1, <2>4, <1>u DEF Countdown, Visited, callVars
    <3>1. CASE j = i
      <4>1. lasts[i] \in Int /\ age[i] \in Int
        BY <1>s DEF Types
      <4> QED
        BY <3>1, <4>1, <2>2, <2>5, <1>s
    <3>2. CASE j # i
      BY <3>2, <2>p, <2>5, <1>s DEF Times, Countdown, Visited
    <3> QED
      BY <3>1, <3>2
  <2>8. LastSecond'
    BY <2>4 DEF LastSecond
  <2>9. TextLasts'
    BY <2>1, <2>5, <1>u, <1>s DEF Times, TextLasts, callVars
  <2> QED
    BY <2>6, <2>7, <2>8, <2>9, <1>m, <1>u, QuietKeeps DEF Times, callVars
<1> QED
  BY <1>1, <1>2, <1>3, <1>4 DEF timerThread

-------------------------------------------------------------------------------
(* The theorems                                                            *)

\* The invariant holds at the start and is kept by every step.
LEMMA TInvInit == ASSUME TextAssumption, Init PROVE TInv
<1>1. Types
  BY DEF Init, Types, FieldType, NoText, NoTex, Ids, TextAssumption
<1>2. Stacks
  BY DEF Init, Stacks, Below
<1>3. Reading /\ Unmarked
  BY DEF Init, Reading, Unmarked, At, Idle, Drawers
<1>4. Times
  BY DEF Init, Times, Countdown, Visited, LastSecond, TextLasts, NoText
<1> QED
  BY <1>1, <1>2, <1>3, <1>4 DEF TInv

LEMMA TInvStep ==
  ASSUME TextAssumption, Separate, TInv, [Next]_vars
  PROVE  TInv'
<1>1. CASE UNCHANGED vars
  BY <1>1 DEF TInv, Types, Stacks, Below, Reading, Unmarked, Times, Countdown, Visited,
              LastSecond, TextLasts, At, Top, Idle, vars
<1>2. CASE Next
  BY <1>2, DrawKeeps, TakeUpdKeeps, FadeStepKeeps, TextCommandKeeps, ClearCommandKeeps,
     SetupKeeps, TimerKeeps DEF Next
<1> QED
  BY <1>1, <1>2

LEMMA TInvTyped == ASSUME TInv PROVE TypeOK
<1>1. CallType \subseteq [pc : Places, id : 0..NumTexts, tex : 0..MaxCmds]
  BY DEF CallType
<1>2. \A t \in Drawers : calls[t] \in Seq([pc : Places, id : 0..NumTexts, tex : 0..MaxCmds])
  BY <1>1, SeqMonotonic DEF TInv, Stacks
<1> QED
  BY <1>2 DEF TInv, Types, TypeOK, FieldType

\* Every variable keeps its type when neither the timer nor setupText is
\* interrupted by the other. The one that could be wrong is the timeout: the timer
\* tests it (start 419) and counts it down two writes later (start 429), and it
\* still never falls below 0.
THEOREM TextTyped ==
  ASSUME Separate
  PROVE  Spec => []TypeOK
<1>1. Init => TInv
  BY TextAssumption, TInvInit
<1>2. TInv /\ [Next]_vars => TInv'
  BY TextAssumption, TInvStep
<1> QED
  BY <1>1, <1>2, TInvTyped, PTL DEF Spec

\* A text is never marked as expired (start 423) before the timer has counted the
\* duration setupText gave it, however main's redraws interleave with both, and
\* also when the slot is set up again while its former text expires.
THEOREM Expiry ==
  ASSUME Separate
  PROVE  Spec => []TextLasts
<1>1. Init => TInv
  BY TextAssumption, TInvInit
<1>2. TInv /\ [Next]_vars => TInv'
  BY TextAssumption, TInvStep
<1>3. TInv => TextLasts
  BY DEF TInv, Times
<1> QED
  BY <1>1, <1>2, <1>3, PTL DEF Spec
===============================================================================
