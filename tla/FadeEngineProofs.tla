--------------------------- MODULE FadeEngineProofs ---------------------------
(***************************************************************************)
(* Proofs about the picture engine, for every value of the constants and   *)
(* every interleaving of its threads: the gate blockCommands is never open *)
(* during a fade, and at most one slot fades.                              *)
(*                                                                         *)
(* Neither property is inductive.  What carries them is GateInv: where the *)
(* command thread is in its handler decides what the fader can be doing.   *)
(* Then the types of all variables, and, when the blocks of the fader are  *)
(* not interrupted, the life of the textures: none is destroyed twice, and *)
(* none is drawn after it was destroyed.                                   *)
(***************************************************************************)
EXTENDS FadeEngine, WellFoundedInduction, TLAPS

Unarmed == {"fadein", "fadeout", "fadeover", "fadeloop", "draw"}

\* Nothing fades and the fader is between two blocks.
Quiet == NoFade(textures) /\ fader.pc = "scan"

\* An unfaded slot has no source left from an earlier fade.
SrcClean == \A s \in Slots : ~Fading(textures, s) => textures[s].fadesrc = 0

\* What the fader tested still holds when it acts on it; slot 2 never fades.
FaderInv ==
  /\ fader.pc = "toggle" => textures[fader.slot].fadeloop > 0
  /\ fader.pc = "finish" => Fading(textures, fader.slot)
  /\ ~Fading(textures, TempSlot)

\* Between the two writes of fadeloop only slot 0 can fade, from itself.
LoopInv ==
  cmd.pc = "loop2" =>
    /\ \A s \in Slots : Fading(textures, s) => s = 0
    /\ textures[0].fadesrc = 0
    /\ textures[0].fadeover = 0 \/ fader.pc = "toggleEnd"
    /\ fader.pc # "finish"
    /\ fader.pc = "toggle" => fader.slot = 0
    /\ fader.pc = "toggleEnd" => fader.slot = 0 /\ fader.src = 0

GateInv ==
  /\ cmd.pc = "gate" /\ ~blockCommands => Quiet
  /\ cmd.pc \in Unarmed => Quiet
  /\ ExclusiveFade
  /\ SrcClean
  /\ FaderInv
  /\ LoopInv

IInv == ControlTypeOK /\ GateInv

-------------------------------------------------------------------------------
(* What the steps do to the slots.                                         *)

SameFade(r, q) == /\ q.fadein = r.fadein /\ q.fadeover = r.fadeover
                  /\ q.fadeloop = r.fadeloop /\ q.fadesrc = r.fadesrc

Faded(r) == r.fadein = 0 /\ r.fadeover = 0 /\ r.fadeloop = 0 /\ r.fadesrc = 0

OthersSame(T, U, i) == \A s \in Slots \ {i} : U[s] = T[s]

LEMMA BlankFields ==
  ASSUME NEW t
  PROVE  Faded(Blank(t)) /\ Blank(t).tex = t /\ Blank(t) \in Slot(t)
BY ConstantsAssumption DEF Blank, Slot, Faded

LEMMA ResetSlot ==
  ASSUME NEW T, SlotsOK(T), NEW i \in Slots
  PROVE  /\ SlotsOK(resetTexture(T, i))
         /\ resetTexture(T, i)[i] = Blank(T[i].tex)
         /\ OthersSame(T, resetTexture(T, i), i)
<1>1. resetTexture(T, i) = [s \in Slots |-> IF s = i THEN Blank(T[i].tex) ELSE T[s]]
  BY DEF resetTexture, SlotsOK
<1> QED
  BY <1>1, BlankFields DEF SlotsOK, OthersSame

\* A slot is overwritten by a well typed record.
LEMMA PutSlot ==
  ASSUME NEW T, SlotsOK(T), NEW i \in Slots, NEW r, r \in Slot(r.tex)
  PROVE  /\ SlotsOK([T EXCEPT ![i] = r])
         /\ [T EXCEPT ![i] = r][i] = r
         /\ OthersSame(T, [T EXCEPT ![i] = r], i)
<1>1. [T EXCEPT ![i] = r] = [s \in Slots |-> IF s = i THEN r ELSE T[s]]
  BY DEF SlotsOK
<1> QED
  BY <1>1 DEF SlotsOK, OthersSame

\* The same when the record keeps the texture.
LEMMA UpdateSlot ==
  ASSUME NEW T, SlotsOK(T), NEW i \in Slots, NEW r \in Slot(T[i].tex)
  PROVE  /\ SlotsOK([T EXCEPT ![i] = r])
         /\ [T EXCEPT ![i] = r][i] = r
         /\ OthersSame(T, [T EXCEPT ![i] = r], i)
<1>1. r.tex = T[i].tex
  BY DEF Slot
<1>2. r \in Slot(r.tex)
  BY <1>1
<1> QED
  BY <1>2, PutSlot, Zenon

LEMMA FadeinLastEffect ==
  ASSUME SlotsOK(textures), NEW i \in Slots, FadeinLast(i)
  PROVE  SlotsOK(textures') /\ Faded(textures'[i]) /\ OthersSame(textures, textures', i)
<1> DEFINE R == resetTexture(textures, i)
           r == [Blank(textures[i].tex) EXCEPT !.alpha = FadeMax]
<1>1. SlotsOK(R) /\ R[i] = Blank(textures[i].tex) /\ OthersSame(textures, R, i)
  BY ResetSlot
<1>2. textures' = [R EXCEPT ![i].alpha = FadeMax]
  BY DEF FadeinLast
<1> HIDE DEF R
<1>3. textures' = [R EXCEPT ![i] = r]
  BY <1>1, <1>2
<1>4. Blank(textures[i].tex) \in Slot(textures[i].tex) /\ Faded(Blank(textures[i].tex))
  BY BlankFields
<1>5. r \in Slot(textures[i].tex) 
  BY <1>4, ConstantsAssumption DEF Slot
<1>6. Faded(r)
  BY <1>4, <1>5 DEF Slot, Faded
<1> HIDE DEF r
<1>7. SlotsOK(R) /\ r \in Slot(R[i].tex)
  BY <1>1, <1>5, BlankFields
<1>8. /\ SlotsOK([R EXCEPT ![i] = r])
      /\ [R EXCEPT ![i] = r][i] = r
      /\ OthersSame(R, [R EXCEPT ![i] = r], i)
  BY <1>7, UpdateSlot
<1> QED
  BY <1>1, <1>3, <1>6, <1>8 DEF OthersSame

LEMMA FadeinTickEffect ==
  ASSUME SlotsOK(textures), NEW i \in Slots, FadeinTick(i)
  PROVE  /\ SlotsOK(textures')
         /\ OthersSame(textures, textures', i)
         /\ textures'[i].fadein > 0
         /\ textures'[i].fadein = textures[i].fadein - 1
         /\ textures'[i].fadeover = textures[i].fadeover
         /\ textures'[i].fadesrc = textures[i].fadesrc
         /\ textures'[i].fadeloop = textures[i].fadeloop
         /\ textures'[i].alpha = FadeMax - textures'[i].fadein
<1> DEFINE n == textures[i].fadein - 1
           a == FadeMax - n
           r == [textures[i] EXCEPT !.fadein = n, !.dirty = TRUE, !.alpha = a]
<1>1. textures[i] \in Slot(textures[i].tex) /\ textures[i].fadein > 1
  BY DEF SlotsOK, FadeinTick
<1>2. n \in 0..FadeMax /\ n > 0 /\ a \in 0..FadeMax
  BY <1>1, ConstantsAssumption DEF Slot
<1>3. textures' = [textures EXCEPT ![i] = r]
  BY DEF FadeinTick, SlotsOK
<1> HIDE DEF n, a
<1>4. r \in Slot(textures[i].tex)
  BY <1>1, <1>2 DEF Slot
<1>5. /\ r.fadein = n /\ r.fadeover = textures[i].fadeover
      /\ r.fadesrc = textures[i].fadesrc /\ r.fadeloop = textures[i].fadeloop
      /\ r.alpha = a
  BY <1>1, <1>4 DEF Slot
<1> HIDE DEF r
<1>6. SlotsOK(textures') /\ textures'[i] = r /\ OthersSame(textures, textures', i)
  BY <1>3, <1>4, UpdateSlot
<1> QED
  BY <1>2, <1>5, <1>6 DEF n, a

LEMMA FadeoverTickEffect ==
  ASSUME SlotsOK(textures), NEW i \in Slots, FadeoverTick(i)
  PROVE  /\ SlotsOK(textures')
         /\ OthersSame(textures, textures', i)
         /\ textures'[i].fadeover > 0
         /\ textures'[i].fadeover = textures[i].fadeover - 1
         /\ textures'[i].fadein = textures[i].fadein
         /\ textures'[i].fadesrc = textures[i].fadesrc
         /\ textures'[i].fadeloop = textures[i].fadeloop
<1> DEFINE n == textures[i].fadeover - 1
           r == [textures[i] EXCEPT !.fadeover = n, !.dirty = TRUE, !.alpha = n]
<1>1. textures[i] \in Slot(textures[i].tex) /\ textures[i].fadeover > 1
  BY DEF SlotsOK, FadeoverTick
<1>2. n \in 0..FadeMax /\ n > 0
  BY <1>1, ConstantsAssumption DEF Slot
<1>3. textures' = [textures EXCEPT ![i] = r]
  BY DEF FadeoverTick, SlotsOK
<1> HIDE DEF n
<1>4. r \in Slot(textures[i].tex)
  BY <1>1, <1>2 DEF Slot
<1>5. /\ r.fadeover = n /\ r.fadein = textures[i].fadein
      /\ r.fadesrc = textures[i].fadesrc /\ r.fadeloop = textures[i].fadeloop
  BY <1>1, <1>4 DEF Slot
<1> HIDE DEF r
<1>6. SlotsOK(textures') /\ textures'[i] = r /\ OthersSame(textures, textures', i)
  BY <1>3, <1>4, UpdateSlot
<1> QED
  BY <1>2, <1>5, <1>6 DEF n

LEMMA ArmNextLegEffect ==
  ASSUME NEW T, SlotsOK(T), NEW i \in {0, 1}, NEW src \in {0, 1},
         T[i].fadeloop > 0
  PROVE  /\ SlotsOK(ArmNextLeg(T, i, src))
         /\ OthersSame(T, ArmNextLeg(T, i, src), src)
         /\ ArmNextLeg(T, i, src)[src].fadeover = FadeMax
         /\ ArmNextLeg(T, i, src)[src].fadesrc = i
         /\ ArmNextLeg(T, i, src)[src].fadein = 0
         /\ i # src => ArmNextLeg(T, i, src)[src].fadeloop = T[i].fadeloop - 1
<1> DEFINE R == resetTexture(T, src)
           n == R[i].fadeloop - 1
           r == [Blank(T[src].tex) EXCEPT !.fadeover = FadeMax, !.fadeloop = n,
                                          !.fadesrc = i, !.active = TRUE]
<1>1. SlotsOK(R) /\ R[src] = Blank(T[src].tex) /\ OthersSame(T, R, src)
  BY ResetSlot DEF Slots
<1>2. (R[i].fadeloop = 0 /\ i = src) \/ R[i].fadeloop = T[i].fadeloop
  BY <1>1, BlankFields DEF OthersSame, Slots, Faded
<1>3. T[i].fadeloop \in 1..MaxLoop
  BY ConstantsAssumption DEF SlotsOK, Slot, Slots
<1> HIDE DEF R
<1>4. n \in -1..MaxLoop /\ (i # src => n = T[i].fadeloop - 1)
  BY <1>2, <1>3, ConstantsAssumption
<1>5. ArmNextLeg(T, i, src) = [R EXCEPT ![src] = r]
  BY <1>1 DEF ArmNextLeg, R
<1> HIDE DEF n
<1>6. Blank(T[src].tex) \in Slot(T[src].tex) /\ Blank(T[src].tex).fadein = 0
  BY BlankFields DEF Faded
<1>7. FadeMax \in 0..FadeMax
  BY ConstantsAssumption
<1>8. r \in Slot(T[src].tex)
  BY <1>4, <1>6, <1>7 DEF Slot
<1>9. r.fadeover = FadeMax /\ r.fadesrc = i /\ r.fadein = 0 /\ r.fadeloop = n
  BY <1>6, <1>8 DEF Slot
<1> HIDE DEF r
<1>10. src \in Slots /\ SlotsOK(R) /\ R[src].tex = T[src].tex
  BY <1>1, BlankFields DEF Slots
<1>11. /\ SlotsOK([R EXCEPT ![src] = r])
       /\ [R EXCEPT ![src] = r][src] = r
       /\ OthersSame(R, [R EXCEPT ![src] = r], src)
  BY <1>8, <1>10, UpdateSlot
<1> QED
  BY <1>1, <1>4, <1>5, <1>9, <1>11 DEF OthersSame

LEMMA SetActive ==
  ASSUME NEW T, SlotsOK(T), NEW i \in Slots, NEW b \in BOOLEAN
  PROVE  /\ SlotsOK([T EXCEPT ![i].active = b])
         /\ OthersSame(T, [T EXCEPT ![i].active = b], i)
         /\ SameFade(T[i], [T EXCEPT ![i].active = b][i])
<1> DEFINE r == [T[i] EXCEPT !.active = b]
<1>1. T[i] \in Slot(T[i].tex)
  BY DEF SlotsOK
<1>2. [T EXCEPT ![i].active = b] = [T EXCEPT ![i] = r]
  BY DEF SlotsOK
<1>3. r \in Slot(T[i].tex)
  BY <1>1 DEF Slot
<1>4. SameFade(T[i], r)
  BY <1>1 DEF Slot, SameFade
<1> HIDE DEF r
<1>5. /\ SlotsOK([T EXCEPT ![i] = r]) /\ [T EXCEPT ![i] = r][i] = r
      /\ OthersSame(T, [T EXCEPT ![i] = r], i)
  BY <1>3, UpdateSlot
<1> QED
  BY <1>2, <1>4, <1>5

LEMMA MoveEffect ==
  ASSUME NEW T, SlotsOK(T), NEW i \in Slots, NEW src \in Slots
  PROVE  /\ SlotsOK(MoveTexture(T, i, src))
         /\ Faded(MoveTexture(T, i, src)[i]) /\ Faded(MoveTexture(T, i, src)[src])
         /\ \A s \in Slots \ {i, src} : MoveTexture(T, i, src)[s] = T[s]
<1> DEFINE C == copyTexture(T, i, src)
           R == resetTexture(C, src)
           Q == resetTexture(R, i)
           A == [Q EXCEPT ![i].active = FALSE]
           B == [A EXCEPT ![src].active = TRUE]
<1>1. SlotsOK(C) /\ OthersSame(T, C, src)
  BY PutSlot DEF copyTexture, SlotsOK
<1>2. SlotsOK(R) /\ Faded(R[src]) /\ OthersSame(C, R, src)
  BY <1>1, ResetSlot, BlankFields
<1>3. SlotsOK(Q) /\ Faded(Q[i]) /\ OthersSame(R, Q, i)
  BY <1>2, ResetSlot, BlankFields
<1>4. SlotsOK(A) /\ SameFade(Q[i], A[i]) /\ OthersSame(Q, A, i)
  BY <1>3, SetActive
<1>5. SlotsOK(B) /\ SameFade(A[src], B[src]) /\ OthersSame(A, B, src)
  BY <1>4, SetActive
<1>6. MoveTexture(T, i, src) = B
  BY DEF MoveTexture
<1> HIDE DEF C, R, Q, A, B
<1> QED
  BY <1>1, <1>2, <1>3, <1>4, <1>5, <1>6 DEF OthersSame, SameFade, Faded

\* What the commands write to their slot.
LEMMA FadeInEffect ==
  ASSUME SlotsOK(textures), FadeIn
  PROVE  SlotsOK(textures') /\ OthersSame(textures, textures', 0)
         /\ textures'[0].fadein = FadeMax
         /\ textures'[0].fadeover = textures[0].fadeover
         /\ textures'[0].fadeloop = textures[0].fadeloop
<1> DEFINE r == [textures[0] EXCEPT !.active = TRUE, !.fadein = FadeMax]
<1>1. 0 \in Slots /\ textures[0] \in Slot(textures[0].tex) /\ FadeMax \in 0..FadeMax
  BY ConstantsAssumption DEF SlotsOK, Slots
<1>2. textures' = [textures EXCEPT ![0] = r]
  BY <1>1 DEF FadeIn, SlotsOK
<1>3. r \in Slot(textures[0].tex) /\ r.fadein = FadeMax
      /\ r.fadeover = textures[0].fadeover /\ r.fadeloop = textures[0].fadeloop
  BY <1>1 DEF Slot
<1> HIDE DEF r
<1>4. /\ SlotsOK([textures EXCEPT ![0] = r])
      /\ [textures EXCEPT ![0] = r][0] = r
      /\ OthersSame(textures, [textures EXCEPT ![0] = r], 0)
  BY <1>1, <1>3, UpdateSlot
<1> QED
  BY <1>2, <1>3, <1>4

LEMMA FadeOutEffect ==
  ASSUME SlotsOK(textures), FadeOut
  PROVE  SlotsOK(textures') /\ OthersSame(textures, textures', 0)
         /\ SameFade(textures[0], textures'[0])
<1> DEFINE r == [textures[0] EXCEPT !.active = TRUE, !.fadeout = FadeMax]
<1>1. 0 \in Slots /\ textures[0] \in Slot(textures[0].tex)
  BY DEF SlotsOK, Slots
<1>2. textures' = [textures EXCEPT ![0] = r]
  BY <1>1 DEF FadeOut, SlotsOK
<1>3. r \in Slot(textures[0].tex) /\ SameFade(textures[0], r)
  BY <1>1 DEF Slot, SameFade
<1> HIDE DEF r
<1> QED
  BY <1>1, <1>2, <1>3, UpdateSlot

LEMMA FadeOverEffect ==
  ASSUME SlotsOK(textures), FadeOver
  PROVE  SlotsOK(textures') /\ OthersSame(textures, textures', 1)
         /\ textures'[1].fadeover = FadeMax
         /\ textures'[1].fadesrc = 0
         /\ textures'[1].fadein = textures[1].fadein
         /\ textures'[1].fadeloop = textures[1].fadeloop
<1> DEFINE r == [textures[1] EXCEPT !.fadeover = FadeMax, !.fadesrc = 0, !.active = TRUE]
<1>1. 1 \in Slots /\ textures[1] \in Slot(textures[1].tex) /\ FadeMax \in 0..FadeMax
  BY ConstantsAssumption DEF SlotsOK, Slots
<1>2. textures' = [textures EXCEPT ![1] = r]
  BY <1>1 DEF FadeOver, SlotsOK
<1>3. /\ r \in Slot(textures[1].tex) /\ r.fadeover = FadeMax /\ r.fadesrc = 0
      /\ r.fadein = textures[1].fadein /\ r.fadeloop = textures[1].fadeloop
  BY <1>1 DEF Slot
<1> HIDE DEF r
<1>4. /\ SlotsOK([textures EXCEPT ![1] = r])
      /\ [textures EXCEPT ![1] = r][1] = r
      /\ OthersSame(textures, [textures EXCEPT ![1] = r], 1)
  BY <1>1, <1>3, UpdateSlot
<1> QED
  BY <1>2, <1>3, <1>4

LEMMA FadeLoopEffect ==
  ASSUME SlotsOK(textures), cmd.loop \in -1..MaxLoop, FadeLoop
  PROVE  SlotsOK(textures') /\ OthersSame(textures, textures', 0)
         /\ textures'[0].fadein = textures[0].fadein
         /\ textures'[0].fadeloop = cmd.loop
         /\ textures'[0].fadeover = textures[0].fadeover
         /\ textures'[0].fadesrc = textures[0].fadesrc
<1> DEFINE n == cmd.loop
           r == [textures[0] EXCEPT !.fadeloop = n]
<1>1. 0 \in Slots /\ textures[0] \in Slot(textures[0].tex) /\ n \in -1..MaxLoop
  BY DEF SlotsOK, Slots
<1>2. textures' = [textures EXCEPT ![0] = r]
  BY <1>1 DEF FadeLoop, SlotsOK
<1> HIDE DEF n
<1>3. r \in Slot(textures[0].tex)
  BY <1>1 DEF Slot
<1>4. /\ r.fadein = textures[0].fadein /\ r.fadeloop = n
      /\ r.fadeover = textures[0].fadeover /\ r.fadesrc = textures[0].fadesrc
  BY <1>1, <1>3 DEF Slot
<1> HIDE DEF r
<1>5. /\ SlotsOK([textures EXCEPT ![0] = r])
      /\ [textures EXCEPT ![0] = r][0] = r
      /\ OthersSame(textures, [textures EXCEPT ![0] = r], 0)
  BY <1>1, <1>3, UpdateSlot
<1> QED
  BY <1>2, <1>4, <1>5 DEF n

LEMMA FadeLoop2Effect ==
  ASSUME SlotsOK(textures), FadeLoop2
  PROVE  SlotsOK(textures') /\ OthersSame(textures, textures', 0)
         /\ textures'[0].fadeover = FadeMax
         /\ textures'[0].fadesrc = 1
         /\ textures'[0].fadein = textures[0].fadein
         /\ textures'[0].fadeloop = textures[0].fadeloop
<1> DEFINE r == [textures[0] EXCEPT !.fadeover = FadeMax, !.fadesrc = 1, !.active = TRUE]
<1>1. 0 \in Slots /\ textures[0] \in Slot(textures[0].tex) /\ FadeMax \in 0..FadeMax
  BY ConstantsAssumption DEF SlotsOK, Slots
<1>2. textures' = [textures EXCEPT ![0] = r]
  BY <1>1 DEF FadeLoop2, SlotsOK
<1>3. /\ r \in Slot(textures[0].tex) /\ r.fadeover = FadeMax /\ r.fadesrc = 1
      /\ r.fadein = textures[0].fadein /\ r.fadeloop = textures[0].fadeloop
  BY <1>1 DEF Slot
<1> HIDE DEF r
<1> QED
  BY <1>1, <1>2, <1>3, UpdateSlot

\* Main replaces textures and clears dirty flags; the fades do not notice.
FadesSame(T, U) == \A s \in Slots : SameFade(T[s], U[s])

LEMMA SetTex ==
  ASSUME NEW T, SlotsOK(T), NEW i, NEW t
  PROVE  SlotsOK([T EXCEPT ![i].tex = t]) /\ FadesSame(T, [T EXCEPT ![i].tex = t])
<1> DEFINE U == [T EXCEPT ![i].tex = t]
           r == [T[i] EXCEPT !.tex = t]
<1>1. U = [s \in Slots |-> IF s = i THEN r ELSE T[s]]
  BY DEF SlotsOK
<1>2. ASSUME i \in Slots
      PROVE  r.tex = t /\ r \in Slot(t) /\ SameFade(T[i], r)
  <2>1. T[i] \in Slot(T[i].tex)
    BY <1>2 DEF SlotsOK
  <2> QED
    BY <2>1 DEF Slot, SameFade
<1> HIDE DEF r, U
<1>3. ASSUME NEW s \in Slots
      PROVE  U[s] \in Slot(U[s].tex) /\ SameFade(T[s], U[s])
  <2>1. CASE s = i
    BY <1>1, <1>2, <2>1
  <2>2. CASE s # i
    BY <1>1, <2>2 DEF SlotsOK, SameFade
  <2> QED
    BY <2>1, <2>2
<1> QED
  BY <1>1, <1>3 DEF SlotsOK, FadesSame, U

LEMMA SetDirty ==
  ASSUME NEW T, SlotsOK(T), NEW i
  PROVE  SlotsOK([T EXCEPT ![i].dirty = FALSE]) /\ FadesSame(T, [T EXCEPT ![i].dirty = FALSE])
<1> DEFINE U == [T EXCEPT ![i].dirty = FALSE]
           r == [T[i] EXCEPT !.dirty = FALSE]
<1>1. U = [s \in Slots |-> IF s = i THEN r ELSE T[s]]
  BY DEF SlotsOK
<1>2. ASSUME i \in Slots
      PROVE  r.tex = T[i].tex /\ r \in Slot(T[i].tex) /\ SameFade(T[i], r)
  <2>1. T[i] \in Slot(T[i].tex)
    BY <1>2 DEF SlotsOK
  <2> QED
    BY <2>1 DEF Slot, SameFade
<1> HIDE DEF r, U
<1>3. ASSUME NEW s \in Slots
      PROVE  U[s] \in Slot(U[s].tex) /\ SameFade(T[s], U[s])
  <2>1. CASE s = i
    BY <1>1, <1>2, <2>1
  <2>2. CASE s # i
    BY <1>1, <2>2 DEF SlotsOK, SameFade
  <2> QED
    BY <2>1, <2>2
<1> QED
  BY <1>1, <1>3 DEF SlotsOK, FadesSame, U

-------------------------------------------------------------------------------
(* The inductive invariant, one lemma per action of the fader and of the   *)
(* command thread; the other threads leave what it speaks of alone.        *)

LEMMA InitIInv == Init => IInv
<1> SUFFICES ASSUME Init PROVE IInv
  OBVIOUS
<1>1. \A s \in Slots : textures[s] = Blank(IF s = TempSlot THEN 1 ELSE NoTex)
  BY DEF Init
<1>2. \A s \in Slots : Faded(textures[s])
  BY <1>1, BlankFields
<1>3. SlotsOK(textures)
  BY <1>1, BlankFields DEF Init, SlotsOK
<1>4. 0 \in -1..MaxLoop
  BY ConstantsAssumption
<1>5. ControlTypeOK
  BY <1>3, <1>4 DEF Init, ControlTypeOK
<1> QED
  BY <1>2, <1>5 DEF Init, IInv, GateInv, Quiet, NoFade, Fading, Faded, ExclusiveFade,
     SrcClean, FaderInv, LoopInv, Slots, TempSlot

\* Steps that touch neither the fades nor the places of the two threads.
LEMMA SameIInv ==
  ASSUME IInv, SlotsOK(textures'), FadesSame(textures, textures'),
         UNCHANGED <<blockCommands, cmd, fader>>
  PROVE  IInv'
<1>1. \A s \in Slots : Fading(textures', s) <=> Fading(textures, s)
  BY DEF FadesSame, SameFade, Fading
<1>2. ControlTypeOK'
  BY DEF IInv, ControlTypeOK
<1>3. Quiet' <=> Quiet
  BY <1>1 DEF Quiet, NoFade
<1>4. ExclusiveFade'
  BY <1>1 DEF IInv, GateInv, ExclusiveFade
<1>5. SrcClean'
  BY <1>1 DEF IInv, GateInv, SrcClean, FadesSame, SameFade
<1>6. FaderInv'
  BY <1>1 DEF IInv, GateInv, FaderInv, ControlTypeOK, FadesSame, SameFade, Slots, TempSlot
<1>7. LoopInv'
  BY <1>1 DEF IInv, GateInv, LoopInv, FadesSame, SameFade, Slots
<1> QED
  BY <1>2, <1>3, <1>4, <1>5, <1>6, <1>7 DEF IInv, GateInv

LEMMA FadeinLastIInv ==
  ASSUME IInv, NEW i \in Slots, fader.pc = "scan", FadeinLast(i)
  PROVE  IInv' /\ NoFade(textures')
<1>1. SlotsOK(textures') /\ Faded(textures'[i]) /\ OthersSame(textures, textures', i)
  BY FadeinLastEffect DEF IInv, ControlTypeOK
<1>2. Fading(textures, i)
  BY DEF FadeinLast, Fading
<1>3. \A s \in Slots : ~Fading(textures', s)
  BY <1>1, <1>2 DEF IInv, GateInv, ExclusiveFade, OthersSame, Fading, Faded
<1>4. UNCHANGED <<cmd, fader>> /\ blockCommands' = FALSE
  BY DEF FadeinLast
<1>5. ControlTypeOK'
  BY <1>1, <1>4 DEF IInv, ControlTypeOK
<1>6. SrcClean'
  BY <1>1, <1>2 DEF IInv, GateInv, SrcClean, ExclusiveFade, OthersSame, Faded
<1>7. LoopInv'
  BY <1>1, <1>3, <1>4 DEF IInv, GateInv, LoopInv, OthersSame, Faded, Slots
<1> QED
  BY <1>3, <1>4, <1>5, <1>6, <1>7
     DEF IInv, GateInv, Quiet, NoFade, ExclusiveFade, FaderInv, TempSlot, Slots

\* A tick of either kind: slot i goes on fading, the gate is closed.
LEMMA TickIInv ==
  ASSUME IInv, NEW i \in Slots, fader.pc = "scan",
         Fading(textures, i), Fading(textures', i),
         cmd.pc = "loop2" => textures'[0].fadeover = 0,
         SlotsOK(textures'), OthersSame(textures, textures', i),
         textures'[i].fadesrc = textures[i].fadesrc,
         UNCHANGED <<cmd, fader>>, blockCommands' = TRUE
  PROVE  IInv'
<1>1. \A s \in Slots : Fading(textures', s) <=> Fading(textures, s)
  BY DEF OthersSame, Fading
<1>2. ControlTypeOK'
  BY DEF IInv, ControlTypeOK
<1>3. ~Quiet
  BY DEF Quiet, NoFade
<1>4. ExclusiveFade'
  BY <1>1 DEF IInv, GateInv, ExclusiveFade
<1>5. SrcClean'
  BY <1>1 DEF IInv, GateInv, SrcClean, OthersSame
<1>6. FaderInv'
  BY <1>1 DEF IInv, GateInv, FaderInv, TempSlot, Slots
<1>7. LoopInv'
  BY <1>1 DEF IInv, GateInv, LoopInv, OthersSame, Slots
<1> QED
  BY <1>2, <1>3, <1>4, <1>5, <1>6, <1>7 DEF IInv, GateInv

LEMMA FadeinTickIInv ==
  ASSUME IInv, NEW i \in Slots, fader.pc = "scan", FadeinTick(i)
  PROVE  IInv'
<1>1. /\ SlotsOK(textures') /\ OthersSame(textures, textures', i)
      /\ textures'[i].fadein > 0 /\ textures'[i].fadeover = textures[i].fadeover
      /\ textures'[i].fadesrc = textures[i].fadesrc
  BY FadeinTickEffect DEF IInv, ControlTypeOK
<1>2. Fading(textures, i) /\ Fading(textures', i)
  <2>1. textures[i].fadein \in Int /\ textures[i].fadein > 1
    BY DEF FadeinTick, IInv, ControlTypeOK, SlotsOK, Slot
  <2> QED
    BY <1>1, <2>1 DEF Fading
<1>3. UNCHANGED <<cmd, fader>> /\ blockCommands' = TRUE
  BY DEF FadeinTick
<1>4. cmd.pc = "loop2" => textures'[0].fadeover = 0
  BY <1>1 DEF IInv, GateInv, LoopInv, OthersSame, Slots
<1> QED
  BY <1>1, <1>2, <1>3, <1>4, TickIInv

LEMMA FadeoverTickIInv ==
  ASSUME IInv, NEW i \in Slots, fader.pc = "scan", FadeoverTick(i)
  PROVE  IInv'
<1>1. /\ SlotsOK(textures') /\ OthersSame(textures, textures', i)
      /\ textures'[i].fadeover > 0 /\ textures'[i].fadesrc = textures[i].fadesrc
  BY FadeoverTickEffect DEF IInv, ControlTypeOK
<1>2. textures[i].fadeover \in Int /\ textures[i].fadeover > 1
  BY DEF FadeoverTick, IInv, ControlTypeOK, SlotsOK, Slot
<1> Fading(textures, i) /\ Fading(textures', i)
  BY <1>1, <1>2 DEF Fading
<1>3. UNCHANGED <<cmd, fader>> /\ blockCommands' = TRUE
  BY DEF FadeoverTick
<1>4. cmd.pc # "loop2"
  BY <1>2 DEF IInv, GateInv, LoopInv
<1> QED
  BY <1>1, <1>2, <1>3, <1>4, TickIInv

LEMMA ToggleTestIInv ==
  ASSUME IInv, NEW i \in Slots, fader.pc = "scan", ToggleTest(i)
  PROVE  IInv'
<1>1. Fading(textures, i) /\ textures[i].fadeloop > 0
  BY DEF ToggleTest, Fading
<1>2. i \in {0, 1}
  BY <1>1 DEF IInv, GateInv, FaderInv, Slots, TempSlot
<1>3. UNCHANGED <<textures, blockCommands, cmd>>
  BY DEF ToggleTest
<1>4. fader'.pc = "toggle" /\ fader'.slot = i
      /\ fader' \in [pc : {"scan", "toggle", "toggleEnd", "finish"},
                      slot : {0, 1}, src : {0, 1}]
  BY <1>2 DEF ToggleTest, IInv, ControlTypeOK
<1>5. ControlTypeOK'
  BY <1>3, <1>4 DEF IInv, ControlTypeOK
<1>6. ~Quiet
  BY <1>1 DEF Quiet, NoFade
<1>7. ExclusiveFade' /\ SrcClean' /\ FaderInv'
  BY <1>1, <1>3, <1>4 DEF IInv, GateInv, ExclusiveFade, SrcClean, FaderInv
<1>8. LoopInv'
  BY <1>1, <1>3, <1>4 DEF IInv, GateInv, LoopInv
<1> QED
  BY <1>3, <1>5, <1>6, <1>7, <1>8 DEF IInv, GateInv

LEMMA ToggleSrcIInv ==
  ASSUME IInv, ToggleSrc
  PROVE  IInv'
<1> DEFINE i == fader.slot
           src == textures[i].fadesrc
<1>1. i \in {0, 1} /\ src \in {0, 1} /\ i \in Slots /\ src \in Slots
  BY DEF IInv, ControlTypeOK, SlotsOK, Slot, Slots
<1>2. textures[i].fadeloop > 0
  BY DEF IInv, GateInv, FaderInv, ToggleSrc
<1>3. Fading(textures, i)
  BY <1>2 DEF Fading
<1>4. textures' = ArmNextLeg(textures, i, src)
  BY DEF ToggleSrc
<1>5. /\ SlotsOK(textures') /\ OthersSame(textures, textures', src)
      /\ textures'[src].fadeover = FadeMax /\ textures'[src].fadesrc = i
  BY <1>1, <1>2, <1>4, ArmNextLegEffect DEF IInv, ControlTypeOK
<1>6. Fading(textures', src)
  BY <1>5, ConstantsAssumption DEF Fading
<1>7. fader.pc = "toggle" /\ fader' = [fader EXCEPT !.pc = "toggleEnd", !.src = src]
      /\ UNCHANGED <<blockCommands, cmd>>
  BY DEF ToggleSrc
<1> HIDE DEF i, src
<1>8. fader'.pc = "toggleEnd" /\ fader'.slot = i /\ fader'.src = src
      /\ fader' \in [pc : {"scan", "toggle", "toggleEnd", "finish"},
                      slot : {0, 1}, src : {0, 1}]
  BY <1>1, <1>7 DEF i, IInv, ControlTypeOK
<1>9. ControlTypeOK'
  BY <1>5, <1>7, <1>8 DEF IInv, ControlTypeOK
<1>10. ~Quiet
  BY <1>1, <1>3 DEF Quiet, NoFade
<1>11. \A s \in Slots : Fading(textures', s) => s = i \/ s = src
  BY <1>1, <1>3, <1>5, <1>7 DEF IInv, GateInv, ExclusiveFade, OthersSame, Fading
<1>12. ExclusiveFade'
  BY <1>8, <1>11 DEF ExclusiveFade
<1>13. SrcClean'
  BY <1>5, <1>6 DEF IInv, GateInv, SrcClean, OthersSame, Fading
<1>14. FaderInv'
  BY <1>1, <1>8, <1>11 DEF FaderInv, TempSlot, Slots
<1>15. LoopInv'
  <2> SUFFICES ASSUME cmd.pc = "loop2" PROVE LoopInv'
    BY <1>7 DEF LoopInv
  <2>1. i = 0 /\ src = 0
    BY <1>7 DEF i, src, IInv, GateInv, LoopInv
  <2> QED
    BY <1>5, <1>8, <1>11, <2>1 DEF LoopInv
<1> QED
  BY <1>7, <1>9, <1>10, <1>12, <1>13, <1>14, <1>15 DEF IInv, GateInv

LEMMA ToggleEndIInv ==
  ASSUME IInv, ToggleEnd
  PROVE  IInv'
<1> DEFINE i == fader.slot
<1>1. i \in Slots
  BY DEF IInv, ControlTypeOK, Slots
<1>2. textures' = resetTexture(textures, i)
  BY DEF ToggleEnd
<1>3. /\ SlotsOK(textures') /\ OthersSame(textures, textures', i)
      /\ Faded(textures'[i])
  BY <1>1, <1>2, ResetSlot, BlankFields DEF IInv, ControlTypeOK
<1>4. fader.pc = "toggleEnd" /\ fader' = [fader EXCEPT !.pc = "scan", !.slot = 0, !.src = 0]
      /\ cmd' = cmd /\ blockCommands' = TRUE
  BY DEF ToggleEnd
<1> HIDE DEF i
<1>5. fader'.pc = "scan" /\ fader' \in [pc : {"scan", "toggle", "toggleEnd", "finish"},
                                        slot : {0, 1}, src : {0, 1}]
  BY <1>4 DEF IInv, ControlTypeOK
<1>6. ControlTypeOK'
  BY <1>3, <1>4, <1>5 DEF IInv, ControlTypeOK
<1>7. ~Quiet
  BY <1>4 DEF Quiet
<1>8. \A s \in Slots : Fading(textures', s) => Fading(textures, s) /\ s # i
  BY <1>3 DEF OthersSame, Fading, Faded
<1>9. ExclusiveFade'
  BY <1>8 DEF i, IInv, GateInv, ExclusiveFade
<1>10. SrcClean'
  BY <1>3 DEF IInv, GateInv, SrcClean, OthersSame, Fading, Faded
<1>11. FaderInv'
  BY <1>5, <1>8 DEF IInv, GateInv, FaderInv, TempSlot, Slots
<1>12. LoopInv'
  <2> SUFFICES ASSUME cmd.pc = "loop2" PROVE LoopInv'
    BY <1>4 DEF LoopInv
  <2>1. i = 0
    BY <1>4 DEF i, IInv, GateInv, LoopInv
  <2> QED
    BY <1>3, <1>5, <1>8, <2>1 DEF LoopInv, IInv, GateInv, Faded
<1> QED
  BY <1>4, <1>6, <1>7, <1>9, <1>10, <1>11, <1>12 DEF IInv, GateInv

LEMMA FinishBeginIInv ==
  ASSUME IInv, NEW i \in Slots, fader.pc = "scan", FinishBegin(i)
  PROVE  IInv'
<1>1. textures[i].fadeover = 1 /\ UNCHANGED <<textures, blockCommands, cmd>>
  BY DEF FinishBegin
<1>2. Fading(textures, i)
  BY <1>1 DEF Fading
<1>3. i \in {0, 1} /\ textures[i].fadesrc \in {0, 1}
  BY <1>2 DEF IInv, GateInv, FaderInv, ControlTypeOK, SlotsOK, Slot, Slots, TempSlot
<1>4. fader'.pc = "finish" /\ fader'.slot = i
      /\ fader' \in [pc : {"scan", "toggle", "toggleEnd", "finish"},
                      slot : {0, 1}, src : {0, 1}]
  BY <1>3 DEF FinishBegin
<1>5. ControlTypeOK'
  BY <1>1, <1>4 DEF IInv, ControlTypeOK
<1>6. ~Quiet
  BY <1>2 DEF Quiet, NoFade
<1>7. cmd.pc # "loop2"
  BY <1>1, <1>2 DEF IInv, GateInv, LoopInv
<1>8. FaderInv'
  BY <1>1, <1>2, <1>4 DEF IInv, GateInv, FaderInv, Fading
<1>9. ExclusiveFade' /\ SrcClean' /\ LoopInv'
  BY <1>1, <1>4, <1>7 DEF IInv, GateInv, ExclusiveFade, SrcClean, LoopInv
<1> QED
  BY <1>1, <1>5, <1>6, <1>8, <1>9 DEF IInv, GateInv

LEMMA FinishEndIInv ==
  ASSUME IInv, FinishEnd
  PROVE  IInv' /\ NoFade(textures')
<1> DEFINE i == fader.slot
           src == fader.src
<1>1. i \in Slots /\ src \in Slots
  BY DEF IInv, ControlTypeOK, Slots
<1>2. textures' = MoveTexture(textures, i, src)
  BY DEF FinishEnd
<1>3. /\ SlotsOK(textures')
      /\ Faded(textures'[i]) /\ Faded(textures'[src])
      /\ \A s \in Slots \ {i, src} : textures'[s] = textures[s]
  <2>1. SlotsOK(textures)
    BY DEF IInv, ControlTypeOK
  <2> HIDE DEF i, src
  <2> QED
    BY <1>1, <1>2, <2>1, MoveEffect
<1>4. fader.pc = "finish" /\ fader' = [fader EXCEPT !.pc = "scan", !.slot = 0, !.src = 0]
      /\ cmd' = cmd /\ blockCommands' = FALSE
  BY DEF FinishEnd
<1>5. Fading(textures, i)
  BY <1>4 DEF IInv, GateInv, FaderInv
<1> HIDE DEF i, src
<1>6. fader'.pc = "scan" /\ fader' \in [pc : {"scan", "toggle", "toggleEnd", "finish"},
                                        slot : {0, 1}, src : {0, 1}]
  BY <1>4 DEF IInv, ControlTypeOK
<1>7. ControlTypeOK'
  BY <1>3, <1>4, <1>6 DEF IInv, ControlTypeOK
<1>8. \A s \in Slots : ~Fading(textures', s)
  BY <1>1, <1>3, <1>4, <1>5 DEF IInv, GateInv, ExclusiveFade, Fading, Faded
<1>9. SrcClean'
  BY <1>1, <1>3, <1>4, <1>5 DEF IInv, GateInv, ExclusiveFade, SrcClean, Fading, Faded
<1>10. cmd.pc # "loop2"
  BY <1>4 DEF IInv, GateInv, LoopInv
<1>11. NoFade(textures')
  BY <1>8 DEF NoFade
<1> QED
  BY <1>4, <1>6, <1>7, <1>8, <1>9, <1>10, <1>11
     DEF IInv, GateInv, Quiet, ExclusiveFade, FaderInv, LoopInv, TempSlot, Slots

LEMMA FaderIInv ==
  ASSUME IInv, faderThread
  PROVE  IInv'
<1>1. CASE ToggleSrc
  BY <1>1, ToggleSrcIInv
<1>2. CASE ToggleEnd
  BY <1>2, ToggleEndIInv
<1>3. CASE FinishEnd
  BY <1>3, FinishEndIInv
<1>4. CASE \E i \in Slots : FaderScan(i)
  <2>1. PICK i \in Slots : FaderScan(i)
    BY <1>4
  <2>2. CASE FadeinLast(i)
    BY <2>1, <2>2, FadeinLastIInv DEF FaderScan
  <2>3. CASE FadeinTick(i)
    BY <2>1, <2>3, FadeinTickIInv DEF FaderScan
  <2>4. CASE ToggleTest(i)
    BY <2>1, <2>4, ToggleTestIInv DEF FaderScan
  <2>5. CASE FinishBegin(i)
    BY <2>1, <2>5, FinishBeginIInv DEF FaderScan
  <2>6. CASE FadeoverTick(i)
    BY <2>1, <2>6, FadeoverTickIInv DEF FaderScan
  <2> QED
    BY <2>1, <2>2, <2>3, <2>4, <2>5, <2>6 DEF FaderScan
<1> QED
  BY <1>1, <1>2, <1>3, <1>4 DEF faderThread

\* A command arms slot k when nothing fades.
LEMMA ArmIInv ==
  ASSUME IInv, cmd.pc \in Unarmed, NEW k \in {0, 1},
         SlotsOK(textures'), OthersSame(textures, textures', k),
         Fading(textures', k) \/ textures'[k].fadesrc = 0,
         cmd'.pc = "block", cmd' \in [pc : {"block"}, loop : -1..MaxLoop],
         UNCHANGED <<fader, blockCommands>>
  PROVE  IInv'
<1>1. NoFade(textures) /\ fader.pc = "scan"
  BY DEF IInv, GateInv, Quiet
<1>2. \A s \in Slots : Fading(textures', s) => s = k
  BY <1>1 DEF NoFade, OthersSame, Fading
<1>3. ControlTypeOK'
  BY DEF IInv, ControlTypeOK
<1>4. ExclusiveFade'
  BY <1>2 DEF ExclusiveFade
<1>5. SrcClean'
  BY <1>1 DEF IInv, GateInv, SrcClean, OthersSame, NoFade, Fading
<1>6. FaderInv'
  BY <1>1, <1>2 DEF FaderInv, TempSlot, Slots
<1> QED
  BY <1>3, <1>4, <1>5, <1>6 DEF IInv, GateInv, LoopInv, Unarmed

LEMMA FadeInIInv ==
  ASSUME IInv, FadeIn
  PROVE  IInv'
<1>1. SlotsOK(textures') /\ OthersSame(textures, textures', 0)
      /\ textures'[0].fadein = FadeMax
  BY FadeInEffect DEF IInv, ControlTypeOK
<1>2. Fading(textures', 0)
  BY <1>1, ConstantsAssumption DEF Fading
<1>3. cmd.pc \in Unarmed /\ cmd'.pc = "block" /\ cmd' \in [pc : {"block"}, loop : -1..MaxLoop]
      /\ UNCHANGED <<fader, blockCommands>>
  BY DEF FadeIn, Unarmed, IInv, ControlTypeOK, engineVars
<1> QED
  BY <1>1, <1>2, <1>3, ArmIInv

LEMMA FadeOutIInv ==
  ASSUME IInv, FadeOut
  PROVE  IInv'
<1>1. SlotsOK(textures') /\ OthersSame(textures, textures', 0)
      /\ SameFade(textures[0], textures'[0])
  BY FadeOutEffect DEF IInv, ControlTypeOK
<1>2. cmd.pc \in Unarmed /\ cmd'.pc = "block" /\ cmd' \in [pc : {"block"}, loop : -1..MaxLoop]
      /\ UNCHANGED <<fader, blockCommands>>
  BY DEF FadeOut, Unarmed, IInv, ControlTypeOK, engineVars
<1>3. textures'[0].fadesrc = 0
  BY <1>1, <1>2 DEF IInv, GateInv, Quiet, NoFade, SrcClean, SameFade, Slots
<1> QED
  BY <1>1, <1>2, <1>3, ArmIInv

LEMMA FadeOverIInv ==
  ASSUME IInv, FadeOver
  PROVE  IInv'
<1>1. SlotsOK(textures') /\ OthersSame(textures, textures', 1)
      /\ textures'[1].fadeover = FadeMax
  BY FadeOverEffect DEF IInv, ControlTypeOK
<1>2. Fading(textures', 1)
  BY <1>1, ConstantsAssumption DEF Fading
<1>3. cmd.pc \in Unarmed /\ cmd'.pc = "block" /\ cmd' \in [pc : {"block"}, loop : -1..MaxLoop]
      /\ UNCHANGED <<fader, blockCommands>>
  BY DEF FadeOver, Unarmed, IInv, ControlTypeOK, engineVars
<1> QED
  BY <1>1, <1>2, <1>3, ArmIInv

LEMMA FadeLoopIInv ==
  ASSUME IInv, FadeLoop
  PROVE  IInv'
<1>1. cmd.pc = "fadeloop" /\ cmd.loop \in -1..MaxLoop /\ UNCHANGED <<fader, blockCommands>>
      /\ cmd'.pc = "loop2" /\ cmd' \in [pc : {"loop2"}, loop : -1..MaxLoop]
  BY DEF FadeLoop, IInv, ControlTypeOK, engineVars
<1>2. NoFade(textures) /\ fader.pc = "scan"
  BY <1>1 DEF IInv, GateInv, Quiet, Unarmed
<1>3. SlotsOK(textures') /\ OthersSame(textures, textures', 0)
      /\ textures'[0].fadeover = textures[0].fadeover
      /\ textures'[0].fadesrc = textures[0].fadesrc
  BY <1>1, FadeLoopEffect DEF IInv, ControlTypeOK
<1>4. textures[0].fadesrc = 0
  BY <1>2 DEF IInv, GateInv, NoFade, SrcClean, Slots
<1>5. textures[0].fadeover = 0
  BY <1>2 DEF IInv, ControlTypeOK, SlotsOK, Slot, NoFade, Fading, Slots
<1>6. \A s \in Slots : Fading(textures', s) => s = 0
  BY <1>2, <1>3 DEF NoFade, OthersSame, Fading
<1>7. ControlTypeOK'
  BY <1>1, <1>3 DEF IInv, ControlTypeOK, FadeArming
<1>8. ExclusiveFade'
  BY <1>6 DEF ExclusiveFade
<1>9. SrcClean'
  BY <1>2, <1>3, <1>4 DEF IInv, GateInv, SrcClean, OthersSame, NoFade, Fading
<1>10. FaderInv'
  BY <1>1, <1>2, <1>6 DEF FaderInv, TempSlot, Slots
<1>11. LoopInv'
  BY <1>1, <1>2, <1>3, <1>4, <1>5, <1>6 DEF LoopInv
<1> QED
  BY <1>1, <1>7, <1>8, <1>9, <1>10, <1>11 DEF IInv, GateInv, Unarmed

LEMMA FadeLoop2IInv ==
  ASSUME IInv, FadeLoop2
  PROVE  IInv'
<1>1. cmd.pc = "loop2" /\ UNCHANGED <<fader, blockCommands>>
      /\ cmd'.pc = "block" /\ cmd' \in [pc : {"block"}, loop : -1..MaxLoop]
  BY DEF FadeLoop2, IInv, ControlTypeOK, engineVars
<1>2. SlotsOK(textures') /\ OthersSame(textures, textures', 0)
      /\ textures'[0].fadeover = FadeMax
      /\ textures'[0].fadeloop = textures[0].fadeloop
  BY FadeLoop2Effect DEF IInv, ControlTypeOK
<1>3. Fading(textures', 0)
  BY <1>2, ConstantsAssumption DEF Fading
<1>4. \A s \in Slots : Fading(textures', s) => s = 0
  BY <1>1, <1>2 DEF IInv, GateInv, LoopInv, OthersSame, Fading
<1>5. ControlTypeOK'
  BY <1>1, <1>2 DEF IInv, ControlTypeOK
<1>6. ExclusiveFade'
  BY <1>4 DEF ExclusiveFade
<1>7. SrcClean'
  BY <1>2, <1>3 DEF IInv, GateInv, SrcClean, OthersSame, Fading
<1>8. FaderInv'
  BY <1>1, <1>2, <1>4 DEF IInv, GateInv, FaderInv, LoopInv, TempSlot, Slots
<1> QED
  BY <1>1, <1>5, <1>6, <1>7, <1>8 DEF IInv, GateInv, LoopInv, Unarmed

\* Steps of the command thread that leave the slots alone.
LEMMA CmdMovesIInv ==
  ASSUME IInv, UNCHANGED <<textures, fader>>,
         cmd' \in [pc : {"gate", "block", "draw"} \cup FadeArming, loop : -1..MaxLoop],
         cmd'.pc # "loop2", blockCommands' \in BOOLEAN,
         cmd'.pc = "gate" /\ ~blockCommands' => Quiet,
         cmd'.pc \in Unarmed => Quiet
  PROVE  IInv'
<1>1. ControlTypeOK'
  BY DEF IInv, ControlTypeOK
<1>2. ExclusiveFade' /\ SrcClean' /\ FaderInv'
  BY DEF IInv, GateInv, ExclusiveFade, SrcClean, FaderInv
<1>3. Quiet' <=> Quiet
  BY DEF Quiet
<1> QED
  BY <1>1, <1>2, <1>3 DEF IInv, GateInv, LoopInv

LEMMA CommandIInv ==
  ASSUME IInv, processCommand
  PROVE  IInv'
<1>1. CASE \E c \in Commands : Issue(c)
  <2>1. PICK c \in Commands : Issue(c)
    BY <1>1
  <2>2. Nums(c) \subseteq -1..MaxLoop
    BY ConstantsAssumption DEF Nums
  <2>3. c \in Unarmed /\ c \in {"gate", "block", "draw"} \cup FadeArming /\ c # "loop2"
    BY ConstantsAssumption DEF Unarmed, FadeArming
  <2>4. cmd' \in [pc : {c}, loop : -1..MaxLoop]
    BY <2>1, <2>2 DEF Issue
  <2>5. Quiet /\ UNCHANGED <<textures, fader, blockCommands>>
    BY <2>1 DEF Issue, IInv, GateInv, engineVars
  <2> QED
    BY <2>3, <2>4, <2>5, CmdMovesIInv DEF IInv, ControlTypeOK, Unarmed
<1>2. CASE Block
  <2>1. cmd' \in [pc : {"gate"}, loop : -1..MaxLoop] /\ blockCommands' = TRUE
        /\ UNCHANGED <<textures, fader>>
    BY <1>2 DEF Block, IInv, ControlTypeOK, engineVars
  <2> QED
    BY <2>1, CmdMovesIInv DEF Unarmed
<1>3. CASE DrawDone
  <2>1. cmd' \in [pc : {"gate"}, loop : -1..MaxLoop]
        /\ UNCHANGED <<textures, fader, blockCommands>>
    BY <1>3 DEF DrawDone, IInv, ControlTypeOK, engineVars
  <2>2. Quiet
    BY <1>3 DEF DrawDone, IInv, GateInv, Unarmed
  <2> QED
    BY <2>1, <2>2, CmdMovesIInv DEF Unarmed, IInv, ControlTypeOK
<1>4. CASE FadeIn
  BY <1>4, FadeInIInv
<1>5. CASE FadeOut
  BY <1>5, FadeOutIInv
<1>6. CASE FadeOver
  BY <1>6, FadeOverIInv
<1>7. CASE FadeLoop
  BY <1>7, FadeLoopIInv
<1>8. CASE FadeLoop2
  BY <1>8, FadeLoop2IInv
<1> QED
  BY <1>1, <1>2, <1>3, <1>4, <1>5, <1>6, <1>7, <1>8 DEF processCommand, Handler

\* Main, update() and the timer do not touch the fades.
LEMMA MainFades ==
  ASSUME SlotsOK(textures), main \/ (\E t \in Renderers : update(t)) \/ TimerUpd
  PROVE  /\ SlotsOK(textures') /\ FadesSame(textures, textures')
         /\ UNCHANGED <<blockCommands, cmd, fader>>
<1>1. FadesSame(textures, textures)
  BY DEF FadesSame, SameFade
<1>2. UNCHANGED <<blockCommands, cmd, fader>>
  BY DEF main, TakeUpd, TakeLoad, LoadImage, TakeDestroy, threadVars, slotVars, update,
         UpdateLoop, UpdateBegin, UpdateBlend, UpdateCopy, TimerUpd
<1>3. CASE LoadImage
  <2>1. PICK t : textures' = [textures EXCEPT ![loading.code].tex = t]
    BY <1>3 DEF LoadImage
  <2>2. SlotsOK(textures') /\ FadesSame(textures, textures')
    BY <2>1, SetTex, Zenon
  <2> QED
    BY <1>2, <2>2
<1>4. CASE \E t \in Renderers : UpdateCopy(t)
  <2>1. PICK k : textures' = [textures EXCEPT ![k].dirty = FALSE]
    BY <1>4 DEF UpdateCopy
  <2>2. SlotsOK(textures') /\ FadesSame(textures, textures')
    BY <2>1, SetDirty, Zenon
  <2> QED
    BY <1>2, <2>2
<1>5. CASE UNCHANGED textures
  BY <1>1, <1>2, <1>5
<1> QED
  BY <1>3, <1>4, <1>5 DEF main, TakeUpd, TakeLoad, TakeDestroy, threadVars, slotVars, update,
         UpdateLoop, UpdateBegin, UpdateBlend, TimerUpd

LEMMA MainIInv ==
  ASSUME IInv, main \/ (\E t \in Renderers : update(t)) \/ TimerUpd
  PROVE  IInv'
BY MainFades, SameIInv DEF IInv, ControlTypeOK

LEMMA StutterIInv ==
  ASSUME IInv, UNCHANGED vars
  PROVE  IInv'
<1>1. UNCHANGED <<textures, blockCommands, cmd, fader>>
  BY DEF vars
<1>2. SlotsOK(textures') /\ FadesSame(textures, textures')
  BY <1>1 DEF IInv, ControlTypeOK, FadesSame, SameFade
<1> QED
  BY <1>1, <1>2, SameIInv

LEMMA NextIInv == IInv /\ [Next]_vars => IInv'
BY FaderIInv, CommandIInv, MainIInv, StutterIInv DEF Next

-------------------------------------------------------------------------------
(* Theorems                                                                *)

\* The inductive invariant holds of every behaviour, fair or not.
THEOREM EngineInvariant == Spec => []IInv
BY InitIInv, NextIInv, PTL DEF Spec

\* The slots, the gate and the places of the threads keep their types.
THEOREM ControlTyped == Spec => []ControlTypeOK
<1>1. IInv => ControlTypeOK
  BY DEF IInv
<1> QED
  BY <1>1, EngineInvariant, PTL

\* A command that has passed the gate finds no fade under way, whatever the
\* interleaving: the polling loop of 216 is a correct gate.
THEOREM GateGuardsFades == Spec => []AdmittedIdle
<1>1. IInv => AdmittedIdle
  BY DEF IInv, GateInv, AdmittedIdle, Unarmed, Quiet
<1> QED
  BY <1>1, EngineInvariant, PTL

\* At most one slot fades, but for the two halves of a swap.
THEOREM OneFade == Spec => []ExclusiveFade
<1>1. IInv => ExclusiveFade
  BY DEF IInv, GateInv
<1> QED
  BY <1>1, EngineInvariant, PTL

-------------------------------------------------------------------------------
\* Only two steps of the fader open the gate.
LEMMA OnlyFaderOpens ==
  ASSUME IInv, Next, blockCommands, ~blockCommands'
  PROVE  FinishEnd \/ \E i \in Slots : fader.pc = "scan" /\ FadeinLast(i)
<1>1. CASE faderThread
  BY <1>1 DEF faderThread, FaderScan, FadeinTick, ToggleTest, FinishBegin, FadeoverTick,
     ToggleSrc, ToggleEnd
<1>2. CASE processCommand
  BY <1>2 DEF processCommand, Handler, Issue, FadeIn, FadeOut, FadeOver, FadeLoop, FadeLoop2,
     Block, DrawDone
<1>3. CASE main \/ TimerUpd
  BY <1>3 DEF main, TakeUpd, TakeLoad, LoadImage, TakeDestroy, threadVars, TimerUpd
<1>4. CASE \E t \in Renderers : update(t)
  BY <1>4 DEF update, UpdateLoop, UpdateBegin, UpdateBlend, UpdateCopy, slotVars
<1> QED
  BY <1>1, <1>2, <1>3, <1>4 DEF Next

\* The gate opens only when the last fade is over.
THEOREM OpensIdle == Spec => GateOpensIdle
<1>1. IInv /\ [Next]_vars =>
        [blockCommands /\ ~blockCommands' => NoFade(textures')]_vars
  <2> SUFFICES ASSUME IInv, Next, blockCommands, ~blockCommands'
               PROVE  NoFade(textures')
    OBVIOUS
  <2>1. CASE FinishEnd
    BY <2>1, FinishEndIInv
  <2>2. CASE \E i \in Slots : fader.pc = "scan" /\ FadeinLast(i)
    BY <2>2, FadeinLastIInv
  <2> QED
    BY <2>1, <2>2, OnlyFaderOpens
<1> QED
  BY <1>1, EngineInvariant, PTL DEF Spec, GateOpensIdle

-------------------------------------------------------------------------------
(* Induction over the natural numbers, by the least counterexample; and    *)
(* with it, what SDL_FlushEvent leaves of the queue.                       *)

\* Every set of natural numbers that is not empty has a smallest element.
LEMMA Smallest ==
  ASSUME NEW S \in SUBSET Nat, S # {}
  PROVE  \E m \in S : \A n \in S : m <= n
<1>1. PICK m \in S : \A k \in S : <<k, m>> \notin OpToRel(<, Nat)
  BY WFMin, NatLessThanWellFounded, Zenon
<1>2. \A n \in S : ~(n < m)
  BY <1>1, Zenon DEF OpToRel
<1> QED
  BY <1>2

\* FlushUpd is computed by a recursive function; that there is one is to be shown.
KeptStep(f, q, n) == IF n = 0 THEN <<>>
                     ELSE IF q[n].type = "upd" THEN f[n - 1] ELSE Append(f[n - 1], q[n])
IsKept(f, q, m) == f = [n \in 0..m |-> KeptStep(f, q, n)]

LEMMA KeptExists == \A q : \A m \in Nat : \E f : IsKept(f, q, m)
<1> SUFFICES ASSUME NEW q PROVE \A m \in Nat : \E f : IsKept(f, q, m)
  OBVIOUS
<1> DEFINE S == {m \in Nat : ~\E f : IsKept(f, q, m)}
<1>1. SUFFICES ASSUME S # {} PROVE FALSE
  OBVIOUS
<1>2. PICK m \in S : \A n \in S : m <= n
  BY <1>1, Smallest
<1>3. m # 0
  <2> DEFINE f == [n \in 0..0 |-> <<>>]
  <2>1. IsKept(f, q, 0)
    BY DEF IsKept, KeptStep
  <2> QED
    BY <2>1, <1>2
<1>4. PICK f : IsKept(f, q, m - 1)
  BY <1>2, <1>3
<1>7. m \in Nat /\ \A n \in 0..m - 1 : f[n] = KeptStep(f, q, n)
  <2>1. m \in Nat
    BY <1>2
  <2> HIDE DEF S
  <2> QED
    BY <1>3, <1>4, <2>1 DEF IsKept
<1> DEFINE g == [n \in 0..m |-> IF n < m THEN f[n] ELSE KeptStep(f, q, m)]
<1>5. \A n \in 0..m : g[n] = KeptStep(g, q, n)
  <2> SUFFICES ASSUME NEW n \in 0..m PROVE g[n] = KeptStep(g, q, n)
    OBVIOUS
  <2>1. \A k \in 0..m - 1 : g[k] = f[k] /\ f[k] = KeptStep(f, q, k)
    BY <1>3, <1>7
  <2>2. KeptStep(g, q, n) = KeptStep(f, q, n)
    BY <1>2, <2>1 DEF KeptStep
  <2>3. g[m] = KeptStep(f, q, m) /\ (n # m => n \in 0..m - 1)
    BY <1>2
  <2> HIDE DEF g
  <2> QED
    BY <2>1, <2>2, <2>3
<1>6. IsKept(g, q, m)
  BY <1>5 DEF IsKept
<1> QED
  BY <1>2, <1>6

LEMMA FlushIsKept ==
  ASSUME NEW q \in Seq(Event)
  PROVE \E f : IsKept(f, q, Len(q)) /\ FlushUpd(q) = f[Len(q)]
<1> DEFINE f == CHOOSE f : IsKept(f, q, Len(q))
<1>1. IsKept(f, q, Len(q))
  BY KeptExists
<1>2. FlushUpd(q) = f[Len(q)]
  BY DEF FlushUpd, IsKept, KeptStep
<1> QED
  BY <1>1, <1>2

\* The events of r are those of the first m of q that are no redraws, in order.
Flushed(r, q, m) ==
  /\ r \in Seq(Event)
  /\ \E e \in [1..Len(r) -> 1..m] :
       /\ \A k \in 1..Len(r) : r[k] = q[e[k]] /\ r[k].type # "upd"
       /\ \A j, k \in 1..Len(r) : e[j] = e[k] => j = k
       /\ \A j \in 1..m : q[j].type # "upd" => \E k \in 1..Len(r) : e[k] = j

LEMMA FlushStep ==
  ASSUME NEW q \in Seq(Event), NEW m \in 1..Len(q), NEW r, Flushed(r, q, m - 1)
  PROVE  /\ q[m].type = "upd" => Flushed(r, q, m)
         /\ q[m].type # "upd" => Flushed(Append(r, q[m]), q, m)
<1>1. PICK e \in [1..Len(r) -> 1..m - 1] :
        /\ \A k \in 1..Len(r) : r[k] = q[e[k]] /\ r[k].type # "upd"
        /\ \A j, k \in 1..Len(r) : e[j] = e[k] => j = k
        /\ \A j \in 1..m - 1 : q[j].type # "upd" => \E k \in 1..Len(r) : e[k] = j
  BY DEF Flushed
<1>2. r \in Seq(Event) /\ Len(r) \in Nat /\ Len(q) \in Nat /\ m \in Nat /\ q[m] \in Event
  BY DEF Flushed
<1>3. 1..m - 1 \subseteq 1..m /\ \A j \in 1..m : j = m \/ j \in 1..m - 1
  BY <1>2
<1>4. CASE q[m].type = "upd"
  <2>1. e \in [1..Len(r) -> 1..m]
    BY <1>1, <1>3
  <2>2. \A j \in 1..m : q[j].type # "upd" => \E k \in 1..Len(r) : e[k] = j
    BY <1>1, <1>3, <1>4
  <2>3. Flushed(r, q, m)
    BY <1>1, <1>2, <2>1, <2>2 DEF Flushed
  <2> QED
    BY <1>4, <2>3
<1>5. CASE q[m].type # "upd"
  <2> DEFINE t == Append(r, q[m])
             L == Len(r) + 1
             d == [k \in 1..L |-> IF k = L THEN m ELSE e[k]]
  <2>1. /\ t \in Seq(Event) /\ Len(t) = L /\ t[L] = q[m]
        /\ \A k \in 1..Len(r) : t[k] = r[k]
    BY <1>2
  <2>2. /\ L \in 1..L /\ \A k \in 1..L : k = L \/ (k \in 1..Len(r) /\ k # L)
        /\ \A k \in 1..Len(r) : k \in 1..L /\ k # L
    BY <1>2
  <2>3. d[L] = m /\ \A k \in 1..Len(r) : d[k] = e[k] /\ e[k] \in 1..m - 1 /\ e[k] # m
    BY <1>1, <1>2, <2>2
  <2>4. d \in [1..L -> 1..m]
    BY <1>2, <1>3, <2>2, <2>3
  <2> HIDE DEF d, t, L
  <2>5. \A k \in 1..L : t[k] = q[d[k]] /\ t[k].type # "upd"
    <3> TAKE k \in 1..L
    <3>1. CASE k = L
      BY <1>5, <2>1, <2>3, <3>1
    <3>2. CASE k # L
      BY <1>1, <2>1, <2>2, <2>3, <3>2
    <3> QED
      BY <3>1, <3>2
  <2>6. \A j, k \in 1..L : d[j] = d[k] => j = k
    BY <1>1, <2>2, <2>3
  <2>7. \A j \in 1..m : q[j].type # "upd" => \E k \in 1..L : d[k] = j
    BY <1>1, <1>3, <2>2, <2>3
  <2>8. Flushed(t, q, m)
    <3>1. /\ \A k \in 1..Len(t) : t[k] = q[d[k]] /\ t[k].type # "upd"
          /\ \A j, k \in 1..Len(t) : d[j] = d[k] => j = k
          /\ \A j \in 1..m : q[j].type # "upd" => \E k \in 1..Len(t) : d[k] = j
          /\ d \in [1..Len(t) -> 1..m]
      BY <2>1, <2>4, <2>5, <2>6, <2>7
    <3> QED
      BY <2>1, <3>1, Zenon DEF Flushed
  <2> QED
    BY <1>5, <2>8 DEF t
<1> QED
  BY <1>4, <1>5

LEMMA FlushUpdFlushes ==
  ASSUME NEW q \in Seq(Event)
  PROVE  Flushed(FlushUpd(q), q, Len(q))
<1>1. PICK f : IsKept(f, q, Len(q)) /\ FlushUpd(q) = f[Len(q)]
  BY FlushIsKept
<1>2. \A n \in 0..Len(q) : f[n] = KeptStep(f, q, n)
  BY <1>1 DEF IsKept
<1> DEFINE S == {m \in Nat : m <= Len(q) /\ ~Flushed(f[m], q, m)}
<1>3. SUFFICES ASSUME S # {} PROVE FALSE
  BY <1>1
<1>4. PICK m \in S : \A n \in S : m <= n
  BY <1>3, Smallest
<1>5. m # 0
  <2>1. f[0] = <<>>
    BY <1>2 DEF KeptStep
  <2>2. Flushed(<<>>, q, 0)
    <3> DEFINE e == [k \in 1..0 |-> 0]
    <3>1. Len(<<>>) = 0 /\ 1..0 = {} /\ <<>> \in Seq(Event) /\ e \in [1..0 -> 1..0]
      OBVIOUS
    <3> HIDE DEF e
    <3>2. \A k \in 1..0 : FALSE
      OBVIOUS
    <3> QED
      BY <3>1, <3>2 DEF Flushed
  <2> QED
    BY <1>4, <2>1, <2>2
<1>6. m \in 1..Len(q) /\ Flushed(f[m - 1], q, m - 1)
  BY <1>4, <1>5
<1>7. f[m] = KeptStep(f, q, m)
  BY <1>2, <1>6
<1>8. Flushed(f[m], q, m)
  BY <1>5, <1>6, <1>7, FlushStep DEF KeptStep
<1> QED
  BY <1>4, <1>8


-------------------------------------------------------------------------------
(* Which texture a slot holds.                                             *)

SameTexs(T, U) == \A s \in Slots : U[s].tex = T[s].tex

LEMMA ResetTex ==
  ASSUME NEW T, SlotsOK(T), NEW i \in Slots
  PROVE  SlotsOK(resetTexture(T, i)) /\ SameTexs(T, resetTexture(T, i))
BY ResetSlot, BlankFields DEF OthersSame, SameTexs

\* A slot is overwritten by a record with the same texture.
LEMMA PutSame ==
  ASSUME NEW T, SlotsOK(T), NEW i \in Slots, NEW r, r.tex = T[i].tex
  PROVE  SameTexs(T, [T EXCEPT ![i] = r])
<1>1. [T EXCEPT ![i] = r] = [s \in Slots |-> IF s = i THEN r ELSE T[s]]
  BY DEF SlotsOK
<1> QED
  BY <1>1 DEF SameTexs

LEMMA FinishTex ==
  ASSUME NEW T, SlotsOK(T), NEW i \in Slots, NEW src \in Slots
  PROVE  \A s \in Slots : MoveTexture(T, i, src)[s].tex = IF s = src THEN T[i].tex ELSE T[s].tex
<1> DEFINE C == copyTexture(T, i, src)
           R == resetTexture(C, src)
           Q == resetTexture(R, i)
           A == [Q EXCEPT ![i].active = FALSE]
           B == [A EXCEPT ![src].active = TRUE]
<1>1. SlotsOK(C) /\ \A s \in Slots : C[s] = IF s = src THEN T[i] ELSE T[s]
  BY PutSlot DEF copyTexture, SlotsOK, OthersSame
<1>2. SlotsOK(R) /\ SameTexs(C, R)
  BY <1>1, ResetTex
<1>3. SlotsOK(Q) /\ SameTexs(R, Q)
  BY <1>2, ResetTex
<1>4. ASSUME NEW U, SlotsOK(U), NEW k \in Slots, NEW b \in BOOLEAN
      PROVE  SameTexs(U, [U EXCEPT ![k].active = b])
  <2> DEFINE r == [U[k] EXCEPT !.active = b]
  <2>1. [U EXCEPT ![k].active = b] = [U EXCEPT ![k] = r] /\ U[k] \in Slot(U[k].tex)
    BY <1>4 DEF SlotsOK
  <2>2. r.tex = U[k].tex
    BY <2>1 DEF Slot
  <2> HIDE DEF r
  <2> QED
    BY <1>4, <2>1, <2>2, PutSame
<1>5. SlotsOK(A) /\ SameTexs(Q, A)
  BY <1>3, <1>4, SetActive
<1>6. SameTexs(A, B)
  BY <1>4, <1>5
<1>7. MoveTexture(T, i, src) = B
  BY DEF MoveTexture
<1> HIDE DEF C, R, Q, A, B
<1> QED
  BY <1>1, <1>2, <1>3, <1>5, <1>6, <1>7 DEF SameTexs

LEMMA FaderTex ==
  ASSUME IInv, faderThread, ~FinishEnd
  PROVE  SameTexs(textures, textures')
<1>1. SlotsOK(textures) /\ fader.slot \in Slots /\ textures[fader.slot].fadesrc \in Slots
  BY DEF IInv, ControlTypeOK, SlotsOK, Slot, Slots
<1>2. SameTexs(textures, textures)
  BY DEF SameTexs
<1>3. ASSUME NEW i \in Slots, FadeinLast(i) PROVE SameTexs(textures, textures')
  <2> DEFINE R == resetTexture(textures, i)
             r == [R[i] EXCEPT !.alpha = FadeMax]
  <2>1. SlotsOK(R) /\ SameTexs(textures, R) /\ R[i] \in Slot(R[i].tex)
    BY <1>1, ResetTex DEF SlotsOK
  <2>2. textures' = [R EXCEPT ![i].alpha = FadeMax]
    BY <1>3 DEF FadeinLast
  <2> HIDE DEF R
  <2>3. textures' = [R EXCEPT ![i] = r] /\ r.tex = R[i].tex
    BY <2>1, <2>2 DEF Slot
  <2> HIDE DEF r
  <2> QED
    BY <2>1, <2>3, PutSame DEF SameTexs
<1>4. ASSUME NEW i \in Slots, FadeinTick(i) \/ FadeoverTick(i) PROVE SameTexs(textures, textures')
  <2>1. textures[i] \in Slot(textures[i].tex)
    BY <1>1 DEF SlotsOK
  <2>2. \E r : textures' = [textures EXCEPT ![i] = r] /\ r.tex = textures[i].tex
    <3>1. CASE FadeinTick(i)
      <4> DEFINE r == [textures[i] EXCEPT !.fadein = textures[i].fadein - 1, !.dirty = TRUE,
                                          !.alpha = FadeMax - (textures[i].fadein - 1)]
      <4>1. r.tex = textures[i].tex
        BY <2>1 DEF Slot
      <4>2. textures' = [textures EXCEPT ![i] = r]
        BY <1>1, <2>1, <3>1 DEF FadeinTick, SlotsOK, Slot
      <4> QED
        BY <4>1, <4>2
    <3>2. CASE FadeoverTick(i)
      <4> DEFINE r == [textures[i] EXCEPT !.fadeover = textures[i].fadeover - 1, !.dirty = TRUE,
                                          !.alpha = textures[i].fadeover - 1]
      <4>1. r.tex = textures[i].tex
        BY <2>1 DEF Slot
      <4>2. textures' = [textures EXCEPT ![i] = r]
        BY <1>1, <2>1, <3>2 DEF FadeoverTick, SlotsOK, Slot
      <4> QED
        BY <4>1, <4>2
    <3> QED
      BY <1>4, <3>1, <3>2
  <2>3. PICK r : textures' = [textures EXCEPT ![i] = r] /\ r.tex = textures[i].tex
    BY <2>2
  <2> QED
    BY <1>1, <2>3, PutSame
<1>5. CASE ToggleSrc
  <2> DEFINE i   == fader.slot
             src == textures[i].fadesrc
             R   == resetTexture(textures, src)
             r   == [R[src] EXCEPT !.fadeover = FadeMax, !.fadeloop = R[i].fadeloop - 1,
                                   !.fadesrc = i, !.active = TRUE]
  <2>1. SlotsOK(R) /\ SameTexs(textures, R) /\ R[src] \in Slot(R[src].tex) /\ src \in Slots
    BY <1>1, ResetTex DEF SlotsOK
  <2>2. textures' = ArmNextLeg(textures, i, src)
    BY <1>5 DEF ToggleSrc
  <2>3. textures' = [R EXCEPT ![src] = r]
    BY <2>1, <2>2 DEF ArmNextLeg, SlotsOK
  <2> HIDE DEF R, src
  <2>4. r.tex = R[src].tex
    BY <2>1 DEF Slot
  <2> HIDE DEF r
  <2> QED
    BY <2>1, <2>3, <2>4, PutSame DEF SameTexs
<1>6. CASE ToggleEnd
  BY <1>1, <1>6, ResetTex DEF ToggleEnd
<1> QED
  BY <1>2, <1>3, <1>4, <1>5, <1>6 DEF faderThread, FaderScan, ToggleTest, FinishBegin

LEMMA CommandTex ==
  ASSUME IInv, processCommand
  PROVE  SameTexs(textures, textures')
<1>1. SlotsOK(textures) /\ 0 \in Slots /\ 1 \in Slots
  BY DEF IInv, ControlTypeOK, Slots
<1>2. textures[0] \in Slot(textures[0].tex) /\ textures[1] \in Slot(textures[1].tex)
  BY <1>1 DEF SlotsOK
<1>3. ASSUME NEW i \in {0, 1}, NEW r, textures' = [textures EXCEPT ![i] = r],
             r.tex = textures[i].tex
      PROVE  SameTexs(textures, textures')
  BY <1>1, <1>3, PutSame
<1>4. CASE FadeIn
  <2> DEFINE r == [textures[0] EXCEPT !.active = TRUE, !.fadein = FadeMax]
  <2>1. textures' = [textures EXCEPT ![0] = r] /\ r.tex = textures[0].tex
    BY <1>1, <1>2, <1>4 DEF FadeIn, SlotsOK, Slot
  <2> QED
    BY <1>3, <2>1
<1>5. CASE FadeOut
  <2> DEFINE r == [textures[0] EXCEPT !.active = TRUE, !.fadeout = FadeMax]
  <2>1. textures' = [textures EXCEPT ![0] = r] /\ r.tex = textures[0].tex
    BY <1>1, <1>2, <1>5 DEF FadeOut, SlotsOK, Slot
  <2> QED
    BY <1>3, <2>1
<1>6. CASE FadeOver
  <2> DEFINE r == [textures[1] EXCEPT !.fadeover = FadeMax, !.fadesrc = 0, !.active = TRUE]
  <2>1. textures' = [textures EXCEPT ![1] = r] /\ r.tex = textures[1].tex
    BY <1>1, <1>2, <1>6 DEF FadeOver, SlotsOK, Slot
  <2> QED
    BY <1>3, <2>1
<1>7. CASE FadeLoop
  <2> DEFINE r == [textures[0] EXCEPT !.fadeloop = cmd.loop]
  <2>1. textures' = [textures EXCEPT ![0] = r] /\ r.tex = textures[0].tex
    BY <1>1, <1>2, <1>7 DEF FadeLoop, SlotsOK, Slot
  <2> QED
    BY <1>3, <2>1
<1>8. CASE FadeLoop2
  <2> DEFINE r == [textures[0] EXCEPT !.fadeover = FadeMax, !.fadesrc = 1, !.active = TRUE]
  <2>1. textures' = [textures EXCEPT ![0] = r] /\ r.tex = textures[0].tex
    BY <1>1, <1>2, <1>8 DEF FadeLoop2, SlotsOK, Slot
  <2> QED
    BY <1>3, <2>1
<1>9. CASE UNCHANGED textures
  BY <1>9 DEF SameTexs
<1> QED
  BY <1>4, <1>5, <1>6, <1>7, <1>8, <1>9 DEF processCommand, Handler, Issue, Block, DrawDone

LEMMA CopyTex ==
  ASSUME IInv, NEW t, UpdateCopy(t)
  PROVE  SameTexs(textures, textures')
<1> DEFINE i == upd[t].id
           U == [textures EXCEPT ![i].dirty = FALSE]
           r == [textures[i] EXCEPT !.dirty = FALSE]
<1>1. textures' = U /\ SlotsOK(textures)
  BY DEF UpdateCopy, IInv, ControlTypeOK
<1> HIDE DEF i
<1>2. U = [s \in Slots |-> IF s = i THEN r ELSE textures[s]]
  BY <1>1 DEF SlotsOK
<1>3. i \in Slots => r.tex = textures[i].tex
  BY <1>1 DEF SlotsOK, Slot
<1> HIDE DEF r, U
<1> QED
  BY <1>1, <1>2, <1>3 DEF SameTexs

\* 37-39: only the slot that is loaded gets another texture.
LEMMA LoadTex ==
  ASSUME IInv, LoadImage, loading.code \in Slots
  PROVE  \E x \in {Len(heap) + 1, NoTex} :
           /\ \A s \in Slots : textures'[s].tex = IF s = loading.code THEN x ELSE textures[s].tex
           /\ x # NoTex => heap' = Append(heap, Texture(loading.arg))
           /\ heap' = heap \/ heap' = Append(heap, Texture(loading.arg))
<1> DEFINE i == loading.code
<1>1. PICK x \in {Len(heap) + 1, NoTex} :
        /\ textures' = [textures EXCEPT ![i].tex = x]
        /\ (heap' = heap /\ x = NoTex) \/ heap' = Append(heap, Texture(loading.arg))
  BY DEF LoadImage
<1> DEFINE r == [textures[i] EXCEPT !.tex = x]
<1>2. SlotsOK(textures) /\ i \in Slots /\ textures[i] \in Slot(textures[i].tex)
  BY DEF IInv, ControlTypeOK, SlotsOK
<1> HIDE DEF i
<1>3. textures' = [s \in Slots |-> IF s = i THEN r ELSE textures[s]] /\ r.tex = x
  BY <1>1, <1>2 DEF SlotsOK, Slot
<1> HIDE DEF r
<1>4. \A s \in Slots : textures'[s].tex = IF s = i THEN x ELSE textures[s].tex
  BY <1>3
<1>5. x # NoTex => heap' = Append(heap, Texture(loading.arg))
  BY <1>1
<1>6. heap' = heap \/ heap' = Append(heap, Texture(loading.arg))
  BY <1>1
<1> HIDE DEF i
<1> QED
  BY <1>4, <1>5, <1>6 DEF i


-------------------------------------------------------------------------------
(* The events in the queue and the textures they name.                     *)

EventOK(e, n) ==
  /\ e \in Event
  /\ e.type = "load" => e.code \in {0, 1} /\ e.arg \in 0..2 * MaxCmds + 1
  /\ e.type = "destroy" => e.arg \in 0..n

EventsOK(q, n) == q \in Seq(Event) /\ \A k \in 1..Len(q) : EventOK(q[k], n)

Updates(n) == [at : {"no", "loop", "begin", "blend", "copy"}, id : Slots, tex : 0..n,
               rest : 0..3, all : BOOLEAN]

TypeInv ==
  /\ heap \in Seq(SdlTexture) /\ heap # <<>>
  /\ EventsOK(queue, Len(heap))
  /\ loading = NoEvent \/ (EventOK(loading, Len(heap)) /\ loading.type = "load")
  /\ upd \in [Renderers -> Updates(Len(heap))]
  /\ screen \in SdlTexture
  /\ issued \in 0..MaxCmds /\ ticks \in 0..TimerUpds
  /\ \A s \in Slots : textures[s].tex \in 0..Len(heap)

LEMMA AppendOK ==
  ASSUME NEW q, NEW n \in Nat, EventsOK(q, n), NEW e, EventOK(e, n)
  PROVE  EventsOK(Append(q, e), n)
<1> DEFINE r == Append(q, e)
<1>1. /\ r \in Seq(Event) /\ Len(r) = Len(q) + 1 /\ Len(q) \in Nat /\ r[Len(q) + 1] = e
      /\ \A k \in 1..Len(q) : r[k] = q[k]
  BY DEF EventsOK, EventOK
<1> HIDE DEF r
<1>2. \A k \in 1..Len(r) : k \in 1..Len(q) \/ k = Len(q) + 1
  BY <1>1
<1> QED
  BY <1>1, <1>2 DEF EventsOK, r

LEMMA TailOK ==
  ASSUME NEW q, NEW n \in Nat, EventsOK(q, n), q # <<>>
  PROVE  /\ EventsOK(Tail(q), n) /\ EventOK(Head(q), n)
         /\ Len(q) \in Nat \ {0} /\ Len(Tail(q)) = Len(q) - 1 /\ Head(q) = q[1]
         /\ \A k \in 1..Len(Tail(q)) : Tail(q)[k] = q[k + 1] /\ k + 1 \in 2..Len(q)
<1>1. /\ Tail(q) \in Seq(Event) /\ Len(q) \in Nat \ {0} /\ Len(Tail(q)) = Len(q) - 1
      /\ Head(q) = q[1]
      /\ \A k \in 1..Len(Tail(q)) : Tail(q)[k] = q[k + 1] /\ k + 1 \in 2..Len(q)
                                    /\ k + 1 \in 1..Len(q)
  BY DEF EventsOK
<1>2. 1 \in 1..Len(q)
  BY <1>1
<1> QED
  BY <1>1, <1>2 DEF EventsOK

LEMMA FlushOK ==
  ASSUME NEW q, NEW n \in Nat, EventsOK(q, n)
  PROVE  EventsOK(FlushUpd(q), n)
<1> DEFINE r == FlushUpd(q)
<1>1. Flushed(r, q, Len(q))
  BY FlushUpdFlushes DEF EventsOK
<1> HIDE DEF r
<1> QED
  BY <1>1 DEF Flushed, EventsOK, r

LEMMA MoreOK ==
  ASSUME NEW m \in Nat, NEW n \in Nat, m <= n
  PROVE  /\ \A e : EventOK(e, m) => EventOK(e, n)
         /\ \A q : EventsOK(q, m) => EventsOK(q, n)
         /\ \A u : u \in Updates(m) => u \in Updates(n)
         /\ 0..m \subseteq 0..n
<1>1. 0..m \subseteq 0..n
  OBVIOUS
<1>2. \A e : EventOK(e, m) => EventOK(e, n)
  BY <1>1 DEF EventOK
<1>3. \A u : u \in Updates(m) => u \in Updates(n)
  BY <1>1 DEF Updates
<1> QED
  BY <1>1, <1>2, <1>3 DEF EventsOK

\* The events the program makes.
LEMMA NewEventsOK ==
  ASSUME NEW n \in Nat
  PROVE  /\ \A s \in Slots : EventOK(Upd(s), n)
         /\ EventOK(Upd(-1), n)
         /\ \A s \in {0, 1}, p \in 0..2 * MaxCmds + 1 : EventOK(LoadImg(s, p), n)
         /\ \A s \in Slots, t \in 0..n : EventOK(Destroy(s, t), n)
<1>1. 2 * MaxCmds + 1 \in Nat
  BY ConstantsAssumption
<1> QED
  BY <1>1 DEF EventOK, Event, Upd, LoadImg, Destroy, Slots

LEMMA NoUpdateType == ASSUME NEW n \in Nat PROVE NoUpdate \in Updates(n)
BY DEF NoUpdate, Updates, Slots

LEMMA StartType ==
  ASSUME NEW n \in Nat, NEW c \in {-1} \cup Slots
  PROVE  StartUpdate(c) \in Updates(n)
<1>1. NoUpdate \in Updates(n)
  BY NoUpdateType
<1>2. [NoUpdate EXCEPT !.at = "loop", !.all = TRUE] \in Updates(n)
  BY <1>1 DEF Updates
<1>3. c \in Slots => [NoUpdate EXCEPT !.at = "begin", !.id = c] \in Updates(n)
  BY <1>1 DEF Updates
<1> QED
  BY <1>2, <1>3 DEF StartUpdate, Slots

LEMMA TextureType ==
  ASSUME NEW p \in 0..2 * MaxCmds + 1
  PROVE  Texture(p) \in SdlTexture
BY ConstantsAssumption DEF Texture, SdlTexture

LEMMA TypeInit == Init => TypeInv
<1> SUFFICES ASSUME Init PROVE TypeInv
  OBVIOUS
<1>1. 0 \in 0..2 * MaxCmds + 1 /\ 0 \in 0..MaxCmds /\ 0 \in 0..TimerUpds
  BY ConstantsAssumption
<1>2. heap = <<Texture(0)>> /\ Len(heap) = 1 /\ heap \in Seq(SdlTexture) /\ heap # <<>>
      /\ screen \in SdlTexture
  BY <1>1, TextureType DEF Init
<1>3. upd \in [Renderers -> Updates(1)]
  BY NoUpdateType DEF Init
<1>4. EventsOK(queue, 1) /\ loading = NoEvent
  BY DEF Init, EventsOK
<1>5. \A s \in Slots : textures[s].tex \in 0..1
  BY BlankFields DEF Init, NoTex
<1> QED
  BY <1>1, <1>2, <1>3, <1>4, <1>5 DEF TypeInv, Init


LEMMA FaderType == IInv /\ TypeInv /\ faderThread => TypeInv'
<1> SUFFICES ASSUME IInv, TypeInv, faderThread PROVE TypeInv'
  OBVIOUS
<1>1. Len(heap) \in Nat /\ fader.slot \in Slots /\ fader.src \in Slots
      /\ SlotsOK(textures)
  BY DEF TypeInv, IInv, ControlTypeOK, Slots
<1>2. UNCHANGED <<heap, loading, upd, screen, issued, ticks>>
  BY DEF faderThread, FaderScan, FadeinLast, FadeinTick, ToggleTest, FinishBegin, FadeoverTick,
     ToggleSrc, ToggleEnd, FinishEnd, dataVars
<1>3. queue' = queue \/ \E e : queue' = Append(queue, e) /\ EventOK(e, Len(heap))
  <2>1. \A s \in Slots : EventOK(Upd(s), Len(heap))
    BY <1>1, NewEventsOK
  <2>2. ASSUME NEW i \in Slots, FinishBegin(i)
        PROVE  \E e : queue' = Append(queue, e) /\ EventOK(e, Len(heap))
    <3>1. textures[i].fadesrc \in Slots
      <4>1. textures[i] \in Slot(textures[i].tex)
        BY <1>1 DEF SlotsOK
      <4> QED
        BY <4>1 DEF Slot, Slots
    <3>2. EventOK(Destroy(textures[i].fadesrc, FadedFrom(i)), Len(heap))
      BY <1>1, <3>1, NewEventsOK DEF TypeInv, FadedFrom
    <3> QED
      BY <2>2, <3>2 DEF FinishBegin
  <2>3. ASSUME NEW i \in Slots, FadeinLast(i) \/ FadeinTick(i) \/ FadeoverTick(i)
        PROVE  queue' = Append(queue, Upd(i))
    BY <2>3 DEF FadeinLast, FadeinTick, FadeoverTick
  <2>4. CASE FinishEnd
    BY <1>1, <2>1, <2>4 DEF FinishEnd
  <2>5. CASE ToggleSrc \/ ToggleEnd \/ \E i \in Slots : ToggleTest(i)
    BY <2>5 DEF ToggleSrc, ToggleEnd, ToggleTest
  <2> QED
    BY <2>1, <2>2, <2>3, <2>4, <2>5 DEF faderThread, FaderScan
<1>4. EventsOK(queue', Len(heap))
  BY <1>1, <1>3, AppendOK DEF TypeInv
<1>5. \A s \in Slots : textures'[s].tex \in 0..Len(heap)
  <2>1. CASE FinishEnd
    BY <1>1, <2>1, FinishTex DEF FinishEnd, TypeInv
  <2>2. CASE ~FinishEnd
    BY <2>2, FaderTex DEF TypeInv, SameTexs
  <2> QED
    BY <2>1, <2>2
<1> QED
  BY <1>2, <1>4, <1>5 DEF TypeInv

LEMMA CommandType == IInv /\ TypeInv /\ processCommand => TypeInv'
<1> SUFFICES ASSUME IInv, TypeInv, processCommand PROVE TypeInv'
  OBVIOUS
<1> USE DEF engineVars
<1>1. /\ Len(heap) \in Nat /\ issued \in 0..MaxCmds /\ MaxCmds \in Nat
      /\ EventsOK(queue, Len(heap)) /\ upd \in [Renderers -> Updates(Len(heap))]
  BY ConstantsAssumption DEF TypeInv
<1>2. UNCHANGED <<heap, loading, screen, ticks>>
  BY DEF processCommand, Handler, Issue, FadeIn, FadeOut, FadeOver, FadeLoop, FadeLoop2,
     Block, DrawDone
<1>3. PicA(issued) \in 0..2 * MaxCmds + 1 /\ PicB(issued) \in 0..2 * MaxCmds + 1
  BY <1>1 DEF PicA, PicB
<1>4. \A s \in {0, 1}, p \in {PicA(issued), PicB(issued)} : EventOK(LoadImg(s, p), Len(heap))
  BY <1>1, <1>3, NewEventsOK
<1>5. \A s \in Slots : textures'[s].tex \in 0..Len(heap)
  BY CommandTex DEF TypeInv, SameTexs
<1>6. CASE \E c \in Commands : Issue(c)
  <2>1. issued' \in 0..MaxCmds /\ queue' = queue
    BY <1>1, <1>6 DEF Issue
  <2>2. StartUpdate(0) \in Updates(Len(heap))
    BY <1>1, NoUpdateType DEF StartUpdate, NoUpdate, Updates, Slots
  <2>3. upd' \in [Renderers -> Updates(Len(heap))]
    BY <1>1, <1>6, <2>2 DEF Issue
  <2> QED
    BY <1>2, <1>5, <2>1, <2>3 DEF TypeInv
<1>7. CASE FadeLoop
  <2>1. Append(Append(queue, LoadImg(0, PicB(issued))), LoadImg(1, PicA(issued))) = queue'
    BY <1>1, <1>4, <1>7 DEF FadeLoop, EventsOK, EventOK
  <2>2. EventsOK(queue', Len(heap))
    BY <1>1, <1>4, <2>1, AppendOK
  <2>3. UNCHANGED <<upd, issued>>
    BY <1>7 DEF FadeLoop
  <2> QED
    BY <1>2, <1>5, <2>2, <2>3 DEF TypeInv
<1>8. CASE FadeIn \/ FadeOver
  <2>1. EventsOK(queue', Len(heap))
    <3>1. \E s \in {0, 1} : queue' = Append(queue, LoadImg(s, PicB(issued)))
      BY <1>8 DEF FadeIn, FadeOver
    <3> QED
      BY <1>1, <1>4, <3>1, AppendOK
  <2>2. UNCHANGED <<upd, issued>>
    BY <1>8 DEF FadeIn, FadeOver
  <2> QED
    BY <1>2, <1>5, <2>1, <2>2 DEF TypeInv
<1>9. CASE FadeOut \/ FadeLoop2 \/ Block \/ DrawDone
  <2>1. UNCHANGED <<upd, issued, queue>>
    BY <1>9 DEF FadeOut, FadeLoop2, Block, DrawDone
  <2> QED
    BY <1>2, <1>5, <2>1 DEF TypeInv
<1> QED
  BY <1>6, <1>7, <1>8, <1>9 DEF processCommand, Handler

LEMMA UpdateType ==
  ASSUME IInv, TypeInv, NEW t \in Renderers, update(t)
  PROVE  TypeInv'
<1> DEFINE n == Len(heap)
<1>1. /\ n \in Nat /\ heap \in Seq(SdlTexture) /\ SlotsOK(textures)
      /\ upd \in [Renderers -> Updates(n)] /\ upd[t] \in Updates(n) /\ upd[t].id \in Slots
      /\ \A s \in Slots : textures[s].tex \in 0..n
  BY DEF TypeInv, IInv, ControlTypeOK, Updates
<1>2. UNCHANGED <<queue, loading, issued, ticks>>
  BY DEF update, UpdateLoop, UpdateBegin, UpdateBlend, UpdateCopy, slotVars
<1>3. ASSUME NEW x \in 1..n, NEW a \in 0..FadeMax, heap' = [heap EXCEPT ![x].colorMod = a]
                                               \/ heap' = [heap EXCEPT ![x].alphaMod = a]
      PROVE  heap' \in Seq(SdlTexture) /\ Len(heap') = n
  <2>1. heap[x] \in SdlTexture
    BY <1>1
  <2>2. PICK r \in SdlTexture : heap' = [heap EXCEPT ![x] = r]
    <3>1. [heap[x] EXCEPT !.colorMod = a] \in SdlTexture /\ [heap[x] EXCEPT !.alphaMod = a] \in SdlTexture
      BY <1>3, <2>1 DEF SdlTexture
    <3> QED
      BY <1>3, <3>1
  <2> QED
    BY <1>1, <2>2
<1>4. CASE UpdateLoop(t)
  <2>1. UNCHANGED <<textures, heap, screen>>
    BY <1>4 DEF UpdateLoop
  <2>2. upd' \in [Renderers -> Updates(n)]
    <3>1. CASE upd' = [upd EXCEPT ![t] = NoUpdate]
      BY <1>1, <3>1, NoUpdateType
    <3>2. CASE \E s \in Slots : upd' = [upd EXCEPT ![t].at = "begin", ![t].id = s, ![t].rest = s + 1]
      <4>1. PICK s \in Slots : upd' = [upd EXCEPT ![t].at = "begin", ![t].id = s, ![t].rest = s + 1]
        BY <3>2
      <4>2. s + 1 \in 0..3
        BY DEF Slots
      <4>3. [upd[t] EXCEPT !.at = "begin", !.id = s, !.rest = s + 1] \in Updates(n)
        BY <1>1, <4>2 DEF Updates
      <4> QED
        BY <1>1, <4>1, <4>3
    <3> QED
      BY <1>4, <3>1, <3>2 DEF UpdateLoop, Redraw
  <2> QED
    BY <1>2, <2>1, <2>2 DEF TypeInv
<1>5. CASE UpdateBegin(t)
  <2> DEFINE s == textures[upd[t].id]
             l == IF s.fadeover > 0 THEN "blend" ELSE "copy"
  <2>1. UNCHANGED <<textures, screen>>
    BY <1>5 DEF UpdateBegin
  <2>2. s \in Slot(s.tex) /\ s.tex \in 0..n
    BY <1>1 DEF SlotsOK
  <2>3. s.alpha \in 0..FadeMax
    BY <2>2 DEF Slot
  <2>4. heap' = heap \/ (s.tex \in 1..n /\ heap' = [heap EXCEPT ![s.tex].colorMod = s.alpha])
    <3>1. heap' = heap \/ (s.tex # 0 /\ heap' = [heap EXCEPT ![s.tex].colorMod = s.alpha])
      BY <1>5 DEF UpdateBegin, NoTex
    <3>2. s.tex # 0 => s.tex \in 1..n
      BY <1>1, <2>2
    <3> QED
      BY <3>1, <3>2
  <2>5. heap' \in Seq(SdlTexture) /\ Len(heap') = n
    BY <1>1, <1>3, <2>3, <2>4
  <2>6. [upd[t] EXCEPT !.tex = s.tex, !.at = l] \in Updates(n)
    BY <1>1, <2>2 DEF Updates
  <2>7. upd' = [upd EXCEPT ![t] = [upd[t] EXCEPT !.tex = s.tex, !.at = l]]
    BY <1>1, <1>5 DEF UpdateBegin
  <2>8. upd' \in [Renderers -> Updates(n)]
    BY <1>1, <2>6, <2>7
  <2> HIDE DEF n
  <2> QED
    BY <1>1, <1>2, <2>1, <2>5, <2>8 DEF TypeInv, n
<1>6. CASE UpdateBlend(t)
  <2> DEFINE s   == textures[upd[t].id]
             src == textures[s.fadesrc].tex
             x   == textures[TempSlot].tex
  <2>1. UNCHANGED <<textures, screen>>
    BY <1>6 DEF UpdateBlend
  <2>2. s \in Slot(s.tex) /\ x \in 0..n
    BY <1>1 DEF SlotsOK, TempSlot, Slots
  <2>3. s.alpha \in 0..FadeMax /\ s.fadesrc \in Slots
    BY <2>2 DEF Slot, Slots
  <2>4. src \in 0..n
    BY <1>1, <2>3
  <2>5. heap' = heap \/ (src \in 1..n /\ heap' = [heap EXCEPT ![src].alphaMod = s.alpha])
    <3>1. heap' = heap \/ (src # 0 /\ heap' = [heap EXCEPT ![src].alphaMod = s.alpha])
      BY <1>6 DEF UpdateBlend, NoTex
    <3>2. src # 0 => src \in 1..n
      BY <1>1, <2>4
    <3> QED
      BY <3>1, <3>2
  <2>6. heap' \in Seq(SdlTexture) /\ Len(heap') = n
    BY <1>1, <1>3, <2>3, <2>5
  <2>7. [upd[t] EXCEPT !.tex = x, !.at = "copy"] \in Updates(n)
    BY <1>1, <2>2 DEF Updates
  <2>8. upd' = [upd EXCEPT ![t] = [upd[t] EXCEPT !.tex = x, !.at = "copy"]]
    BY <1>1, <1>6 DEF UpdateBlend
  <2>9. upd' \in [Renderers -> Updates(n)]
    BY <1>1, <2>7, <2>8
  <2> HIDE DEF n
  <2> QED
    BY <1>1, <1>2, <2>1, <2>6, <2>9 DEF TypeInv, n
<1>7. CASE UpdateCopy(t)
  <2>1. heap' = heap /\ screen' \in Copied(upd[t].tex)
    BY <1>7 DEF UpdateCopy
  <2>2. upd[t].tex \in 0..n
    BY <1>1 DEF Updates
  <2>3. screen' \in SdlTexture
    BY <1>1, <2>1, <2>2 DEF Copied, NoTex, TypeInv
  <2>4. \A s \in Slots : textures'[s].tex \in 0..n
    BY <1>1, <1>7, CopyTex DEF SameTexs
  <2>5. [upd[t] EXCEPT !.at = "loop", !.id = 0, !.tex = NoTex] \in Updates(n)
    <3>1. 0 \in 0..n /\ 0 \in Slots
      BY <1>1 DEF Slots
    <3> HIDE DEF n
    <3> QED
      BY <1>1, <3>1 DEF Updates, NoTex
  <2>6. upd' \in [Renderers -> Updates(n)]
    BY <1>1, <1>7, <2>5, NoUpdateType DEF UpdateCopy
  <2> QED
    BY <1>2, <2>1, <2>3, <2>4, <2>6 DEF TypeInv
<1> QED
  BY <1>4, <1>5, <1>6, <1>7 DEF update

LEMMA MainType == IInv /\ TypeInv /\ (main \/ TimerUpd) => TypeInv'
<1> SUFFICES ASSUME IInv, TypeInv, main \/ TimerUpd PROVE TypeInv'
  OBVIOUS
<1> USE DEF threadVars
<1>1. /\ Len(heap) \in Nat /\ EventsOK(queue, Len(heap)) /\ heap \in Seq(SdlTexture)
      /\ upd \in [Renderers -> Updates(Len(heap))]
  BY DEF TypeInv
<1>2. ASSUME NEW e, EventOK(e, Len(heap)), e.type = "upd"
      PROVE  StartUpdate(e.code) \in Updates(Len(heap))
  BY <1>1, <1>2, StartType DEF EventOK, Event
<1>3. CASE TakeUpd
  <2>1. EventsOK(Tail(queue), Len(heap)) /\ EventOK(Head(queue), Len(heap))
    BY <1>1, <1>3, TailOK DEF TakeUpd, MainIdle
  <2>2. EventsOK(queue', Len(heap))
    BY <1>1, <1>3, <2>1, FlushOK DEF TakeUpd
  <2>3. upd' \in [Renderers -> Updates(Len(heap))]
    BY <1>1, <1>2, <1>3, <2>1 DEF TakeUpd
  <2>4. UNCHANGED <<textures, heap, loading, screen, issued, ticks>>
    BY <1>3 DEF TakeUpd
  <2> QED
    BY <2>2, <2>3, <2>4 DEF TypeInv
<1>4. CASE TakeLoad
  <2>1. EventsOK(queue', Len(heap)) /\ EventOK(loading', Len(heap)) /\ loading'.type = "load"
    BY <1>1, <1>4, TailOK DEF TakeLoad, MainIdle
  <2>2. UNCHANGED <<textures, heap, upd, screen, issued, ticks>>
    BY <1>4 DEF TakeLoad
  <2> QED
    BY <2>1, <2>2 DEF TypeInv
<1>5. CASE LoadImage
  <2>1. /\ loading.code \in Slots /\ loading.arg \in 0..2 * MaxCmds + 1
    BY <1>5 DEF LoadImage, TypeInv, EventOK, Slots
  <2>2. PICK x \in {Len(heap) + 1, NoTex} :
          /\ \A s \in Slots : textures'[s].tex = IF s = loading.code THEN x ELSE textures[s].tex
          /\ x # NoTex => heap' = Append(heap, Texture(loading.arg))
          /\ heap' = heap \/ heap' = Append(heap, Texture(loading.arg))
    BY <1>5, <2>1, LoadTex
  <2>3. /\ heap' \in Seq(SdlTexture) /\ heap' # <<>> /\ Len(heap') \in Nat
        /\ Len(heap) <= Len(heap') /\ x \in 0..Len(heap')
    <3>1. Texture(loading.arg) \in SdlTexture /\ heap # <<>>
      BY <2>1, TextureType DEF TypeInv
    <3>2. CASE heap' = heap
      <4>1. x = 0
        BY <1>1, <2>2, <3>1, <3>2 DEF NoTex
      <4> QED
        BY <1>1, <3>1, <3>2, <4>1
    <3>3. CASE heap' = Append(heap, Texture(loading.arg))
      BY <1>1, <3>1, <3>3 DEF NoTex
    <3> QED
      BY <2>2, <3>2, <3>3
  <2>4. UNCHANGED <<queue, upd, screen, issued, ticks>> /\ loading' = NoEvent
    BY <1>5 DEF LoadImage
  <2>5. EventsOK(queue, Len(heap')) /\ upd \in [Renderers -> Updates(Len(heap'))]
        /\ 0..Len(heap) \subseteq 0..Len(heap')
    BY <1>1, <2>3, MoreOK
  <2>6. \A s \in Slots : textures'[s].tex \in 0..Len(heap')
    BY <2>2, <2>3, <2>5 DEF TypeInv
  <2> QED
    BY <2>3, <2>4, <2>5, <2>6 DEF TypeInv
<1>6. CASE TakeDestroy
  <2>1. EventsOK(queue', Len(heap)) /\ EventOK(Head(queue), Len(heap)) /\ Head(queue).type = "destroy"
    BY <1>1, <1>6, TailOK DEF TakeDestroy, MainIdle
  <2> DEFINE x == Head(queue).arg
  <2>2. x \in 0..Len(heap)
    BY <2>1 DEF EventOK
  <2>3. heap' = heap \/ (x \in 1..Len(heap) /\ heap' = [heap EXCEPT ![x].live = FALSE])
    BY <1>1, <1>6, <2>2 DEF TakeDestroy, NoTex
  <2>4. x \in 1..Len(heap) => [heap[x] EXCEPT !.live = FALSE] \in SdlTexture
    <3> SUFFICES ASSUME x \in 1..Len(heap) PROVE [heap[x] EXCEPT !.live = FALSE] \in SdlTexture
      OBVIOUS
    <3>1. heap[x] \in SdlTexture
      BY <1>1
    <3> QED
      BY <3>1 DEF SdlTexture
  <2> HIDE DEF x
  <2>5. heap' \in Seq(SdlTexture) /\ Len(heap') = Len(heap)
    <3>1. CASE x \in 1..Len(heap) /\ heap' = [heap EXCEPT ![x].live = FALSE]
      <4>1. PICK r \in SdlTexture : heap' = [heap EXCEPT ![x] = r]
        BY <2>4, <3>1
      <4>2. x \in 1..Len(heap)
        BY <3>1
      <4> QED
        BY <1>1, <4>1, <4>2
    <3> QED
      BY <1>1, <2>3, <3>1
  <2>6. StartUpdate(-1) \in Updates(Len(heap))
    BY <1>1, StartType
  <2>7. upd' \in [Renderers -> Updates(Len(heap))]
    BY <1>1, <1>6, <2>6 DEF TakeDestroy
  <2>8. UNCHANGED <<textures, loading, screen, issued, ticks>>
    BY <1>6 DEF TakeDestroy
  <2>9. heap' # <<>>
    BY <1>1, <2>5 DEF TypeInv
  <2> QED
    BY <2>1, <2>5, <2>7, <2>8, <2>9 DEF TypeInv
<1>7. CASE TimerUpd
  <2>1. EventsOK(queue', Len(heap))
    BY <1>1, <1>7, NewEventsOK, AppendOK DEF TimerUpd
  <2>2. ticks' \in 0..TimerUpds
    BY <1>7, ConstantsAssumption DEF TimerUpd, TypeInv
  <2>3. UNCHANGED <<textures, heap, loading, upd, screen, issued>>
    BY <1>7 DEF TimerUpd
  <2> QED
    BY <2>1, <2>2, <2>3 DEF TypeInv
<1> QED
  BY <1>3, <1>4, <1>5, <1>6, <1>7 DEF main

LEMMA TypeStep == IInv /\ TypeInv /\ [Next]_vars => TypeInv'
<1>1. TypeInv /\ UNCHANGED vars => TypeInv'
  BY DEF vars, TypeInv
<1> QED
  BY <1>1, FaderType, CommandType, UpdateType, MainType DEF Next

\* Every variable keeps its type; a texture id is an index of heap.
THEOREM EngineTyped == Spec => []TypeOK
<1>1. IInv /\ TypeInv => TypeOK
  BY DEF IInv, TypeInv, TypeOK, EventsOK, EventOK, Updates
<1>2. Spec => []TypeInv
  BY TypeInit, TypeStep, InitIInv, NextIInv, PTL DEF Spec
<1> QED
  BY <1>1, <1>2, EngineInvariant, PTL


-------------------------------------------------------------------------------
(* Textures that are destroyed.  A texture dies when main takes its event  *)
(* from the queue; TexInv says why nobody holds it any more by then.       *)

\* A block of the fader and the loading of a picture are not interrupted.
Whole == {"fader", "load"} \cap Preempt = {}

\* The textures that the events of q destroy, and that q destroys none twice.
Named(q)   == {q[k].arg : k \in {k \in 1..Len(q) : q[k].type = "destroy"}}
NoTwice(q) == \A j, k \in 1..Len(q) :
                /\ q[j].type = "destroy" /\ q[k].type = "destroy"
                /\ q[j].arg = q[k].arg /\ q[j].arg # NoTex
                => j = k
HasLoad(q) == \E k \in 1..Len(q) : q[k].type = "load"

Doomed(t) == t \in Named(queue)

\* A slot holds a live texture, which is to be destroyed only where the fader is about
\* to replace it.
Holding ==
  \A s \in Slots :
    textures[s].tex # NoTex =>
      /\ heap[textures[s].tex].live
      /\ Doomed(textures[s].tex) => fader.pc = "finish" /\ s = fader.src

\* The render target is in no other slot.
Target == /\ textures[TempSlot].tex = 1
          /\ textures[0].tex # 1 /\ textures[1].tex # 1

\* During a fade the two slots hold different textures, as soon as they are loaded.
Apart == ~NoFade(textures) \/ cmd.pc = "loop2" =>
           \/ textures[0].tex # textures[1].tex \/ textures[0].tex = NoTex
           \/ LoadPending

\* A slot fades from the other one.
Facing == \A s \in Slots :
            textures[s].fadeover > 0 =>
              textures[s].fadesrc # s \/ (fader.pc = "toggleEnd" /\ s = fader.slot)

Swapped == fader.pc = "finish" => fader.slot # fader.src

\* The command thread draws only in its handler; what update() is about to show lives,
\* and main cannot be told to destroy it before it is shown.
Drawing == InUpdate("cmd") => cmd.pc = "draw"

Drawn ==
  \A t \in Renderers :
    upd[t].at = "copy" /\ upd[t].tex # NoTex =>
      /\ heap[upd[t].tex].live
      /\ t = "cmd" => ~Doomed(upd[t].tex)

Dying == \A t \in Named(queue) : t # NoTex => heap[t].live

TexInv == /\ Holding /\ Target /\ Apart /\ Facing /\ Swapped /\ Drawing /\ Drawn /\ Dying
          /\ NoTwice(queue)

\* Every step of the fader is on behalf of a fade.
LEMMA FaderFades ==
  ASSUME IInv, faderThread, ~NoFade(textures')
  PROVE  ~NoFade(textures)
<1>1. CASE ToggleEnd
  <2>1. SlotsOK(textures) /\ fader.slot \in Slots /\ textures' = resetTexture(textures, fader.slot)
    BY <1>1 DEF ToggleEnd, IInv, ControlTypeOK, Slots
  <2>2. OthersSame(textures, textures', fader.slot) /\ Faded(textures'[fader.slot])
    BY <2>1, ResetSlot, BlankFields
  <2>3. PICK s \in Slots : Fading(textures', s)
    BY DEF NoFade
  <2>4. s # fader.slot
    BY <2>2, <2>3 DEF Faded, Fading
  <2> QED
    BY <2>2, <2>3, <2>4 DEF OthersSame, NoFade, Fading
<1>2. CASE FinishEnd
  BY <1>2, FinishEndIInv
<1>3. CASE ToggleSrc
  <2>1. fader.slot \in Slots /\ Fading(textures, fader.slot)
    BY <1>3 DEF ToggleSrc, IInv, GateInv, FaderInv, ControlTypeOK, Fading, Slots
  <2> QED
    BY <2>1 DEF NoFade
<1>4. CASE \E i \in Slots : FaderScan(i)
  <2>1. PICK i \in Slots : FaderScan(i)
    BY <1>4
  <2>2. textures[i].fadein \in 0..FadeMax /\ textures[i].fadeover \in 0..FadeMax /\ FadeMax \in Nat
    BY ConstantsAssumption DEF IInv, ControlTypeOK, SlotsOK, Slot
  <2>3. \/ textures[i].fadein >= 1 \/ textures[i].fadeover >= 1 \/ textures[i].fadeloop > 0
    BY <2>1, <2>2 DEF FaderScan, FadeinLast, FadeinTick, ToggleTest, FinishBegin, FadeoverTick
  <2> QED
    BY <2>2, <2>3 DEF NoFade, Fading
<1> QED
  BY <1>1, <1>2, <1>3, <1>4 DEF faderThread

LEMMA FaderFacing == IInv /\ Facing /\ Swapped /\ faderThread => Facing' /\ Swapped'
<1> SUFFICES ASSUME IInv, Facing, Swapped, faderThread PROVE Facing' /\ Swapped'
  OBVIOUS
<1>1. SlotsOK(textures) /\ fader.slot \in {0, 1} /\ fader.slot \in Slots
      /\ textures[fader.slot].fadesrc \in {0, 1}
      /\ fader \in [pc : {"scan", "toggle", "toggleEnd", "finish"}, slot : {0, 1}, src : {0, 1}]
  BY DEF IInv, ControlTypeOK, SlotsOK, Slot, Slots
<1>2. ASSUME NEW i \in Slots, FaderScan(i) PROVE Facing' /\ Swapped'
  <2>1. fader.pc = "scan"
    BY <1>2 DEF FaderScan
  <2>2. \A s \in Slots : textures[s].fadeover > 0 => textures[s].fadesrc # s
    BY <2>1 DEF Facing
  <2>3. CASE FadeinLast(i)
    <3>1. Faded(textures'[i]) /\ OthersSame(textures, textures', i) /\ fader' = fader
      BY <1>1, <2>3, FadeinLastEffect DEF FadeinLast
    <3> QED
      BY <2>1, <2>2, <3>1 DEF Facing, Swapped, Faded, OthersSame
  <2>4. CASE FadeinTick(i) \/ FadeoverTick(i)
    <3>1. /\ textures'[i].fadesrc = textures[i].fadesrc /\ OthersSame(textures, textures', i)
          /\ textures'[i].fadeover > 0 => textures[i].fadeover > 0
      <4>1. CASE FadeinTick(i)
        BY <1>1, <4>1, FadeinTickEffect
      <4>2. CASE FadeoverTick(i)
        <5>1. textures[i].fadeover > 1 /\ textures[i].fadeover \in 0..FadeMax /\ FadeMax \in Nat
          BY <1>1, <4>2, ConstantsAssumption DEF FadeoverTick, SlotsOK, Slot
        <5> QED
          BY <1>1, <4>2, <5>1, FadeoverTickEffect
      <4> QED
        BY <2>4, <4>1, <4>2
    <3>2. fader' = fader
      BY <2>4 DEF FadeinTick, FadeoverTick
    <3> QED
      BY <2>1, <2>2, <3>1, <3>2 DEF Facing, Swapped, OthersSame
  <2>5. CASE ToggleTest(i)
    <3>1. textures' = textures /\ fader'.pc = "toggle"
      BY <1>1, <2>5 DEF ToggleTest
    <3> QED
      BY <2>2, <3>1 DEF Facing, Swapped
  <2>6. CASE FinishBegin(i)
    <3>1. textures' = textures /\ fader'.pc = "finish" /\ fader'.slot = i
          /\ fader'.src = textures[i].fadesrc /\ textures[i].fadeover > 0
      BY <2>6 DEF FinishBegin
    <3> QED
      BY <2>2, <3>1 DEF Facing, Swapped
  <2> QED
    BY <1>2, <2>3, <2>4, <2>5, <2>6 DEF FaderScan
<1>3. CASE ToggleSrc
  <2> DEFINE i   == fader.slot
             src == textures[i].fadesrc
  <2>1. fader.pc = "toggle" /\ textures[i].fadeloop > 0
    BY <1>3 DEF ToggleSrc, IInv, GateInv, FaderInv
  <2>2. textures' = ArmNextLeg(textures, i, src) /\ fader' = [fader EXCEPT !.pc = "toggleEnd", !.src = src]
    BY <1>3 DEF ToggleSrc
  <2>3. OthersSame(textures, textures', src) /\ textures'[src].fadesrc = i /\ src \in Slots
    BY <1>1, <2>1, <2>2, ArmNextLegEffect DEF Slots
  <2>4. fader'.pc = "toggleEnd" /\ fader'.slot = i
    BY <1>1, <2>2
  <2> HIDE DEF i, src
  <2>5. \A s \in Slots : s # src /\ textures'[s].fadeover > 0 => textures'[s].fadesrc # s
    BY <2>1, <2>3 DEF Facing, OthersSame
  <2> QED
    BY <2>3, <2>4, <2>5 DEF Facing, Swapped
<1>4. CASE ToggleEnd
  <2>1. textures' = resetTexture(textures, fader.slot) /\ fader'.pc = "scan"
    BY <1>1, <1>4 DEF ToggleEnd
  <2>2. OthersSame(textures, textures', fader.slot) /\ Faded(textures'[fader.slot])
    BY <1>1, <2>1, ResetSlot, BlankFields
  <2> QED
    BY <2>1, <2>2 DEF Facing, Swapped, OthersSame, Faded
<1>5. CASE FinishEnd
  <2>1. fader'.pc = "scan"
    BY <1>1, <1>5 DEF FinishEnd
  <2>2. \A s \in Slots : ~(textures'[s].fadeover > 0)
    BY <1>5, FinishEndIInv DEF NoFade, Fading
  <2> QED
    BY <2>1, <2>2 DEF Facing, Swapped
<1> QED
  BY <1>2, <1>3, <1>4, <1>5 DEF faderThread

LEMMA SameFacing ==
  ASSUME Facing, Swapped, FadesSame(textures, textures'), UNCHANGED fader
  PROVE  Facing' /\ Swapped'
BY DEF Facing, Swapped, FadesSame, SameFade

LEMMA CommandFacing == IInv /\ Facing /\ Swapped /\ processCommand => Facing' /\ Swapped'
<1> SUFFICES ASSUME IInv, Facing, Swapped, processCommand PROVE Facing' /\ Swapped'
  OBVIOUS
<1>1. SlotsOK(textures) /\ UNCHANGED fader /\ 0 \in Slots /\ 1 \in Slots /\ FadeMax \in Nat
  BY ConstantsAssumption DEF IInv, ControlTypeOK, Slots, processCommand, Handler, Issue, FadeIn,
     FadeOut, FadeOver, FadeLoop, FadeLoop2, Block, DrawDone, engineVars
<1>2. ASSUME NEW i \in {0, 1}, OthersSame(textures, textures', i),
             textures'[i].fadeover > 0 => textures'[i].fadesrc # i
      PROVE  Facing' /\ Swapped'
  BY <1>1, <1>2 DEF Facing, Swapped, OthersSame
<1>3. ASSUME Quiet, NEW s \in Slots PROVE ~(textures[s].fadeover > 0)
  BY <1>3 DEF Quiet, NoFade, Fading
<1>4. CASE FadeIn
  <2>1. Quiet
    BY <1>4 DEF FadeIn, IInv, GateInv, Unarmed
  <2> QED
    BY <1>1, <1>2, <1>3, <1>4, <2>1, FadeInEffect
<1>5. CASE FadeOut
  <2>1. OthersSame(textures, textures', 0) /\ SameFade(textures[0], textures'[0])
    BY <1>1, <1>5, FadeOutEffect
  <2>2. FadesSame(textures, textures')
    BY <2>1 DEF FadesSame, OthersSame, SameFade
  <2> QED
    BY <1>1, <2>2, SameFacing
<1>6. CASE FadeOver
  BY <1>1, <1>2, <1>6, FadeOverEffect
<1>7. CASE FadeLoop
  <2>1. Quiet /\ cmd.loop \in -1..MaxLoop
    BY <1>7 DEF FadeLoop, IInv, GateInv, Unarmed, ControlTypeOK
  <2> QED
    BY <1>1, <1>2, <1>3, <1>7, <2>1, FadeLoopEffect
<1>8. CASE FadeLoop2
  BY <1>1, <1>2, <1>8, FadeLoop2Effect
<1>9. CASE UNCHANGED textures
  BY <1>1, <1>9 DEF Facing, Swapped
<1> QED
  BY <1>4, <1>5, <1>6, <1>7, <1>8, <1>9 DEF processCommand, Handler, Issue, Block, DrawDone

LEMMA FacingStep == IInv /\ Facing /\ Swapped /\ [Next]_vars => Facing' /\ Swapped'
<1>1. Facing /\ Swapped /\ UNCHANGED vars => Facing' /\ Swapped'
  BY DEF vars, Facing, Swapped
<1>2. IInv /\ Facing /\ Swapped /\ (main \/ (\E t \in Renderers : update(t)) \/ TimerUpd) =>
        Facing' /\ Swapped'
  BY MainFades, SameFacing DEF IInv, ControlTypeOK
<1> QED
  BY <1>1, <1>2, FaderFacing, CommandFacing DEF Next

LEMMA FacingInit == Init => Facing /\ Swapped
<1> SUFFICES ASSUME Init PROVE Facing /\ Swapped
  OBVIOUS
<1>1. \A s \in Slots : textures[s].fadeover = 0
  BY BlankFields DEF Init, Faded
<1> QED
  BY <1>1 DEF Init, Facing, Swapped


LEMMA AppendNames ==
  ASSUME NEW q \in Seq(Event), NEW e \in Event, NoTwice(q)
  PROVE  /\ HasLoad(q) \/ e.type = "load" => HasLoad(Append(q, e))
         /\ e.type # "destroy" => Named(Append(q, e)) \subseteq Named(q)
         /\ Named(Append(q, e)) \subseteq Named(q) \cup {e.arg}
         /\ e.type = "destroy" => e.arg \in Named(Append(q, e))
         /\ e.type # "destroy" \/ e.arg = NoTex \/ e.arg \notin Named(q) => NoTwice(Append(q, e))
<1> DEFINE r == Append(q, e)
<1>1. /\ Len(r) = Len(q) + 1 /\ Len(q) \in Nat /\ r[Len(q) + 1] = e
      /\ \A k \in 1..Len(q) : r[k] = q[k]
  OBVIOUS
<1> HIDE DEF r
<1>2. /\ \A k \in 1..Len(r) : k \in 1..Len(q) \/ k = Len(q) + 1
      /\ \A k \in 1..Len(q) : k \in 1..Len(r)
      /\ Len(q) + 1 \in 1..Len(r)
  BY <1>1
<1>3. HasLoad(q) \/ e.type = "load" => HasLoad(r)
  BY <1>1, <1>2 DEF HasLoad
<1>4. \A t \in Named(r) : t \in Named(q) \/ (t = e.arg /\ e.type = "destroy")
  BY <1>1, <1>2 DEF Named
<1>5. e.type = "destroy" => e.arg \in Named(r)
  BY <1>1, <1>2 DEF Named
<1>6. ASSUME e.type # "destroy" \/ e.arg = NoTex \/ e.arg \notin Named(q) PROVE NoTwice(r)
  <2> SUFFICES ASSUME NEW j \in 1..Len(r), NEW k \in 1..Len(r),
                      r[j].type = "destroy", r[k].type = "destroy",
                      r[j].arg = r[k].arg, r[j].arg # NoTex
               PROVE  j = k
    BY DEF NoTwice
  <2>1. \A i \in 1..Len(q) : q[i].type = "destroy" => q[i].arg \in Named(q)
    BY DEF Named
  <2>2. CASE j \in 1..Len(q) /\ k \in 1..Len(q)
    BY <1>1, <2>2 DEF NoTwice
  <2>3. CASE j \in 1..Len(q) /\ k = Len(q) + 1
    BY <1>1, <1>6, <2>1, <2>3
  <2>4. CASE j = Len(q) + 1 /\ k \in 1..Len(q)
    BY <1>1, <1>6, <2>1, <2>4
  <2> QED
    BY <1>2, <2>2, <2>3, <2>4
<1> QED
  BY <1>3, <1>4, <1>5, <1>6 DEF r

LEMMA TailNames ==
  ASSUME NEW q \in Seq(Event), q # <<>>, NoTwice(q)
  PROVE  /\ Named(Tail(q)) \subseteq Named(q) /\ NoTwice(Tail(q))
         /\ HasLoad(q) => HasLoad(Tail(q)) \/ Head(q).type = "load"
         /\ Head(q).type = "destroy" =>
              /\ Head(q).arg \in Named(q)
              /\ Head(q).arg \in Named(Tail(q)) => Head(q).arg = NoTex
<1> DEFINE r == Tail(q)
           h == Head(q)
<1>1. /\ Len(r) = Len(q) - 1 /\ Len(q) \in Nat \ {0} /\ h = q[1]
      /\ \A k \in 1..Len(r) : r[k] = q[k + 1] /\ k + 1 \in 1..Len(q) /\ k + 1 # 1
  OBVIOUS
<1> HIDE DEF r, h
<1>2. 1 \in 1..Len(q) /\ \A k \in 1..Len(q) : k = 1 \/ (k - 1 \in 1..Len(r) /\ (k - 1) + 1 = k)
  BY <1>1
<1>3. \A t \in Named(r) : \E k \in 1..Len(q) : k # 1 /\ q[k].type = "destroy" /\ q[k].arg = t
  BY <1>1 DEF Named
<1>4. Named(r) \subseteq Named(q)
  BY <1>3 DEF Named
<1>5. NoTwice(r)
  <2> SUFFICES ASSUME NEW j \in 1..Len(r), NEW k \in 1..Len(r),
                      r[j].type = "destroy", r[k].type = "destroy",
                      r[j].arg = r[k].arg, r[j].arg # NoTex
               PROVE  j = k
    BY DEF NoTwice
  <2>1. j + 1 = k + 1
    BY <1>1 DEF NoTwice
  <2> QED
    BY <2>1
<1>6. HasLoad(q) => HasLoad(r) \/ h.type = "load"
  <2> SUFFICES ASSUME NEW k \in 1..Len(q), q[k].type = "load"
               PROVE  HasLoad(r) \/ h.type = "load"
    BY DEF HasLoad
  <2>1. CASE k = 1
    BY <1>1, <2>1
  <2>2. CASE k # 1
    <3>1. k - 1 \in 1..Len(r) /\ r[k - 1] = q[k]
      BY <1>1, <1>2, <2>2
    <3> QED
      BY <3>1 DEF HasLoad
  <2> QED
    BY <2>1, <2>2
<1>7. h.type = "destroy" => h.arg \in Named(q)
  BY <1>1, <1>2 DEF Named
<1>8. h.type = "destroy" /\ h.arg \in Named(r) => h.arg = NoTex
  BY <1>1, <1>2, <1>3 DEF NoTwice
<1> QED
  BY <1>4, <1>5, <1>6, <1>7, <1>8 DEF r, h

LEMMA FlushNames ==
  ASSUME NEW q \in Seq(Event), NoTwice(q)
  PROVE  /\ Named(FlushUpd(q)) \subseteq Named(q) /\ NoTwice(FlushUpd(q))
         /\ HasLoad(q) => HasLoad(FlushUpd(q))
<1> DEFINE r == FlushUpd(q)
<1>1. Flushed(r, q, Len(q))
  BY FlushUpdFlushes
<1> HIDE DEF r
<1>2. PICK e \in [1..Len(r) -> 1..Len(q)] :
       /\ \A k \in 1..Len(r) : r[k] = q[e[k]] /\ r[k].type # "upd"
       /\ \A j, k \in 1..Len(r) : e[j] = e[k] => j = k
       /\ \A j \in 1..Len(q) : q[j].type # "upd" => \E k \in 1..Len(r) : e[k] = j
  BY <1>1 DEF Flushed
<1>3. Named(r) \subseteq Named(q)
  BY <1>2 DEF Named
<1>4. NoTwice(r)
  <2> SUFFICES ASSUME NEW j \in 1..Len(r), NEW k \in 1..Len(r),
                      r[j].type = "destroy", r[k].type = "destroy",
                      r[j].arg = r[k].arg, r[j].arg # NoTex
               PROVE  j = k
    BY DEF NoTwice
  <2>1. e[j] \in 1..Len(q) /\ e[k] \in 1..Len(q) /\ r[j] = q[e[j]] /\ r[k] = q[e[k]]
    BY <1>2
  <2>2. e[j] = e[k]
    BY <2>1 DEF NoTwice
  <2> QED
    BY <1>2, <2>2
<1>5. HasLoad(q) => HasLoad(r)
  <2> SUFFICES ASSUME NEW j \in 1..Len(q), q[j].type = "load" PROVE HasLoad(r)
    BY DEF HasLoad
  <2>1. PICK k \in 1..Len(r) : e[k] = j
    BY <1>2
  <2>2. r[k].type = "load"
    BY <1>2, <2>1
  <2> QED
    BY <2>2 DEF HasLoad
<1> QED
  BY <1>3, <1>4, <1>5 DEF r

LEMMA TexInit == Init => TexInv
<1> SUFFICES ASSUME Init PROVE TexInv
  OBVIOUS
<1>1. /\ textures[0].tex = NoTex /\ textures[1].tex = NoTex /\ textures[2].tex = 1
      /\ heap[1].live /\ queue = <<>>
  BY BlankFields DEF Init, Slots, TempSlot, Texture
<1>2. Named(queue) = {} /\ NoTwice(queue)
  BY <1>1 DEF Named, NoTwice
<1>3. Holding /\ Target /\ Apart /\ Dying
  BY <1>1, <1>2 DEF Holding, Target, Apart, Dying, Doomed, Slots, TempSlot, NoTex
<1>4. Drawing /\ Drawn
  BY DEF Init, Drawing, Drawn, InUpdate, NoUpdate, Renderers
<1> QED
  BY <1>2, <1>3, <1>4, FacingInit DEF TexInv


\* Only the fader runs while the fader is in the middle of a block.
LEMMA OthersScan ==
  ASSUME Whole, main \/ (\E t \in Renderers : update(t)) \/ processCommand \/ TimerUpd
  PROVE  fader.pc = "scan" /\ UNCHANGED fader
<1>1. \E u : u # "fader" /\ May(u)
  BY DEF main, update, processCommand, Handler, TimerUpd, Renderers
<1>2. Busy("fader") \subseteq Preempt
  BY <1>1 DEF May
<1>3. fader.pc = "scan"
  BY <1>2 DEF Busy, Whole
<1>4. UNCHANGED fader
  BY DEF main, TakeUpd, TakeLoad, LoadImage, TakeDestroy, threadVars, slotVars, update,
     UpdateLoop, UpdateBegin, UpdateBlend, UpdateCopy, TimerUpd, processCommand, Handler,
     Issue, FadeIn, FadeOut, FadeOver, FadeLoop, FadeLoop2, Block, DrawDone, engineVars
<1> QED
  BY <1>3, <1>4

\* No texture dies or comes back to life.
LivesSame == \A x \in 1..Len(heap) : heap'[x].live = heap[x].live

\* A fade that is under way, or about to be armed, needs its two textures.
NeedsBoth == ~NoFade(textures) \/ cmd.pc = "loop2"

\* Steps that give no slot another texture and destroy nothing.
LEMMA KeepTex ==
  ASSUME TypeInv, TexInv, SameTexs(textures, textures'), LivesSame,
         fader.pc = "finish" => UNCHANGED fader,
         Named(queue') \subseteq Named(queue), NoTwice(queue'),
         NeedsBoth' => LoadPending' \/ (NeedsBoth /\ ~LoadPending),
         Facing', Swapped', Drawing', Drawn'
  PROVE  TexInv'
<1>1. \A s \in Slots : textures'[s].tex = textures[s].tex
                       /\ (textures[s].tex # NoTex => textures[s].tex \in 1..Len(heap))
  BY DEF SameTexs, TypeInv, NoTex
<1>2. Holding'
  BY <1>1 DEF TexInv, Holding, Doomed, LivesSame
<1>3. Target' /\ Apart'
  BY <1>1 DEF TexInv, Target, Apart, NeedsBoth, Slots, TempSlot
<1>4. Dying'
  <2>1. \A x \in Named(queue) : x # NoTex => x \in 1..Len(heap)
    BY DEF TypeInv, EventsOK, EventOK, Named, NoTex
  <2> QED
    BY <2>1 DEF TexInv, Dying, LivesSame
<1> QED
  BY <1>2, <1>3, <1>4 DEF TexInv

\* What is about to be shown stays as it is when update() takes no step.
LEMMA KeepDrawn ==
  ASSUME TypeInv, Drawn, UNCHANGED upd, LivesSame,
         Named(queue') \subseteq Named(queue)
  PROVE  Drawn'
<1>1. \A t \in Renderers : upd[t].tex # NoTex => upd[t].tex \in 1..Len(heap)
  BY DEF TypeInv, Updates, NoTex
<1> QED
  BY <1>1 DEF Drawn, Doomed, LivesSame

LEMMA AppendUpdNames ==
  ASSUME TypeInv, NoTwice(queue), NEW c \in {-1} \cup Slots, queue' = Append(queue, Upd(c)),
         UNCHANGED loading
  PROVE  /\ Named(queue') \subseteq Named(queue) /\ NoTwice(queue')
         /\ LoadPending => LoadPending'
<1>1. queue \in Seq(Event) /\ Upd(c) \in Event /\ Upd(c).type = "upd"
  BY DEF TypeInv, EventsOK, Upd, Event
<1>2. queue' \in Seq(Event)
  BY <1>1
<1>3. DOMAIN queue = 1..Len(queue) /\ DOMAIN queue' = 1..Len(queue')
  BY <1>1, <1>2
<1>4. LoadPending <=> loading # NoEvent \/ HasLoad(queue)
  BY <1>3 DEF LoadPending, HasLoad
<1>5. LoadPending' <=> loading' # NoEvent \/ HasLoad(queue')
  BY <1>3 DEF LoadPending, HasLoad
<1> QED
  BY <1>1, <1>4, <1>5, AppendNames

LEMMA FinishBeginTex ==
  ASSUME Whole, IInv, TypeInv, TexInv, Facing', Swapped',
         NEW i \in Slots, fader.pc = "scan", FinishBegin(i)
  PROVE  TexInv'
<1> DEFINE src == textures[i].fadesrc
           x   == textures[src].tex
<1>1. /\ i \in {0, 1} /\ src \in {0, 1} /\ i # src /\ src \in Slots
      /\ ~NoFade(textures)
  <2>1. Fading(textures, i) /\ textures[i].fadeover > 0
    BY DEF FinishBegin, Fading
  <2> QED
    BY <2>1 DEF IInv, GateInv, FaderInv, ControlTypeOK, SlotsOK, Slot, Slots, TempSlot, NoFade,
       TexInv, Facing
<1>2. ~LoadPending
  BY DEF FinishBegin, LoadInTime, Whole
<1>3. /\ queue' = Append(queue, Destroy(src, x)) /\ UNCHANGED <<textures, cmd, heap, upd>>
      /\ fader' = [pc |-> "finish", slot |-> i, src |-> src]
  BY DEF FinishBegin, FadedFrom, dataVars
<1> HIDE DEF src, x
<1>4. /\ queue \in Seq(Event) /\ Destroy(src, x) \in Event
      /\ x \in 0..Len(heap) /\ Len(heap) \in Nat
  <2>1. x \in 0..Len(heap) /\ Len(heap) \in Nat
    BY <1>1 DEF TypeInv, x
  <2> QED
    BY <1>1, <2>1 DEF TypeInv, EventsOK, Destroy, Event
<1>5. x # NoTex => heap[x].live /\ x \notin Named(queue)
  BY <1>1 DEF x, TexInv, Holding, Doomed
<1>6. NoTwice(queue') /\ Named(queue') \subseteq Named(queue) \cup {x}
  BY <1>3, <1>4, <1>5, AppendNames DEF Destroy, TexInv
<1>7. \A s \in Slots : s # src /\ textures[s].tex # NoTex => textures[s].tex # x
  <2>1. textures[0].tex # textures[1].tex \/ textures[0].tex = NoTex
    BY <1>1, <1>2 DEF TexInv, Apart
  <2> QED
    BY <1>1, <2>1 DEF x, Slots, TexInv, Target, TempSlot
<1>8. Holding'
  BY <1>3, <1>5, <1>6, <1>7 DEF TexInv, Holding, Doomed
<1>9. Target' /\ Apart'
  BY <1>1, <1>2, <1>3 DEF TexInv, Target, Apart
<1>10. ~InUpdate("cmd")
  BY <1>1 DEF TexInv, Drawing, IInv, GateInv, Unarmed, Quiet
<1>11. Drawing' /\ Drawn'
  BY <1>3, <1>10 DEF TexInv, Drawing, Drawn, InUpdate
<1>12. Dying'
  BY <1>3, <1>5, <1>6 DEF TexInv, Dying
<1> QED
  BY <1>6, <1>8, <1>9, <1>11, <1>12 DEF TexInv

LEMMA FinishEndTex ==
  ASSUME IInv, TypeInv, TexInv, Facing', Swapped', FinishEnd
  PROVE  TexInv'
<1> DEFINE i   == fader.slot
           src == fader.src
<1>1. i \in {0, 1} /\ src \in {0, 1} /\ i \in Slots /\ src \in Slots /\ i # src
  BY DEF IInv, ControlTypeOK, Slots, FinishEnd, TexInv, Swapped
<1>2. \A s \in Slots : textures'[s].tex = IF s = src THEN textures[i].tex ELSE textures[s].tex
  <2>1. textures' = MoveTexture(textures, i, src) /\ SlotsOK(textures)
    BY DEF FinishEnd, IInv, ControlTypeOK
  <2> HIDE DEF i, src
  <2> QED
    BY <1>1, <2>1, FinishTex
<1>3. UNCHANGED <<cmd, heap, upd, loading>> /\ queue' = Append(queue, Upd(i))
  BY DEF FinishEnd, dataVars
<1>4. fader.pc = "finish" /\ cmd.pc # "loop2" /\ NoFade(textures')
  BY FinishEndIInv DEF FinishEnd, IInv, GateInv, LoopInv
<1> HIDE DEF i, src
<1>5. Named(queue') \subseteq Named(queue) /\ NoTwice(queue')
  BY <1>1, <1>3, AppendUpdNames DEF TexInv
<1>6. Holding'
  BY <1>1, <1>2, <1>3, <1>5 DEF TexInv, Holding, Doomed, src
<1>7. Target' /\ Apart'
  BY <1>1, <1>2, <1>3, <1>4 DEF TexInv, Target, Apart, Slots, TempSlot
<1>8. Drawing' /\ Dying'
  BY <1>3, <1>5 DEF TexInv, Drawing, Dying, InUpdate
<1>9. Drawn'
  BY <1>3, <1>5, KeepDrawn DEF TexInv, LivesSame
<1> QED
  BY <1>5, <1>6, <1>7, <1>8, <1>9 DEF TexInv

LEMMA FaderTexInv ==
  ASSUME Whole, IInv, TypeInv, TexInv, faderThread
  PROVE  TexInv'
<1>1. Facing' /\ Swapped'
  BY FaderFacing DEF TexInv
<1>2. CASE FinishEnd
  BY <1>1, <1>2, FinishEndTex
<1>3. ASSUME NEW i \in Slots, FaderScan(i), FinishBegin(i) PROVE TexInv'
  BY <1>1, <1>3, FinishBeginTex DEF FaderScan
<1>4. CASE ~FinishEnd /\ ~\E i \in Slots : FaderScan(i) /\ FinishBegin(i)
  <2>1. UNCHANGED <<cmd, heap, upd, loading>>
    BY DEF faderThread, FaderScan, FadeinLast, FadeinTick, ToggleTest, FinishBegin,
       FadeoverTick, ToggleSrc, ToggleEnd, FinishEnd, dataVars
  <2>2. fader.pc # "finish"
    BY <1>4 DEF faderThread, FaderScan, ToggleSrc, ToggleEnd
  <2>3. queue' = queue \/ \E i \in Slots : queue' = Append(queue, Upd(i))
    BY <1>4 DEF faderThread, FaderScan, FadeinLast, FadeinTick, ToggleTest,
       FadeoverTick, ToggleSrc, ToggleEnd
  <2>4. /\ Named(queue') \subseteq Named(queue) /\ NoTwice(queue')
        /\ LoadPending => LoadPending'
    <3>1. CASE queue' = queue
      BY <2>1, <3>1 DEF TexInv, LoadPending
    <3>2. CASE \E i \in Slots : queue' = Append(queue, Upd(i))
      BY <2>1, <3>2, AppendUpdNames DEF TexInv
    <3> QED
      BY <2>3, <3>1, <3>2
  <2>5. NeedsBoth' => LoadPending' \/ (NeedsBoth /\ ~LoadPending)
    BY <2>1, <2>4, FaderFades DEF NeedsBoth
  <2>6. LivesSame /\ Drawing'
    BY <2>1 DEF LivesSame, TexInv, Drawing, InUpdate
  <2>7. Drawn'
    BY <2>1, <2>4, <2>6, KeepDrawn DEF TexInv
  <2>8. SameTexs(textures, textures')
    BY <1>4, FaderTex
  <2> QED
    BY <1>1, <2>2, <2>4, <2>5, <2>6, <2>7, <2>8, KeepTex
<1> QED
  BY <1>2, <1>3, <1>4


LEMMA AppendLoadNames ==
  ASSUME TypeInv, NEW s \in {0, 1}, NEW p \in {PicA(issued), PicB(issued)},
         NEW q \in Seq(Event), NoTwice(q)
  PROVE  /\ Append(q, LoadImg(s, p)) \in Seq(Event)
         /\ Named(Append(q, LoadImg(s, p))) \subseteq Named(q)
         /\ NoTwice(Append(q, LoadImg(s, p))) /\ HasLoad(Append(q, LoadImg(s, p)))
<1>1. p \in Nat
  BY ConstantsAssumption DEF TypeInv, PicA, PicB
<1>2. LoadImg(s, p) \in Event /\ LoadImg(s, p).type = "load"
  BY <1>1 DEF LoadImg, Event, Slots
<1> QED
  BY <1>2, AppendNames

\* What a command adds to the queue.
LEMMA CommandQueue ==
  ASSUME TypeInv, NoTwice(queue), processCommand
  PROVE  /\ Named(queue') \subseteq Named(queue) /\ NoTwice(queue')
         /\ UNCHANGED <<heap, loading>>
         /\ FadeIn \/ FadeOver \/ FadeLoop => LoadPending'
         /\ ~(FadeIn \/ FadeOver \/ FadeLoop) => UNCHANGED queue
<1> USE DEF engineVars
<1>1. UNCHANGED <<heap, loading>> /\ (~(FadeIn \/ FadeOver \/ FadeLoop) => UNCHANGED queue)
  BY DEF processCommand, Handler, Issue, FadeIn, FadeOut, FadeOver, FadeLoop, FadeLoop2,
     Block, DrawDone
<1>2. queue \in Seq(Event)
  BY DEF TypeInv, EventsOK
<1>3. CASE FadeIn \/ FadeOver
  <2>1. PICK s \in {0, 1} : queue' = Append(queue, LoadImg(s, PicB(issued)))
    BY <1>3 DEF FadeIn, FadeOver
  <2>2. /\ queue' \in Seq(Event) /\ Named(queue') \subseteq Named(queue) /\ NoTwice(queue')
        /\ HasLoad(queue')
    BY <1>2, <2>1, AppendLoadNames
  <2>3. LoadPending'
    BY <2>2 DEF HasLoad, LoadPending
  <2> QED
    BY <1>1, <1>3, <2>2, <2>3
<1>4. CASE FadeLoop
  <2> DEFINE q == Append(queue, LoadImg(0, PicB(issued)))
  <2>1. q \in Seq(Event) /\ Named(q) \subseteq Named(queue) /\ NoTwice(q)
    BY <1>2, AppendLoadNames
  <2>2. queue' = Append(q, LoadImg(1, PicA(issued)))
    BY <1>2, <1>4 DEF FadeLoop
  <2> HIDE DEF q
  <2>3. /\ queue' \in Seq(Event) /\ Named(queue') \subseteq Named(q) /\ NoTwice(queue')
        /\ HasLoad(queue')
    BY <2>1, <2>2, AppendLoadNames
  <2>4. LoadPending'
    BY <2>3 DEF HasLoad, LoadPending
  <2> QED
    BY <1>1, <1>4, <2>1, <2>3, <2>4
<1> QED
  BY <1>1, <1>3, <1>4

LEMMA CommandTexInv ==
  ASSUME Whole, IInv, TypeInv, TexInv, processCommand
  PROVE  TexInv'
<1>1. Facing' /\ Swapped'
  BY CommandFacing DEF TexInv
<1>2. /\ Named(queue') \subseteq Named(queue) /\ NoTwice(queue')
      /\ UNCHANGED <<heap, loading>>
      /\ FadeIn \/ FadeOver \/ FadeLoop => LoadPending'
      /\ ~(FadeIn \/ FadeOver \/ FadeLoop) => UNCHANGED queue
  BY CommandQueue DEF TexInv
<1>3. LivesSame /\ SameTexs(textures, textures')
  BY <1>2, CommandTex DEF LivesSame
<1>4. fader.pc = "finish" => UNCHANGED fader
  BY OthersScan
<1>5. NeedsBoth' => LoadPending' \/ (NeedsBoth /\ ~LoadPending)
  <2>1. CASE FadeIn \/ FadeOver \/ FadeLoop
    BY <1>2, <2>1
  <2>2. CASE ~(FadeIn \/ FadeOver \/ FadeLoop)
    <3>1. LoadPending' <=> LoadPending
      BY <1>2, <2>2 DEF LoadPending
    <3>2. NeedsBoth' => NeedsBoth
      <4>1. cmd'.pc # "loop2"
        BY <2>2, ConstantsAssumption DEF processCommand, Handler, Issue, FadeOut, FadeLoop2,
           Block, DrawDone, IInv, ControlTypeOK
      <4>2. CASE FadeLoop2
        BY <4>2 DEF FadeLoop2, NeedsBoth
      <4>3. CASE FadeOut
        <5>1. OthersSame(textures, textures', 0) /\ SameFade(textures[0], textures'[0])
          BY <4>3, FadeOutEffect DEF IInv, ControlTypeOK
        <5> QED
          BY <4>1, <5>1 DEF NeedsBoth, NoFade, Fading, OthersSame, SameFade
      <4>4. CASE UNCHANGED textures
        BY <4>1, <4>4 DEF NeedsBoth
      <4> QED
        BY <2>2, <4>2, <4>3, <4>4 DEF processCommand, Handler, Issue, Block, DrawDone
    <3> QED
      BY <3>1, <3>2
  <2> QED
    BY <2>1, <2>2
<1>6. Drawing' /\ Drawn'
  <2>1. CASE UNCHANGED upd
    <3>1. Drawing'
      <4>1. ~InUpdate("cmd")
        BY <2>1, ConstantsAssumption DEF TexInv, Drawing, processCommand, Handler, Issue, FadeIn,
           FadeOut, FadeOver, FadeLoop, FadeLoop2, Block, DrawDone
      <4> QED
        BY <2>1, <4>1 DEF Drawing, InUpdate
    <3> QED
      BY <1>2, <1>3, <2>1, <3>1, KeepDrawn DEF TexInv
  <2>2. CASE Issue("draw") /\ upd' = [upd EXCEPT !["cmd"] = StartUpdate(0)]
    <3>1. cmd'.pc = "draw"
      BY <2>2 DEF Issue
    <3>2. upd'["cmd"].at = "begin" /\ upd'["main"] = upd["main"]
      BY <2>2 DEF StartUpdate, NoUpdate, TypeInv, Renderers
    <3>3. upd["main"].tex # NoTex => upd["main"].tex \in 1..Len(heap)
      BY DEF TypeInv, Updates, NoTex, Renderers
    <3>4. Drawn'
      BY <1>3, <3>2, <3>3 DEF TexInv, Drawn, LivesSame, Renderers
    <3> QED
      BY <3>1, <3>4 DEF Drawing
  <2> QED
    BY <2>1, <2>2 DEF processCommand, Handler, Issue, FadeIn,
           FadeOut, FadeOver, FadeLoop, FadeLoop2, Block, DrawDone
<1> QED
  BY <1>1, <1>2, <1>3, <1>4, <1>5, <1>6, KeepTex

\* What a step of update() does to the calls of update().
LEMMA UpdateCalls ==
  ASSUME TypeInv, NEW t \in Renderers, update(t)
  PROVE  /\ upd[t].at # "no"
         /\ \A r \in Renderers \ {t} : upd'[r] = upd[r]
         /\ upd'[t].at = "copy" => \E s \in Slots : upd'[t].tex = textures[s].tex
<1>1. upd \in [Renderers -> Updates(Len(heap))] /\ upd[t] \in Updates(Len(heap))
      /\ upd[t].id \in Slots
  BY DEF TypeInv, Updates
<1>2. upd[t].at # "no" /\ \A r \in Renderers \ {t} : upd'[r] = upd[r]
  BY <1>1 DEF update, UpdateLoop, UpdateBegin, UpdateBlend, UpdateCopy
<1>3. CASE UpdateLoop(t)
  <2>1. upd'[t].at # "copy"
    <3>1. CASE upd' = [upd EXCEPT ![t] = NoUpdate]
      BY <1>1, <3>1 DEF NoUpdate
    <3>2. CASE \E s \in Slots : upd' = [upd EXCEPT ![t].at = "begin", ![t].id = s, ![t].rest = s + 1]
      <4>1. PICK s \in Slots : upd' = [upd EXCEPT ![t].at = "begin", ![t].id = s, ![t].rest = s + 1]
        BY <3>2
      <4>2. upd'[t] = [upd[t] EXCEPT !.at = "begin", !.id = s, !.rest = s + 1]
        BY <1>1, <4>1
      <4> QED
        BY <1>1, <4>2 DEF Updates
    <3> QED
      BY <1>3, <3>1, <3>2 DEF UpdateLoop, Redraw
  <2> QED
    BY <1>2, <2>1
<1>4. CASE UpdateBegin(t)
  <2>1. upd'[t].tex = textures[upd[t].id].tex
    BY <1>1, <1>4 DEF UpdateBegin, Updates
  <2> QED
    BY <1>1, <1>2, <2>1
<1>5. CASE UpdateBlend(t)
  <2>1. upd'[t].tex = textures[TempSlot].tex
    BY <1>1, <1>5 DEF UpdateBlend, Updates
  <2> QED
    BY <1>2, <2>1 DEF Slots, TempSlot
<1>6. CASE UpdateCopy(t)
  <2>1. upd'[t].at # "copy"
    BY <1>1, <1>6 DEF UpdateCopy, NoUpdate, Updates
  <2> QED
    BY <1>2, <2>1
<1> QED
  BY <1>3, <1>4, <1>5, <1>6 DEF update

LEMMA UpdateLives ==
  ASSUME IInv, TypeInv, NEW t \in Renderers, update(t)
  PROVE  LivesSame
<1>1. ASSUME NEW x, NEW a, heap' = [heap EXCEPT ![x].colorMod = a]
                        \/ heap' = [heap EXCEPT ![x].alphaMod = a]
      PROVE  LivesSame
  <2>1. heap \in Seq(SdlTexture)
    BY DEF TypeInv
  <2> SUFFICES ASSUME NEW y \in 1..Len(heap) PROVE heap'[y].live = heap[y].live
    BY DEF LivesSame
  <2>2. heap[y] \in SdlTexture /\ y \in DOMAIN heap
    BY <2>1
  <2>3. CASE x = y
    <3>1. heap'[y] = [heap[y] EXCEPT !.colorMod = a] \/ heap'[y] = [heap[y] EXCEPT !.alphaMod = a]
      BY <1>1, <2>2, <2>3
    <3> QED
      BY <2>2, <3>1 DEF SdlTexture
  <2>4. CASE x # y
    BY <1>1, <2>2, <2>4
  <2> QED
    BY <2>3, <2>4
<1>2. CASE heap' = heap
  BY <1>2 DEF LivesSame
<1> QED
  BY <1>1, <1>2 DEF update, UpdateLoop, UpdateBegin, UpdateBlend, UpdateCopy

LEMMA UpdateTexInv ==
  ASSUME Whole, IInv, TypeInv, TexInv, NEW t \in Renderers, update(t)
  PROVE  TexInv'
<1>1. fader.pc = "scan" /\ UNCHANGED fader
  BY OthersScan
<1>2. UNCHANGED <<cmd, queue, loading>>
  BY DEF update, UpdateLoop, UpdateBegin, UpdateBlend, UpdateCopy, slotVars
<1>3. SlotsOK(textures) /\ FadesSame(textures, textures')
  BY MainFades DEF IInv, ControlTypeOK
<1>4. Facing' /\ Swapped'
  BY <1>1, <1>3, SameFacing DEF TexInv
<1>5. SameTexs(textures, textures')
  <2>1. CASE UNCHANGED textures
    BY <2>1 DEF SameTexs
  <2> QED
    BY <2>1, CopyTex DEF update, UpdateLoop, UpdateBegin, UpdateBlend
<1>6. LivesSame
  BY UpdateLives
<1>7. NeedsBoth' => LoadPending' \/ (NeedsBoth /\ ~LoadPending)
  <2>1. LoadPending' <=> LoadPending
    BY <1>2 DEF LoadPending
  <2>2. NeedsBoth' => NeedsBoth
    BY <1>2, <1>3 DEF NeedsBoth, NoFade, Fading, FadesSame, SameFade
  <2> QED
    BY <2>1, <2>2
<1>8. /\ upd[t].at # "no"
      /\ \A r \in Renderers \ {t} : upd'[r] = upd[r]
      /\ upd'[t].at = "copy" => \E s \in Slots : upd'[t].tex = textures[s].tex
  BY UpdateCalls
<1>9. Drawing'
  BY <1>2, <1>8 DEF TexInv, Drawing, InUpdate, Renderers
<1>10. Drawn'
  <2> SUFFICES ASSUME NEW r \in Renderers, upd'[r].at = "copy", upd'[r].tex # NoTex
               PROVE  heap'[upd'[r].tex].live /\ (r = "cmd" => ~Doomed(upd'[r].tex))
    BY <1>2 DEF Drawn, Doomed
  <2>1. CASE r = t
    <3>1. PICK s \in Slots : upd'[t].tex = textures[s].tex
      BY <1>8, <2>1
    <3>2. heap[textures[s].tex].live /\ ~Doomed(textures[s].tex)
          /\ textures[s].tex \in 1..Len(heap)
      BY <1>1, <2>1, <3>1 DEF TexInv, Holding, TypeInv, NoTex
    <3> QED
      BY <1>6, <2>1, <3>1, <3>2 DEF LivesSame
  <2>2. CASE r # t
    <3>1. upd'[r] = upd[r] /\ upd[r].tex \in 0..Len(heap)
      BY <1>8, <2>2 DEF TypeInv, Updates
    <3>2. upd[r].tex \in 1..Len(heap)
      BY <3>1 DEF NoTex
    <3> QED
      BY <1>6, <3>1, <3>2 DEF LivesSame, TexInv, Drawn
  <2> QED
    BY <2>1, <2>2
<1> QED
  BY <1>1, <1>2, <1>4, <1>5, <1>6, <1>7, <1>9, <1>10, KeepTex DEF TexInv


LEMMA LoadImageTex ==
  ASSUME TypeInv, IInv, TexInv, Facing', Swapped', fader.pc = "scan", UNCHANGED fader,
         LoadImage
  PROVE  TexInv'
<1> DEFINE i == loading.code
           n == Len(heap) + 1
<1>1. /\ i \in {0, 1} /\ i \in Slots /\ heap \in Seq(SdlTexture) /\ Len(heap) \in Nat
      /\ n # NoTex /\ n \notin 0..Len(heap) /\ n # 1
  <2>1. heap \in Seq(SdlTexture) /\ heap # <<>>
    BY DEF TypeInv
  <2>2. Len(heap) \in Nat \ {0}
    BY <2>1
  <2> QED
    BY <2>1, <2>2 DEF LoadImage, TypeInv, EventOK, Slots, NoTex
<1>2. PICK x \in {n, NoTex} :
        /\ \A s \in Slots : textures'[s].tex = IF s = i THEN x ELSE textures[s].tex
        /\ x # NoTex => heap' = Append(heap, Texture(loading.arg))
        /\ heap' = heap \/ heap' = Append(heap, Texture(loading.arg))
  BY <1>1, LoadTex
<1>3. UNCHANGED <<cmd, queue, upd>>
  BY DEF LoadImage, threadVars
<1>4. LivesSame
  BY <1>1, <1>2 DEF LivesSame
<1>5. x # NoTex => x = n /\ heap'[x].live
  BY <1>1, <1>2 DEF Texture
<1> HIDE DEF i, n
<1>6. Named(queue) \subseteq 0..Len(heap)
  BY DEF TypeInv, EventsOK, EventOK, Named
<1>7. \A s \in Slots : textures[s].tex \in 0..Len(heap)
                       /\ (textures[s].tex # NoTex => textures[s].tex \in 1..Len(heap))
  BY DEF TypeInv, NoTex
<1>8. Holding'
  BY <1>1, <1>2, <1>3, <1>4, <1>5, <1>6, <1>7 DEF TexInv, Holding, Doomed, LivesSame
<1>9. Target'
  BY <1>1, <1>2, <1>5 DEF TexInv, Target, Slots, TempSlot, NoTex
<1>10. Apart'
  <2>1. CASE x = NoTex
    BY <1>1, <1>2, <1>7, <2>1 DEF Apart, Slots, TexInv, NoTex
  <2>2. CASE x = n
    BY <1>1, <1>2, <1>7, <2>2 DEF Apart, Slots
  <2> QED
    BY <1>2, <2>1, <2>2
<1>11. Drawing' /\ Drawn'
  BY <1>3, <1>4, KeepDrawn DEF TexInv, Drawing, InUpdate
<1>12. Dying'
  <2>1. \A t \in Named(queue) : t # NoTex => t \in 1..Len(heap)
    BY <1>6 DEF NoTex
  <2> QED
    BY <1>3, <1>4, <2>1 DEF TexInv, Dying, LivesSame
<1> QED
  BY <1>3, <1>8, <1>9, <1>10, <1>11, <1>12 DEF TexInv

LEMMA TakeDestroyTex ==
  ASSUME TypeInv, TexInv, Facing', Swapped', fader.pc = "scan", UNCHANGED fader,
         FadesSame(textures, textures'), TakeDestroy
  PROVE  TexInv'
<1> DEFINE x == Head(queue).arg
<1>1. /\ queue \in Seq(Event) /\ queue # <<>> /\ Head(queue).type = "destroy"
      /\ heap \in Seq(SdlTexture) /\ x \in 0..Len(heap) /\ Tail(queue) \in Seq(Event)
  BY TailOK DEF TypeInv, EventsOK, EventOK, TakeDestroy, MainIdle
<1>2. /\ queue' = Tail(queue) /\ UNCHANGED <<textures, cmd, loading>> /\ loading = NoEvent
      /\ upd' = [upd EXCEPT !["main"] = StartUpdate(-1)]
      /\ heap' = IF x = NoTex THEN heap ELSE [heap EXCEPT ![x].live = FALSE]
  BY DEF TakeDestroy, MainIdle, threadVars
<1> HIDE DEF x
<1>3. /\ Named(queue') \subseteq Named(queue) /\ NoTwice(queue')
      /\ HasLoad(queue) => HasLoad(queue')
      /\ x \in Named(queue) /\ (x \in Named(queue') => x = NoTex)
  BY <1>1, <1>2, TailNames DEF TexInv, x
<1>4. \A y \in 1..Len(heap) : y # x => heap'[y].live = heap[y].live
  BY <1>1, <1>2 DEF NoTex
<1>5. \A s \in Slots : textures[s].tex # NoTex =>
        textures[s].tex # x /\ textures[s].tex \in 1..Len(heap)
        /\ ~Doomed(textures[s].tex)
  BY <1>3 DEF TexInv, Holding, Doomed, TypeInv, NoTex
<1>6. Holding' /\ Target'
  BY <1>2, <1>3, <1>4, <1>5 DEF TexInv, Holding, Target, Doomed
<1>7. Apart'
  <2>1. LoadPending => LoadPending'
    <3>1. DOMAIN queue = 1..Len(queue) /\ DOMAIN queue' = 1..Len(queue')
      BY <1>1, <1>2
    <3> QED
      BY <1>2, <1>3, <3>1 DEF LoadPending, HasLoad
  <2> QED
    BY <1>2, <2>1 DEF TexInv, Apart
<1>8. upd'["cmd"] = upd["cmd"] /\ upd'["main"].at = "loop"
  BY <1>2 DEF StartUpdate, NoUpdate, TypeInv, Renderers
<1>9. Drawing'
  BY <1>2, <1>8 DEF TexInv, Drawing, InUpdate
<1>10. Drawn'
  <2> SUFFICES ASSUME upd["cmd"].at = "copy", upd["cmd"].tex # NoTex
               PROVE  heap'[upd["cmd"].tex].live /\ upd["cmd"].tex \notin Named(queue')
    BY <1>8 DEF Drawn, Doomed, Renderers
  <2>1. /\ heap[upd["cmd"].tex].live /\ upd["cmd"].tex \notin Named(queue)
        /\ upd["cmd"].tex \in 1..Len(heap)
    BY DEF TexInv, Drawn, Doomed, Renderers, TypeInv, Updates, NoTex
  <2> QED
    BY <1>3, <1>4, <2>1
<1>11. Dying'
  <2>1. \A t \in Named(queue) : t # NoTex => t \in 1..Len(heap)
    BY DEF TypeInv, EventsOK, EventOK, Named, NoTex
  <2> QED
    BY <1>3, <1>4, <2>1 DEF TexInv, Dying
<1> QED
  BY <1>3, <1>6, <1>7, <1>9, <1>10, <1>11 DEF TexInv

\* The other steps of main, and the timer's, leave the textures alone.
LEMMA QueueTex ==
  ASSUME IInv, TypeInv, TexInv, Facing', Swapped', fader.pc = "scan",
         FadesSame(textures, textures'), TakeUpd \/ TakeLoad \/ TimerUpd
  PROVE  TexInv'
<1>1. UNCHANGED <<textures, heap, cmd>>
  BY DEF TakeUpd, TakeLoad, TimerUpd, threadVars
<1>2. queue \in Seq(Event)
  BY DEF TypeInv, EventsOK
<1>3. /\ Named(queue') \subseteq Named(queue) /\ NoTwice(queue')
      /\ LoadPending => LoadPending'
  <2>1. CASE TakeUpd
    <3>1. Tail(queue) \in Seq(Event) /\ queue' \in Seq(Event) /\ queue' = FlushUpd(Tail(queue))
          /\ queue # <<>> /\ Head(queue).type = "upd" /\ UNCHANGED loading
      <4>1. queue' = FlushUpd(Tail(queue)) /\ queue # <<>> /\ Head(queue).type = "upd"
            /\ UNCHANGED loading
        BY <2>1 DEF TakeUpd, MainIdle
      <4>2. Tail(queue) \in Seq(Event)
        BY <1>2, <4>1
      <4>3. FlushUpd(Tail(queue)) \in Seq(Event)
        BY <4>2, FlushUpdFlushes DEF Flushed
      <4> QED
        BY <4>1, <4>2, <4>3
    <3>2. /\ Named(queue') \subseteq Named(queue) /\ NoTwice(queue')
          /\ HasLoad(queue) => HasLoad(queue')
      BY <1>2, <3>1, TailNames, FlushNames DEF TexInv
    <3>3. DOMAIN queue = 1..Len(queue) /\ DOMAIN queue' = 1..Len(queue')
      BY <1>2, <3>1
    <3> QED
      BY <3>1, <3>2, <3>3 DEF LoadPending, HasLoad
  <2>2. CASE TakeLoad
    <3>1. queue # <<>> /\ queue' = Tail(queue) /\ loading' = Head(queue) /\ loading' # NoEvent
      BY <2>2 DEF TakeLoad, MainIdle, NoEvent
    <3> QED
      BY <1>2, <3>1, TailNames DEF TexInv, LoadPending
  <2>3. CASE TimerUpd
    BY <2>3, AppendUpdNames DEF TimerUpd, TexInv
  <2> QED
    BY <2>1, <2>2, <2>3
<1>4. SameTexs(textures, textures') /\ LivesSame
  BY <1>1 DEF SameTexs, LivesSame
<1>5. NeedsBoth' => LoadPending' \/ (NeedsBoth /\ ~LoadPending)
  BY <1>1, <1>3 DEF NeedsBoth
<1>6. upd'["cmd"] = upd["cmd"] /\ (upd'["main"] = upd["main"] \/ upd'["main"].at # "copy")
  <2>1. CASE TakeUpd
    <3>1. upd' = [upd EXCEPT !["main"] = StartUpdate(Head(queue).code)]
      BY <2>1 DEF TakeUpd
    <3>2. StartUpdate(Head(queue).code).at # "copy"
      BY DEF StartUpdate, NoUpdate
    <3> QED
      BY <3>1, <3>2 DEF TypeInv, Renderers
  <2> QED
    BY <2>1 DEF TakeLoad, TimerUpd, threadVars
<1>7. Drawing'
  BY <1>1, <1>6 DEF TexInv, Drawing, InUpdate
<1>8. Drawn'
  <2>1. \A t \in Renderers : upd[t].tex # NoTex => upd[t].tex \in 1..Len(heap)
    BY DEF TypeInv, Updates, NoTex
  <2> QED
    BY <1>1, <1>3, <1>6 DEF TexInv, Drawn, Doomed, Renderers
<1> QED
  BY <1>3, <1>4, <1>5, <1>7, <1>8, KeepTex

LEMMA TexStep == Whole /\ IInv /\ TypeInv /\ TexInv /\ [Next]_vars => TexInv'
<1> SUFFICES ASSUME Whole, IInv, TypeInv, TexInv, [Next]_vars PROVE TexInv'
  OBVIOUS
<1>1. Facing' /\ Swapped'
  BY FacingStep DEF TexInv
<1>2. CASE main \/ TimerUpd
  <2>1. fader.pc = "scan" /\ UNCHANGED fader
    BY <1>2, OthersScan
  <2>2. FadesSame(textures, textures')
    BY <1>2, MainFades DEF IInv, ControlTypeOK
  <2> QED
    BY <1>1, <1>2, <2>1, <2>2, LoadImageTex, TakeDestroyTex, QueueTex DEF main
<1>3. CASE UNCHANGED vars
  BY <1>3 DEF vars, TexInv, Holding, Target, Apart, Facing, Swapped, Drawing, Drawn, Dying,
     NoTwice, Named, Doomed, LoadPending, InUpdate, NoFade, Fading
<1> QED
  BY <1>2, <1>3, FaderTexInv, CommandTexInv, UpdateTexInv DEF Next

LEMMA TexInvariant == ASSUME Whole PROVE Spec => [](IInv /\ TypeInv /\ TexInv)
<1>1. IInv /\ TypeInv /\ TexInv /\ [Next]_vars => (IInv /\ TypeInv /\ TexInv)'
  BY TypeStep, NextIInv, TexStep
<1> QED
  BY <1>1, InitIInv, TypeInit, TexInit, PTL DEF Spec

\* No texture is destroyed twice (46-51 against 169), whatever the interleaving of main
\* and the command thread, when the fader's blocks and the loading of a picture are not
\* overtaken.
THEOREM DestroyedOnce ==
  ASSUME Whole
  PROVE  Spec => []DestroyOnce
<1>1. TypeInv /\ TexInv => DestroyOnce
  <2> SUFFICES ASSUME TypeInv, TexInv PROVE DestroyOnce
    OBVIOUS
  <2>1. DOMAIN queue = 1..Len(queue)
    BY DEF TypeInv, EventsOK
  <2> QED
    BY <2>1 DEF TexInv, Dying, Named, NoTwice, DestroyOnce
<1> QED
  BY <1>1, TexInvariant, PTL

\* A texture that update() reads, blends or shows is alive (87-107 against 48).
THEOREM DrawsLive ==
  ASSUME Whole
  PROVE  Spec => []RenderLive
<1>1. IInv /\ TypeInv /\ TexInv => RenderLive
  <2> SUFFICES ASSUME IInv, TypeInv, TexInv, NEW t \in Renderers
               PROVE
    LET s == textures[upd[t].id]
    IN  /\ upd[t].at \in {"begin", "blend"} /\ s.tex # NoTex => heap[s.tex].live
        /\ upd[t].at = "blend" /\ textures[s.fadesrc].tex # NoTex =>
             heap[textures[s.fadesrc].tex].live
        /\ upd[t].at = "copy" /\ upd[t].tex # NoTex => heap[upd[t].tex].live
    BY DEF RenderLive
  <2>1. upd[t].id \in Slots
    BY DEF TypeInv, Updates
  <2>2. textures[upd[t].id].fadesrc \in Slots
    BY <2>1 DEF IInv, ControlTypeOK, SlotsOK, Slot, Slots
  <2> QED
    BY <2>1, <2>2 DEF TexInv, Holding, Drawn
<1> QED
  BY <1>1, TexInvariant, PTL
===============================================================================
