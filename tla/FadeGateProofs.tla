---------------------------- MODULE FadeGateProofs ----------------------------
(***************************************************************************)
(* The picture engine implements the gate of FadeGate, step by step: every *)
(* step of the engine is a step of the gate or leaves it alone.  Whether   *)
(* the last step comes is liveness, and left to TLC.                       *)
(*                                                                         *)
(* IInv says who may fade; StepsInv adds how the counters of the fade      *)
(* relate, so that a fade takes exactly the steps planned for it.          *)
(*                                                                         *)
(* With both, and with what is known of the textures, the last frame: the  *)
(* screen ends on the picture of the last fade.  FrameInv follows that     *)
(* picture from the command through the queue into the slot the fade is    *)
(* heading for, and from there through the redraws to the screen.          *)
(***************************************************************************)
EXTENDS FadeEngineProofs, FadeEngineGate

\* Nobody runs between the writes of a handler, and no fadeout is sent: it
\* closes the gate and arms no fade.
Calm == "handler" \notin Preempt /\ "fadeout" \notin Commands

\* A slot does one kind of fade; a leg of a fadeloop that is not over blends
\* with the other slot.
Counters(T) ==
  \A s \in Slots :
    /\ T[s].fadein > 0 => T[s].fadeover = 0 /\ T[s].fadeloop <= 0
    /\ T[s].fadeloop > 0 => T[s].fadeover > 0
    /\ T[s].fadeover > 0 => T[s].fadesrc # s

\* What the fader found when it left the scan: the last step of a leg, or of
\* the fade.
Tested ==
  /\ fader.pc = "toggle" => textures[fader.slot].fadeover = 1
  /\ fader.pc = "finish" => textures[fader.slot].fadeover = 1
                              /\ textures[fader.slot].fadeloop <= 0
  /\ fader.pc = "toggleEnd" => fader.slot # fader.src

\* The handlers write what they planned: only a fadeloop has legs, and after
\* its first write it is the only fade.
Planned ==
  /\ cmd.pc \in {"fadein", "fadeover"} => cmd.loop = 0
  /\ cmd.pc # "fadeout"
  /\ cmd.pc = "loop2" =>
       /\ fader.pc = "scan"
       /\ textures[0].fadein = 0
       /\ textures[0].fadeloop = cmd.loop

StepsInv == (cmd.pc # "loop2" => Counters(textures)) /\ Tested /\ Planned

-------------------------------------------------------------------------------
(* Counting the steps.                                                     *)

\* The steps of n legs, of the slot record r, and of all slots.
LegSteps(n) == FadeMax * Legs(n)
Counted(r)  == r.fadein + r.fadeover + LegSteps(r.fadeloop)

SlotTotal(T, f, s) ==
  IF f.pc = "toggleEnd" /\ s = f.slot THEN 0 ELSE Counted(T[s])

Total(T, f, c) ==
  IF c.pc \in FadeArming THEN FadeMax * (Legs(c.loop) + 1)
  ELSE SlotTotal(T, f, 0) + SlotTotal(T, f, 1) + SlotTotal(T, f, 2)

LEMMA StepsLeftTotal ==
  /\ StepsLeft = Total(textures, fader, cmd)
  /\ StepsLeft' = Total(textures', fader', cmd')
BY DEF StepsLeft, PlannedSteps, SlotSteps, Total, SlotTotal, Counted, LegSteps

LEMMA LegStepsFacts ==
  ASSUME NEW n \in -1..MaxLoop
  PROVE  /\ LegSteps(n) \in Nat
         /\ n <= 0 => LegSteps(n) = 0
         /\ n > 0 => LegSteps(n) = LegSteps(n - 1) + FadeMax
         /\ FadeMax * (Legs(n) + 1) = LegSteps(n) + FadeMax
         /\ FadeMax * (Legs(n) + 1) \in 1..FadeMax * (MaxLoop + 1)
<1>1. n \in Int /\ MaxLoop \in Nat /\ FadeMax \in Nat /\ FadeMax >= 2
  BY ConstantsAssumption
<1>2. /\ Legs(n) \in 0..MaxLoop /\ (n <= 0 => Legs(n) = 0)
      /\ (n > 0 => Legs(n) = Legs(n - 1) + 1 /\ Legs(n - 1) \in Nat)
  BY <1>1 DEF Legs
<1>3. \A a, b \in Nat : FadeMax * (a + 1) = FadeMax * a + FadeMax
                           /\ FadeMax * a \in Nat /\ FadeMax * 0 = 0
  BY <1>1
<1>4. \A a, b \in Nat : a <= b => FadeMax * (a + 1) <= FadeMax * (b + 1)
  BY <1>1
<1>5. FadeMax * (Legs(n) + 1) <= FadeMax * (MaxLoop + 1)
  BY <1>1, <1>2, <1>4
<1> DEFINE L(m) == FadeMax * Legs(m)
<1>6. /\ L(n) \in Nat /\ (n <= 0 => L(n) = 0)
      /\ (n > 0 => L(n) = L(n - 1) + FadeMax)
      /\ FadeMax * (Legs(n) + 1) = L(n) + FadeMax
  BY <1>1, <1>2, <1>3
<1>7. FadeMax * (MaxLoop + 1) \in Nat
  BY <1>1
<1> QED
  BY <1>1, <1>5, <1>6, <1>7 DEF LegSteps

LEMMA CountedFacts ==
  ASSUME NEW T, SlotsOK(T), NEW s \in Slots
  PROVE  Counted(T[s]) \in Nat /\ (~Fading(T, s) => Counted(T[s]) = 0)
<1>1. T[s].fadein \in Nat /\ T[s].fadeover \in Nat /\ T[s].fadeloop \in -1..MaxLoop
  BY ConstantsAssumption DEF SlotsOK, Slot
<1>2. LegSteps(T[s].fadeloop) \in Nat
      /\ (T[s].fadeloop <= 0 => LegSteps(T[s].fadeloop) = 0)
  BY <1>1, LegStepsFacts
<1> QED
  BY <1>1, <1>2 DEF Counted, Fading

\* When only slot i counts, its steps are all there are.
LEMMA OneSlotTotal ==
  ASSUME NEW T, SlotsOK(T), NEW f, NEW c, c.pc \notin FadeArming, NEW i \in Slots,
         f.pc = "toggleEnd" => i # f.slot,
         \A s \in Slots \ {i} :
            Fading(T, s) => f.pc = "toggleEnd" /\ s = f.slot
  PROVE  Total(T, f, c) = Counted(T[i])
<1>1. \A s \in Slots \ {i} : SlotTotal(T, f, s) = 0
  BY CountedFacts DEF SlotTotal
<1>2. SlotTotal(T, f, i) = Counted(T[i]) /\ Counted(T[i]) \in Nat
  BY CountedFacts DEF SlotTotal
<1>3. Total(T, f, c) = SlotTotal(T, f, 0) + SlotTotal(T, f, 1) + SlotTotal(T, f, 2)
  BY DEF Total
<1>4. CASE i = 0
  BY <1>1, <1>2, <1>3, <1>4 DEF Slots
<1>5. CASE i = 1
  BY <1>1, <1>2, <1>3, <1>5 DEF Slots
<1>6. CASE i = 2
  BY <1>1, <1>2, <1>3, <1>6 DEF Slots
<1> QED
  BY <1>4, <1>5, <1>6 DEF Slots

LEMMA NoFadeTotal ==
  ASSUME NEW T, SlotsOK(T), NoFade(T), NEW f, f.pc # "toggleEnd", NEW c,
         c.pc \notin FadeArming
  PROVE  Total(T, f, c) = 0
<1>1. 0 \in Slots /\ ~Fading(T, 0) /\ (\A s \in Slots \ {0} : ~Fading(T, s))
  BY DEF NoFade, Slots
<1>2. Total(T, f, c) = Counted(T[0])
  BY <1>1, OneSlotTotal
<1> QED
  BY <1>1, <1>2, CountedFacts

\* The fade under way, outside the middle of a swap.
LEMMA FadeTotal ==
  ASSUME IInv, fader.pc # "toggleEnd", cmd.pc \notin FadeArming,
         NEW i \in Slots, Fading(textures, i)
  PROVE  StepsLeft = Counted(textures[i])
<1>1. SlotsOK(textures) /\ \A s \in Slots \ {i} : ~Fading(textures, s)
  BY DEF IInv, ControlTypeOK, GateInv, ExclusiveFade
<1> QED
  BY <1>1, OneSlotTotal, StepsLeftTotal

-------------------------------------------------------------------------------
(* The steps of the fader: it runs only between two handlers, and as long  *)
(* as something fades the gate is closed.                                  *)

LEMMA FadingShut ==
  ASSUME IInv, Calm, May("fader"), ~Quiet
  PROVE  cmd.pc = "gate" /\ blockCommands = TRUE /\ GateOpen = FALSE
<1>1. ~InHandler
  BY DEF May, Busy, Calm
<1>2. cmd.pc \in {"gate", "draw"} /\ blockCommands \in BOOLEAN
  BY <1>1 DEF InHandler, IInv, ControlTypeOK
<1> QED
  BY <1>2 DEF IInv, GateInv, Unarmed, GateOpen

\* The gate after a step of the fader.
LEMMA GateAfter ==
  ASSUME cmd.pc = "gate", cmd' = cmd, blockCommands' \in BOOLEAN
  PROVE  GateOpen' = ~blockCommands'
BY DEF GateOpen

\* The last step of a fade: the slots are idle, the gate opens.
LEMMA FinishStep ==
  ASSUME IInv, IInv', StepsInv, cmd.pc = "gate", GateOpen = FALSE, StepsLeft = 1,
         NoFade(textures'), fader'.pc = "scan", cmd' = cmd, blockCommands' = FALSE
  PROVE  Gate!Finish /\ StepsInv'
<1>1. SlotsOK(textures')
  BY DEF IInv, ControlTypeOK
<1>2. cmd'.pc \notin FadeArming /\ fader'.pc # "toggleEnd"
  BY DEF FadeArming
<1>3. StepsLeft' = 0
  BY <1>1, <1>2, NoFadeTotal, StepsLeftTotal
<1>4. GateOpen' = TRUE
  BY GateAfter
<1>5. Counters(textures')
  BY <1>1 DEF Counters, NoFade, Fading
<1>6. Tested' /\ Planned'
  BY DEF Tested, Planned
<1> QED
  BY <1>3, <1>4, <1>5, <1>6 DEF Gate!Finish, StepsInv

\* One step of a fade that is not its last.
LEMMA WorkStep ==
  ASSUME IInv, IInv', Calm, May("fader"), NEW i \in Slots, Fading(textures, i),
         StepsLeft = Counted(textures[i]), StepsLeft' = Counted(textures[i]) - 1,
         StepsLeft' >= 1, cmd' = cmd, blockCommands' = TRUE
  PROVE  Gate!Work
<1>1. ~Quiet
  BY DEF Quiet, NoFade
<1>2. GateOpen = FALSE /\ GateOpen' = FALSE
  BY <1>1, FadingShut, GateAfter
<1>3. Counted(textures[i]) \in Nat
  BY CountedFacts DEF IInv, ControlTypeOK
<1>4. StepsLeft > 1 /\ StepsLeft' = StepsLeft - 1
  BY <1>3
<1>5. UNCHANGED GateOpen
  BY <1>2
<1> QED
  BY <1>4, <1>5 DEF Gate!Work

LEMMA FadeinLastGate ==
  ASSUME IInv, StepsInv, Calm, May("fader"), NEW i \in Slots, fader.pc = "scan",
         FadeinLast(i)
  PROVE  Gate!Finish /\ StepsInv'
<1>1. textures[i].fadein = 1 /\ UNCHANGED <<cmd, fader>> /\ blockCommands' = FALSE
  BY DEF FadeinLast
<1>2. Fading(textures, i)
  BY <1>1 DEF Fading
<1>3. cmd.pc = "gate" /\ GateOpen = FALSE
  BY <1>2, FadingShut DEF Quiet, NoFade
<1>4. textures[i].fadeover = 0 /\ textures[i].fadeloop \in -1..MaxLoop
      /\ textures[i].fadeloop <= 0
  BY <1>1, <1>3 DEF StepsInv, Counters, IInv, ControlTypeOK, SlotsOK, Slot
<1>5. Counted(textures[i]) = 1
  BY <1>1, <1>4, LegStepsFacts DEF Counted
<1>6. StepsLeft = 1
  BY <1>2, <1>3, <1>5, FadeTotal DEF FadeArming
<1>7. IInv' /\ NoFade(textures')
  BY FadeinLastIInv
<1> QED
  BY <1>1, <1>3, <1>6, <1>7, FinishStep

LEMMA FadeinTickGate ==
  ASSUME IInv, StepsInv, Calm, May("fader"), NEW i \in Slots, fader.pc = "scan",
         FadeinTick(i)
  PROVE  Gate!Work /\ StepsInv'
<1>1. /\ textures[i].fadein > 1 /\ UNCHANGED <<cmd, fader>> /\ blockCommands' = TRUE
      /\ textures[i].fadein \in Nat
  BY DEF FadeinTick, IInv, ControlTypeOK, SlotsOK, Slot
<1>2. Fading(textures, i)
  BY <1>1 DEF Fading
<1>3. cmd.pc = "gate"
  BY <1>2, FadingShut DEF Quiet, NoFade
<1>4. textures[i].fadeover = 0 /\ textures[i].fadeloop \in -1..MaxLoop
      /\ textures[i].fadeloop <= 0
  BY <1>1, <1>3 DEF StepsInv, Counters, IInv, ControlTypeOK, SlotsOK, Slot
<1>5. /\ SlotsOK(textures') /\ OthersSame(textures, textures', i)
      /\ textures'[i].fadein = textures[i].fadein - 1
      /\ textures'[i].fadeover = textures[i].fadeover
      /\ textures'[i].fadesrc = textures[i].fadesrc
      /\ textures'[i].fadeloop = textures[i].fadeloop
  BY FadeinTickEffect DEF IInv, ControlTypeOK
<1>6. IInv'
  BY FadeinTickIInv
<1>7. Counted(textures'[i]) = Counted(textures[i]) - 1 /\ Counted(textures'[i]) >= 1
  BY <1>1, <1>4, <1>5, LegStepsFacts DEF Counted
<1>8. StepsLeft = Counted(textures[i])
  BY <1>1, <1>2, <1>3, FadeTotal DEF FadeArming
<1>9. \A s \in Slots \ {i} : ~Fading(textures', s)
  BY <1>1, <1>2, <1>5 DEF IInv, GateInv, ExclusiveFade, OthersSame, Fading
<1>10. StepsLeft' = Counted(textures'[i])
  BY <1>1, <1>3, <1>5, <1>9, OneSlotTotal, StepsLeftTotal DEF FadeArming
<1>11. Gate!Work
  BY <1>1, <1>2, <1>6, <1>7, <1>8, <1>10, WorkStep
<1>12. Counters(textures')
  BY <1>3, <1>4, <1>5 DEF StepsInv, Counters, OthersSame
<1>13. Tested' /\ Planned'
  BY <1>1, <1>3 DEF Tested, Planned
<1> QED
  BY <1>11, <1>12, <1>13 DEF StepsInv

LEMMA FadeoverTickGate ==
  ASSUME IInv, StepsInv, Calm, May("fader"), NEW i \in Slots, fader.pc = "scan",
         FadeoverTick(i)
  PROVE  Gate!Work /\ StepsInv'
<1>1. /\ textures[i].fadeover > 1 /\ UNCHANGED <<cmd, fader>> /\ blockCommands' = TRUE
      /\ textures[i].fadeover \in Nat
  BY DEF FadeoverTick, IInv, ControlTypeOK, SlotsOK, Slot
<1>2. Fading(textures, i)
  BY <1>1 DEF Fading
<1>3. cmd.pc = "gate"
  BY <1>2, FadingShut DEF Quiet, NoFade
<1>4. textures[i].fadein = 0 /\ textures[i].fadeloop \in -1..MaxLoop
  BY <1>1, <1>3 DEF StepsInv, Counters, IInv, ControlTypeOK, SlotsOK, Slot
<1>5. /\ SlotsOK(textures') /\ OthersSame(textures, textures', i)
      /\ textures'[i].fadeover = textures[i].fadeover - 1
      /\ textures'[i].fadein = textures[i].fadein
      /\ textures'[i].fadesrc = textures[i].fadesrc
      /\ textures'[i].fadeloop = textures[i].fadeloop
  BY FadeoverTickEffect DEF IInv, ControlTypeOK
<1>6. IInv'
  BY FadeoverTickIInv
<1>7. Counted(textures'[i]) = Counted(textures[i]) - 1 /\ Counted(textures'[i]) >= 1
  BY <1>1, <1>4, <1>5, LegStepsFacts DEF Counted
<1>8. StepsLeft = Counted(textures[i])
  BY <1>1, <1>2, <1>3, FadeTotal DEF FadeArming
<1>9. \A s \in Slots \ {i} : ~Fading(textures', s)
  BY <1>1, <1>2, <1>5 DEF IInv, GateInv, ExclusiveFade, OthersSame, Fading
<1>10. StepsLeft' = Counted(textures'[i])
  BY <1>1, <1>3, <1>5, <1>9, OneSlotTotal, StepsLeftTotal DEF FadeArming
<1>11. Gate!Work
  BY <1>1, <1>2, <1>6, <1>7, <1>8, <1>10, WorkStep
<1>12. Counters(textures')
  BY <1>1, <1>3, <1>4, <1>5 DEF StepsInv, Counters, OthersSame
<1>13. Tested' /\ Planned'
  BY <1>1, <1>3 DEF Tested, Planned
<1> QED
  BY <1>11, <1>12, <1>13 DEF StepsInv

\* The fader leaves the scan with what it tested.
LEMMA ScanEndsGate ==
  ASSUME IInv, StepsInv, Calm, May("fader"), NEW i \in Slots, fader.pc = "scan",
         ToggleTest(i) \/ FinishBegin(i)
  PROVE  UNCHANGED Gate!gateVars /\ StepsInv'
<1>1. UNCHANGED <<textures, cmd, blockCommands>>
  BY DEF ToggleTest, FinishBegin
<1>2. Fading(textures, i)
  BY DEF ToggleTest, FinishBegin, Fading, IInv, ControlTypeOK, SlotsOK, Slot
<1>3. cmd.pc = "gate"
  BY <1>2, FadingShut DEF Quiet, NoFade
<1>4. textures[i].fadeover \in Nat
  BY DEF IInv, ControlTypeOK, SlotsOK, Slot
<1>5. fader'.slot = i /\ fader'.pc \in {"toggle", "finish"}
      /\ (fader'.pc = "toggle" => textures[i].fadeloop > 0 /\ textures[i].fadeover < 2)
      /\ (fader'.pc = "finish" => textures[i].fadeover = 1 /\ textures[i].fadeloop <= 0)
  <2>1. CASE ToggleTest(i)
    BY <2>1 DEF ToggleTest, IInv, ControlTypeOK
  <2>2. CASE FinishBegin(i)
    BY <2>2 DEF FinishBegin
  <2> QED
    BY <2>1, <2>2
<1>6. textures[i].fadeover = 1
  BY <1>3, <1>4, <1>5 DEF StepsInv, Counters
<1>7. Tested' /\ Planned'
  BY <1>1, <1>3, <1>5, <1>6 DEF Tested, Planned
<1>8. Counters(textures')
  BY <1>1, <1>3 DEF StepsInv
<1>9. StepsLeft' = StepsLeft
  BY <1>1, <1>5, StepsLeftTotal DEF Total, SlotTotal
<1>10. GateOpen' = GateOpen
  BY <1>1 DEF GateOpen
<1> QED
  BY <1>7, <1>8, <1>9, <1>10 DEF Gate!gateVars, StepsInv

\* The first half of a swap: the other slot takes over the steps of this one
\* but for the last step of the leg.
LEMMA ToggleSrcGate ==
  ASSUME IInv, StepsInv, Calm, May("fader"), ToggleSrc
  PROVE  Gate!Work /\ StepsInv'
<1> DEFINE i == fader.slot
           src == textures[i].fadesrc
<1>1. i \in {0, 1} /\ src \in {0, 1} /\ i \in Slots /\ src \in Slots
  BY DEF IInv, ControlTypeOK, SlotsOK, Slot, Slots
<1>2. fader.pc = "toggle" /\ textures' = ArmNextLeg(textures, i, src)
      /\ fader' = [fader EXCEPT !.pc = "toggleEnd", !.src = src]
      /\ UNCHANGED <<blockCommands, cmd>>
  BY DEF ToggleSrc
<1>3. textures[i].fadeloop > 0 /\ textures[i].fadeloop \in -1..MaxLoop
      /\ textures[i].fadeover = 1
  BY <1>1, <1>2 DEF IInv, GateInv, FaderInv, StepsInv, Tested, ControlTypeOK, SlotsOK, Slot
<1>4. Fading(textures, i)
  BY <1>3 DEF Fading
<1>5. ~Quiet
  BY <1>2 DEF Quiet
<1>6. cmd.pc = "gate" /\ blockCommands = TRUE /\ GateOpen = FALSE
  BY <1>5, FadingShut
<1>7. src # i /\ textures[i].fadein = 0
  BY <1>1, <1>3, <1>6 DEF StepsInv, Counters, IInv, ControlTypeOK, SlotsOK, Slot
<1>8. /\ SlotsOK(textures') /\ OthersSame(textures, textures', src)
      /\ textures'[src].fadeover = FadeMax /\ textures'[src].fadesrc = i
      /\ textures'[src].fadein = 0
      /\ textures'[src].fadeloop = textures[i].fadeloop - 1
  BY <1>1, <1>2, <1>3, <1>7, ArmNextLegEffect DEF IInv, ControlTypeOK
<1>9. fader'.pc = "toggleEnd" /\ fader'.slot = i /\ fader'.src = src
  BY <1>1, <1>2 DEF IInv, ControlTypeOK
<1>10. \A s \in Slots \ {i} : ~Fading(textures, s)
  BY <1>1, <1>2, <1>4 DEF IInv, GateInv, ExclusiveFade
<1> HIDE DEF i, src
<1>11. StepsLeft = Counted(textures[i])
  BY <1>1, <1>2, <1>4, <1>6, FadeTotal DEF FadeArming
<1>12. \A s \in Slots \ {src} : Fading(textures', s) => s = i
  BY <1>8, <1>10 DEF OthersSame, Fading
<1>13. cmd'.pc \notin FadeArming
  BY <1>2, <1>6 DEF FadeArming
<1>14. StepsLeft' = Counted(textures'[src])
  <2>1. Total(textures', fader', cmd') = Counted(textures'[src])
    BY <1>1, <1>7, <1>8, <1>9, <1>12, <1>13, OneSlotTotal
  <2> QED
    BY <2>1, StepsLeftTotal
<1>15. LegSteps(textures[i].fadeloop) = LegSteps(textures[i].fadeloop - 1) + FadeMax
       /\ LegSteps(textures[i].fadeloop) \in Nat
       /\ LegSteps(textures[i].fadeloop - 1) \in Nat
  <2>1. textures[i].fadeloop - 1 \in -1..MaxLoop
    BY <1>3, ConstantsAssumption
  <2> QED
    BY <1>3, <2>1, LegStepsFacts
<1>16. Counted(textures'[src]) = Counted(textures[i]) - 1 /\ Counted(textures'[src]) >= 1
  BY <1>3, <1>7, <1>8, <1>15, ConstantsAssumption DEF Counted
<1>17. IInv'
  BY ToggleSrcIInv
<1>18. Gate!Work
  <2>1. StepsLeft > 1 /\ StepsLeft' = StepsLeft - 1
    <3>1. Counted(textures[i]) \in Nat
      BY <1>1, CountedFacts DEF IInv, ControlTypeOK
    <3> QED
      BY <1>11, <1>14, <1>16, <3>1
  <2>2. UNCHANGED GateOpen
    BY <1>2 DEF GateOpen
  <2> QED
    BY <2>1, <2>2 DEF Gate!Work
<1>19. Counters(textures')
  BY <1>3, <1>6, <1>7, <1>8, ConstantsAssumption DEF StepsInv, Counters, OthersSame
<1>20. Tested' /\ Planned'
  BY <1>2, <1>6, <1>7, <1>9 DEF Tested, Planned
<1> QED
  BY <1>18, <1>19, <1>20 DEF StepsInv

\* The second half: the slot that counted no more is reset.
LEMMA ToggleEndGate ==
  ASSUME IInv, StepsInv, Calm, May("fader"), ToggleEnd
  PROVE  UNCHANGED Gate!gateVars /\ StepsInv'
<1> DEFINE i == fader.slot
           j == fader.src
<1>1. i \in Slots /\ j \in Slots
  BY DEF IInv, ControlTypeOK, Slots
<1>2. /\ fader.pc = "toggleEnd" /\ textures' = resetTexture(textures, i)
      /\ fader' = [fader EXCEPT !.pc = "scan", !.slot = 0, !.src = 0]
      /\ cmd' = cmd /\ blockCommands' = TRUE
  BY DEF ToggleEnd
<1>3. /\ SlotsOK(textures) /\ SlotsOK(textures') /\ OthersSame(textures, textures', i)
      /\ Faded(textures'[i])
  BY <1>1, <1>2, ResetSlot, BlankFields DEF IInv, ControlTypeOK
<1>4. cmd.pc = "gate" /\ blockCommands = TRUE
  BY <1>2, FadingShut DEF Quiet
<1>5. fader'.pc = "scan" /\ i # j
  BY <1>2 DEF IInv, ControlTypeOK, StepsInv, Tested
<1>6. \A s \in Slots \ {i, j} : ~Fading(textures, s)
  BY <1>5 DEF IInv, GateInv, FaderInv, ControlTypeOK, Slots, TempSlot
<1> HIDE DEF j
<1>7. StepsLeft = Counted(textures[j])
  BY <1>1, <1>2, <1>3, <1>4, <1>5, <1>6, OneSlotTotal, StepsLeftTotal DEF FadeArming
<1>8. StepsLeft' = Counted(textures'[j])
  <2>1. \A s \in Slots \ {j} : ~Fading(textures', s)
    BY <1>3, <1>6 DEF OthersSame, Fading, Faded
  <2>2. cmd'.pc \notin FadeArming
    BY <1>2, <1>4 DEF FadeArming
  <2>3. Total(textures', fader', cmd') = Counted(textures'[j])
    BY <1>1, <1>3, <1>5, <2>1, <2>2, OneSlotTotal
  <2> QED
    BY <2>3, StepsLeftTotal
<1>9. StepsLeft' = StepsLeft
  BY <1>1, <1>3, <1>5, <1>7, <1>8 DEF OthersSame
<1>10. GateOpen' = GateOpen
  BY <1>2, <1>4 DEF GateOpen
<1>11. Counters(textures')
  BY <1>3, <1>4 DEF StepsInv, Counters, OthersSame, Faded
<1>12. Tested' /\ Planned'
  BY <1>2, <1>4, <1>5 DEF Tested, Planned
<1> QED
  BY <1>9, <1>10, <1>11, <1>12 DEF Gate!gateVars, StepsInv

LEMMA FinishEndGate ==
  ASSUME IInv, StepsInv, Calm, May("fader"), FinishEnd
  PROVE  Gate!Finish /\ StepsInv'
<1> DEFINE i == fader.slot
<1>1. fader.pc = "finish" /\ cmd' = cmd /\ blockCommands' = FALSE
      /\ i \in Slots /\ fader'.pc = "scan"
  BY DEF FinishEnd, IInv, ControlTypeOK, Slots
<1>2. cmd.pc = "gate" /\ GateOpen = FALSE
  BY <1>1, FadingShut DEF Quiet
<1>3. /\ textures[i].fadeover = 1 /\ textures[i].fadeloop <= 0
      /\ textures[i].fadeloop \in -1..MaxLoop /\ textures[i].fadein = 0
  BY <1>1, <1>2 DEF StepsInv, Tested, Counters, IInv, ControlTypeOK, SlotsOK, Slot
<1> HIDE DEF i
<1>4. Counted(textures[i]) = 1
  BY <1>3, LegStepsFacts DEF Counted
<1>5. Fading(textures, i)
  BY <1>3 DEF Fading
<1>6. StepsLeft = 1
  BY <1>1, <1>2, <1>4, <1>5, FadeTotal DEF FadeArming
<1>7. IInv' /\ NoFade(textures')
  BY FinishEndIInv
<1> QED
  BY <1>1, <1>2, <1>6, <1>7, FinishStep

LEMMA FaderGate ==
  ASSUME IInv, StepsInv, Calm, faderThread
  PROVE  [Gate!GateNext]_(Gate!gateVars) /\ StepsInv'
<1>0. May("fader")
  BY DEF faderThread
<1>1. CASE ToggleSrc
  BY <1>0, <1>1, ToggleSrcGate DEF Gate!GateNext
<1>2. CASE ToggleEnd
  BY <1>0, <1>2, ToggleEndGate
<1>3. CASE FinishEnd
  BY <1>0, <1>3, FinishEndGate DEF Gate!GateNext
<1>4. CASE \E i \in Slots : FaderScan(i)
  <2>1. PICK i \in Slots : FaderScan(i)
    BY <1>4
  <2>2. fader.pc = "scan"
    BY <2>1 DEF FaderScan
  <2>3. CASE FadeinLast(i)
    BY <1>0, <2>2, <2>3, FadeinLastGate DEF Gate!GateNext
  <2>4. CASE FadeinTick(i)
    BY <1>0, <2>2, <2>4, FadeinTickGate DEF Gate!GateNext
  <2>5. CASE ToggleTest(i) \/ FinishBegin(i)
    BY <1>0, <2>2, <2>5, ScanEndsGate
  <2>6. CASE FadeoverTick(i)
    BY <1>0, <2>2, <2>6, FadeoverTickGate DEF Gate!GateNext
  <2> QED
    BY <2>1, <2>3, <2>4, <2>5, <2>6 DEF FaderScan
<1> QED
  BY <1>1, <1>2, <1>3, <1>4 DEF faderThread

-------------------------------------------------------------------------------
(* The steps of the command thread.                                        *)

LEMMA IssueGate ==
  ASSUME IInv, StepsInv, Calm, NEW c \in Commands, Issue(c)
  PROVE  [Gate!GateNext]_(Gate!gateVars) /\ StepsInv'
<1>1. /\ cmd.pc = "gate" /\ ~blockCommands
      /\ UNCHANGED <<textures, fader, blockCommands>>
  BY DEF Issue, engineVars
<1>2. PICK n \in Nums(c) : cmd' = [pc |-> c, loop |-> n]
  BY DEF Issue
<1>3. n \in -1..MaxLoop /\ (c # "fadeloop" => n = 0)
  BY ConstantsAssumption DEF Nums
<1>4. c \in {"fadein", "fadeover", "fadeloop", "draw"}
  BY ConstantsAssumption DEF Calm
<1>5. Quiet /\ SlotsOK(textures)
  BY <1>1 DEF IInv, GateInv, ControlTypeOK
<1>6. StepsLeft = 0
  BY <1>1, <1>5, NoFadeTotal, StepsLeftTotal DEF Quiet, FadeArming
<1>7. GateOpen = TRUE
  BY <1>1 DEF GateOpen
<1>8. StepsInv'
  BY <1>1, <1>2, <1>3, <1>4 DEF StepsInv, Tested, Planned
<1>9. CASE c = "draw"
  <2>1. GateOpen' = TRUE
    BY <1>1, <1>2, <1>9 DEF GateOpen
  <2>2. StepsLeft' = 0
    <3>1. cmd'.pc \notin FadeArming
      BY <1>2, <1>9 DEF FadeArming
    <3>2. Total(textures', fader', cmd') = 0
      BY <1>1, <1>5, <3>1, NoFadeTotal DEF Quiet
    <3> QED
      BY <3>2, StepsLeftTotal
  <2> QED
    BY <1>6, <1>7, <1>8, <2>1, <2>2 DEF Gate!gateVars
<1>10. CASE c # "draw"
  <2>1. GateOpen' = FALSE
    BY <1>2, <1>4, <1>10 DEF GateOpen
  <2>2. StepsLeft' = FadeMax * (Legs(n) + 1)
    BY <1>2, <1>4, <1>10, StepsLeftTotal DEF Total, FadeArming
  <2>3. StepsLeft' \in 1..FadeMax * (MaxLoop + 1)
    BY <1>3, <2>2, LegStepsFacts
  <2>4. Gate!Admit(StepsLeft')
    BY <1>6, <1>7, <2>1 DEF Gate!Admit
  <2> QED
    BY <1>8, <2>3, <2>4 DEF Gate!GateNext
<1> QED
  BY <1>9, <1>10

\* A handler arms in slot i what it planned.
LEMMA ArmGate ==
  ASSUME IInv', cmd.pc \in FadeArming, cmd'.pc = "block", NEW i \in Slots,
         cmd.loop \in -1..MaxLoop, fader'.pc = "scan",
         \A s \in Slots \ {i} : ~Fading(textures', s),
         Counted(textures'[i]) = LegSteps(cmd.loop) + FadeMax
  PROVE  UNCHANGED Gate!gateVars
<1>1. StepsLeft = LegSteps(cmd.loop) + FadeMax
  BY StepsLeftTotal, LegStepsFacts DEF Total
<1>2. cmd'.pc \notin FadeArming /\ SlotsOK(textures')
  BY DEF FadeArming, IInv, ControlTypeOK
<1>3. Total(textures', fader', cmd') = Counted(textures'[i])
  BY <1>2, OneSlotTotal
<1>4. StepsLeft' = StepsLeft
  BY <1>1, <1>3, StepsLeftTotal
<1>5. GateOpen' = GateOpen
  BY DEF GateOpen, FadeArming
<1> QED
  BY <1>4, <1>5 DEF Gate!gateVars

LEMMA FadeInGate ==
  ASSUME IInv, StepsInv, FadeIn
  PROVE  UNCHANGED Gate!gateVars /\ StepsInv'
<1>1. /\ cmd.pc = "fadein" /\ cmd.loop = 0 /\ cmd' = [cmd EXCEPT !.pc = "block"]
      /\ UNCHANGED fader
  BY DEF FadeIn, StepsInv, Planned, engineVars
<1>2. cmd'.pc = "block" /\ cmd.pc \in FadeArming
  BY <1>1 DEF IInv, ControlTypeOK, FadeArming
<1>3. NoFade(textures) /\ fader.pc = "scan" /\ SlotsOK(textures)
  BY <1>1 DEF IInv, GateInv, Unarmed, Quiet, ControlTypeOK
<1>4. /\ SlotsOK(textures') /\ OthersSame(textures, textures', 0)
      /\ textures'[0].fadein = FadeMax
      /\ textures'[0].fadeover = 0
      /\ textures'[0].fadeloop \in -1..MaxLoop /\ textures'[0].fadeloop <= 0
  <2>1. 0 \in Slots /\ ~Fading(textures, 0)
    BY <1>3 DEF NoFade, Slots
  <2>2. textures[0].fadeover = 0 /\ textures[0].fadeloop \in -1..MaxLoop
        /\ textures[0].fadeloop <= 0
    BY <1>3, <2>1, ConstantsAssumption DEF SlotsOK, Slot, Fading
  <2> QED
    BY <1>3, <2>2, FadeInEffect
<1>5. LegSteps(0) = 0 /\ LegSteps(textures'[0].fadeloop) = 0 /\ 0 \in -1..MaxLoop
  BY <1>4, LegStepsFacts, ConstantsAssumption
<1>6. Counted(textures'[0]) = LegSteps(cmd.loop) + FadeMax
  BY <1>1, <1>4, <1>5, ConstantsAssumption DEF Counted
<1>7. \A s \in Slots \ {0} : ~Fading(textures', s)
  BY <1>3, <1>4 DEF NoFade, OthersSame, Fading
<1>8. IInv'
  BY FadeInIInv
<1>9. UNCHANGED Gate!gateVars
  BY <1>1, <1>2, <1>3, <1>5, <1>6, <1>7, <1>8, ArmGate DEF Slots
<1>10. Counters(textures')
  BY <1>1, <1>4 DEF StepsInv, Counters, OthersSame
<1>11. Tested' /\ Planned'
  BY <1>1, <1>2, <1>3 DEF Tested, Planned
<1> QED
  BY <1>9, <1>10, <1>11 DEF StepsInv

LEMMA FadeOverGate ==
  ASSUME IInv, StepsInv, FadeOver
  PROVE  UNCHANGED Gate!gateVars /\ StepsInv'
<1>1. /\ cmd.pc = "fadeover" /\ cmd.loop = 0 /\ cmd' = [cmd EXCEPT !.pc = "block"]
      /\ UNCHANGED fader
  BY DEF FadeOver, StepsInv, Planned, engineVars
<1>2. cmd'.pc = "block" /\ cmd.pc \in FadeArming
  BY <1>1 DEF IInv, ControlTypeOK, FadeArming
<1>3. NoFade(textures) /\ fader.pc = "scan" /\ SlotsOK(textures)
  BY <1>1 DEF IInv, GateInv, Unarmed, Quiet, ControlTypeOK
<1>4. /\ SlotsOK(textures') /\ OthersSame(textures, textures', 1)
      /\ textures'[1].fadein = 0
      /\ textures'[1].fadeover = FadeMax /\ textures'[1].fadesrc = 0
      /\ textures'[1].fadeloop \in -1..MaxLoop /\ textures'[1].fadeloop <= 0
  <2>1. 1 \in Slots /\ ~Fading(textures, 1)
    BY <1>3 DEF NoFade, Slots
  <2>2. textures[1].fadein = 0 /\ textures[1].fadeloop \in -1..MaxLoop
        /\ textures[1].fadeloop <= 0
    BY <1>3, <2>1, ConstantsAssumption DEF SlotsOK, Slot, Fading
  <2> QED
    BY <1>3, <2>2, FadeOverEffect
<1>5. LegSteps(0) = 0 /\ LegSteps(textures'[1].fadeloop) = 0 /\ 0 \in -1..MaxLoop
  BY <1>4, LegStepsFacts, ConstantsAssumption
<1>6. Counted(textures'[1]) = LegSteps(cmd.loop) + FadeMax
  BY <1>1, <1>4, <1>5, ConstantsAssumption DEF Counted
<1>7. \A s \in Slots \ {1} : ~Fading(textures', s)
  BY <1>3, <1>4 DEF NoFade, OthersSame, Fading
<1>8. IInv'
  BY FadeOverIInv
<1>9. UNCHANGED Gate!gateVars
  BY <1>1, <1>2, <1>3, <1>5, <1>6, <1>7, <1>8, ArmGate DEF Slots
<1>10. Counters(textures')
  BY <1>1, <1>4 DEF StepsInv, Counters, OthersSame
<1>11. Tested' /\ Planned'
  BY <1>1, <1>2, <1>3 DEF Tested, Planned
<1> QED
  BY <1>9, <1>10, <1>11 DEF StepsInv

LEMMA FadeLoopGate ==
  ASSUME IInv, StepsInv, FadeLoop
  PROVE  UNCHANGED Gate!gateVars /\ StepsInv'
<1>1. /\ cmd.pc = "fadeloop" /\ cmd' = [cmd EXCEPT !.pc = "loop2"]
      /\ cmd.loop \in -1..MaxLoop /\ UNCHANGED <<fader, blockCommands>>
  BY DEF FadeLoop, IInv, ControlTypeOK, engineVars
<1>2. cmd'.pc = "loop2" /\ cmd'.loop = cmd.loop
  BY <1>1 DEF IInv, ControlTypeOK
<1>3. NoFade(textures) /\ fader.pc = "scan" /\ SlotsOK(textures)
  BY <1>1 DEF IInv, GateInv, Unarmed, Quiet, ControlTypeOK
<1>4. textures[0].fadein = 0
  BY <1>3 DEF NoFade, Fading, SlotsOK, Slot, Slots
<1>5. textures'[0].fadein = 0 /\ textures'[0].fadeloop = cmd.loop
  BY <1>1, <1>3, <1>4, FadeLoopEffect
<1>6. StepsLeft' = StepsLeft
  BY <1>1, <1>2, StepsLeftTotal DEF Total, FadeArming
<1>7. GateOpen' = GateOpen
  BY <1>1, <1>2 DEF GateOpen
<1>8. Tested' /\ Planned'
  BY <1>1, <1>2, <1>3, <1>5 DEF Tested, Planned
<1> QED
  BY <1>2, <1>6, <1>7, <1>8 DEF Gate!gateVars, StepsInv

LEMMA FadeLoop2Gate ==
  ASSUME IInv, StepsInv, FadeLoop2
  PROVE  UNCHANGED Gate!gateVars /\ StepsInv'
<1>1. /\ cmd.pc = "loop2" /\ cmd' = [cmd EXCEPT !.pc = "block"]
      /\ cmd.loop \in -1..MaxLoop /\ UNCHANGED fader /\ SlotsOK(textures)
  BY DEF FadeLoop2, IInv, ControlTypeOK, engineVars
<1>2. cmd'.pc = "block" /\ cmd.pc \in FadeArming
  BY <1>1 DEF IInv, ControlTypeOK, FadeArming
<1>3. /\ fader.pc = "scan" /\ textures[0].fadein = 0 /\ textures[0].fadeloop = cmd.loop
      /\ \A s \in Slots \ {0} : ~Fading(textures, s)
  BY <1>1 DEF StepsInv, Planned, IInv, GateInv, LoopInv
<1>4. /\ OthersSame(textures, textures', 0)
      /\ textures'[0].fadein = 0
      /\ textures'[0].fadeover = FadeMax /\ textures'[0].fadesrc = 1
      /\ textures'[0].fadeloop = cmd.loop
  BY <1>1, <1>3, FadeLoop2Effect
<1>5. Counted(textures'[0]) = LegSteps(cmd.loop) + FadeMax
  BY <1>1, <1>4, LegStepsFacts, ConstantsAssumption DEF Counted
<1>6. \A s \in Slots \ {0} : ~Fading(textures', s)
  BY <1>3, <1>4 DEF OthersSame, Fading
<1>7. IInv'
  BY FadeLoop2IInv
<1>8. UNCHANGED Gate!gateVars
  BY <1>1, <1>2, <1>3, <1>5, <1>6, <1>7, ArmGate DEF Slots
<1>9. Counters(textures')
  BY <1>4, <1>6, ConstantsAssumption DEF Counters, Fading
<1>10. Tested' /\ Planned'
  BY <1>1, <1>2, <1>3 DEF Tested, Planned
<1> QED
  BY <1>8, <1>9, <1>10 DEF StepsInv

LEMMA CommandGate ==
  ASSUME IInv, StepsInv, Calm, processCommand
  PROVE  [Gate!GateNext]_(Gate!gateVars) /\ StepsInv'
<1>1. CASE \E c \in Commands : Issue(c)
  BY <1>1, IssueGate
<1>2. CASE FadeIn
  BY <1>2, FadeInGate
<1>3. CASE FadeOut
  BY <1>3 DEF FadeOut, StepsInv, Planned
<1>4. CASE FadeOver
  BY <1>4, FadeOverGate
<1>5. CASE FadeLoop
  BY <1>5, FadeLoopGate
<1>6. CASE FadeLoop2
  BY <1>6, FadeLoop2Gate
<1>7. CASE Block \/ DrawDone
  <2>1. /\ cmd.pc \in {"block", "draw"} /\ UNCHANGED <<textures, fader>>
        /\ cmd' = [cmd EXCEPT !.pc = "gate"]
        /\ cmd.pc = "block" => blockCommands' = TRUE
        /\ cmd.pc = "draw" => blockCommands' = blockCommands
    BY <1>7 DEF Block, DrawDone, engineVars
  <2>2. cmd'.pc = "gate" /\ cmd.pc \notin FadeArming /\ cmd'.pc \notin FadeArming
    BY <2>1 DEF IInv, ControlTypeOK, FadeArming
  <2>3. StepsLeft' = StepsLeft
    BY <2>1, <2>2, StepsLeftTotal DEF Total
  <2>4. GateOpen' = GateOpen
    BY <2>1, <2>2 DEF GateOpen
  <2>5. StepsInv'
    BY <2>1, <2>2 DEF StepsInv, Tested, Planned
  <2> QED
    BY <2>3, <2>4, <2>5 DEF Gate!gateVars
<1> QED
  BY <1>1, <1>2, <1>3, <1>4, <1>5, <1>6, <1>7 DEF processCommand, Handler

-------------------------------------------------------------------------------
(* The other threads leave the fades alone.                                *)

LEMMA SameGate ==
  ASSUME IInv, StepsInv, FadesSame(textures, textures'),
         UNCHANGED <<blockCommands, cmd, fader>>
  PROVE  UNCHANGED Gate!gateVars /\ StepsInv'
<1>1. \A s \in Slots : Counted(textures'[s]) = Counted(textures[s])
  BY DEF FadesSame, SameFade, Counted
<1>2. StepsLeft' = StepsLeft
  BY <1>1, StepsLeftTotal DEF Total, SlotTotal, Slots
<1>3. GateOpen' = GateOpen
  BY DEF GateOpen
<1>4. Counters(textures) => Counters(textures')
  BY DEF Counters, FadesSame, SameFade
<1>5. Tested' /\ Planned'
  BY DEF StepsInv, Tested, Planned, FadesSame, SameFade, IInv, ControlTypeOK, Slots
<1> QED
  BY <1>2, <1>3, <1>4, <1>5 DEF Gate!gateVars, StepsInv

LEMMA GateStep ==
  ASSUME IInv, StepsInv, Calm, [Next]_vars
  PROVE  [Gate!GateNext]_(Gate!gateVars) /\ StepsInv'
<1>1. CASE faderThread
  BY <1>1, FaderGate
<1>2. CASE processCommand
  BY <1>2, CommandGate
<1>3. CASE main \/ (\E t \in Renderers : update(t)) \/ TimerUpd
  BY <1>3, MainFades, SameGate DEF IInv, ControlTypeOK
<1>4. CASE UNCHANGED vars
  <2>1. FadesSame(textures, textures') /\ UNCHANGED <<blockCommands, cmd, fader>>
    BY <1>4 DEF vars, FadesSame, SameFade
  <2> QED
    BY <2>1, SameGate
<1> QED
  BY <1>1, <1>2, <1>3, <1>4 DEF Next

LEMMA GateStart ==
  ASSUME Init
  PROVE  Gate!GateInit /\ StepsInv
<1>1. IInv
  BY InitIInv
<1>2. blockCommands = FALSE /\ cmd.pc = "gate" /\ fader.pc = "scan"
  BY DEF Init
<1>3. Quiet /\ SlotsOK(textures)
  BY <1>1, <1>2 DEF IInv, GateInv, ControlTypeOK
<1>4. StepsLeft = 0
  BY <1>2, <1>3, NoFadeTotal, StepsLeftTotal DEF Quiet, FadeArming
<1>5. GateOpen = TRUE
  BY <1>2 DEF GateOpen
<1>6. Counters(textures)
  BY <1>3 DEF Counters, Quiet, NoFade, Fading
<1> QED
  BY <1>2, <1>4, <1>5, <1>6 DEF Gate!GateInit, StepsInv, Tested, Planned

-------------------------------------------------------------------------------
(* Theorems                                                                *)

\* The counters of a fade add up to the steps planned for it.
THEOREM StepsAddUp == ASSUME Calm PROVE Spec => []StepsInv
<1>1. IInv /\ StepsInv /\ [Next]_vars => StepsInv'
  BY GateStep
<1>2. Init => StepsInv
  BY GateStart
<1> QED
  BY <1>1, <1>2, EngineInvariant, PTL DEF Spec

\* The polling loop of 216, the flag blockCommands and the counters of the fader
\* implement the gate of FadeGate: a fade is admitted only when no other is
\* under way, takes exactly the steps it was admitted with, and only its last
\* step opens the gate.
THEOREM GateImplemented ==
  ASSUME Calm
  PROVE  Spec => Gate!GateInit /\ [][Gate!GateNext]_(Gate!gateVars)
<1>1. IInv /\ StepsInv /\ [Next]_vars => [Gate!GateNext]_(Gate!gateVars)
  BY GateStep
<1>2. Init => Gate!GateInit
  BY GateStart
<1> QED
  BY <1>1, <1>2, EngineInvariant, StepsAddUp, PTL DEF Spec

-------------------------------------------------------------------------------
(* The last frame.                                                         *)

\* Only update() may be interrupted, pictures can be read, and no text expires: the
\* schedule of a device whose threads wait for a fade before the next begins.
Punctual == /\ Preempt \subseteq {"update", "lag"} /\ "fadeout" \notin Commands
            /\ LoadMayFail = FALSE /\ TimerUpds = 0

\* The same, main draws in time, and no fade loops: then pictures stay opaque.
Timely == Punctual /\ "lag" \notin Preempt /\ "fadeloop" \notin Commands

\* A texture that can be seen when it is drawn.
Bright(r) == r.alphaMod = FadeMax /\ r.colorMod >= FadeMax - 1

\* Slot s holds picture p; texture x shows it; update() is about to draw it.
Has(s, p)   == textures[s].tex # NoTex /\ heap[textures[s].tex].img = p
Shows(x, p) == x # NoTex /\ heap[x].img = p /\ (Timely => Bright(heap[x]))
Good(t, p) ==
  \/ upd[t].at = "begin" /\ Shows(textures[upd[t].id].tex, p)
  \/ upd[t].at = "copy" /\ Shows(upd[t].tex, p)

\* The pictures on their way, and that slot s will have picture p when they are there.
Events(q) == {q[k] : k \in 1..Len(q)}
Loads     == {e \in {loading} \cup Events(queue) : e.type = "load"}
Will(s, p) == /\ \A e \in Loads : e.code = s => e.arg = p
              /\ (\E e \in Loads : e.code = s) \/ Has(s, p)

\* The slot in which the fade of slot i ends: a fadeloop goes back and forth.
Odd(n)     == n > 0 /\ n % 2 = 1
Dest(T, i) == IF Odd(T[i].fadeloop) THEN T[i].fadesrc ELSE i

\* Only slot 0 fades in; only a slot that fades is dirty; the slot that takes over is
\* fading, and so is one whose handler is about to close the gate.
Zero    == \A s \in Slots : textures[s].fadein > 0 => s = 0
Marked  == \A s \in Slots : textures[s].dirty => Fading(textures, s)
Toggled == fader.pc = "toggleEnd" => textures[fader.src].fadeover > 0
Armed   == cmd.pc = "block" => ~NoFade(textures)
Shape   == Zero /\ Marked /\ Toggled /\ Armed

-------------------------------------------------------------------------------
(* Shape.                                                                  *)

Cleaner(T, U) == \A s \in Slots : U[s].dirty => T[s].dirty

LEMMA PutDirty ==
  ASSUME NEW T, SlotsOK(T), NEW i, NEW r, i \in Slots /\ r.dirty => T[i].dirty
  PROVE  Cleaner(T, [T EXCEPT ![i] = r])
<1>1. [T EXCEPT ![i] = r] = [s \in Slots |-> IF s = i THEN r ELSE T[s]]
  BY DEF SlotsOK
<1> QED
  BY <1>1 DEF Cleaner

LEMMA ResetClean ==
  ASSUME NEW T, SlotsOK(T), NEW i \in Slots
  PROVE  ~resetTexture(T, i)[i].dirty /\ Cleaner(T, resetTexture(T, i))
<1> DEFINE R == resetTexture(T, i)
<1>1. R[i] = Blank(T[i].tex) /\ OthersSame(T, R, i)
  BY ResetSlot
<1>2. Blank(T[i].tex).dirty = FALSE
  BY DEF Blank
<1> HIDE DEF R
<1>3. Cleaner(T, R)
  BY <1>1, <1>2 DEF OthersSame, Cleaner
<1> QED
  BY <1>1, <1>2, <1>3 DEF R

LEMMA ActiveClean ==
  ASSUME NEW T, SlotsOK(T), NEW i \in Slots, NEW b \in BOOLEAN
  PROVE  Cleaner(T, [T EXCEPT ![i].active = b])
<1> DEFINE r == [T[i] EXCEPT !.active = b]
<1>1. [T EXCEPT ![i].active = b] = [T EXCEPT ![i] = r] /\ T[i] \in Slot(T[i].tex)
  BY DEF SlotsOK
<1>2. r.dirty = T[i].dirty
  BY <1>1 DEF Slot
<1> HIDE DEF r
<1> QED
  BY <1>1, <1>2, PutDirty

LEMMA MoveClean ==
  ASSUME NEW T, SlotsOK(T), NEW i \in Slots, NEW src \in Slots
  PROVE  ~MoveTexture(T, i, src)[i].dirty /\ ~MoveTexture(T, i, src)[src].dirty
<1> DEFINE C == copyTexture(T, i, src)
           R == resetTexture(C, src)
           Q == resetTexture(R, i)
           A == [Q EXCEPT ![i].active = FALSE]
           B == [A EXCEPT ![src].active = TRUE]
<1>1. SlotsOK(C)
  BY PutSlot DEF copyTexture, SlotsOK
<1>2. SlotsOK(R) /\ ~R[src].dirty
  BY <1>1, ResetSlot, ResetClean
<1>3. SlotsOK(Q) /\ ~Q[i].dirty /\ ~Q[src].dirty
  BY <1>2, ResetSlot, ResetClean DEF Cleaner
<1>4. SlotsOK(A) /\ ~A[i].dirty /\ ~A[src].dirty
  BY <1>3, SetActive, ActiveClean DEF Cleaner
<1>5. ~B[i].dirty /\ ~B[src].dirty
  BY <1>4, ActiveClean DEF Cleaner
<1>6. MoveTexture(T, i, src) = B
  BY DEF MoveTexture
<1> HIDE DEF C, R, Q, A, B
<1> QED
  BY <1>5, <1>6

LEMMA FadeinLastClean ==
  ASSUME IInv, NEW i \in Slots, FadeinLast(i)
  PROVE  ~textures'[i].dirty
<1> DEFINE R == resetTexture(textures, i)
           r == [R[i] EXCEPT !.alpha = FadeMax]
<1>1. SlotsOK(R) /\ ~R[i].dirty /\ R[i] \in Slot(R[i].tex)
  BY ResetSlot, ResetClean DEF IInv, ControlTypeOK, SlotsOK
<1>2. textures' = [R EXCEPT ![i].alpha = FadeMax]
  BY DEF FadeinLast
<1> HIDE DEF R
<1>3. textures' = [R EXCEPT ![i] = r] /\ ~r.dirty
  BY <1>1, <1>2 DEF Slot
<1> HIDE DEF r
<1> QED
  BY <1>1, <1>3, PutSlot, PutDirty DEF Cleaner

\* The fader leaves the commands alone, and runs when no handler does.
LEMMA FaderAlone ==
  ASSUME Punctual, IInv, faderThread
  PROVE  /\ cmd.pc \in {"gate", "draw"} /\ loading = NoEvent
         /\ UNCHANGED <<cmd, heap, loading, upd, screen, issued, goal>>
<1>1. May("fader") /\ UNCHANGED <<cmd, heap, loading, upd, screen, issued, goal>>
  BY DEF faderThread, FaderScan, FadeinLast, FadeinTick, ToggleTest, ToggleSrc, ToggleEnd,
     FinishBegin, FinishEnd, FadeoverTick, dataVars
<1>2. Busy("cmd") \subseteq Preempt /\ Busy("main") \subseteq Preempt
  BY <1>1 DEF May
<1>3. ~InHandler /\ loading = NoEvent
  BY <1>2 DEF Busy, Punctual
<1> QED
  BY <1>1, <1>3 DEF InHandler, IInv, ControlTypeOK

LEMMA FaderShape ==
  ASSUME Punctual, IInv, TexInv, StepsInv, Shape, faderThread
  PROVE  Shape'
<1>1. /\ cmd.pc # "block" /\ cmd' = cmd /\ SlotsOK(textures)
      /\ fader \in [pc : {"scan", "toggle", "toggleEnd", "finish"}, slot : {0, 1}, src : {0, 1}]
      /\ fader.slot \in Slots /\ fader.src \in Slots /\ textures[fader.slot].fadesrc \in {0, 1}
  BY FaderAlone DEF IInv, ControlTypeOK, SlotsOK, Slot, Slots
<1>2. Armed'
  BY <1>1 DEF Armed
<1>3. ASSUME NEW i \in Slots, FaderScan(i) PROVE Shape'
  <2>1. fader.pc = "scan"
    BY <1>3 DEF FaderScan
  <2>2. CASE FadeinLast(i)
    <3>1. /\ Faded(textures'[i]) /\ OthersSame(textures, textures', i) /\ fader' = fader
          /\ ~textures'[i].dirty
      BY <1>1, <2>2, FadeinLastEffect, FadeinLastClean DEF FadeinLast
    <3> QED
      BY <1>2, <2>1, <3>1 DEF Shape, Zero, Marked, Toggled, Faded, OthersSame, Fading
  <2>3. CASE FadeinTick(i)
    <3>1. OthersSame(textures, textures', i) /\ textures'[i].fadein > 0
      BY <1>1, <2>3, FadeinTickEffect
    <3>2. textures[i].fadein > 0 /\ fader' = fader
      <4>1. textures[i].fadein > 1 /\ fader' = fader
        BY <2>3 DEF FadeinTick
      <4>2. textures[i].fadein \in Nat
        BY <1>1, ConstantsAssumption DEF SlotsOK, Slot
      <4> QED
        BY <4>1, <4>2
    <3> QED
      BY <1>2, <2>1, <3>1, <3>2 DEF Shape, Zero, Marked, Toggled, OthersSame, Fading
  <2>4. CASE FadeoverTick(i)
    <3>1. /\ OthersSame(textures, textures', i) /\ fader' = fader
          /\ textures'[i].fadeover > 0 /\ textures'[i].fadein = textures[i].fadein
      BY <1>1, <2>4, FadeoverTickEffect DEF FadeoverTick
    <3> QED
      BY <1>2, <2>1, <3>1 DEF Shape, Zero, Marked, Toggled, OthersSame, Fading
  <2>5. CASE ToggleTest(i) \/ FinishBegin(i)
    <3>1. textures' = textures /\ fader'.pc \in {"toggle", "finish"}
      <4>1. CASE ToggleTest(i)
        BY <1>1, <4>1 DEF ToggleTest
      <4>2. CASE FinishBegin(i)
        BY <4>2 DEF FinishBegin
      <4> QED
        BY <2>5, <4>1, <4>2
    <3> QED
      BY <1>2, <3>1 DEF Shape, Zero, Marked, Toggled, Fading
  <2> QED
    BY <1>3, <2>2, <2>3, <2>4, <2>5 DEF FaderScan
<1>4. CASE ToggleSrc
  <2> DEFINE i   == fader.slot
             src == textures[i].fadesrc
  <2>1. fader.pc = "toggle" /\ textures[i].fadeloop > 0
    BY <1>4 DEF ToggleSrc, IInv, GateInv, FaderInv
  <2>2. textures' = ArmNextLeg(textures, i, src) /\ fader'.pc = "toggleEnd" /\ fader'.src = src
    BY <1>1, <1>4 DEF ToggleSrc
  <2>3. /\ OthersSame(textures, textures', src) /\ textures'[src].fadeover = FadeMax
        /\ textures'[src].fadein = 0 /\ FadeMax > 0
    BY <1>1, <2>1, <2>2, ArmNextLegEffect, ConstantsAssumption
  <2> HIDE DEF i, src
  <2> QED
    BY <1>2, <2>2, <2>3 DEF Shape, Zero, Marked, Toggled, OthersSame, Fading
<1>5. CASE ToggleEnd
  <2>1. textures' = resetTexture(textures, fader.slot) /\ fader'.pc = "scan"
    BY <1>1, <1>5 DEF ToggleEnd
  <2>2. /\ OthersSame(textures, textures', fader.slot) /\ Faded(textures'[fader.slot])
        /\ ~textures'[fader.slot].dirty
    BY <1>1, <2>1, ResetSlot, BlankFields, ResetClean
  <2> QED
    BY <1>2, <2>1, <2>2 DEF Shape, Zero, Marked, Toggled, OthersSame, Faded, Fading
<1>6. CASE FinishEnd
  <2> DEFINE i   == fader.slot
             src == fader.src
  <2>1. textures' = MoveTexture(textures, i, src) /\ fader'.pc = "scan"
        /\ i \in Slots /\ src \in Slots
    BY <1>1, <1>6 DEF FinishEnd
  <2> HIDE DEF i, src
  <2>2. /\ Faded(textures'[i]) /\ Faded(textures'[src])
        /\ \A s \in Slots \ {i, src} : textures'[s] = textures[s]
    <3>1. SlotsOK(textures)
      BY <1>1
    <3> QED
      BY <2>1, <3>1, MoveEffect
  <2>3. ~textures'[i].dirty /\ ~textures'[src].dirty
    BY <1>1, <2>1, MoveClean
  <2> QED
    BY <1>2, <2>1, <2>2, <2>3 DEF Shape, Zero, Marked, Toggled, Faded, Fading
<1> QED
  BY <1>3, <1>4, <1>5, <1>6 DEF faderThread

\* A command arms slot k.
LEMMA ArmShape ==
  ASSUME Shape, fader.pc = "scan", UNCHANGED fader, NEW k \in {0, 1},
         OthersSame(textures, textures', k), Fading(textures', k),
         textures'[k].fadein > 0 => k = 0
  PROVE  Shape'
<1>1. k \in Slots
  BY DEF Slots
<1> QED
  BY <1>1 DEF Shape, Zero, Marked, Toggled, Armed, OthersSame, NoFade, Fading

LEMMA CommandShape ==
  ASSUME Punctual, IInv, StepsInv, Shape, processCommand
  PROVE  Shape'
<1>1. /\ fader.pc = "scan" /\ UNCHANGED fader /\ SlotsOK(textures) /\ cmd.pc # "fadeout"
      /\ cmd.loop \in -1..MaxLoop /\ FadeMax > 0 /\ {0, 1} \subseteq Slots
      /\ cmd \in [pc : {"gate", "block", "draw"} \cup FadeArming, loop : -1..MaxLoop]
  BY OthersScan, ConstantsAssumption
     DEF Punctual, Whole, IInv, ControlTypeOK, StepsInv, Planned, Slots
<1>2. CASE FadeIn
  <2>1. OthersSame(textures, textures', 0) /\ textures'[0].fadein = FadeMax
    BY <1>1, <1>2, FadeInEffect
  <2> QED
    BY <1>1, <2>1, ArmShape DEF Fading
<1>3. CASE FadeOver
  <2>1. /\ OthersSame(textures, textures', 1) /\ textures'[1].fadeover = FadeMax
        /\ textures'[1].fadein = textures[1].fadein
    BY <1>1, <1>3, FadeOverEffect
  <2>2. textures'[1].fadein > 0 => 1 = 0
    BY <1>1, <2>1 DEF Shape, Zero
  <2> QED
    BY <1>1, <2>1, <2>2, ArmShape DEF Fading
<1>4. CASE FadeLoop2
  <2>1. OthersSame(textures, textures', 0) /\ textures'[0].fadeover = FadeMax
    BY <1>1, <1>4, FadeLoop2Effect
  <2> QED
    BY <1>1, <2>1, ArmShape DEF Fading
<1>5. CASE FadeLoop
  <2>1. OthersSame(textures, textures', 0)
    BY <1>1, <1>5, FadeLoopEffect
  <2>2. ~Fading(textures, 0) /\ ~textures[0].dirty
    BY <1>1, <1>5 DEF FadeLoop, IInv, GateInv, Unarmed, Quiet, NoFade, Shape, Marked
  <2>3. Cleaner(textures, textures')
    <3> DEFINE r == [textures[0] EXCEPT !.fadeloop = cmd.loop]
    <3>1. textures' = [textures EXCEPT ![0] = r] /\ textures[0] \in Slot(textures[0].tex)
      BY <1>1, <1>5 DEF FadeLoop, SlotsOK
    <3>2. r.dirty = textures[0].dirty
      BY <3>1 DEF Slot
    <3> HIDE DEF r
    <3> QED
      BY <1>1, <3>1, <3>2, PutDirty
  <2>4. cmd'.pc = "loop2"
    BY <1>1, <1>5 DEF FadeLoop
  <2> QED
    BY <1>1, <2>1, <2>2, <2>3, <2>4
       DEF Shape, Zero, Marked, Toggled, Armed, OthersSame, Cleaner, Fading
<1>6. CASE UNCHANGED textures /\ cmd'.pc # "block"
  BY <1>1, <1>6 DEF Shape, Zero, Marked, Toggled, Armed, Fading
<1>7. CASE Block \/ DrawDone
  BY <1>1, <1>6, <1>7 DEF Block, DrawDone
<1>8. CASE \E c \in Commands : Issue(c)
  BY <1>6, <1>8, ConstantsAssumption DEF Issue
<1>9. ~FadeOut
  BY <1>1 DEF FadeOut
<1> QED
  BY <1>2, <1>3, <1>4, <1>5, <1>7, <1>8, <1>9 DEF processCommand, Handler

\* Main and update() leave the fades alone, and at most clear a dirty flag.
LEMMA OthersClean ==
  ASSUME SlotsOK(textures), main \/ (\E t \in Renderers : update(t)) \/ TimerUpd
  PROVE  Cleaner(textures, textures')
<1>1. Cleaner(textures, textures)
  BY DEF Cleaner
<1>2. CASE LoadImage
  <2>1. PICK t : textures' = [textures EXCEPT ![loading.code].tex = t]
    BY <1>2 DEF LoadImage
  <2> DEFINE i == loading.code
             r == [textures[i] EXCEPT !.tex = t]
  <2>2. textures' = [textures EXCEPT ![i] = r]
    BY <2>1 DEF SlotsOK
  <2>3. i \in Slots => r.dirty = textures[i].dirty
    BY DEF SlotsOK, Slot
  <2> HIDE DEF i, r
  <2> QED
    BY <2>2, <2>3, PutDirty
<1>3. CASE \E t \in Renderers : UpdateCopy(t)
  <2>1. PICK i : textures' = [textures EXCEPT ![i].dirty = FALSE]
    BY <1>3 DEF UpdateCopy
  <2> DEFINE r == [textures[i] EXCEPT !.dirty = FALSE]
  <2>2. textures' = [textures EXCEPT ![i] = r]
    BY <2>1 DEF SlotsOK
  <2>3. i \in Slots => ~r.dirty
    BY DEF SlotsOK, Slot
  <2> HIDE DEF r
  <2> QED
    BY <2>2, <2>3, PutDirty
<1>4. CASE UNCHANGED textures
  BY <1>1, <1>4
<1> QED
  BY <1>2, <1>3, <1>4 DEF main, TakeUpd, TakeLoad, TakeDestroy, threadVars, slotVars, update,
         UpdateLoop, UpdateBegin, UpdateBlend, TimerUpd

LEMMA OthersShape ==
  ASSUME Punctual, IInv, Shape, main \/ (\E t \in Renderers : update(t)) \/ TimerUpd
  PROVE  Shape'
<1>1. FadesSame(textures, textures') /\ UNCHANGED <<cmd, fader>> /\ Cleaner(textures, textures')
  BY MainFades, OthersClean DEF IInv, ControlTypeOK
<1>2. fader.src \in Slots
  BY DEF IInv, ControlTypeOK, Slots
<1> QED
  BY <1>1, <1>2
     DEF Shape, Zero, Marked, Toggled, Armed, FadesSame, SameFade, Cleaner, Fading, NoFade

-------------------------------------------------------------------------------
(* The events in the queue.                                                *)

LEMMA AppendEvents ==
  ASSUME NEW q \in Seq(Event), NEW e \in Event
  PROVE  Append(q, e) \in Seq(Event) /\ Events(Append(q, e)) = Events(q) \cup {e}
<1> DEFINE r == Append(q, e)
<1>1. /\ r \in Seq(Event) /\ Len(r) = Len(q) + 1 /\ Len(q) \in Nat /\ r[Len(q) + 1] = e
      /\ \A k \in 1..Len(q) : r[k] = q[k]
  OBVIOUS
<1> HIDE DEF r
<1>2. /\ \A k \in 1..Len(r) : k \in 1..Len(q) \/ k = Len(q) + 1
      /\ \A k \in 1..Len(q) : k \in 1..Len(r)
      /\ Len(q) + 1 \in 1..Len(r)
  BY <1>1
<1>3. Events(r) = Events(q) \cup {e}
  BY <1>1, <1>2 DEF Events
<1> QED
  BY <1>1, <1>3 DEF r

LEMMA TailEvents ==
  ASSUME NEW q \in Seq(Event), q # <<>>
  PROVE  /\ Tail(q) \in Seq(Event) /\ Head(q) \in Events(q)
         /\ Events(q) = {Head(q)} \cup Events(Tail(q))
<1> DEFINE r == Tail(q)
           h == Head(q)
<1>1. /\ r \in Seq(Event) /\ Len(r) = Len(q) - 1 /\ Len(q) \in Nat \ {0} /\ h = q[1]
      /\ \A k \in 1..Len(r) : r[k] = q[k + 1] /\ k + 1 \in 1..Len(q)
  OBVIOUS
<1> HIDE DEF r, h
<1>2. 1 \in 1..Len(q) /\ \A k \in 1..Len(q) : k = 1 \/ (k - 1 \in 1..Len(r) /\ (k - 1) + 1 = k)
  BY <1>1
<1>3. Events(r) \subseteq Events(q) /\ h \in Events(q)
  BY <1>1, <1>2 DEF Events
<1>4. \A k \in 1..Len(q) : q[k] = h \/ q[k] \in Events(r)
  <2> TAKE k \in 1..Len(q)
  <2>1. CASE k = 1
    BY <1>1, <2>1
  <2>2. CASE k # 1
    <3>1. k - 1 \in 1..Len(r) /\ r[k - 1] = q[k]
      BY <1>1, <1>2, <2>2
    <3> QED
      BY <3>1 DEF Events
  <2> QED
    BY <2>1, <2>2
<1>5. Events(q) \subseteq {h} \cup Events(r)
  BY <1>4 DEF Events
<1> QED
  BY <1>1, <1>3, <1>5 DEF r, h

LEMMA FlushEvents ==
  ASSUME NEW q \in Seq(Event)
  PROVE  FlushUpd(q) \in Seq(Event) /\ Events(FlushUpd(q)) = {e \in Events(q) : e.type # "upd"}
<1> DEFINE r == FlushUpd(q)
<1>1. Flushed(r, q, Len(q))
  BY FlushUpdFlushes
<1> HIDE DEF r
<1>2. PICK p \in [1..Len(r) -> 1..Len(q)] :
       /\ \A k \in 1..Len(r) : r[k] = q[p[k]] /\ r[k].type # "upd"
       /\ \A j, k \in 1..Len(r) : p[j] = p[k] => j = k
       /\ \A j \in 1..Len(q) : q[j].type # "upd" => \E k \in 1..Len(r) : p[k] = j
  BY <1>1 DEF Flushed
<1>3. Events(r) \subseteq {e \in Events(q) : e.type # "upd"}
  BY <1>2 DEF Events
<1>4. \A j \in 1..Len(q) : q[j].type # "upd" => q[j] \in Events(r)
  BY <1>2 DEF Events
<1>5. {e \in Events(q) : e.type # "upd"} \subseteq Events(r)
  BY <1>4 DEF Events
<1>6. r \in Seq(Event)
  BY <1>1 DEF Flushed
<1> QED
  BY <1>3, <1>5, <1>6 DEF r

\* A redraw of slot 1 comes before a picture.
Ordered(q) == \A k \in 1..Len(q) : q[k].type = "upd" /\ q[k].code = 1 =>
                 \E m \in 1..Len(q) : m > k /\ q[m].type = "load"

LEMMA AppendOrdered ==
  ASSUME NEW q \in Seq(Event), NEW e \in Event,
         e.type = "load" \/ (Ordered(q) /\ (e.type = "upd" => e.code # 1))
  PROVE  Ordered(Append(q, e))
<1> DEFINE r == Append(q, e)
<1>1. /\ Len(r) = Len(q) + 1 /\ Len(q) \in Nat /\ r[Len(q) + 1] = e
      /\ \A k \in 1..Len(q) : r[k] = q[k]
  OBVIOUS
<1> HIDE DEF r
<1>2. /\ \A k \in 1..Len(r) : k \in 1..Len(q) \/ k = Len(q) + 1
      /\ \A k \in 1..Len(q) : k \in 1..Len(r) /\ Len(q) + 1 > k
      /\ Len(q) + 1 \in 1..Len(r)
  BY <1>1
<1> SUFFICES ASSUME NEW k \in 1..Len(r), r[k].type = "upd", r[k].code = 1
             PROVE  \E m \in 1..Len(r) : m > k /\ r[m].type = "load"
  BY DEF Ordered, r
<1>3. k \in 1..Len(q) /\ q[k] = r[k]
  BY <1>1, <1>2
<1>4. CASE e.type = "load"
  BY <1>1, <1>2, <1>3, <1>4
<1>5. CASE Ordered(q)
  <2>1. PICK m \in 1..Len(q) : m > k /\ q[m].type = "load"
    BY <1>3, <1>5 DEF Ordered
  <2> QED
    BY <1>1, <1>2, <2>1
<1> QED
  BY <1>4, <1>5

LEMMA TailOrdered ==
  ASSUME NEW q \in Seq(Event), q # <<>>, Ordered(q)
  PROVE  Ordered(Tail(q))
<1> DEFINE r == Tail(q)
<1>1. /\ Len(r) = Len(q) - 1 /\ Len(q) \in Nat \ {0}
      /\ \A k \in 1..Len(r) : r[k] = q[k + 1] /\ k + 1 \in 1..Len(q)
  OBVIOUS
<1> HIDE DEF r
<1> SUFFICES ASSUME NEW k \in 1..Len(r), r[k].type = "upd", r[k].code = 1
             PROVE  \E m \in 1..Len(r) : m > k /\ r[m].type = "load"
  BY DEF Ordered, r
<1>2. q[k + 1].type = "upd" /\ q[k + 1].code = 1 /\ k + 1 \in 1..Len(q)
  BY <1>1
<1>3. PICK m \in 1..Len(q) : m > k + 1 /\ q[m].type = "load"
  BY <1>2 DEF Ordered
<1>4. m - 1 \in 1..Len(r) /\ m - 1 > k /\ (m - 1) + 1 = m
  BY <1>1, <1>3
<1>5. r[m - 1] = q[m]
  BY <1>1, <1>4
<1> QED
  BY <1>3, <1>4, <1>5

-------------------------------------------------------------------------------
(* The pictures on their way.                                              *)

LEMMA LoadsPending ==
  ASSUME TypeInv
  PROVE  LoadPending <=> Loads # {}
<1>1. DOMAIN queue = 1..Len(queue)
  BY DEF TypeInv, EventsOK
<1>2. loading # NoEvent <=> loading.type = "load"
  BY DEF TypeInv, NoEvent
<1>3. (\E k \in DOMAIN queue : queue[k].type = "load") <=> \E e \in Events(queue) : e.type = "load"
  BY <1>1 DEF Events
<1> QED
  BY <1>2, <1>3 DEF LoadPending, Loads

\* Whatever else is put into the queue or taken from it, the pictures stay.
LEMMA SameLoads ==
  ASSUME loading' = loading,
         \A e : e.type = "load" => (e \in Events(queue)' <=> e \in Events(queue))
  PROVE  Loads' = Loads
BY DEF Loads

\* What the fader adds to the queue: a redraw of the slot that fades, or of the slot
\* that has faded, or the end of a texture.
LEMMA FaderQueue ==
  ASSUME Punctual, IInv, TypeInv, Zero, faderThread
  PROVE  queue' = queue \/
         \E e \in Event :
            /\ queue' = Append(queue, e) /\ e.type \in {"upd", "destroy"}
            /\ e.type = "upd" => e.code \in {0, 1}
            /\ e.type = "upd" /\ e.code = 1 => ~(textures'[0].fadein > 0)
<1>1. /\ SlotsOK(textures) /\ fader.slot \in {0, 1} /\ 0 \in Slots
      /\ \A s \in Slots : textures[s].fadein \in Nat /\ textures[s].fadeover \in Nat
                          /\ textures[s].fadesrc \in {0, 1} /\ textures[s].tex \in Nat
  <2>1. SlotsOK(textures) /\ fader.slot \in {0, 1} /\ 0 \in Slots /\ FadeMax \in Nat
    BY ConstantsAssumption DEF IInv, ControlTypeOK, Slots
  <2> SUFFICES ASSUME NEW s \in Slots
               PROVE  /\ textures[s].fadein \in Nat /\ textures[s].fadeover \in Nat
                      /\ textures[s].fadesrc \in {0, 1} /\ textures[s].tex \in Nat
    BY <2>1
  <2>2. textures[s].fadein \in Nat /\ textures[s].fadeover \in Nat /\ textures[s].fadesrc \in {0, 1}
    BY <2>1 DEF SlotsOK, Slot
  <2>3. textures[s].tex \in Nat
    BY DEF TypeInv
  <2> QED
    BY <2>2, <2>3
<1>2. \A s \in {0, 1} : Upd(s) \in Event /\ Upd(s).type = "upd" /\ Upd(s).code = s
  BY DEF Upd, Event, Slots
<1>3. ASSUME NEW i \in Slots, FadeinLast(i) \/ FadeinTick(i)
      PROVE  i = 0 /\ queue' = Append(queue, Upd(0))
  <2>1. textures[i].fadein > 0 /\ queue' = Append(queue, Upd(i))
    BY <1>1, <1>3 DEF FadeinLast, FadeinTick
  <2> QED
    BY <2>1 DEF Zero
<1>4. ASSUME NEW i \in Slots, FadeoverTick(i), fader.pc = "scan"
      PROVE  /\ i \in {0, 1} /\ queue' = Append(queue, Upd(i))
             /\ i = 1 => ~(textures'[0].fadein > 0)
  <2>1. Fading(textures, i) /\ queue' = Append(queue, Upd(i)) /\ OthersSame(textures, textures', i)
    <3>1. textures[i].fadeover > 1 /\ queue' = Append(queue, Upd(i))
      BY <1>4 DEF FadeoverTick
    <3>2. OthersSame(textures, textures', i)
      BY <1>1, <1>4, FadeoverTickEffect
    <3> QED
      BY <1>1, <3>1, <3>2 DEF Fading
  <2>2. i \in {0, 1}
    BY <2>1 DEF IInv, GateInv, FaderInv, TempSlot, Slots
  <2>3. i = 1 => ~Fading(textures, 0) /\ textures'[0] = textures[0]
    BY <1>1, <1>4, <2>1 DEF IInv, GateInv, ExclusiveFade, OthersSame
  <2> QED
    BY <2>1, <2>2, <2>3 DEF Fading
<1>5. ASSUME NEW i \in Slots, FinishBegin(i)
      PROVE  \E e \in Event : queue' = Append(queue, e) /\ e.type = "destroy"
  <2>1. queue' = Append(queue, Destroy(textures[i].fadesrc, FadedFrom(i)))
    BY <1>5 DEF FinishBegin
  <2>2. textures[i].fadesrc \in Slots /\ FadedFrom(i) \in Nat
    BY <1>1 DEF FadedFrom, Slots
  <2>3. Destroy(textures[i].fadesrc, FadedFrom(i)) \in Event
        /\ Destroy(textures[i].fadesrc, FadedFrom(i)).type = "destroy"
    BY <2>2 DEF Destroy, Event
  <2> QED
    BY <2>1, <2>3
<1>6. CASE FinishEnd
  <2>1. queue' = Append(queue, Upd(fader.slot))
    BY <1>6 DEF FinishEnd
  <2>2. ~(textures'[0].fadein > 0)
    BY <1>1, <1>6, FinishEndIInv DEF NoFade, Fading
  <2> QED
    BY <1>1, <1>2, <2>1, <2>2
<1>7. CASE ToggleSrc \/ ToggleEnd \/ \E i \in Slots : ToggleTest(i)
  BY <1>7 DEF ToggleSrc, ToggleEnd, ToggleTest
<1>8. CASE \E i \in Slots : FaderScan(i)
  <2>1. PICK i \in Slots : FaderScan(i)
    BY <1>8
  <2>2. fader.pc = "scan"
    BY <2>1 DEF FaderScan
  <2>3. CASE FadeinLast(i) \/ FadeinTick(i)
    <3>1. queue' = Append(queue, Upd(0))
      BY <1>3, <2>3
    <3> QED
      BY <1>2, <3>1
  <2>4. CASE FadeoverTick(i)
    BY <1>2, <1>4, <2>2, <2>4
  <2>5. CASE FinishBegin(i)
    <3>1. PICK e \in Event : queue' = Append(queue, e) /\ e.type = "destroy"
      BY <1>5, <2>5
    <3> QED
      BY <3>1
  <2> QED
    BY <1>7, <2>1, <2>3, <2>4, <2>5 DEF FaderScan
<1> QED
  BY <1>6, <1>7, <1>8 DEF faderThread

LEMMA FaderLoads ==
  ASSUME Punctual, IInv, TypeInv, Zero, faderThread
  PROVE  Loads' = Loads
<1>1. loading' = loading
  BY FaderAlone
<1>2. CASE queue' = queue
  BY <1>1, <1>2, SameLoads
<1>3. CASE queue' # queue
  <2>1. PICK e \in Event : queue' = Append(queue, e) /\ e.type \in {"upd", "destroy"}
    BY <1>3, FaderQueue
  <2>2. Events(queue)' = Events(queue) \cup {e}
    BY <2>1, AppendEvents DEF TypeInv, EventsOK, Events
  <2> QED
    BY <1>1, <2>1, <2>2, SameLoads
<1> QED
  BY <1>2, <1>3

LEMMA MainLoads ==
  ASSUME TypeInv, TakeUpd \/ TakeLoad \/ TakeDestroy
  PROVE  Loads' = Loads
<1>1. queue \in Seq(Event) /\ queue # <<>> /\ loading = NoEvent
  BY DEF TypeInv, EventsOK, TakeUpd, TakeLoad, TakeDestroy, MainIdle
<1>2. Tail(queue) \in Seq(Event) /\ Events(queue) = {Head(queue)} \cup Events(Tail(queue))
  BY <1>1, TailEvents
<1>3. CASE TakeUpd
  <2>1. loading' = loading /\ queue' = FlushUpd(Tail(queue)) /\ Head(queue).type = "upd"
    BY <1>3 DEF TakeUpd
  <2>2. Events(queue)' = {e \in Events(Tail(queue)) : e.type # "upd"}
    BY <1>2, <2>1, FlushEvents DEF Events
  <2> QED
    BY <1>2, <2>1, <2>2, SameLoads
<1>4. CASE TakeLoad
  <2>1. loading' = Head(queue) /\ queue' = Tail(queue)
    BY <1>4 DEF TakeLoad
  <2>2. Events(queue)' = Events(Tail(queue)) /\ NoEvent.type # "load"
    BY <2>1 DEF Events, NoEvent
  <2> QED
    BY <1>1, <1>2, <2>1, <2>2 DEF Loads
<1>5. CASE TakeDestroy
  <2>1. loading' = loading /\ queue' = Tail(queue) /\ Head(queue).type = "destroy"
    BY <1>5 DEF TakeDestroy
  <2>2. Events(queue)' = Events(Tail(queue))
    BY <2>1 DEF Events
  <2> QED
    BY <1>2, <2>1, <2>2, SameLoads
<1> QED
  BY <1>3, <1>4, <1>5

\* What a command sends, when nothing is on its way.
LEMMA CommandLoads ==
  ASSUME TypeInv, processCommand
  PROVE  /\ FadeIn => Loads' = Loads \cup {LoadImg(0, PicB(issued))}
         /\ FadeOver => Loads' = Loads \cup {LoadImg(1, PicB(issued))}
         /\ FadeLoop => Loads' = Loads \cup {LoadImg(0, PicB(issued)), LoadImg(1, PicA(issued))}
         /\ ~(FadeIn \/ FadeOver \/ FadeLoop) => Loads' = Loads /\ UNCHANGED queue
<1>1. queue \in Seq(Event) /\ loading' = loading
  BY DEF TypeInv, EventsOK, processCommand, Handler, Issue, FadeIn, FadeOut, FadeOver,
     FadeLoop, FadeLoop2, Block, DrawDone, engineVars
<1>2. ~(FadeIn \/ FadeOver \/ FadeLoop) => UNCHANGED queue
  BY DEF processCommand, Handler, Issue, FadeOut, FadeLoop2, Block, DrawDone
<1>3. PicB(issued) \in Nat /\ PicA(issued) \in Nat
  BY ConstantsAssumption DEF TypeInv, PicA, PicB
<1>4. \A s \in {0, 1}, n \in Nat : LoadImg(s, n) \in Event /\ LoadImg(s, n).type = "load"
  BY DEF LoadImg, Event, Slots
<1>5. ASSUME NEW e \in Event, e.type = "load", queue' = Append(queue, e)
      PROVE  Loads' = Loads \cup {e}
  <2>1. Events(queue)' = Events(queue) \cup {e}
    BY <1>1, <1>5, AppendEvents DEF Events
  <2> QED
    BY <1>1, <1>5, <2>1 DEF Loads
<1>6. ASSUME FadeLoop
      PROVE  Loads' = Loads \cup {LoadImg(0, PicB(issued)), LoadImg(1, PicA(issued))}
  <2> DEFINE d == LoadImg(0, PicB(issued))
             e == LoadImg(1, PicA(issued))
  <2>1. queue' = Append(Append(queue, d), e) /\ d \in Event /\ e \in Event
        /\ d.type = "load" /\ e.type = "load"
    <3>1. queue' = queue \o <<d, e>>
      BY <1>6 DEF FadeLoop
    <3>2. d \in Event /\ e \in Event /\ d.type = "load" /\ e.type = "load"
      BY <1>3, <1>4
    <3> HIDE DEF d, e
    <3>3. queue \o <<d, e>> = Append(Append(queue, d), e)
      BY <1>1, <3>2
    <3> QED
      BY <3>1, <3>2, <3>3
  <2> HIDE DEF d, e
  <2>2. Append(queue, d) \in Seq(Event) /\ Events(Append(queue, d)) = Events(queue) \cup {d}
    BY <1>1, <2>1, AppendEvents
  <2>3. Events(queue)' = Events(Append(queue, d)) \cup {e}
    BY <2>1, <2>2, AppendEvents DEF Events
  <2>4. Loads' = Loads \cup {d, e}
    BY <1>1, <2>1, <2>2, <2>3 DEF Loads
  <2> QED
    BY <2>4 DEF d, e
<1>7. CASE ~(FadeIn \/ FadeOver \/ FadeLoop)
  <2>1. Events(queue)' = Events(queue)
    BY <1>2, <1>7 DEF Events
  <2>2. Loads' = Loads
    BY <1>1, <2>1 DEF Loads
  <2>3. ~FadeIn /\ ~FadeOver /\ ~FadeLoop
    BY <1>7
  <2> QED
    BY <1>2, <2>2, <2>3
<1>8. FadeIn => Loads' = Loads \cup {LoadImg(0, PicB(issued))}
  BY <1>3, <1>4, <1>5 DEF FadeIn
<1>9. FadeOver => Loads' = Loads \cup {LoadImg(1, PicB(issued))}
  BY <1>3, <1>4, <1>5 DEF FadeOver
<1> QED
  BY <1>6, <1>7, <1>8, <1>9

\* A texture keeps its picture.
ImgsSame == \A x \in 1..Len(heap) : heap'[x].img = heap[x].img

LEMMA StepImgs ==
  ASSUME TypeInv, faderThread \/ processCommand \/ main \/ \E t \in Renderers : update(t)
  PROVE  ImgsSame
<1>1. heap \in Seq(SdlTexture) /\ Len(heap) \in Nat
  BY DEF TypeInv
<1>2. ASSUME NEW x, NEW a, \/ heap' = [heap EXCEPT ![x].colorMod = a]
                           \/ heap' = [heap EXCEPT ![x].alphaMod = a]
                           \/ heap' = [heap EXCEPT ![x].live = a]
      PROVE  ImgsSame
  <2> SUFFICES ASSUME NEW y \in 1..Len(heap) PROVE heap'[y].img = heap[y].img
    BY DEF ImgsSame
  <2>1. heap[y] \in SdlTexture /\ y \in DOMAIN heap
    BY <1>1
  <2>2. CASE x = y
    <3>1. \/ heap'[y] = [heap[y] EXCEPT !.colorMod = a]
          \/ heap'[y] = [heap[y] EXCEPT !.alphaMod = a]
          \/ heap'[y] = [heap[y] EXCEPT !.live = a]
      BY <1>2, <2>1, <2>2
    <3> QED
      BY <2>1, <3>1 DEF SdlTexture
  <2>3. CASE x # y
    BY <1>2, <2>1, <2>3
  <2> QED
    BY <2>2, <2>3
<1>3. CASE heap' = heap
  BY <1>3 DEF ImgsSame
<1>4. CASE \E r : heap' = Append(heap, r)
  BY <1>1, <1>4 DEF ImgsSame
<1>5. CASE faderThread \/ processCommand
  BY <1>3, <1>5 DEF faderThread, FaderScan, FadeinLast, FadeinTick, ToggleTest, ToggleSrc,
     ToggleEnd, FinishBegin, FinishEnd, FadeoverTick, dataVars, processCommand, Handler,
     Issue, FadeIn, FadeOut, FadeOver, FadeLoop, FadeLoop2, Block, DrawDone, engineVars
<1>6. CASE main
  BY <1>2, <1>3, <1>4, <1>6 DEF main, TakeUpd, TakeLoad, LoadImage, TakeDestroy
<1>7. CASE \E t \in Renderers : update(t)
  <2>1. PICK t \in Renderers : update(t)
    BY <1>7
  <2>2. CASE UpdateLoop(t) \/ UpdateCopy(t)
    BY <1>3, <2>2 DEF UpdateLoop, UpdateCopy, slotVars
  <2>3. CASE UpdateBegin(t)
    <3>1. heap' = heap \/ \E x, a : heap' = [heap EXCEPT ![x].colorMod = a]
      BY <2>3 DEF UpdateBegin
    <3> QED
      BY <1>2, <1>3, <3>1
  <2>4. CASE UpdateBlend(t)
    <3>1. heap' = heap \/ \E x, a : heap' = [heap EXCEPT ![x].alphaMod = a]
      BY <2>4 DEF UpdateBlend
    <3> QED
      BY <1>2, <1>3, <3>1
  <2> QED
    BY <2>1, <2>2, <2>3, <2>4 DEF update
<1> QED
  BY <1>5, <1>6, <1>7

\* A picture that will be there is still on its way, or there, after a step that sends
\* none and loads none; also after one that loads it.
LEMMA KeepHas ==
  ASSUME TypeInv, ImgsSame, NEW s \in Slots, textures'[s].tex = textures[s].tex, NEW p,
         Has(s, p)
  PROVE  textures'[s].tex # NoTex /\ heap'[textures'[s].tex].img = p
<1>1. textures[s].tex \in 1..Len(heap)
  BY DEF Has, TypeInv, NoTex
<1> QED
  BY <1>1 DEF Has, ImgsSame

\* The same of what a texture shows, in a step that changes no modulation.
ModsSame == \A x \in 1..Len(heap) : heap'[x].alphaMod = heap[x].alphaMod
                                     /\ heap'[x].colorMod = heap[x].colorMod

LEMMA KeepShows ==
  ASSUME ImgsSame, Timely => ModsSame, NEW x \in 1..Len(heap), NEW p, Shows(x, p)
  PROVE  x # NoTex /\ heap'[x].img = p /\ (Timely => Bright(heap'[x]))
BY DEF Shows, Bright, ImgsSame, ModsSame

LEMMA KeepSlots ==
  ASSUME TypeInv, ImgsSame, Timely => ModsSame, SameTexs(textures, textures'), goal' = goal
  PROVE  \A s \in Slots : Shows(textures[s].tex, goal) => Shows(textures[s].tex, goal)'
<1> SUFFICES ASSUME NEW s \in Slots, Shows(textures[s].tex, goal)
             PROVE  Shows(textures[s].tex, goal)'
  OBVIOUS
<1>1. textures'[s].tex = textures[s].tex /\ textures[s].tex \in 1..Len(heap)
  BY DEF SameTexs, Shows, TypeInv, NoTex
<1> QED
  BY <1>1, KeepShows DEF Shows

LEMMA KeepWill ==
  ASSUME TypeInv, ImgsSame, SameTexs(textures, textures'), Loads' = Loads,
         NEW s \in Slots, Will(s, goal), goal' = goal
  PROVE  Will(s, goal)'
<1>1. Has(s, goal) => textures'[s].tex # NoTex /\ heap'[textures'[s].tex].img = goal
  BY KeepHas DEF SameTexs
<1> QED
  BY <1>1 DEF Will, Has

LEMMA LoadImageWill ==
  ASSUME Punctual, IInv, TypeInv, LoadImage, NEW s \in Slots, Will(s, goal)
  PROVE  Will(s, goal)'
<1>1. /\ loading # NoEvent /\ loading' = NoEvent /\ queue' = queue /\ goal' = goal
      /\ heap' = Append(heap, Texture(loading.arg))
      /\ textures' = [textures EXCEPT ![loading.code].tex = Len(heap) + 1]
  BY DEF LoadImage, threadVars, Punctual
<1>2. /\ loading.code \in Slots /\ loading.type = "load"
      /\ heap \in Seq(SdlTexture) /\ Len(heap) \in Nat
  BY <1>1 DEF TypeInv, EventOK, Slots
<1>3. textures'[s].tex = IF s = loading.code THEN Len(heap) + 1 ELSE textures[s].tex
  <2> DEFINE i == loading.code
             r == [textures[i] EXCEPT !.tex = Len(heap) + 1]
  <2>1. textures' = [x \in Slots |-> IF x = i THEN r ELSE textures[x]]
        /\ textures[i] \in Slot(textures[i].tex)
    BY <1>1, <1>2 DEF IInv, ControlTypeOK, SlotsOK
  <2>2. r.tex = Len(heap) + 1
    BY <2>1 DEF Slot
  <2> HIDE DEF i, r
  <2> QED
    BY <2>1, <2>2 DEF i
<1>4. Loads' = {e \in Events(queue) : e.type = "load"} /\ Loads = Loads' \cup {loading}
  BY <1>1, <1>2 DEF Loads, Events, NoEvent
<1>5. CASE s = loading.code
  <2>1. heap'[Len(heap) + 1].img = loading.arg /\ Len(heap) + 1 # NoTex
    BY <1>1, <1>2 DEF Texture, NoTex
  <2>2. loading.arg = goal
    BY <1>4, <1>5 DEF Will
  <2> QED
    BY <1>1, <1>3, <1>4, <1>5, <2>1, <2>2 DEF Will, Has
<1>6. CASE s # loading.code
  <2>1. ImgsSame
    BY <1>1, <1>2 DEF ImgsSame
  <2>2. Has(s, goal) => textures'[s].tex # NoTex /\ heap'[textures'[s].tex].img = goal
    BY <1>3, <1>6, <2>1, KeepHas
  <2> QED
    BY <1>1, <1>4, <1>6, <2>2 DEF Will, Has
<1> QED
  BY <1>5, <1>6

-------------------------------------------------------------------------------
(* The invariant of the last frame.                                        *)

\* When nothing fades and when a fade is about to end, every picture is there.
Loaded == (NoFade(textures) /\ cmd.pc # "loop2") \/ fader.pc = "finish" => Loads = {}

\* A fade is to end in slot s; in such a slot the picture of the command appears.
Heading(s) ==
  \/ s = 0 /\ textures[0].fadein > 0
  \/ \E i \in Slots : /\ textures[i].fadeover > 0 /\ s = Dest(textures, i)
                      /\ ~(fader.pc = "toggleEnd" /\ i = fader.slot)
Aim == \A s \in Slots : Heading(s) => Will(s, goal)

\* A command that is being handled brings the picture it is to end on.
Promised ==
  /\ cmd.pc \in {"fadein", "fadeover"} => goal = PicB(issued)
  /\ cmd.pc \in {"fadeloop", "loop2"} => goal = LoopGoal(issued, cmd.loop)
  /\ cmd.pc = "loop2" => Will(0, PicB(issued)) /\ Will(1, PicA(issued))

\* No redraw is for the render target; during a fadein, no redraw of slot 1 is left
\* behind the picture it waits for.
Redraws == {e \in Events(queue) : e.type = "upd"}
Codes   == \A e \in Redraws : e.code \in {0, 1}
Order   == textures[0].fadein > 0 => Ordered(queue)

\* After a fade, what is drawn is the picture of the command, and it is on the screen
\* unless it is still to be drawn.
Rest == NoFade(textures) /\ fader.pc = "scan" /\ cmd.pc \in {"gate", "draw"} /\ goal # 0
Redrawn == /\ Shows(textures[0].tex, goal)
           /\ \A e \in Redraws : Shows(textures[e.code].tex, goal)
TextDrawn == upd["cmd"].at = "no" \/ (Good("cmd", goal) /\ ~upd["cmd"].all)
Presented == \/ Redraws # {}
             \/ Good("main", goal)
             \/ /\ screen.img = goal /\ (Timely => Bright(screen))
                /\ upd["main"].at \in {"no", "loop"}
Resting == Rest => Redrawn /\ TextDrawn /\ Presented

FrameInv == /\ Shape /\ Loaded /\ Aim /\ Promised /\ Codes /\ Order /\ Resting

\* What has been proved of the engine so far.
Base == IInv /\ TypeInv /\ TexInv /\ StepsInv

\* Without a fadeloop only slot 1 fades over, and from slot 0; no draw is under way
\* when the two swap.
Plain == /\ cmd.pc \notin {"fadeloop", "loop2"}
         /\ \A s \in Slots : /\ textures[s].fadeloop = 0
                             /\ textures[s].fadeover > 0 => s = 1 /\ textures[s].fadesrc = 0
         /\ fader.pc \in {"scan", "finish"}
         /\ fader.pc = "finish" => fader.slot = 1 /\ upd["main"].at = "no"

\* Two pictures are blended only while the fade goes on.
Blending == \A t \in Renderers :
              upd[t].at = "blend" => t = "main" /\ upd[t].id = 1 /\ textures[1].fadeover > 0

\* A fade ends in a texture that was loaded for it, and that update() has not made
\* transparent; in the last step of a fadein it was drawn, or will be.
Awaited(s) == \E e \in Loads : e.code = s
Opaque ==
  /\ textures[1].fadeover > 0 =>
       Awaited(1) \/ (Bright(heap[textures[1].tex]) /\ textures[1].tex # textures[0].tex)
  /\ textures[0].fadein > 0 => Awaited(0) \/ heap[textures[0].tex].alphaMod = FadeMax
Lit ==
  textures[0].fadein = 1 =>
    /\ textures[0].alpha = FadeMax - 1
    /\ \A e \in Redraws : e.code = 0
    /\ \/ Awaited(0) \/ Redraws # {}
       \/ upd["main"].at = "begin" /\ upd["main"].id = 0
       \/ heap[textures[0].tex].colorMod >= FadeMax - 1

LightInv == Plain /\ Blending /\ Opaque /\ Lit

-------------------------------------------------------------------------------
(* The steps of the fader.                                                 *)

\* What the fader leaves fading, and where that fade is to end.
LEMMA TickHeading ==
  ASSUME Base, NEW i \in Slots, fader.pc = "scan", FadeinTick(i) \/ FadeoverTick(i)
  PROVE  /\ ~NoFade(textures') /\ UNCHANGED fader
         /\ \A s \in Slots : Heading(s)' => Heading(s)
         /\ textures'[0].fadein > 0 => textures[0].fadein > 0
<1>1. SlotsOK(textures) /\ UNCHANGED fader /\ 0 \in Slots
  BY DEF Base, IInv, ControlTypeOK, FadeinTick, FadeoverTick, Slots
<1>2. /\ OthersSame(textures, textures', i)
      /\ textures'[i].fadein > 0 => textures[i].fadein > 0
      /\ textures'[i].fadeover > 0 => textures[i].fadeover > 0
      /\ textures'[i].fadein > 0 \/ textures'[i].fadeover > 0
      /\ Dest(textures', i) = Dest(textures, i)
  <2>1. CASE FadeinTick(i)
    <3>1. textures[i].fadein > 1 /\ textures[i].fadein \in Nat
      BY <1>1, <2>1, ConstantsAssumption DEF FadeinTick, SlotsOK, Slot
    <3> QED
      BY <1>1, <2>1, <3>1, FadeinTickEffect DEF Dest
  <2>2. CASE FadeoverTick(i)
    <3>1. textures[i].fadeover > 1 /\ textures[i].fadeover \in Nat
      BY <1>1, <2>2, ConstantsAssumption DEF FadeoverTick, SlotsOK, Slot
    <3> QED
      BY <1>1, <2>2, <3>1, FadeoverTickEffect DEF Dest
  <2> QED
    BY <2>1, <2>2
<1>3. \A s \in Slots : textures'[s].fadeover > 0 => textures[s].fadeover > 0
                        /\ Dest(textures', s) = Dest(textures, s)
  BY <1>2 DEF OthersSame, Dest
<1>4. textures'[0].fadein > 0 => textures[0].fadein > 0
  BY <1>1, <1>2 DEF OthersSame
<1>5. \A s \in Slots : Heading(s)' => Heading(s)
  BY <1>1, <1>3, <1>4 DEF Heading
<1> QED
  BY <1>1, <1>2, <1>4, <1>5 DEF NoFade, Fading

LEMMA OddNext ==
  ASSUME NEW n \in Nat, n > 0
  PROVE  Odd(n - 1) <=> ~Odd(n)
<1>1. n % 2 \in {0, 1} /\ (n - 1) % 2 = (IF n % 2 = 1 THEN 0 ELSE 1)
  OBVIOUS
<1>2. n % 2 # 1 => n - 1 > 0
  BY <1>1
<1> QED
  BY <1>1, <1>2 DEF Odd

\* The next leg ends where this one was to end.
LEMMA ToggleSrcHeading ==
  ASSUME Base, ToggleSrc
  PROVE  /\ ~NoFade(textures') /\ fader'.pc = "toggleEnd"
         /\ \A s \in Slots : Heading(s)' => Heading(s)
         /\ textures'[0].fadein > 0 => textures[0].fadein > 0
<1> DEFINE i   == fader.slot
           src == textures[i].fadesrc
<1>1. /\ SlotsOK(textures) /\ fader.pc = "toggle" /\ i \in {0, 1} /\ src \in {0, 1}
      /\ i \in Slots /\ src \in Slots
      /\ textures[i].fadeloop > 0 /\ textures[i].fadeloop \in Nat
  <2>1. SlotsOK(textures) /\ fader.pc = "toggle" /\ i \in {0, 1} /\ i \in Slots
        /\ textures[i].fadeloop > 0
    BY DEF Base, IInv, ControlTypeOK, ToggleSrc, GateInv, FaderInv, Slots
  <2>2. src \in {0, 1} /\ textures[i].fadeloop \in -1..MaxLoop
    BY <2>1 DEF SlotsOK, Slot
  <2> QED
    BY <2>1, <2>2, ConstantsAssumption DEF Slots
<1>2. textures[i].fadeover = 1
  BY <1>1 DEF Base, StepsInv, Tested
<1>3. src # i
  BY <1>1, <1>2 DEF Base, TexInv, Facing
<1>4. /\ textures' = ArmNextLeg(textures, i, src)
      /\ fader'.pc = "toggleEnd" /\ fader'.slot = i
  BY DEF ToggleSrc, Base, IInv, ControlTypeOK
<1> HIDE DEF i, src
<1>5. /\ OthersSame(textures, textures', src)
      /\ textures'[src].fadeover = FadeMax /\ textures'[src].fadesrc = i
      /\ textures'[src].fadein = 0
      /\ textures'[src].fadeloop = textures[i].fadeloop - 1
  BY <1>1, <1>3, <1>4, ArmNextLegEffect
<1>6. Dest(textures', src) = Dest(textures, i)
  BY <1>1, <1>5, OddNext DEF Dest, src
<1>7. textures'[0].fadein > 0 => textures[0].fadein > 0
  BY <1>5 DEF OthersSame, Slots
<1>8. ASSUME NEW s \in Slots, Heading(s)' PROVE Heading(s)
  <2>1. CASE s = 0 /\ textures'[0].fadein > 0
    BY <1>7, <2>1 DEF Heading
  <2>2. CASE \E k \in Slots : /\ textures'[k].fadeover > 0 /\ s = Dest(textures', k)
                              /\ ~(fader'.pc = "toggleEnd" /\ k = fader'.slot)
    <3>1. PICK k \in Slots : textures'[k].fadeover > 0 /\ s = Dest(textures', k) /\ k # i
      BY <1>4, <2>2
    <3>2. CASE k = src
      BY <1>1, <1>2, <1>6, <3>1, <3>2 DEF Heading
    <3>3. CASE k # src
      BY <1>1, <1>5, <3>1, <3>3 DEF Heading, OthersSame, Dest
    <3> QED
      BY <3>2, <3>3
  <2> QED
    BY <1>8, <2>1, <2>2 DEF Heading
<1> QED
  BY <1>1, <1>4, <1>5, <1>7, <1>8, ConstantsAssumption DEF NoFade, Fading

LEMMA ToggleEndHeading ==
  ASSUME Base, Toggled, ToggleEnd
  PROVE  /\ ~NoFade(textures') /\ fader'.pc = "scan"
         /\ \A s \in Slots : Heading(s)' => Heading(s)
         /\ textures'[0].fadein > 0 => textures[0].fadein > 0
<1> DEFINE i == fader.slot
<1>1. /\ SlotsOK(textures) /\ fader.pc = "toggleEnd" /\ i \in Slots /\ fader.src \in Slots
      /\ fader.src # i /\ textures[fader.src].fadeover > 0 /\ fader'.pc = "scan"
  BY DEF Base, IInv, ControlTypeOK, ToggleEnd, StepsInv, Tested, Toggled, Slots
<1>2. textures' = resetTexture(textures, i)
  BY DEF ToggleEnd
<1> HIDE DEF i
<1>3. OthersSame(textures, textures', i) /\ textures'[i].fadein = 0 /\ textures'[i].fadeover = 0
  BY <1>1, <1>2, ResetSlot, BlankFields DEF Faded
<1>4. textures'[0].fadein > 0 => textures[0].fadein > 0
  BY <1>3 DEF OthersSame, Slots
<1>5. ASSUME NEW s \in Slots, Heading(s)' PROVE Heading(s)
  <2>1. CASE \E k \in Slots : textures'[k].fadeover > 0 /\ s = Dest(textures', k)
    <3>1. PICK k \in Slots : textures'[k].fadeover > 0 /\ s = Dest(textures', k)
      BY <2>1
    <3>2. k # i /\ textures'[k] = textures[k]
      BY <1>3, <3>1 DEF OthersSame
    <3> QED
      BY <3>1, <3>2 DEF Heading, Dest, i
  <2> QED
    BY <1>4, <1>5, <2>1 DEF Heading
<1> QED
  BY <1>1, <1>3, <1>4, <1>5 DEF NoFade, Fading, OthersSame

\* The fader tests that a leg or the fade is over.
LEMMA TestHeading ==
  ASSUME Base, NEW i \in Slots, fader.pc = "scan", ToggleTest(i) \/ FinishBegin(i)
  PROVE  /\ ~NoFade(textures') /\ fader'.pc # "scan" /\ UNCHANGED textures
         /\ \A s \in Slots : Heading(s)' => Heading(s)
<1>1. textures' = textures /\ fader'.pc \in {"toggle", "finish"} /\ Fading(textures, i)
  <2>1. CASE ToggleTest(i)
    BY <2>1 DEF ToggleTest, Fading, Base, IInv, ControlTypeOK
  <2>2. CASE FinishBegin(i)
    BY <2>2 DEF FinishBegin, Fading
  <2> QED
    BY <2>1, <2>2
<1>2. ~NoFade(textures') /\ fader'.pc # "scan"
  BY <1>1 DEF NoFade, Fading
<1>3. \A s \in Slots : Heading(s)' => Heading(s)
  BY <1>1 DEF Heading
<1> QED
  BY <1>1, <1>2, <1>3

\* A fader step that goes on with the fade, or leaves a swap half done.
LEMMA OnwardFrame ==
  ASSUME Punctual, Base, FrameInv, faderThread, ~FinishEnd, Shape', Loaded',
         fader'.pc = "scan" => ~NoFade(textures'),
         \A s \in Slots : Heading(s)' => Heading(s),
         textures'[0].fadein > 0 => textures[0].fadein > 0
  PROVE  FrameInv'
<1>1. /\ cmd.pc \in {"gate", "draw"} /\ UNCHANGED <<cmd, goal, loading>> /\ Loads' = Loads
      /\ ImgsSame /\ SameTexs(textures, textures')
  BY FaderAlone, FaderLoads, StepImgs, FaderTex DEF Base, FrameInv, Shape
<1>2. Aim'
  BY <1>1, KeepWill DEF Base, FrameInv, Aim
<1>3. Promised' /\ Resting'
  BY <1>1 DEF Promised, Resting, Rest
<1>4. Codes' /\ Order'
  <2>1. queue \in Seq(Event)
    BY DEF Base, TypeInv, EventsOK
  <2>2. CASE queue' = queue
    <3>1. Codes'
      BY <2>2 DEF FrameInv, Codes, Redraws, Events
    <3> QED
      BY <2>2, <3>1 DEF FrameInv, Order
  <2>3. CASE queue' # queue
    <3>1. PICK e \in Event :
            /\ queue' = Append(queue, e) /\ e.type \in {"upd", "destroy"}
            /\ e.type = "upd" => e.code \in {0, 1}
            /\ e.type = "upd" /\ e.code = 1 => ~(textures'[0].fadein > 0)
      BY <2>3, FaderQueue DEF Base, FrameInv, Shape
    <3>2. Events(queue)' = Events(queue) \cup {e}
      BY <2>1, <3>1, AppendEvents DEF Events
    <3>3. Codes'
      BY <3>1, <3>2 DEF FrameInv, Codes, Redraws
    <3>4. Order'
      <4> SUFFICES ASSUME textures'[0].fadein > 0 PROVE Ordered(queue')
        BY DEF Order
      <4>1. Ordered(queue) /\ (e.type = "upd" => e.code # 1)
        BY <3>1 DEF FrameInv, Order
      <4> QED
        BY <2>1, <3>1, <4>1, AppendOrdered
    <3> QED
      BY <3>3, <3>4
  <2> QED
    BY <2>2, <2>3
<1> QED
  BY <1>2, <1>3, <1>4 DEF FrameInv

\* A fader that waits for main scans when nothing is to be drawn.
LEMMA NothingDrawn ==
  ASSUME Timely, TypeInv, DrawnInTime
  PROVE  Redraws = {} /\ upd["main"].at = "no"
<1>1. DOMAIN queue = 1..Len(queue)
  BY DEF TypeInv, EventsOK
<1> QED
  BY <1>1 DEF Timely, DrawnInTime, InUpdate, Redraws, Events

\* The last step of a fade, which leaves the picture in every slot that is redrawn.
LEMMA LastFrameStep ==
  ASSUME Punctual, Base, FrameInv, Shape', Loads' = {}, NoFade(textures'), SlotsOK(textures'),
         cmd.pc = "gate", UNCHANGED <<cmd, goal, heap, upd>>,
         NEW c \in {0, 1}, queue' = Append(queue, Upd(c)),
         Shows(textures[0].tex, goal)', Shows(textures[c].tex, goal)',
         \A e \in Redraws : Shows(textures[e.code].tex, goal)'
  PROVE  FrameInv'
<1>1. Events(queue)' = Events(queue) \cup {Upd(c)}
  <2>1. queue \in Seq(Event) /\ Upd(c) \in Event
    BY DEF Base, TypeInv, EventsOK, Upd, Event, Slots
  <2> QED
    BY <2>1, AppendEvents DEF Events
<1>2. Redraws' = Redraws \cup {Upd(c)} /\ Upd(c).code = c
  BY <1>1 DEF Redraws, Upd
<1>3. Loaded' /\ Promised' /\ Codes'
  BY <1>2 DEF Loaded, Promised, FrameInv, Codes
<1>4. \A s \in Slots : textures'[s].fadein = 0 /\ textures'[s].fadeover = 0
  <2> SUFFICES ASSUME NEW s \in Slots
               PROVE  textures'[s].fadein = 0 /\ textures'[s].fadeover = 0
    OBVIOUS
  <2>1. textures'[s] \in Slot(textures'[s].tex)
    BY DEF SlotsOK
  <2>2. textures'[s].fadein \in Nat /\ textures'[s].fadeover \in Nat
    BY <2>1, ConstantsAssumption DEF Slot
  <2> QED
    BY <2>2 DEF NoFade, Fading
<1>5. Aim' /\ Order'
  BY <1>4 DEF Aim, Heading, Order, Slots
<1>6. Resting'
  <2>1. upd'["cmd"].at = "no"
    BY DEF Base, TexInv, Drawing, InUpdate
  <2>2. Redrawn'
    BY <1>2 DEF Redrawn
  <2> QED
    BY <1>2, <2>1, <2>2 DEF Resting, TextDrawn, Presented
<1> QED
  BY <1>3, <1>5, <1>6 DEF FrameInv

\* 126-134: no redraw of slot 1 is left, and slot 0 has the picture.
LEMMA FadeinLastFrame ==
  ASSUME Punctual, Base, FrameInv, Timely => LightInv, faderThread, Shape', NEW i \in Slots,
         fader.pc = "scan", DrawnInTime, FadeinLast(i)
  PROVE  FrameInv'
<1>1. /\ i = 0 /\ textures[0].fadein > 0 /\ queue' = Append(queue, Upd(0)) /\ LoadInTime
      /\ UNCHANGED <<cmd, heap, upd, goal>>
  <2>1. textures[i].fadein > 0 /\ queue' = Append(queue, Upd(i)) /\ LoadInTime
        /\ UNCHANGED <<cmd, heap, upd, goal>>
    BY DEF FadeinLast, dataVars
  <2> QED
    BY <2>1 DEF FrameInv, Shape, Zero
<1>2. Loads = {} /\ Loads' = {}
  BY <1>1, LoadsPending, FaderLoads DEF LoadInTime, Punctual, Base, FrameInv, Shape
<1>3. Shows(textures[0].tex, goal)
  <2>1. Heading(0) /\ 0 \in Slots
    BY <1>1 DEF Heading, Slots
  <2>2. Has(0, goal)
    BY <1>2, <2>1 DEF FrameInv, Aim, Will
  <2>3. Timely => Bright(heap[textures[0].tex])
    <3> SUFFICES ASSUME Timely PROVE Bright(heap[textures[0].tex])
      OBVIOUS
    <3>1. Redraws = {} /\ upd["main"].at = "no"
      BY NothingDrawn DEF Base
    <3>2. textures[0].fadein = 1
      BY <1>1 DEF FadeinLast
    <3> QED
      BY <1>1, <1>2, <3>1, <3>2 DEF LightInv, Opaque, Lit, Awaited, Bright
  <2> QED
    BY <2>2, <2>3 DEF Has, Shows
<1>4. \A e \in Redraws : e.code = 0
  <2> SUFFICES ASSUME NEW e \in Redraws, e.code = 1 PROVE FALSE
    BY DEF FrameInv, Codes
  <2>1. PICK k \in 1..Len(queue) : queue[k] = e /\ e.type = "upd"
    BY DEF Redraws, Events
  <2>2. PICK m \in 1..Len(queue) : queue[m].type = "load"
    BY <1>1, <2>1 DEF FrameInv, Order, Ordered
  <2>3. queue[m] \in Loads
    BY <2>2 DEF Loads, Events
  <2> QED
    BY <1>2, <2>3
<1>5. NoFade(textures') /\ SlotsOK(textures') /\ SameTexs(textures, textures')
  <2>1. ~FinishEnd
    BY DEF FinishEnd
  <2> QED
    BY <2>1, FadeinLastIInv, FaderTex DEF Base, IInv, ControlTypeOK
<1>6. Shows(textures[0].tex, goal)'
  BY <1>1, <1>3, <1>5 DEF Shows, SameTexs, Slots
<1>7. cmd.pc = "gate"
  <2>1. cmd.pc \in {"gate", "draw"} /\ ~Quiet
    BY <1>1, FaderAlone DEF Quiet, NoFade, Fading, Slots, Base
  <2> QED
    BY <2>1 DEF Base, IInv, GateInv, Unarmed
<1> QED
  BY <1>1, <1>2, <1>4, <1>5, <1>6, <1>7, LastFrameStep

\* 171-182: the two slots share the picture that the fade has reached.
LEMMA FinishEndFrame ==
  ASSUME Punctual, Base, FrameInv, Timely => LightInv, faderThread, Shape', FinishEnd
  PROVE  FrameInv'
<1> DEFINE i   == fader.slot
           src == fader.src
<1>1. /\ fader.pc = "finish" /\ i \in {0, 1} /\ src \in {0, 1} /\ i \in Slots /\ src \in Slots
      /\ textures' = MoveTexture(textures, i, src) /\ queue' = Append(queue, Upd(i))
      /\ UNCHANGED <<cmd, heap, upd, goal>> /\ SlotsOK(textures)
  BY DEF FinishEnd, dataVars, Base, IInv, ControlTypeOK, Slots
<1>2. i # src /\ textures[i].fadeover = 1 /\ textures[i].fadeloop <= 0
  BY <1>1 DEF Base, TexInv, Swapped, StepsInv, Tested
<1>3. textures[i].fadeloop \in Int
  BY <1>1, ConstantsAssumption DEF SlotsOK, Slot
<1> HIDE DEF i, src
<1>4. Loads = {} /\ Loads' = {}
  BY <1>1, FaderLoads DEF FrameInv, Loaded, Base, Shape
<1>5. Shows(textures[i].tex, goal)
  <2>1. Dest(textures, i) = i
    BY <1>2, <1>3 DEF Dest, Odd
  <2>2. Heading(i)
    BY <1>1, <1>2, <2>1 DEF Heading
  <2>3. Has(i, goal)
    BY <1>1, <1>4, <2>2 DEF FrameInv, Aim, Will
  <2>4. Timely => Bright(heap[textures[i].tex])
    BY <1>1, <1>2, <1>4 DEF i, LightInv, Plain, Opaque, Awaited
  <2> QED
    BY <2>3, <2>4 DEF Has, Shows
<1>6. \A s \in {0, 1} : textures'[s].tex = textures[i].tex
  <2>1. \A s \in Slots : textures'[s].tex = IF s = src THEN textures[i].tex ELSE textures[s].tex
    BY <1>1, FinishTex
  <2> QED
    BY <1>1, <1>2, <2>1 DEF Slots
<1>7. \A s \in {0, 1} : Shows(textures[s].tex, goal)'
  BY <1>1, <1>5, <1>6 DEF Shows
<1>8. NoFade(textures') /\ SlotsOK(textures')
  BY FinishEndIInv DEF Base, IInv, ControlTypeOK
<1>9. cmd.pc = "gate"
  <2>1. cmd.pc \in {"gate", "draw"} /\ ~Quiet
    BY <1>1, FaderAlone DEF Quiet, Base
  <2> QED
    BY <2>1 DEF Base, IInv, GateInv, Unarmed
<1>10. \A e \in Redraws : Shows(textures[e.code].tex, goal)'
  BY <1>7 DEF FrameInv, Codes
<1> QED
  BY <1>1, <1>4, <1>7, <1>8, <1>9, <1>10, LastFrameStep

LEMMA FaderFrame ==
  ASSUME Punctual, Base, FrameInv, Timely => LightInv, faderThread
  PROVE  FrameInv'
<1>1. Shape' /\ Loads' = Loads /\ cmd' = cmd
  BY FaderShape, FaderLoads, FaderAlone DEF Base, FrameInv, Shape
<1>2. CASE ToggleSrc
  <2>1. ~FinishEnd /\ Loaded'
    BY <1>1, <1>2, ToggleSrcHeading DEF ToggleSrc, FinishEnd, Loaded
  <2> QED
    BY <1>1, <1>2, <2>1, ToggleSrcHeading, OnwardFrame
<1>3. CASE ToggleEnd
  <2>1. ~FinishEnd /\ Loaded'
    BY <1>1, <1>3, ToggleEndHeading DEF ToggleEnd, FinishEnd, Loaded, FrameInv, Shape
  <2> QED
    BY <1>1, <1>3, <2>1, ToggleEndHeading, OnwardFrame DEF FrameInv, Shape
<1>4. CASE FinishEnd
  BY <1>1, <1>4, FinishEndFrame
<1>5. CASE \E i \in Slots : FaderScan(i)
  <2>1. PICK i \in Slots : FaderScan(i)
    BY <1>5
  <2>2. fader.pc = "scan" /\ ~FinishEnd /\ DrawnInTime
    BY <2>1 DEF FaderScan, FinishEnd
  <2>3. CASE FadeinLast(i)
    BY <1>1, <2>2, <2>3, FadeinLastFrame
  <2>4. CASE FadeinTick(i) \/ FadeoverTick(i)
    <3>1. /\ ~NoFade(textures') /\ UNCHANGED fader
          /\ \A s \in Slots : Heading(s)' => Heading(s)
          /\ textures'[0].fadein > 0 => textures[0].fadein > 0
      BY <2>2, <2>4, TickHeading
    <3>2. Loaded'
      BY <2>2, <3>1 DEF Loaded
    <3> QED
      BY <1>1, <2>2, <3>1, <3>2, OnwardFrame
  <2>5. CASE ToggleTest(i) \/ FinishBegin(i)
    <3>1. /\ ~NoFade(textures') /\ fader'.pc # "scan" /\ UNCHANGED textures
          /\ \A s \in Slots : Heading(s)' => Heading(s)
      BY <2>2, <2>5, TestHeading
    <3>2. Loaded'
      <4>1. CASE ToggleTest(i)
        <5>1. fader'.pc = "toggle"
          BY <4>1 DEF ToggleTest, Base, IInv, ControlTypeOK
        <5> QED
          BY <3>1, <5>1 DEF Loaded
      <4>2. CASE FinishBegin(i)
        <5>1. Loads = {}
          BY <4>2, LoadsPending DEF FinishBegin, LoadInTime, Punctual, Base
        <5> QED
          BY <1>1, <5>1 DEF Loaded
      <4> QED
        BY <2>5, <4>1, <4>2
    <3> QED
      BY <1>1, <2>2, <3>1, <3>2, OnwardFrame
  <2> QED
    BY <2>1, <2>3, <2>4, <2>5 DEF FaderScan
<1> QED
  BY <1>2, <1>3, <1>4, <1>5 DEF faderThread

-------------------------------------------------------------------------------
(* The steps of the command thread.                                        *)

\* A command sends pictures only, and behind the redraws in the queue.
LEMMA CommandEvents ==
  ASSUME Base, FrameInv, processCommand
  PROVE  Redraws' = Redraws /\ (FadeIn => Ordered(queue')) /\ Codes'
<1>1. queue \in Seq(Event)
  BY DEF Base, TypeInv, EventsOK
<1>2. PicB(issued) \in Nat /\ PicA(issued) \in Nat
  BY ConstantsAssumption DEF Base, TypeInv, PicA, PicB
<1>3. \A s \in {0, 1}, n \in Nat : LoadImg(s, n) \in Event /\ LoadImg(s, n).type = "load"
  BY DEF LoadImg, Event, Slots
<1>4. ASSUME NEW q \in Seq(Event), NEW e \in Event, e.type = "load"
      PROVE  /\ Append(q, e) \in Seq(Event) /\ Ordered(Append(q, e))
             /\ \A d : d.type = "upd" => (d \in Events(Append(q, e)) <=> d \in Events(q))
  BY <1>4, AppendEvents, AppendOrdered
<1>5. CASE FadeIn
  <2> DEFINE d == LoadImg(0, PicB(issued))
  <2>1. queue' = Append(queue, d) /\ d \in Event /\ d.type = "load"
    BY <1>2, <1>3, <1>5 DEF FadeIn
  <2> HIDE DEF d
  <2>2. Redraws' = Redraws /\ Ordered(queue')
    BY <1>1, <1>4, <2>1 DEF Redraws, Events
  <2> QED
    BY <2>2 DEF FrameInv, Codes
<1>6. CASE FadeOver
  <2> DEFINE d == LoadImg(1, PicB(issued))
  <2>1. queue' = Append(queue, d) /\ d \in Event /\ d.type = "load" /\ ~FadeIn
    BY <1>2, <1>3, <1>6 DEF FadeOver, FadeIn
  <2> HIDE DEF d
  <2>2. Redraws' = Redraws
    BY <1>1, <1>4, <2>1 DEF Redraws, Events
  <2> QED
    BY <2>1, <2>2 DEF FrameInv, Codes
<1>7. CASE FadeLoop
  <2> DEFINE d == LoadImg(0, PicB(issued))
             e == LoadImg(1, PicA(issued))
  <2>1. queue' = queue \o <<d, e>> /\ d \in Event /\ e \in Event
        /\ d.type = "load" /\ e.type = "load" /\ ~FadeIn
    BY <1>2, <1>3, <1>7 DEF FadeLoop, FadeIn
  <2> HIDE DEF d, e
  <2>2. queue' = Append(Append(queue, d), e)
    BY <1>1, <2>1
  <2>3. Redraws' = Redraws
    BY <1>1, <1>4, <2>1, <2>2 DEF Redraws, Events
  <2> QED
    BY <2>1, <2>3 DEF FrameInv, Codes
<1>8. CASE ~(FadeIn \/ FadeOver \/ FadeLoop)
  <2>1. UNCHANGED queue
    BY <1>8, CommandLoads DEF Base
  <2>2. Redraws' = Redraws
    BY <2>1 DEF Redraws, Events
  <2> QED
    BY <1>8, <2>2 DEF FrameInv, Codes
<1> QED
  BY <1>5, <1>6, <1>7, <1>8

\* A command that arms a fade sees its picture on the way.
LEMMA ArmFrame ==
  ASSUME FrameInv, Shape', Codes', UNCHANGED fader, fader.pc = "scan", cmd'.pc = "block",
         ~NoFade(textures'), Order', Aim'
  PROVE  FrameInv'
BY DEF FrameInv, Loaded, Promised, Resting, Rest

\* Nothing is heading anywhere when nothing fades.
LEMMA StillHeading ==
  ASSUME SlotsOK(textures), NoFade(textures)
  PROVE  \A s \in Slots : /\ textures[s].fadein = 0 /\ textures[s].fadeover = 0
                          /\ ~Heading(s) /\ textures[s].fadeloop <= 0
<1>1. ASSUME NEW s \in Slots
      PROVE  textures[s].fadein = 0 /\ textures[s].fadeover = 0 /\ textures[s].fadeloop <= 0
  <2>1. /\ textures[s].fadein \in Nat /\ textures[s].fadeover \in Nat
        /\ textures[s].fadeloop \in -1..MaxLoop
    BY ConstantsAssumption DEF SlotsOK, Slot
  <2> QED
    BY <2>1, ConstantsAssumption DEF NoFade, Fading
<1> QED
  BY <1>1 DEF Heading, Slots

LEMMA FadeInFrame ==
  ASSUME Punctual, Base, FrameInv, processCommand, FadeIn, Shape', Codes', Ordered(queue')
  PROVE  FrameInv'
<1>1. /\ SlotsOK(textures) /\ NoFade(textures) /\ fader.pc = "scan"
      /\ UNCHANGED <<fader, goal, issued>>
      /\ cmd.pc = "fadein" /\ cmd'.pc = "block" /\ 0 \in Slots
  BY DEF FadeIn, engineVars, Base, IInv, ControlTypeOK, GateInv, Unarmed, Quiet, Slots
<1>2. /\ OthersSame(textures, textures', 0) /\ textures'[0].fadein = FadeMax
      /\ textures'[0].fadeover = textures[0].fadeover
  BY <1>1, FadeInEffect
<1>3. ~NoFade(textures')
  BY <1>1, <1>2, ConstantsAssumption DEF NoFade, Fading
<1>4. \A s \in Slots : textures'[s].fadeover = 0
  BY <1>1, <1>2, StillHeading DEF OthersSame
<1>5. Will(0, goal)'
  <2>1. Loads' = {LoadImg(0, PicB(issued))}
    BY <1>1, CommandLoads DEF Base, FrameInv, Loaded
  <2>2. goal = PicB(issued)
    BY <1>1 DEF FrameInv, Promised
  <2> QED
    BY <1>1, <2>1, <2>2 DEF Will, LoadImg
<1>6. Aim'
  BY <1>4, <1>5 DEF Aim, Heading
<1>7. Order'
  BY DEF Order
<1> QED
  BY <1>1, <1>3, <1>6, <1>7, ArmFrame

LEMMA FadeOverFrame ==
  ASSUME Punctual, Base, FrameInv, processCommand, FadeOver, Shape', Codes'
  PROVE  FrameInv'
<1>1. /\ SlotsOK(textures) /\ NoFade(textures) /\ fader.pc = "scan"
      /\ UNCHANGED <<fader, goal, issued>>
      /\ cmd.pc = "fadeover" /\ cmd'.pc = "block" /\ 0 \in Slots /\ 1 \in Slots
  BY DEF FadeOver, engineVars, Base, IInv, ControlTypeOK, GateInv, Unarmed, Quiet, Slots
<1>2. /\ OthersSame(textures, textures', 1) /\ textures'[1].fadeover = FadeMax
      /\ textures'[1].fadeloop = textures[1].fadeloop
  BY <1>1, FadeOverEffect
<1>3. ~NoFade(textures')
  BY <1>1, <1>2, ConstantsAssumption DEF NoFade, Fading
<1>4. /\ textures'[0].fadein = 0 /\ Dest(textures', 1) = 1
      /\ \A s \in Slots : textures'[s].fadeover > 0 => s = 1
  <2>1. textures[1].fadeloop <= 0 /\ textures[1].fadeloop \in Int /\ textures[0].fadein = 0
        /\ \A s \in Slots : textures[s].fadeover = 0
    BY <1>1, StillHeading, ConstantsAssumption DEF SlotsOK, Slot
  <2> QED
    BY <1>1, <1>2, <2>1 DEF OthersSame, Dest, Odd
<1>5. Will(1, goal)'
  <2>1. Loads' = {LoadImg(1, PicB(issued))}
    BY <1>1, CommandLoads DEF Base, FrameInv, Loaded
  <2>2. goal = PicB(issued)
    BY <1>1 DEF FrameInv, Promised
  <2> QED
    BY <1>1, <2>1, <2>2 DEF Will, LoadImg
<1>6. Aim'
  BY <1>4, <1>5 DEF Aim, Heading
<1>7. Order'
  BY <1>4 DEF Order
<1> QED
  BY <1>1, <1>3, <1>6, <1>7, ArmFrame

LEMMA FadeLoopFrame ==
  ASSUME Punctual, Base, FrameInv, processCommand, FadeLoop, Shape', Codes'
  PROVE  FrameInv'
<1>1. /\ SlotsOK(textures) /\ NoFade(textures) /\ fader.pc = "scan"
      /\ UNCHANGED <<fader, goal, issued>>
      /\ cmd.pc = "fadeloop" /\ cmd'.pc = "loop2" /\ cmd'.loop = cmd.loop /\ 0 \in Slots
      /\ cmd.loop \in -1..MaxLoop
  BY DEF FadeLoop, engineVars, Base, IInv, ControlTypeOK, GateInv, Unarmed, Quiet, Slots
<1>2. /\ OthersSame(textures, textures', 0) /\ textures'[0].fadein = textures[0].fadein
      /\ textures'[0].fadeover = textures[0].fadeover
  BY <1>1, FadeLoopEffect
<1>3. textures'[0].fadein = 0 /\ \A s \in Slots : textures'[s].fadeover = 0
  BY <1>1, <1>2, StillHeading DEF OthersSame
<1>4. Aim' /\ Order'
  BY <1>3 DEF Aim, Heading, Order
<1>5. Promised'
  <2>1. Loads' = {LoadImg(0, PicB(issued)), LoadImg(1, PicA(issued))}
    BY <1>1, CommandLoads DEF Base, FrameInv, Loaded
  <2>2. Will(0, PicB(issued))' /\ Will(1, PicA(issued))'
    BY <1>1, <2>1 DEF Will, LoadImg
  <2>3. goal = LoopGoal(issued, cmd.loop)
    BY <1>1 DEF FrameInv, Promised
  <2> QED
    BY <1>1, <2>2, <2>3 DEF Promised
<1>6. Loaded' /\ Resting'
  BY <1>1 DEF Loaded, Resting, Rest
<1> QED
  BY <1>4, <1>5, <1>6 DEF FrameInv

LEMMA FadeLoop2Frame ==
  ASSUME Punctual, Base, FrameInv, processCommand, FadeLoop2, Shape', Codes'
  PROVE  FrameInv'
<1>1. /\ SlotsOK(textures) /\ fader.pc = "scan" /\ UNCHANGED <<fader, goal, issued, loading>>
      /\ cmd.pc = "loop2" /\ cmd'.pc = "block" /\ 0 \in Slots /\ 1 \in Slots
      /\ textures[0].fadein = 0 /\ textures[0].fadeloop = cmd.loop /\ cmd.loop \in -1..MaxLoop
  BY DEF FadeLoop2, engineVars, Base, IInv, ControlTypeOK, StepsInv, Planned, Slots
<1>2. /\ OthersSame(textures, textures', 0) /\ textures'[0].fadeover = FadeMax
      /\ textures'[0].fadesrc = 1 /\ textures'[0].fadein = 0 /\ textures'[0].fadeloop = cmd.loop
  BY <1>1, FadeLoop2Effect
<1>3. ~NoFade(textures')
  BY <1>1, <1>2, ConstantsAssumption DEF NoFade, Fading
<1>4. \A s \in Slots : textures'[s].fadeover > 0 => s = 0
  BY <1>1, <1>2 DEF Base, IInv, GateInv, LoopInv, Fading, OthersSame
<1>5. /\ SameTexs(textures, textures') /\ Loads' = Loads /\ ImgsSame
  <2>1. ~FadeIn /\ ~FadeOver /\ ~FadeLoop
    BY <1>1 DEF FadeIn, FadeOver, FadeLoop
  <2> QED
    BY <2>1, CommandTex, CommandLoads, StepImgs DEF Base
<1>6. Will(Dest(textures', 0), goal)
  <2>1. /\ Will(0, PicB(issued)) /\ Will(1, PicA(issued)) /\ goal = LoopGoal(issued, cmd.loop)
    BY <1>1 DEF FrameInv, Promised
  <2> QED
    BY <1>2, <2>1 DEF LoopGoal, Dest, Odd
<1>7. PICK d \in Slots : d = Dest(textures', 0)
  BY <1>1, <1>2 DEF Dest
<1>8. Will(d, goal)'
  BY <1>1, <1>5, <1>6, <1>7, KeepWill DEF Base
<1>9. Aim'
  BY <1>2, <1>4, <1>7, <1>8 DEF Aim, Heading
<1>10. Order'
  BY <1>2 DEF Order
<1> QED
  BY <1>1, <1>3, <1>9, <1>10, ArmFrame

\* A command is read, or is over: what is on its way or drawn stays.
LEMMA IdleFrame ==
  ASSUME Punctual, Base, FrameInv, Shape', Codes',
         (\E c \in Commands : Issue(c)) \/ Block \/ DrawDone
  PROVE  FrameInv'
<1>1. /\ UNCHANGED <<textures, queue, heap, loading, fader, screen>>
      /\ cmd.pc \in {"gate", "block", "draw"} /\ cmd'.pc # "loop2"
      /\ cmd \in [pc : {"gate", "block", "draw"} \cup FadeArming, loop : -1..MaxLoop]
  <2>1. cmd \in [pc : {"gate", "block", "draw"} \cup FadeArming, loop : -1..MaxLoop]
    BY DEF Base, IInv, ControlTypeOK
  <2>2. CASE \E c \in Commands : Issue(c)
    BY <2>1, <2>2, ConstantsAssumption DEF Issue, engineVars
  <2>3. CASE Block \/ DrawDone
    BY <2>1, <2>3 DEF Block, DrawDone, engineVars
  <2> QED
    BY <2>1, <2>2, <2>3
<1>2. Loads' = Loads
  BY <1>1 DEF Loads, Events
<1>3. Loaded' /\ Order'
  BY <1>1, <1>2 DEF FrameInv, Loaded, Order
<1>4. ASSUME NEW c \in Commands, Issue(c)
      PROVE  Aim' /\ Promised' /\ Resting'
  <2>1. Quiet /\ SlotsOK(textures) /\ cmd.pc = "gate"
    BY <1>4 DEF Issue, Base, IInv, GateInv, ControlTypeOK
  <2>2. PICK n \in Nums(c) :
          /\ cmd' = [pc |-> c, loop |-> n]
          /\ goal' = CASE c \in {"fadein", "fadeover"} -> PicB(issued + 1)
                       [] c = "fadeloop" -> LoopGoal(issued + 1, n)
                       [] OTHER -> goal
    BY <1>4 DEF Issue
  <2>3. issued' = issued + 1
    BY <1>4 DEF Issue
  <2>4. SlotsOK(textures') /\ NoFade(textures')
    BY <1>1, <2>1 DEF Quiet
  <2>5. \A s \in Slots : ~Heading(s)'
    <3>1. \A s \in Slots : ~Heading(s)
      BY <2>1, StillHeading DEF Quiet
    <3> QED
      BY <1>1, <3>1 DEF Heading
  <2>6. Aim'
    BY <2>5 DEF Aim
  <2>7. c \in {"fadein", "fadeover", "fadeloop", "draw"}
    BY ConstantsAssumption DEF Punctual
  <2>8. Promised'
    <3>1. cmd'.pc = c /\ cmd'.loop = n
      BY <2>2
    <3>2. c \in {"fadein", "fadeover"} => goal' = PicB(issued')
      BY <2>2, <2>3
    <3>3. c = "fadeloop" => goal' = LoopGoal(issued', n)
      BY <2>2, <2>3
    <3> QED
      BY <2>7, <3>1, <3>2, <3>3 DEF Promised
  <2>9. CASE c = "draw"
    <3>1. goal' = goal /\ cmd'.pc = "draw" /\ upd' = [upd EXCEPT !["cmd"] = StartUpdate(0)]
      BY <1>4, <2>2, <2>9 DEF Issue
    <3>2. upd'["main"] = upd["main"] /\ upd'["cmd"].at = "begin" /\ upd'["cmd"].id = 0
          /\ upd'["cmd"].all = FALSE
      BY <3>1 DEF StartUpdate, NoUpdate, Base, TypeInv, Renderers
    <3> SUFFICES ASSUME Rest' PROVE Redrawn' /\ TextDrawn' /\ Presented'
      BY <2>6, <2>8 DEF Resting
    <3>3. Redrawn /\ Presented
      BY <1>1, <2>1, <3>1 DEF FrameInv, Resting, Rest
    <3>4. Redrawn'
      BY <1>1, <3>1, <3>3 DEF Redrawn, Shows, Redraws, Events
    <3>5. TextDrawn'
      BY <1>1, <3>1, <3>2, <3>3 DEF TextDrawn, Good, Redrawn, Shows
    <3>6. Presented'
      BY <1>1, <3>1, <3>2, <3>3 DEF Presented, Good, Shows, Redraws, Events
    <3> QED
      BY <3>4, <3>5, <3>6
  <2>10. CASE c # "draw"
    <3>1. cmd'.pc = c /\ c \notin {"gate", "draw"}
      BY <2>2, <2>7, <2>10
    <3>2. ~Rest'
      BY <3>1 DEF Rest
    <3> QED
      BY <2>6, <2>8, <3>2 DEF Resting
  <2> QED
    BY <2>6, <2>8, <2>9, <2>10
<1>5. ASSUME Block \/ DrawDone
      PROVE  Aim' /\ Promised' /\ Resting'
  <2>1. /\ UNCHANGED <<upd, goal, issued>> /\ cmd'.pc = "gate"
        /\ (cmd.pc = "block" /\ ~NoFade(textures)) \/ cmd.pc = "draw"
    BY <1>1, <1>5 DEF Block, DrawDone, FrameInv, Shape, Armed
  <2>2. \A s \in Slots : Heading(s)' => Heading(s)
    BY <1>1 DEF Heading
  <2>3. \A s \in Slots : Will(s, goal) => Will(s, goal)'
    BY <1>1, <1>2, <2>1 DEF Will, Has
  <2>4. Aim' /\ Promised'
    BY <2>1, <2>2, <2>3 DEF FrameInv, Aim, Promised
  <2>5. Rest' => Redrawn /\ TextDrawn /\ Presented
    BY <1>1, <2>1 DEF Rest, FrameInv, Resting
  <2>6. Redrawn => Redrawn'
    BY <1>1, <2>1 DEF Redrawn, Shows, Redraws, Events
  <2>7. (TextDrawn => TextDrawn') /\ (Presented => Presented')
    BY <1>1, <2>1 DEF TextDrawn, Presented, Good, Shows, Redraws, Events
  <2> QED
    BY <2>4, <2>5, <2>6, <2>7 DEF Resting
<1> QED
  BY <1>3, <1>4, <1>5 DEF FrameInv

LEMMA CommandFrame ==
  ASSUME Punctual, Base, FrameInv, processCommand
  PROVE  FrameInv'
<1>1. Shape' /\ Codes' /\ (FadeIn => Ordered(queue'))
  BY CommandShape, CommandEvents DEF Base, FrameInv
<1>2. ~FadeOut
  BY DEF FadeOut, Base, StepsInv, Planned
<1> QED
  BY <1>1, <1>2, FadeInFrame, FadeOverFrame, FadeLoopFrame, FadeLoop2Frame, IdleFrame
     DEF processCommand, Handler

-------------------------------------------------------------------------------
(* The steps of main and of update().                                      *)

\* They run when no handler does, and leave the fades and the commands alone.
LEMMA OthersAlone ==
  ASSUME Punctual, Base, main \/ \E t \in Renderers : update(t)
  PROVE  /\ cmd.pc \in {"gate", "draw"} /\ UNCHANGED <<cmd, fader, goal>>
         /\ SlotsOK(textures) /\ FadesSame(textures, textures')
<1>1. SlotsOK(textures) /\ FadesSame(textures, textures') /\ UNCHANGED <<cmd, fader>>
  BY MainFades DEF Base, IInv, ControlTypeOK
<1>2. UNCHANGED goal
  BY DEF main, TakeUpd, TakeLoad, LoadImage, TakeDestroy, threadVars, slotVars, update,
         UpdateLoop, UpdateBegin, UpdateBlend, UpdateCopy
<1>3. CASE main \/ update("main")
  <2>1. May("main")
    BY <1>3 DEF main, update
  <2>2. Busy("cmd") \subseteq Preempt
    BY <2>1 DEF May
  <2>3. ~InHandler
    BY <2>2 DEF Busy, Punctual
  <2> QED
    BY <1>1, <1>2, <2>3 DEF InHandler, Base, IInv, ControlTypeOK
<1>4. CASE update("cmd")
  <2>1. upd["cmd"].at # "no"
    BY <1>4, UpdateCalls DEF Base, Renderers
  <2> QED
    BY <1>1, <1>2, <2>1 DEF Base, TexInv, Drawing, InUpdate
<1> QED
  BY <1>3, <1>4 DEF Renderers

LEMMA OthersFrame ==
  ASSUME Punctual, Base, FrameInv, main \/ (\E t \in Renderers : update(t)),
         Loads' \subseteq Loads, \A s \in Slots : Will(s, goal) => Will(s, goal)',
         Codes', Order', Rest => Redrawn' /\ TextDrawn' /\ Presented'
  PROVE  FrameInv'
<1>1. /\ cmd.pc \in {"gate", "draw"} /\ UNCHANGED <<cmd, fader, goal>>
      /\ FadesSame(textures, textures')
  BY OthersAlone
<1>2. Shape'
  BY OthersShape DEF Base, FrameInv
<1>3. NoFade(textures') <=> NoFade(textures)
  BY <1>1 DEF FadesSame, SameFade, NoFade, Fading
<1>4. Loaded' /\ Promised'
  BY <1>1, <1>3 DEF FrameInv, Loaded, Promised
<1>5. \A s \in Slots : Heading(s)' => Heading(s)
  BY <1>1 DEF Heading, Dest, FadesSame, SameFade, Slots
<1>6. Aim' /\ Resting'
  BY <1>1, <1>3, <1>5 DEF FrameInv, Aim, Resting, Rest
<1> QED
  BY <1>2, <1>4, <1>6 DEF FrameInv

\* While nothing fades, update() draws the picture and clears nothing else.
LEMMA UpdateFrame ==
  ASSUME Punctual, Base, FrameInv, Timely => LightInv, NEW t \in Renderers, update(t)
  PROVE  FrameInv'
<1>1. /\ cmd.pc \in {"gate", "draw"} /\ UNCHANGED <<cmd, fader, goal>>
      /\ SlotsOK(textures) /\ FadesSame(textures, textures')
  BY OthersAlone
<1>2. ImgsSame /\ UNCHANGED <<queue, loading>>
  BY StepImgs DEF Base, update, UpdateLoop, UpdateBegin, UpdateBlend, UpdateCopy, slotVars
<1>3. SameTexs(textures, textures')
  <2>1. CASE UpdateCopy(t)
    BY <2>1, CopyTex DEF Base
  <2>2. CASE ~UpdateCopy(t)
    BY <2>2 DEF update, UpdateLoop, UpdateBegin, UpdateBlend, SameTexs
  <2> QED
    BY <2>1, <2>2
<1>4. Loads' = Loads /\ Redraws' = Redraws
  BY <1>2 DEF Loads, Redraws, Events
<1>5. \A s \in Slots : Will(s, goal) => Will(s, goal)'
  BY <1>1, <1>2, <1>3, <1>4, KeepWill DEF Base
<1>6. Codes' /\ Order'
  BY <1>1, <1>2, <1>4 DEF FrameInv, Codes, Order, FadesSame, SameFade, Slots
<1>7. ASSUME Rest PROVE Redrawn' /\ TextDrawn' /\ Presented'
  <2>1. Redrawn /\ TextDrawn /\ Presented /\ NoFade(textures)
    BY <1>7 DEF FrameInv, Resting, Rest
  <2>0. Timely => ModsSame
    <3>1. NoFade(textures) /\ \A s \in Slots : textures[s].fadein = 0 /\ textures[s].fadeover = 0
      BY <1>1, <2>1, StillHeading
    <3>2. upd[t].id \in Slots
      BY DEF Base, TypeInv, Updates
    <3>3. Timely => ~UpdateBlend(t)
      <4>1. 1 \in Slots /\ ~(textures[1].fadeover > 0)
        BY <3>1 DEF Slots
      <4>2. Timely => upd[t].at # "blend"
        BY <4>1 DEF LightInv, Blending
      <4> QED
        BY <4>2 DEF UpdateBlend
    <3>4. UpdateBegin(t) => heap' = heap
      <4>1. ~(textures[upd[t].id].fadein > 0)
        BY <3>1, <3>2
      <4> QED
        BY <4>1 DEF UpdateBegin
    <3>5. UpdateLoop(t) \/ UpdateCopy(t) => heap' = heap
      BY DEF UpdateLoop, UpdateCopy, slotVars
    <3> QED
      BY <3>3, <3>4, <3>5 DEF update, ModsSame
  <2>2. \A s \in Slots : Shows(textures[s].tex, goal) => Shows(textures[s].tex, goal)'
    BY <1>1, <1>2, <1>3, <2>0, KeepSlots DEF Base
  <2>3. Redrawn'
    BY <1>4, <2>1, <2>2 DEF Redrawn, FrameInv, Codes, Slots
  <2>4. upd \in [Renderers -> Updates(Len(heap))] /\ Len(heap) \in Nat
    BY DEF Base, TypeInv
  <2>5. upd[t].at # "no" /\ \A r \in Renderers \ {t} : upd'[r] = upd[r]
    BY UpdateCalls DEF Base
  <2>6. \A r \in Renderers \ {t} : Good(r, goal) => Good(r, goal)'
    <3> SUFFICES ASSUME NEW r \in Renderers \ {t}, Good(r, goal) PROVE Good(r, goal)'
      OBVIOUS
    <3>1. upd'[r] = upd[r] /\ upd[r] \in Updates(Len(heap))
      BY <2>4, <2>5
    <3>2. CASE upd[r].at = "begin" /\ Shows(textures[upd[r].id].tex, goal)
      BY <2>2, <3>1, <3>2 DEF Good, Updates
    <3>3. CASE upd[r].at = "copy" /\ Shows(upd[r].tex, goal)
      <4>1. upd[r].tex \in 1..Len(heap)
        BY <2>4, <3>1, <3>3 DEF Updates, NoTex, Shows
      <4>2. /\ heap'[upd[r].tex].img = goal /\ upd[r].tex # NoTex
            /\ Timely => Bright(heap'[upd[r].tex])
        BY <1>2, <2>0, <3>3, <4>1, KeepShows
      <4>3. Shows(upd[r].tex, goal)'
        BY <1>1, <3>1, <4>2 DEF Shows
      <4> QED
        BY <1>1, <3>1, <3>3, <4>3 DEF Good
    <3> QED
      BY <3>2, <3>3 DEF Good
  <2>7. ASSUME Good(t, goal), UpdateBegin(t)
        PROVE  Good(t, goal)' /\ upd'[t].all = upd[t].all /\ screen' = screen
    <3> DEFINE u == [upd[t] EXCEPT !.tex = textures[upd[t].id].tex, !.at = "copy"]
    <3>1. Shows(textures[upd[t].id].tex, goal) /\ upd[t] \in Updates(Len(heap)) /\ upd[t].id \in Slots
      BY <2>4, <2>7 DEF Good, UpdateBegin, Updates
    <3>2. ~(textures[upd[t].id].fadeover > 0)
      BY <2>1, <3>1 DEF NoFade, Fading
    <3>3. upd' = [upd EXCEPT ![t] = u] /\ screen' = screen
      BY <2>4, <2>7, <3>2 DEF UpdateBegin
    <3>4. u.at = "copy" /\ u.tex = textures[upd[t].id].tex /\ u.all = upd[t].all
      BY <3>1 DEF Updates
    <3> HIDE DEF u
    <3>5. upd'[t] = u
      BY <2>4, <3>3
    <3>6. textures[upd[t].id].tex \in 1..Len(heap)
      BY <3>1 DEF Shows, Base, TypeInv, NoTex
    <3>7. Shows(upd[t].tex, goal)'
      BY <1>1, <1>2, <2>0, <3>1, <3>4, <3>5, <3>6, KeepShows DEF Base, Shows
    <3> QED
      BY <3>3, <3>4, <3>5, <3>7 DEF Good
  <2>8. ASSUME Good(t, goal), UpdateCopy(t)
        PROVE  /\ screen'.img = goal /\ (Timely => Bright(screen'))
               /\ upd'[t].at \in {"no", "loop"}
               /\ ~upd[t].all => upd'[t].at = "no"
    <3>1. /\ upd[t].tex # NoTex /\ Shows(upd[t].tex, goal) /\ upd[t].at = "copy"
          /\ screen' \in Copied(upd[t].tex)
      BY <2>8 DEF Good, UpdateCopy, Shows
    <3>2. screen' = heap[upd[t].tex]
      BY <3>1 DEF Copied, Base, TexInv, Drawn
    <3> DEFINE v == [upd[t] EXCEPT !.at = "loop", !.id = 0, !.tex = NoTex]
               u == IF upd[t].all THEN v ELSE NoUpdate
    <3>3. upd' = [upd EXCEPT ![t] = u] /\ upd[t] \in Updates(Len(heap))
      BY <2>4, <2>8 DEF UpdateCopy
    <3>4. v.at = "loop" /\ NoUpdate.at = "no"
      BY <3>3 DEF Updates, NoUpdate
    <3> HIDE DEF v
    <3>5. upd'[t] = u
      BY <2>4, <3>3
    <3> QED
      BY <3>1, <3>2, <3>4, <3>5 DEF Shows
  <2>9. ASSUME UpdateLoop(t)
        PROVE  upd'[t].at = "no" /\ screen' = screen
    <3>1. Redraw(t) = {}
      BY <2>1 DEF Redraw, FrameInv, Shape, Marked, NoFade
    <3>2. upd' = [upd EXCEPT ![t] = NoUpdate] /\ screen' = screen
      BY <2>9, <3>1 DEF UpdateLoop
    <3> QED
      BY <2>4, <3>2 DEF NoUpdate
  <2>10. Good(t, goal) => ~UpdateLoop(t) /\ ~UpdateBlend(t)
    BY DEF Good, UpdateLoop, UpdateBlend
  <2>11. UpdateLoop(t) \/ UpdateBegin(t) \/ UpdateBlend(t) \/ UpdateCopy(t)
    BY DEF update
  <2>12. CASE t = "cmd"
    <3>1. Good("cmd", goal) /\ ~upd["cmd"].all
      BY <2>1, <2>5, <2>12 DEF TextDrawn
    <3>2. TextDrawn'
      BY <2>7, <2>8, <2>10, <2>11, <2>12, <3>1 DEF TextDrawn
    <3>3. upd'["main"] = upd["main"] /\ (Good("main", goal) => Good("main", goal)')
      BY <2>5, <2>6, <2>12 DEF Renderers
    <3>4. screen' = screen \/ (screen'.img = goal /\ (Timely => Bright(screen')))
      BY <2>7, <2>8, <2>10, <2>11, <2>12, <3>1
    <3>5. Presented'
      BY <1>1, <1>4, <2>1, <3>3, <3>4 DEF Presented
    <3> QED
      BY <2>3, <3>2, <3>5
  <2>13. CASE t = "main"
    <3>1. upd'["cmd"] = upd["cmd"] /\ (Good("cmd", goal) => Good("cmd", goal)')
      BY <2>5, <2>6, <2>13 DEF Renderers
    <3>2. TextDrawn'
      BY <2>1, <3>1 DEF TextDrawn
    <3>3. CASE Redraws # {}
      BY <1>4, <2>3, <3>2, <3>3 DEF Presented
    <3>4. CASE Good("main", goal)
      <4>1. \/ Good("main", goal)'
            \/ /\ screen'.img = goal /\ (Timely => Bright(screen'))
               /\ upd'["main"].at \in {"no", "loop"}
        <5>1. Good(t, goal) /\ t = "main"
          BY <2>13, <3>4
        <5>2. CASE UpdateBegin(t)
          <6>1. Good(t, goal)'
            BY <2>7, <5>1, <5>2
          <6> QED
            BY <5>1, <6>1 DEF Good, Shows
        <5>3. CASE UpdateCopy(t)
          BY <2>8, <5>1, <5>3
        <5> QED
          BY <2>10, <2>11, <5>1, <5>2, <5>3
      <4> QED
        BY <1>1, <2>3, <3>2, <4>1 DEF Presented
    <3>5. CASE /\ screen.img = goal /\ (Timely => Bright(screen))
               /\ upd["main"].at \in {"no", "loop"}
      <4>1. UpdateLoop(t)
        BY <2>5, <2>11, <2>13, <3>5 DEF UpdateBegin, UpdateBlend, UpdateCopy
      <4> QED
        BY <1>1, <2>3, <2>9, <2>13, <3>2, <3>5, <4>1 DEF Presented
    <3> QED
      BY <2>1, <3>3, <3>4, <3>5 DEF Presented
  <2> QED
    BY <2>12, <2>13 DEF Renderers
<1> QED
  BY <1>4, <1>5, <1>6, <1>7, OthersFrame

\* A texture that is destroyed keeps its modulations.
LEMMA TakeMods ==
  ASSUME TypeInv, TakeUpd \/ TakeLoad \/ TakeDestroy
  PROVE  ModsSame
<1>1. CASE heap' = heap
  BY <1>1 DEF ModsSame
<1>2. CASE \E x : heap' = [heap EXCEPT ![x].live = FALSE]
  <2>1. PICK x : heap' = [heap EXCEPT ![x].live = FALSE]
    BY <1>2
  <2> SUFFICES ASSUME NEW y \in 1..Len(heap)
               PROVE  heap'[y].alphaMod = heap[y].alphaMod /\ heap'[y].colorMod = heap[y].colorMod
    BY DEF ModsSame
  <2>2. heap[y] \in SdlTexture /\ y \in DOMAIN heap
    BY DEF TypeInv
  <2>3. heap'[y] = heap[y] \/ heap'[y] = [heap[y] EXCEPT !.live = FALSE]
    BY <2>1, <2>2
  <2> QED
    BY <2>2, <2>3 DEF SdlTexture
<1> QED
  BY <1>1, <1>2 DEF TakeUpd, TakeLoad, TakeDestroy

\* The steps of main that take an event and give no slot another texture.
LEMMA TakeFrame ==
  ASSUME Punctual, Base, FrameInv, main, TakeUpd \/ TakeLoad \/ TakeDestroy
  PROVE  FrameInv'
<1>1. /\ cmd.pc \in {"gate", "draw"} /\ UNCHANGED <<cmd, fader, goal>>
      /\ FadesSame(textures, textures')
  BY OthersAlone
<1>2. /\ ImgsSame /\ UNCHANGED <<textures, screen>> /\ Loads' = Loads
      /\ loading = NoEvent /\ upd["main"].at = "no" /\ queue # <<>> /\ queue \in Seq(Event)
  BY StepImgs, MainLoads DEF Base, TypeInv, EventsOK, TakeUpd, TakeLoad, TakeDestroy,
     threadVars, MainIdle, InUpdate
<1>3. Tail(queue) \in Seq(Event) /\ Events(queue) = {Head(queue)} \cup Events(Tail(queue))
  BY <1>2, TailEvents
<1>4. \A s \in Slots : Will(s, goal) => Will(s, goal)'
  BY <1>1, <1>2, KeepWill DEF Base, SameTexs
<1>5. \A s \in Slots : Shows(textures[s].tex, goal) => Shows(textures[s].tex, goal)'
  BY <1>1, <1>2, TakeMods, KeepSlots DEF Base, SameTexs
<1>6. /\ TakeUpd => Redraws' = {}
      /\ TakeLoad \/ TakeDestroy => Redraws' = Redraws
  <2>1. CASE TakeUpd
    <3>1. queue' = FlushUpd(Tail(queue)) /\ ~TakeLoad /\ ~TakeDestroy
      BY <2>1 DEF TakeUpd, TakeLoad, TakeDestroy
    <3>2. Events(queue)' = {e \in Events(Tail(queue)) : e.type # "upd"}
      BY <1>3, <3>1, FlushEvents DEF Events
    <3> QED
      BY <3>1, <3>2 DEF Redraws
  <2>2. CASE TakeLoad \/ TakeDestroy
    <3>1. queue' = Tail(queue) /\ Head(queue).type # "upd" /\ ~TakeUpd
      BY <2>2 DEF TakeUpd, TakeLoad, TakeDestroy
    <3>2. Events(queue)' = Events(Tail(queue))
      BY <3>1 DEF Events
    <3> QED
      BY <1>3, <3>1, <3>2 DEF Redraws
  <2> QED
    BY <2>1, <2>2
<1>7. Codes'
  BY <1>6 DEF FrameInv, Codes
<1>8. Order'
  <2> SUFFICES ASSUME textures'[0].fadein > 0 PROVE Ordered(queue')
    BY DEF Order
  <2>1. CASE TakeUpd
    BY <1>6, <2>1 DEF Ordered, Redraws, Events
  <2>2. CASE TakeLoad \/ TakeDestroy
    <3>1. queue' = Tail(queue) /\ Ordered(queue)
      BY <1>2, <2>2 DEF TakeLoad, TakeDestroy, FrameInv, Order
    <3> QED
      BY <1>2, <3>1, TailOrdered
  <2> QED
    BY <2>1, <2>2
<1>9. ASSUME Rest PROVE Redrawn' /\ TextDrawn' /\ Presented'
  <2>1. Redrawn /\ TextDrawn /\ Presented /\ Loads = {}
    BY <1>9 DEF FrameInv, Resting, Rest, Loaded
  <2>2. ~TakeLoad
    <3>1. Head(queue) \in Events(queue)
      BY <1>3
    <3> QED
      BY <2>1, <3>1 DEF TakeLoad, Loads
  <2>3. Redrawn'
    <3>1. \A e \in Redraws : Shows(textures[e.code].tex, goal)'
      BY <1>5, <2>1 DEF Redrawn, FrameInv, Codes, Slots
    <3> QED
      BY <1>5, <1>6, <2>1, <2>2, <3>1 DEF Redrawn, Slots
  <2>4. upd \in [Renderers -> Updates(Len(heap))] /\ Len(heap) \in Nat
    BY DEF Base, TypeInv
  <2>5. PICK c : upd' = [upd EXCEPT !["main"] = StartUpdate(c)]
                 /\ (TakeUpd => c = Head(queue).code) /\ (TakeDestroy => c = -1)
    BY <2>2 DEF TakeUpd, TakeDestroy
  <2>6. upd'["cmd"] = upd["cmd"] /\ upd'["main"] = StartUpdate(c)
    BY <2>4, <2>5 DEF Renderers
  <2>7. TextDrawn'
    <3>1. CASE upd["cmd"].at = "no"
      BY <2>6, <3>1 DEF TextDrawn
    <3>2. CASE Good("cmd", goal) /\ ~upd["cmd"].all
      <4>1. upd["cmd"] \in Updates(Len(heap))
        BY <2>4 DEF Renderers
      <4>2. CASE upd["cmd"].at = "begin" /\ Shows(textures[upd["cmd"].id].tex, goal)
        BY <1>5, <2>6, <3>2, <4>1, <4>2 DEF TextDrawn, Good, Updates
      <4>3. CASE upd["cmd"].at = "copy" /\ Shows(upd["cmd"].tex, goal)
        <5>1. upd["cmd"].tex \in 1..Len(heap)
          BY <2>4, <4>1, <4>3 DEF Updates, NoTex, Shows
        <5>2. Shows(upd["cmd"].tex, goal)'
          BY <1>1, <1>2, <2>6, <4>3, <5>1, TakeMods, KeepShows DEF Base, Shows
        <5> QED
          BY <2>6, <3>2, <4>3, <5>2 DEF TextDrawn, Good
      <4> QED
        BY <3>2, <4>2, <4>3 DEF Good
    <3> QED
      BY <2>1, <3>1, <3>2 DEF TextDrawn
  <2>8. Presented'
    <3>1. CASE TakeUpd
      <4>1. c \in {0, 1} /\ Shows(textures[c].tex, goal)
        <5>1. Head(queue) \in Redraws
          BY <1>3, <3>1 DEF Redraws, TakeUpd
        <5> QED
          BY <2>1, <2>5, <3>1, <5>1 DEF Redrawn, FrameInv, Codes
      <4>2. StartUpdate(c).at = "begin" /\ StartUpdate(c).id = c
        BY <4>1 DEF StartUpdate, NoUpdate
      <4> QED
        BY <1>5, <2>6, <4>1, <4>2 DEF Presented, Good, Slots
    <3>2. CASE TakeDestroy
      <4>1. StartUpdate(c).at = "loop"
        BY <2>5, <3>2 DEF StartUpdate, NoUpdate
      <4>2. ~Good("main", goal)
        BY <1>2 DEF Good
      <4> QED
        BY <1>1, <1>2, <1>6, <2>1, <2>6, <3>2, <4>1, <4>2 DEF Presented
    <3> QED
      BY <2>2, <3>1, <3>2
  <2> QED
    BY <2>3, <2>7, <2>8
<1> QED
  BY <1>2, <1>4, <1>7, <1>8, <1>9, OthersFrame

LEMMA LoadFrame ==
  ASSUME Punctual, Base, FrameInv, main, LoadImage
  PROVE  FrameInv'
<1>1. loading # NoEvent /\ UNCHANGED queue /\ loading' = NoEvent /\ loading.type = "load"
  BY DEF LoadImage, Base, TypeInv
<1>2. loading \in Loads /\ Loads' \subseteq Loads
  BY <1>1 DEF Loads, Events, NoEvent
<1>3. ~Rest
  BY <1>2 DEF Rest, FrameInv, Loaded
<1>4. \A s \in Slots : Will(s, goal) => Will(s, goal)'
  BY LoadImageWill DEF Base
<1>5. FadesSame(textures, textures')
  BY OthersAlone
<1>6. Codes' /\ Order'
  BY <1>1, <1>5 DEF FrameInv, Codes, Order, Redraws, Events, FadesSame, SameFade, Slots
<1> QED
  BY <1>2, <1>3, <1>4, <1>6, OthersFrame

LEMMA StutterFrame == FrameInv /\ UNCHANGED vars => FrameInv'
<1> SUFFICES ASSUME FrameInv, UNCHANGED vars PROVE FrameInv'
  OBVIOUS
<1> USE DEF vars, FrameInv
<1>1. Shape'
  BY DEF Shape, Zero, Marked, Toggled, Armed
<1>2. Loaded' /\ Codes'
  BY DEF Loaded, Codes, NoFade, Fading, Loads, Redraws, Events
<1>3. Aim' /\ Promised'
  BY DEF Aim, Promised, Heading, Dest, Will, Has, Shows, Good, Loads, Events, NoFade, Fading
<1>4. Order'
  BY DEF Order, Redraws, Loads, Events
<1>5. Resting'
  BY DEF Resting, Rest, Redrawn, TextDrawn, Presented, Has, Shows, Good, Loads, Redraws, Events,
         NoFade, Fading
<1> QED
  BY <1>1, <1>2, <1>3, <1>4, <1>5

LEMMA FrameStep ==
  Punctual /\ Base /\ FrameInv /\ (Timely => LightInv) /\ [Next]_vars => FrameInv'
<1> SUFFICES ASSUME Punctual, Base, FrameInv, Timely => LightInv, [Next]_vars PROVE FrameInv'
  OBVIOUS
<1>1. ~TimerUpd
  BY DEF TimerUpd, Punctual, Base, TypeInv
<1>2. CASE main
  BY <1>2, TakeFrame, LoadFrame DEF main
<1>3. CASE \E t \in Renderers : update(t)
  BY <1>3, UpdateFrame
<1> QED
  BY <1>1, <1>2, <1>3, FaderFrame, CommandFrame, StutterFrame DEF Next

LEMMA FrameStart == Init => FrameInv
<1> SUFFICES ASSUME Init PROVE FrameInv
  OBVIOUS
<1>1. SlotsOK(textures) /\ fader.pc = "scan" /\ cmd.pc = "gate"
  BY InitIInv DEF IInv, ControlTypeOK, Init
<1>2. NoFade(textures)
  BY InitIInv DEF IInv, GateInv, Quiet, Init
<1>3. \A s \in Slots : ~textures[s].dirty /\ textures[s].fadein = 0
  BY DEF Init, Blank
<1>4. \A s \in Slots : ~Heading(s)
  BY <1>1, <1>2, StillHeading
<1>5. Shape
  BY <1>1, <1>3 DEF Shape, Zero, Marked, Toggled, Armed
<1>6. Events(queue) = {} /\ Loads = {}
  <2>1. queue = <<>> /\ loading = NoEvent
    BY DEF Init
  <2>2. Events(queue) = {}
    BY <2>1 DEF Events
  <2> QED
    BY <2>1, <2>2 DEF Loads, NoEvent
<1>7. Loaded /\ Aim /\ Promised /\ Codes /\ Order
  BY <1>1, <1>3, <1>4, <1>6 DEF Loaded, Aim, Promised, Codes, Redraws, Order, Slots
<1>8. Resting
  BY DEF Init, Resting, Rest
<1> QED
  BY <1>5, <1>7, <1>8 DEF FrameInv

-------------------------------------------------------------------------------
(* The pictures stay opaque.                                               *)

LEMMA LightStart == Init => LightInv
<1> SUFFICES ASSUME Init PROVE LightInv
  OBVIOUS
<1>1. \A s \in Slots : /\ textures[s].fadein = 0 /\ textures[s].fadeover = 0
                       /\ textures[s].fadeloop = 0
  BY DEF Init, Blank
<1>2. cmd.pc = "gate" /\ fader.pc = "scan" /\ 0 \in Slots /\ 1 \in Slots
  BY DEF Init, Slots
<1>3. \A t \in Renderers : upd[t].at = "no"
  BY DEF Init, NoUpdate
<1> QED
  BY <1>1, <1>2, <1>3 DEF LightInv, Plain, Blending, Opaque, Lit

\* What LightInv and the other invariants say of the slots during a fade.
LEMMA LightSlots ==
  ASSUME Base, FrameInv, LightInv
  PROVE  /\ SlotsOK(textures) /\ textures[0] \in Slot(textures[0].tex)
         /\ textures[1] \in Slot(textures[1].tex) /\ heap \in Seq(SdlTexture)
         /\ textures[1].fadeover > 0 => textures[0].fadein = 0
         /\ textures[1].fadeover > 0 /\ ~Awaited(1) => textures[1].tex \in 1..Len(heap)
         /\ textures[0].fadein > 0 /\ ~Awaited(0) => textures[0].tex \in 1..Len(heap)
<1>1. /\ SlotsOK(textures) /\ 0 \in Slots /\ 1 \in Slots /\ heap \in Seq(SdlTexture)
      /\ \A s \in Slots : textures[s].tex \in 0..Len(heap)
  BY DEF Base, IInv, ControlTypeOK, TypeInv, Slots
<1>2. textures[0] \in Slot(textures[0].tex) /\ textures[1] \in Slot(textures[1].tex)
  BY <1>1 DEF SlotsOK
<1>3. textures[0].fadein \in Nat /\ textures[1].fadeover \in Nat
  BY <1>2, ConstantsAssumption DEF Slot
<1>4. ~(textures[1].fadeover > 0 /\ textures[0].fadein > 0)
  <2> SUFFICES ASSUME textures[1].fadeover > 0, textures[0].fadein > 0 PROVE FALSE
    OBVIOUS
  <2>1. Fading(textures, 0) /\ Fading(textures, 1)
    BY DEF Fading
  <2>2. fader.pc = "toggleEnd"
    BY <1>1, <2>1 DEF Base, IInv, GateInv, ExclusiveFade
  <2> QED
    BY <2>2 DEF LightInv, Plain
<1>5. ASSUME textures[1].fadeover > 0, ~Awaited(1) PROVE textures[1].tex \in 1..Len(heap)
  <2>1. textures[1].fadeloop = 0 /\ fader.pc # "toggleEnd"
    BY <1>1 DEF LightInv, Plain
  <2>2. Heading(1)
    BY <1>1, <1>5, <2>1 DEF Heading, Dest, Odd
  <2>3. Has(1, goal)
    BY <1>1, <1>5, <2>2 DEF FrameInv, Aim, Will, Awaited
  <2> QED
    BY <1>1, <2>3 DEF Has, NoTex
<1>6. ASSUME textures[0].fadein > 0, ~Awaited(0) PROVE textures[0].tex \in 1..Len(heap)
  <2>1. Has(0, goal)
    BY <1>1, <1>6 DEF FrameInv, Aim, Will, Awaited, Heading
  <2> QED
    BY <1>1, <2>1 DEF Has, NoTex
<1> QED
  BY <1>1, <1>2, <1>3, <1>4, <1>5, <1>6

\* A step that changes no modulation and gives no slot another texture or fade.
LEMMA LightKept ==
  ASSUME Base, FrameInv, LightInv, FadesSame(textures, textures'), ModsSame,
         SameTexs(textures, textures'), Loads' = Loads
  PROVE  Opaque'
<1>1. 0 \in Slots /\ 1 \in Slots
  BY DEF Slots
<1>2. /\ textures'[1].fadeover = textures[1].fadeover /\ textures'[0].fadein = textures[0].fadein
      /\ textures'[1].tex = textures[1].tex /\ textures'[0].tex = textures[0].tex
  BY <1>1 DEF FadesSame, SameFade, SameTexs
<1>3. Awaited(0)' = Awaited(0) /\ Awaited(1)' = Awaited(1)
  BY DEF Awaited
<1> QED
  BY <1>2, <1>3, LightSlots DEF LightInv, Opaque, ModsSame, Bright

\* The fader runs when main has drawn all there is.
LEMMA FaderLight ==
  ASSUME Timely, Base, FrameInv, LightInv, faderThread
  PROVE  LightInv'
<1>1. /\ UNCHANGED <<cmd, heap, upd>> /\ Loads' = Loads /\ Zero /\ Punctual
      /\ Awaited(0)' = Awaited(0) /\ Awaited(1)' = Awaited(1)
  BY FaderAlone, FaderLoads DEF Base, FrameInv, Shape, Timely, Awaited
<1>2. /\ SlotsOK(textures) /\ 0 \in Slots /\ 1 \in Slots /\ 2 \in Slots /\ Plain
      /\ textures[1].fadeover > 0 => textures[0].fadein = 0
  BY LightSlots DEF LightInv, Slots
<1>3. CASE FinishEnd
  <2>1. /\ fader.pc = "finish" /\ fader.slot \in Slots /\ fader.src \in Slots /\ fader'.pc = "scan"
        /\ textures' = MoveTexture(textures, fader.slot, fader.src)
        /\ fader.slot = 1 /\ fader.src = 0 /\ upd["main"].at = "no"
    <3>1. /\ fader.pc = "finish" /\ fader.slot \in {0, 1} /\ fader.src \in {0, 1}
          /\ textures' = MoveTexture(textures, fader.slot, fader.src) /\ fader'.pc = "scan"
      BY <1>3 DEF FinishEnd, Base, IInv, ControlTypeOK
    <3>2. fader.slot # fader.src
      BY <3>1 DEF Base, TexInv, Swapped
    <3> QED
      BY <1>2, <3>1, <3>2 DEF Plain
  <2>2. /\ Faded(textures'[0]) /\ Faded(textures'[1]) /\ textures'[2] = textures[2]
    BY <1>2, <2>1, MoveEffect DEF Slots
  <2>3. Plain'
    BY <1>1, <1>2, <2>1, <2>2 DEF Plain, Faded, Slots
  <2>4. Blending'
    BY <1>1, <2>1 DEF LightInv, Blending
  <2> QED
    BY <2>2, <2>3, <2>4 DEF LightInv, Opaque, Lit, Faded
<1>4. ASSUME NEW i \in Slots, FaderScan(i) PROVE LightInv'
  <2>1. fader.pc = "scan" /\ ~FinishEnd /\ Redraws = {} /\ upd["main"].at = "no"
    BY <1>4, NothingDrawn DEF FaderScan, FinishEnd, Base
  <2>2. SameTexs(textures, textures') /\ textures'[0].tex = textures[0].tex
        /\ textures'[1].tex = textures[1].tex
    BY <1>2, <2>1, FaderTex DEF Base, SameTexs
  <2>3. \A t \in Renderers : upd[t].at # "blend"
    BY <2>1 DEF LightInv, Blending
  <2>4. Blending'
    BY <1>1, <2>3 DEF Blending
  <2>5. CASE FadeinLast(i)
    <3>1. i = 0 /\ fader' = fader
      BY <1>1, <2>5 DEF FadeinLast, Zero
    <3>2. Faded(textures'[0]) /\ OthersSame(textures, textures', 0)
      BY <1>2, <2>5, <3>1, FadeinLastEffect
    <3>3. textures'[1] = textures[1] /\ textures'[2] = textures[2]
      BY <1>2, <3>2 DEF OthersSame
    <3>4. Plain'
      BY <1>1, <1>2, <2>1, <3>1, <3>2, <3>3 DEF Plain, Faded, Slots
    <3>5. Opaque' /\ Lit'
      BY <1>1, <2>2, <3>2, <3>3 DEF LightInv, Opaque, Lit, Faded
    <3> QED
      BY <2>4, <3>4, <3>5 DEF LightInv
  <2>6. CASE FadeinTick(i)
    <3>1. i = 0 /\ fader' = fader /\ queue' = Append(queue, Upd(0)) /\ textures[0].fadein > 1
      <4>1. textures[i].fadein > 1 /\ fader' = fader /\ queue' = Append(queue, Upd(i))
        BY <2>6 DEF FadeinTick
      <4>2. textures[i].fadein \in Nat
        BY <1>2, ConstantsAssumption DEF SlotsOK, Slot
      <4>3. i = 0
        BY <1>1, <4>1, <4>2 DEF Zero
      <4> QED
        BY <4>1, <4>3
    <3>2. /\ OthersSame(textures, textures', 0) /\ textures'[0].fadein = textures[0].fadein - 1
          /\ textures'[0].fadeover = textures[0].fadeover
          /\ textures'[0].fadesrc = textures[0].fadesrc
          /\ textures'[0].fadeloop = textures[0].fadeloop
          /\ textures'[0].alpha = FadeMax - textures'[0].fadein
      BY <1>2, <2>6, <3>1, FadeinTickEffect
    <3>3. textures'[1] = textures[1] /\ textures'[2] = textures[2]
      BY <1>2, <3>2 DEF OthersSame
    <3>4. Plain'
      BY <1>1, <1>2, <2>1, <3>1, <3>2, <3>3 DEF Plain, Slots
    <3>5. textures[0].fadein > 0
      <4>1. textures[0].fadein \in Nat
        BY <1>2, ConstantsAssumption DEF SlotsOK, Slot
      <4> QED
        BY <3>1, <4>1
    <3>6. Opaque'
      BY <1>1, <2>2, <3>3, <3>5 DEF LightInv, Opaque
    <3>7. Redraws' = {Upd(0)} /\ Upd(0).code = 0
      <4>1. Events(queue)' = Events(queue) \cup {Upd(0)}
        <5>1. queue \in Seq(Event) /\ Upd(0) \in Event
          BY DEF Base, TypeInv, EventsOK, Upd, Event, Slots
        <5> QED
          BY <3>1, <5>1, AppendEvents DEF Events
      <4> QED
        BY <2>1, <4>1 DEF Redraws, Upd
    <3>8. Lit'
      BY <3>2, <3>7 DEF Lit
    <3> QED
      BY <2>4, <3>4, <3>6, <3>8 DEF LightInv
  <2>7. ~ToggleTest(i)
    BY <1>2, ConstantsAssumption DEF ToggleTest, Plain
  <2>8. CASE FinishBegin(i)
    <3>1. textures' = textures /\ fader' = [pc |-> "finish", slot |-> i, src |-> textures[i].fadesrc]
          /\ textures[i].fadeover = 1
      BY <2>8 DEF FinishBegin
    <3>2. i = 1
      BY <1>2, <3>1 DEF Plain
    <3>3. Plain'
      BY <1>1, <1>2, <2>1, <3>1, <3>2 DEF Plain
    <3>4. textures[0].fadein = 0
      BY <1>2, <3>1, <3>2
    <3>5. Opaque' /\ Lit'
      BY <1>1, <3>1, <3>4 DEF LightInv, Opaque, Lit
    <3> QED
      BY <2>4, <3>3, <3>5 DEF LightInv
  <2>9. CASE FadeoverTick(i)
    <3>1. textures[i].fadeover > 0 /\ fader' = fader
      <4>1. textures[i].fadeover \in Nat
        BY <1>2, ConstantsAssumption DEF SlotsOK, Slot
      <4>2. textures[i].fadeover > 1 /\ fader' = fader
        BY <2>9 DEF FadeoverTick
      <4> QED
        BY <4>1, <4>2
    <3>2. i = 1 /\ textures[0].fadein = 0
      BY <1>2, <3>1 DEF Plain
    <3>3. /\ OthersSame(textures, textures', 1) /\ textures'[1].fadein = textures[1].fadein
          /\ textures'[1].fadesrc = textures[1].fadesrc
          /\ textures'[1].fadeloop = textures[1].fadeloop
      BY <1>2, <2>9, <3>2, FadeoverTickEffect
    <3>4. textures'[0] = textures[0] /\ textures'[2] = textures[2]
      BY <1>2, <3>3 DEF OthersSame
    <3>5. Plain'
      BY <1>1, <1>2, <2>1, <3>1, <3>2, <3>3, <3>4 DEF Plain, Slots
    <3>6. Opaque' /\ Lit'
      BY <1>1, <2>2, <3>1, <3>2, <3>4 DEF LightInv, Opaque, Lit
    <3> QED
      BY <2>4, <3>5, <3>6 DEF LightInv
  <2> QED
    BY <1>4, <2>5, <2>6, <2>7, <2>8, <2>9 DEF FaderScan
<1>5. ~ToggleSrc /\ ~ToggleEnd
  BY <1>2 DEF ToggleSrc, ToggleEnd, Plain
<1> QED
  BY <1>3, <1>4, <1>5 DEF faderThread

\* A command that arms a fade has its picture loaded.
LEMMA CommandLight ==
  ASSUME Timely, Base, FrameInv, LightInv, processCommand
  PROVE  LightInv'
<1>1. /\ UNCHANGED <<heap, fader>> /\ Redraws' = Redraws /\ upd'["main"] = upd["main"]
      /\ upd'["cmd"] = upd["cmd"] \/ upd'["cmd"].at = "begin"
  <2>1. upd \in [Renderers -> Updates(Len(heap))]
    BY DEF Base, TypeInv
  <2>2. CASE Handler
    BY <2>2, CommandEvents DEF Handler, FadeIn, FadeOut, FadeOver, FadeLoop, FadeLoop2, Block,
       DrawDone, engineVars
  <2>3. CASE \E c \in Commands : Issue(c)
    <3>1. upd' = upd \/ upd' = [upd EXCEPT !["cmd"] = StartUpdate(0)]
      BY <2>3 DEF Issue
    <3>2. StartUpdate(0).at = "begin"
      BY DEF StartUpdate, NoUpdate
    <3> QED
      BY <2>1, <2>3, <3>1, <3>2, CommandEvents DEF Issue, engineVars, Renderers
  <2> QED
    BY <2>2, <2>3 DEF processCommand
<1>2. /\ SlotsOK(textures) /\ 0 \in Slots /\ 1 \in Slots /\ 2 \in Slots /\ Plain
  BY LightSlots DEF LightInv, Slots
<1>3. SameTexs(textures, textures') /\ textures'[0].tex = textures[0].tex
      /\ textures'[1].tex = textures[1].tex
  BY <1>2, CommandTex DEF Base, SameTexs
<1>4. \A t \in Renderers : upd'[t].at = "blend" => upd'[t] = upd[t] /\ upd[t].at = "blend"
  BY <1>1 DEF Renderers
<1>5. CASE FadeIn
  <2>1. NoFade(textures) /\ cmd'.pc = "block"
    BY <1>5 DEF FadeIn, Base, IInv, ControlTypeOK, GateInv, Unarmed, Quiet
  <2>2. /\ OthersSame(textures, textures', 0) /\ textures'[0].fadein = FadeMax
        /\ textures'[0].fadeover = textures[0].fadeover
        /\ textures'[0].fadeloop = textures[0].fadeloop
    BY <1>2, <1>5, FadeInEffect
  <2>3. textures'[1] = textures[1] /\ textures'[2] = textures[2] /\ textures[1].fadeover = 0
        /\ textures[0].fadeover = 0
    BY <1>2, <2>1, <2>2, StillHeading DEF OthersSame
  <2>4. Plain'
    BY <1>1, <1>2, <2>1, <2>2, <2>3 DEF Plain, Slots
  <2>5. Blending'
    BY <1>4, <2>3 DEF LightInv, Blending
  <2>6. Awaited(0)'
    <3>1. Loads' = Loads \cup {LoadImg(0, PicB(issued))}
      BY <1>5, CommandLoads DEF Base
    <3>2. LoadImg(0, PicB(issued)).code = 0
      BY DEF LoadImg
    <3> QED
      BY <3>1, <3>2 DEF Awaited
  <2>7. Opaque' /\ Lit'
    BY <2>2, <2>3, <2>6, ConstantsAssumption DEF Opaque, Lit
  <2> QED
    BY <2>4, <2>5, <2>7 DEF LightInv
<1>6. CASE FadeOver
  <2>1. NoFade(textures) /\ cmd'.pc = "block"
    BY <1>6 DEF FadeOver, Base, IInv, ControlTypeOK, GateInv, Unarmed, Quiet
  <2>2. /\ OthersSame(textures, textures', 1) /\ textures'[1].fadeover = FadeMax
        /\ textures'[1].fadesrc = 0 /\ textures'[1].fadeloop = textures[1].fadeloop
    BY <1>2, <1>6, FadeOverEffect
  <2>3. textures'[0] = textures[0] /\ textures'[2] = textures[2] /\ textures[0].fadein = 0
    BY <1>2, <2>1, <2>2, StillHeading DEF OthersSame
  <2>4. Plain'
    BY <1>1, <1>2, <2>1, <2>2, <2>3 DEF Plain, Slots
  <2>5. Blending'
    BY <1>4, <2>2, ConstantsAssumption DEF LightInv, Blending
  <2>6. Awaited(1)'
    <3>1. Loads' = Loads \cup {LoadImg(1, PicB(issued))}
      BY <1>6, CommandLoads DEF Base
    <3>2. LoadImg(1, PicB(issued)).code = 1
      BY DEF LoadImg
    <3> QED
      BY <3>1, <3>2 DEF Awaited
  <2>7. Opaque' /\ Lit'
    BY <2>3, <2>6 DEF Opaque, Lit
  <2> QED
    BY <2>4, <2>5, <2>7 DEF LightInv
<1>7. CASE (\E c \in Commands : Issue(c)) \/ Block \/ DrawDone
  <2>1. textures' = textures /\ cmd'.pc \notin {"fadeloop", "loop2"}
    <3>1. CASE \E c \in Commands : Issue(c)
      <4>1. PICK c \in Commands : Issue(c)
        BY <3>1
      <4>2. textures' = textures /\ cmd'.pc = c
        BY <4>1 DEF Issue
      <4>3. c # "loop2" /\ c # "fadeloop"
        BY <4>1, ConstantsAssumption DEF Timely
      <4> QED
        BY <4>2, <4>3
    <3>2. CASE Block \/ DrawDone
      <4>1. cmd'.pc = "gate"
        BY <3>2 DEF Block, DrawDone, Base, IInv, ControlTypeOK
      <4> QED
        BY <3>2, <4>1 DEF Block, DrawDone
    <3> QED
      BY <1>7, <3>1, <3>2
  <2>2. Loads' = Loads
    <3>1. ~(FadeIn \/ FadeOver \/ FadeLoop)
      BY <1>7 DEF FadeIn, FadeOver, FadeLoop, Issue, Block, DrawDone
    <3> QED
      BY <3>1, CommandLoads DEF Base
  <2>3. Plain' /\ Blending'
    BY <1>1, <1>2, <1>4, <2>1 DEF LightInv, Plain, Blending
  <2>4. Opaque' /\ Lit'
    BY <1>1, <2>1, <2>2 DEF LightInv, Opaque, Lit, Awaited
  <2> QED
    BY <2>3, <2>4 DEF LightInv
<1>8. ~FadeOut /\ ~FadeLoop /\ ~FadeLoop2
  BY <1>2 DEF FadeOut, FadeLoop, FadeLoop2, Plain, Base, StepsInv, Planned
<1> QED
  BY <1>5, <1>6, <1>7, <1>8 DEF processCommand, Handler

\* What the steps of main and update() leave alone.
LEMMA OthersPlain ==
  ASSUME Timely, Base, FrameInv, LightInv, main \/ \E t \in Renderers : update(t)
  PROVE  /\ Plain' /\ fader.pc = "scan" /\ FadesSame(textures, textures')
         /\ textures'[0].fadein = textures[0].fadein
         /\ textures'[1].fadeover = textures[1].fadeover
<1>1. /\ UNCHANGED <<cmd, fader>> /\ FadesSame(textures, textures')
  BY OthersAlone DEF Timely
<1>2. fader.pc = "scan"
  <2>1. Whole
    BY DEF Timely, Punctual, Whole
  <2> QED
    BY <2>1, OthersScan
<1> QED
  BY <1>1, <1>2 DEF LightInv, Plain, FadesSame, SameFade, Slots

\* 37-39: the new texture is opaque, and no other slot has it.
LEMMA LoadLight ==
  ASSUME Timely, Base, FrameInv, LightInv, main, LoadImage
  PROVE  LightInv'
<1>1. /\ Plain' /\ FadesSame(textures, textures')
      /\ textures'[0].fadein = textures[0].fadein
      /\ textures'[1].fadeover = textures[1].fadeover
  BY OthersPlain
<1>2. /\ loading # NoEvent /\ loading' = NoEvent /\ UNCHANGED <<queue, upd>>
      /\ heap' = Append(heap, Texture(loading.arg))
      /\ textures' = [textures EXCEPT ![loading.code].tex = Len(heap) + 1]
      /\ loading.type = "load" /\ loading.code \in {0, 1}
  BY DEF LoadImage, Timely, Punctual, Base, TypeInv, EventOK
<1> DEFINE i == loading.code
           x == Len(heap) + 1
<1>3. /\ SlotsOK(textures) /\ heap \in Seq(SdlTexture) /\ Len(heap) \in Nat /\ 0 \in Slots
      /\ 1 \in Slots /\ textures[0].tex \in 0..Len(heap) /\ textures[1].tex \in 0..Len(heap)
  BY DEF Base, IInv, ControlTypeOK, TypeInv, Slots
<1>4. /\ \A s \in {0, 1} : textures'[s].tex = IF s = i THEN x ELSE textures[s].tex
      /\ textures'[0].alpha = textures[0].alpha
  <2> DEFINE r == [textures[i] EXCEPT !.tex = x]
  <2>1. /\ textures' = [s \in Slots |-> IF s = i THEN r ELSE textures[s]]
        /\ textures[i] \in Slot(textures[i].tex)
    BY <1>2, <1>3 DEF SlotsOK
  <2>2. r.tex = x /\ r.alpha = textures[i].alpha
    BY <2>1 DEF Slot
  <2> HIDE DEF i, r, x
  <2> QED
    BY <1>3, <2>1, <2>2
<1>5. /\ heap'[x].alphaMod = FadeMax /\ heap'[x].colorMod = FadeMax
      /\ \A y \in 1..Len(heap) : heap'[y] = heap[y]
  BY <1>2, <1>3 DEF Texture
<1>6. Bright(heap'[x])
  BY <1>5, ConstantsAssumption DEF Bright
<1>7. \A s \in {0, 1} : s # i => (Awaited(s) => Awaited(s)')
  <2>1. Loads = Loads' \cup {loading}
    BY <1>2 DEF Loads, Events, NoEvent
  <2> QED
    BY <2>1 DEF Awaited
<1>8. Redraws' = Redraws
  BY <1>2 DEF Redraws, Events
<1>9. Blending'
  BY <1>1, <1>2 DEF LightInv, Blending
<1> HIDE DEF i, x
<1>10. i \in {0, 1} /\ x = Len(heap) + 1
  BY <1>2 DEF i, x
<1>11. ASSUME textures'[1].fadeover > 0, ~Awaited(1)'
       PROVE  Bright(heap'[textures'[1].tex]) /\ textures'[1].tex # textures'[0].tex
  <2>1. CASE i = 1
    BY <1>3, <1>4, <1>6, <1>10, <2>1
  <2>2. CASE i = 0
    <3>1. Bright(heap[textures[1].tex]) /\ textures[1].tex \in 1..Len(heap)
      BY <1>1, <1>7, <1>11, <2>2, LightSlots DEF LightInv, Opaque
    <3> QED
      BY <1>3, <1>4, <1>5, <1>10, <2>2, <3>1
  <2> QED
    BY <1>10, <2>1, <2>2
<1>12. ASSUME textures'[0].fadein > 0, ~Awaited(0)'
       PROVE  /\ heap'[textures'[0].tex].alphaMod = FadeMax
              /\ i = 0 => heap'[textures'[0].tex].colorMod = FadeMax
              /\ i # 0 => ~Awaited(0) /\ heap'[textures'[0].tex] = heap[textures[0].tex]
  <2>1. CASE i = 0
    BY <1>4, <1>5, <2>1
  <2>2. CASE i = 1
    <3>1. ~Awaited(0) /\ heap[textures[0].tex].alphaMod = FadeMax /\ textures[0].tex \in 1..Len(heap)
      BY <1>1, <1>7, <1>12, <2>2, LightSlots DEF LightInv, Opaque
    <3> QED
      BY <1>4, <1>5, <2>2, <3>1
  <2> QED
    BY <1>10, <2>1, <2>2
<1>13. Opaque'
  BY <1>11, <1>12 DEF Opaque, Bright
<1>14. Lit'
  <2> SUFFICES ASSUME textures'[0].fadein = 1 PROVE Lit'
    BY DEF Lit
  <2>1. textures'[0].fadein > 0
    OBVIOUS
  <2>2. CASE i = 0
    <3>1. ~Awaited(0)' => heap'[textures'[0].tex].colorMod >= FadeMax - 1
      BY <1>12, <2>1, <2>2, ConstantsAssumption
    <3> QED
      BY <1>1, <1>4, <1>8, <3>1 DEF LightInv, Lit
  <2>3. CASE i # 0
    BY <1>1, <1>2, <1>4, <1>8, <1>12, <2>1, <2>3 DEF LightInv, Lit
  <2> QED
    BY <2>2, <2>3
<1> QED
  BY <1>1, <1>9, <1>13, <1>14 DEF LightInv

\* An event that is taken in the last step of a fadein is the redraw of its slot.
LEMMA TakeLight ==
  ASSUME Timely, Base, FrameInv, LightInv, main, TakeUpd \/ TakeLoad \/ TakeDestroy
  PROVE  LightInv'
<1>1. Plain' /\ FadesSame(textures, textures') /\ textures' = textures /\ Loads' = Loads
  BY OthersPlain, MainLoads DEF Base, TakeUpd, TakeLoad, TakeDestroy
<1>2. Opaque'
  BY <1>1, TakeMods, LightKept DEF Base, SameTexs
<1>3. /\ queue \in Seq(Event) /\ queue # <<>> /\ upd["main"].at = "no"
      /\ upd \in [Renderers -> Updates(Len(heap))]
  BY DEF Base, TypeInv, EventsOK, TakeUpd, TakeLoad, TakeDestroy, MainIdle, InUpdate
<1>4. Tail(queue) \in Seq(Event) /\ Events(queue) = {Head(queue)} \cup Events(Tail(queue))
  BY <1>3, TailEvents
<1>5. CASE TakeUpd
  <2>1. /\ queue' = FlushUpd(Tail(queue)) /\ Head(queue) \in Redraws
        /\ upd' = [upd EXCEPT !["main"] = StartUpdate(Head(queue).code)]
    BY <1>4, <1>5 DEF TakeUpd, Redraws
  <2>2. Redraws' = {}
    <3>1. Events(queue)' = {e \in Events(Tail(queue)) : e.type # "upd"}
      BY <1>4, <2>1, FlushEvents DEF Events
    <3> QED
      BY <3>1 DEF Redraws
  <2>3. upd'["main"] = StartUpdate(Head(queue).code) /\ upd'["cmd"] = upd["cmd"]
    BY <1>3, <2>1 DEF Renderers
  <2>4. \A c : /\ StartUpdate(c).at \in {"begin", "loop"}
               /\ c = 0 => StartUpdate(c).at = "begin" /\ StartUpdate(c).id = 0
    BY DEF StartUpdate, NoUpdate
  <2>5. Blending'
    BY <1>1, <2>3, <2>4 DEF LightInv, Blending, Renderers
  <2>6. Lit'
    BY <1>1, <2>1, <2>2, <2>3, <2>4 DEF LightInv, Lit
  <2> QED
    BY <1>1, <1>2, <2>5, <2>6 DEF LightInv
<1>6. CASE TakeLoad \/ TakeDestroy
  <2>1. Redraws' = Redraws
    <3>1. queue' = Tail(queue) /\ Head(queue).type # "upd"
      BY <1>6 DEF TakeLoad, TakeDestroy
    <3>2. Events(queue)' = Events(Tail(queue))
      BY <3>1 DEF Events
    <3> QED
      BY <1>4, <3>1, <3>2 DEF Redraws
  <2>2. upd' = upd \/ upd' = [upd EXCEPT !["main"] = StartUpdate(-1)]
    BY <1>6 DEF TakeLoad, TakeDestroy
  <2>3. StartUpdate(-1).at = "loop"
    BY DEF StartUpdate, NoUpdate
  <2>4. upd'["main"].at \in {"no", "loop"} /\ upd'["cmd"] = upd["cmd"]
    BY <1>3, <2>2, <2>3 DEF Renderers
  <2>5. Blending'
    BY <1>1, <2>4 DEF LightInv, Blending, Renderers
  <2>6. Lit'
    <3> SUFFICES ASSUME textures'[0].fadein = 1 PROVE Lit'
      BY DEF Lit
    <3>1. /\ textures[0].alpha = FadeMax - 1 /\ (\A e \in Redraws : e.code = 0)
          /\ \/ Awaited(0) \/ Redraws # {}
             \/ heap[textures[0].tex].colorMod >= FadeMax - 1
      BY <1>1, <1>3 DEF LightInv, Lit
    <3>2. Awaited(0) => Awaited(0)'
      BY <1>1 DEF Awaited
    <3>3. ~Awaited(0) => heap'[textures[0].tex].colorMod = heap[textures[0].tex].colorMod
      BY <1>1, TakeMods, LightSlots DEF ModsSame, Base
    <3> QED
      BY <1>1, <2>1, <3>1, <3>2, <3>3 DEF Lit
  <2> QED
    BY <1>1, <1>2, <2>5, <2>6 DEF LightInv
<1> QED
  BY <1>5, <1>6

\* 87-115: a fadein dims its own texture, and only the one faded from is made
\* transparent.
LEMMA UpdateLight ==
  ASSUME Timely, Base, FrameInv, LightInv, NEW t \in Renderers, update(t)
  PROVE  LightInv'
<1>1. /\ Plain' /\ FadesSame(textures, textures')
      /\ textures'[0].fadein = textures[0].fadein
      /\ textures'[1].fadeover = textures[1].fadeover
  BY OthersPlain
<1>2. Loads' = Loads /\ Redraws' = Redraws /\ Awaited(0)' = Awaited(0) /\ Awaited(1)' = Awaited(1)
  <2>1. UNCHANGED <<queue, loading>>
    BY DEF update, UpdateLoop, UpdateBegin, UpdateBlend, UpdateCopy, slotVars
  <2> QED
    BY <2>1 DEF Loads, Redraws, Events, Awaited
<1>3. /\ SlotsOK(textures) /\ heap \in Seq(SdlTexture) /\ 0 \in Slots /\ 1 \in Slots
      /\ textures[0] \in Slot(textures[0].tex) /\ textures[1] \in Slot(textures[1].tex)
      /\ upd \in [Renderers -> Updates(Len(heap))] /\ upd[t] \in Updates(Len(heap))
      /\ upd[t].id \in Slots /\ "main" \in Renderers
      /\ textures[0].tex \in 0..Len(heap) /\ textures[1].tex \in 0..Len(heap)
  BY LightSlots DEF Base, TypeInv, Updates, Renderers, Slots
<1>4. \A r \in Renderers \ {t} : upd'[r] = upd[r]
  BY UpdateCalls DEF Base
<1>5. t = "cmd" => NoFade(textures)
  <2> SUFFICES ASSUME t = "cmd" PROVE NoFade(textures)
    OBVIOUS
  <2>1. upd["cmd"].at # "no"
    BY UpdateCalls DEF Base
  <2>2. cmd.pc = "draw"
    BY <2>1 DEF Base, TexInv, Drawing, InUpdate
  <2> QED
    BY <2>2 DEF Base, IInv, GateInv, Unarmed, Quiet
<1>6. t = "cmd" => textures[0].fadein = 0 /\ textures[1].fadeover = 0
                    /\ \A s \in Slots : textures[s].fadein = 0 /\ textures[s].fadeover = 0
  BY <1>3, <1>5, StillHeading
<1>7. ASSUME heap' = heap, SameTexs(textures, textures') PROVE Opaque'
  BY <1>1, <1>2, <1>7, LightKept DEF ModsSame
<1>8. CASE UpdateLoop(t) \/ UpdateCopy(t)
  <2>1. /\ heap' = heap /\ upd'[t].at \notin {"blend"} /\ upd[t].at # "begin"
        /\ SameTexs(textures, textures') /\ textures'[0].alpha = textures[0].alpha
    <3>1. CASE UpdateLoop(t)
      <4>1. upd' = [upd EXCEPT ![t] = NoUpdate]
            \/ \E s \in Slots : upd' = [upd EXCEPT ![t].at = "begin", ![t].id = s, ![t].rest = s + 1]
        BY <3>1 DEF UpdateLoop, Redraw
      <4>2. upd'[t].at \in {"no", "begin"}
        <5>1. CASE upd' = [upd EXCEPT ![t] = NoUpdate]
          BY <1>3, <5>1 DEF NoUpdate
        <5>2. CASE \E s \in Slots : upd' = [upd EXCEPT ![t].at = "begin", ![t].id = s, ![t].rest = s + 1]
          <6>1. PICK s \in Slots : upd' = [upd EXCEPT ![t].at = "begin", ![t].id = s, ![t].rest = s + 1]
            BY <5>2
          <6>2. upd'[t] = [upd[t] EXCEPT !.at = "begin", !.id = s, !.rest = s + 1]
            BY <1>3, <6>1
          <6> QED
            BY <1>3, <6>2 DEF Updates
        <5> QED
          BY <4>1, <5>1, <5>2
      <4> QED
        BY <3>1, <4>2 DEF UpdateLoop, SameTexs
    <3>2. CASE UpdateCopy(t)
      <4>1. /\ textures' = [textures EXCEPT ![upd[t].id].dirty = FALSE] /\ heap' = heap
            /\ upd' = [upd EXCEPT ![t] = IF upd[t].all
                               THEN [@ EXCEPT !.at = "loop", !.id = 0, !.tex = NoTex]
                               ELSE NoUpdate]
            /\ upd[t].at = "copy"
        BY <3>2 DEF UpdateCopy
      <4>2. upd'[t].at \in {"no", "loop"}
        BY <1>3, <4>1 DEF NoUpdate, Updates
      <4>3. textures'[0].alpha = textures[0].alpha
        BY <1>3, <4>1 DEF Slot, SlotsOK
      <4>4. SameTexs(textures, textures')
        BY <3>2, CopyTex DEF Base
      <4> QED
        BY <4>1, <4>2, <4>3, <4>4
    <3> QED
      BY <1>8, <3>1, <3>2
  <2>2. Opaque'
    BY <1>7, <2>1
  <2>3. Blending'
    BY <1>1, <1>4, <2>1 DEF LightInv, Blending
  <2>4. upd["main"].at = "begin" => upd'["main"] = upd["main"]
    BY <1>3, <1>4, <2>1
  <2>5. Lit'
    BY <1>1, <1>2, <1>3, <2>1, <2>4 DEF LightInv, Lit, SameTexs
  <2> QED
    BY <1>1, <2>2, <2>3, <2>5 DEF LightInv
<1>9. CASE UpdateBegin(t)
  <2> DEFINE s == upd[t].id
  <2>1. /\ textures' = textures /\ upd[t].at = "begin"
        /\ heap' = IF textures[s].fadein > 0 /\ textures[s].tex # NoTex
                   THEN [heap EXCEPT ![textures[s].tex].colorMod = textures[s].alpha] ELSE heap
        /\ upd'[t].at = (IF textures[s].fadeover > 0 THEN "blend" ELSE "copy") /\ upd'[t].id = s
    BY <1>3, <1>9 DEF UpdateBegin, Updates
  <2>2. s \in Slots /\ (textures[s].fadein > 0 => s = 0)
        /\ (textures[s].fadeover > 0 => s = 1)
    BY <1>3 DEF FrameInv, Shape, Zero, LightInv, Plain
  <2> HIDE DEF s
  <2>3. t = "cmd" => heap' = heap /\ upd'[t].at = "copy"
    BY <1>6, <2>1, <2>2
  <2>4. Blending'
    BY <1>1, <1>4, <2>1, <2>2, <2>3 DEF LightInv, Blending, Renderers
  <2>5. CASE heap' = heap
    <3>1. Opaque'
      BY <1>7, <2>1, <2>5 DEF SameTexs
    <3>2. Lit'
      <4> SUFFICES ASSUME textures'[0].fadein = 1 PROVE Lit'
        BY DEF Lit
      <4>1. t = "main" /\ textures[0].fadein = 1
        BY <1>1, <1>6 DEF Renderers
      <4>2. CASE s = 0
        <5>1. textures[0].tex = NoTex \/ heap' = [heap EXCEPT ![textures[0].tex].colorMod = textures[0].alpha]
          BY <2>1, <4>1, <4>2
        <5>2. textures[0].tex = NoTex => Awaited(0)
          BY <4>1, LightSlots DEF NoTex
        <5>3. ~Awaited(0) => heap'[textures[0].tex].colorMod = FadeMax - 1
          <6> SUFFICES ASSUME ~Awaited(0) PROVE heap'[textures[0].tex].colorMod = FadeMax - 1
            OBVIOUS
          <6>1. textures[0].tex \in 1..Len(heap) /\ textures[0].alpha = FadeMax - 1
            BY <4>1, LightSlots DEF LightInv, Lit
          <6>2. heap' = [heap EXCEPT ![textures[0].tex].colorMod = textures[0].alpha]
            BY <5>1, <5>2, <6>1
          <6>3. heap[textures[0].tex] \in SdlTexture /\ textures[0].tex \in DOMAIN heap
            BY <1>3, <6>1
          <6>4. heap'[textures[0].tex] = [heap[textures[0].tex] EXCEPT !.colorMod = textures[0].alpha]
            BY <6>2, <6>3
          <6> QED
            BY <6>1, <6>3, <6>4 DEF SdlTexture
        <5> QED
          BY <1>2, <2>1, <4>1, <5>3, ConstantsAssumption DEF LightInv, Lit
      <4>3. CASE s # 0
        BY <1>2, <2>1, <2>5, <4>1, <4>3 DEF LightInv, Lit, s
      <4> QED
        BY <4>2, <4>3
    <3> QED
      BY <1>1, <2>4, <3>1, <3>2 DEF LightInv
  <2>6. CASE heap' # heap
    <3>1. /\ t = "main" /\ s = 0 /\ textures[0].fadein > 0 /\ textures[0].tex \in 1..Len(heap)
          /\ heap' = [heap EXCEPT ![textures[0].tex].colorMod = textures[0].alpha]
      <4>1. t = "main" /\ textures[s].fadein > 0 /\ textures[s].tex # NoTex
            /\ heap' = [heap EXCEPT ![textures[s].tex].colorMod = textures[s].alpha]
        BY <2>1, <2>3, <2>6 DEF Renderers
      <4>2. s = 0
        BY <2>2, <4>1
      <4>3. textures[0].tex \in 1..Len(heap)
        BY <1>3, <4>1, <4>2 DEF NoTex
      <4> QED
        BY <4>1, <4>2, <4>3
    <3>2. /\ heap'[textures[0].tex].alphaMod = heap[textures[0].tex].alphaMod
          /\ heap'[textures[0].tex].colorMod = textures[0].alpha
      BY <1>3, <3>1 DEF SdlTexture
    <3>3. textures[1].fadeover = 0
      <4>1. textures[1].fadeover \in Nat
        BY <1>3, ConstantsAssumption DEF Slot
      <4>2. textures[0].fadein # 0
        BY <3>1
      <4>3. ~(textures[1].fadeover > 0)
        BY <4>2, LightSlots
      <4> QED
        BY <4>1, <4>3
    <3>4. Opaque'
      BY <1>2, <2>1, <3>1, <3>2, <3>3 DEF LightInv, Opaque
    <3>5. Lit'
      BY <1>2, <2>1, <3>2, ConstantsAssumption DEF LightInv, Lit
    <3> QED
      BY <1>1, <2>4, <3>4, <3>5 DEF LightInv
  <2> QED
    BY <2>5, <2>6
<1>10. CASE UpdateBlend(t)
  <2>1. upd[t].at = "blend" /\ textures' = textures /\ upd'[t].at = "copy"
    BY <1>3, <1>10 DEF UpdateBlend, Updates
  <2>2. t = "main" /\ upd[t].id = 1 /\ textures[1].fadeover > 0
    BY <2>1 DEF LightInv, Blending
  <2>3. textures[1].fadesrc = 0 /\ textures[0].fadein = 0
    BY <1>3, <2>2, LightSlots DEF LightInv, Plain
  <2>4. heap' = heap \/ heap' = [heap EXCEPT ![textures[0].tex].alphaMod = textures[1].alpha]
    BY <1>10, <2>2, <2>3 DEF UpdateBlend
  <2>5. ~Awaited(1) /\ textures[1].tex # textures[0].tex =>
          heap'[textures[1].tex] = heap[textures[1].tex]
    <3> DEFINE x == textures[0].tex
               y == textures[1].tex
               a == textures[1].alpha
    <3>1. heap' = heap \/ heap' = [heap EXCEPT ![x].alphaMod = a]
      BY <2>4
    <3>2. /\ heap \in Seq(SdlTexture) /\ Len(heap) \in Nat
          /\ ~Awaited(1) => y \in 1..Len(heap)
      BY <1>3, <2>2, LightSlots
    <3> HIDE DEF x, y, a
    <3>3. ~Awaited(1) /\ y # x => heap'[y] = heap[y]
      BY <3>1, <3>2
    <3> QED
      BY <3>3 DEF x, y
  <2>6. Opaque' /\ Lit'
    BY <1>2, <2>1, <2>3, <2>5 DEF LightInv, Opaque, Lit
  <2>7. Blending'
    BY <1>1, <1>4, <2>1 DEF LightInv, Blending
  <2> QED
    BY <1>1, <2>6, <2>7 DEF LightInv
<1> QED
  BY <1>8, <1>9, <1>10 DEF update

LEMMA LightStep == Timely /\ Base /\ FrameInv /\ LightInv /\ [Next]_vars => LightInv'
<1> SUFFICES ASSUME Timely, Base, FrameInv, LightInv, [Next]_vars PROVE LightInv'
  OBVIOUS
<1>1. ~TimerUpd
  BY DEF TimerUpd, Timely, Punctual, Base, TypeInv
<1>2. CASE main
  BY <1>2, TakeLight, LoadLight DEF main
<1>3. CASE \E t \in Renderers : update(t)
  BY <1>3, UpdateLight
<1>4. CASE UNCHANGED vars
  BY <1>4 DEF vars, LightInv, Plain, Blending, Opaque, Lit, Awaited, Loads, Redraws, Events
<1> QED
  BY <1>1, <1>2, <1>3, <1>4, FaderLight, CommandLight DEF Next
\* At rest nothing is left to be drawn.
LEMMA SettledFrame ==
  ASSUME FrameInv, Settled, goal # 0
  PROVE  screen.img = goal /\ (Timely => Bright(screen))
<1>1. Rest
  BY DEF Rest, Settled
<1>2. Redraws = {}
  BY DEF Settled, Redraws, Events
<1>3. upd["main"].at = "no"
  BY DEF Settled, InUpdate, Renderers
<1> QED
  BY <1>1, <1>2, <1>3 DEF FrameInv, Resting, Presented, Good

\* Once every event is handled, the texture that was drawn last holds the picture the
\* last fade command asked for, when nothing but update() is interrupted and pictures
\* are loaded in time.  How opaque it is, it does not say.
THEOREM LastPicture ==
  ASSUME Punctual
  PROVE  Spec => []LastDrawn
<1> DEFINE Light == Timely => LightInv
<1>1. Whole /\ Calm
  BY DEF Punctual, Whole, Calm
<1>2. IInv /\ TypeInv /\ TexInv /\ StepsInv /\ FrameInv /\ Light /\ [Next]_vars
        => FrameInv' /\ Light'
  BY FrameStep, LightStep DEF Base
<1>3. Init => FrameInv /\ Light
  BY FrameStart, LightStart
<1>4. FrameInv => LastDrawn
  BY SettledFrame DEF LastDrawn
<1> HIDE DEF Light
<1> QED
  BY <1>1, <1>2, <1>3, <1>4, TexInvariant, StepsAddUp, PTL DEF Spec

\* The same picture can be seen, when main draws in time and no fade loops: it is opaque
\* and at most one step of a fadein darker than it was loaded.
THEOREM LastFrame ==
  ASSUME Timely
  PROVE  Spec => []FinalFrame
<1>1. Punctual /\ Whole /\ Calm
  BY DEF Timely, Punctual, Whole, Calm
<1>2. IInv /\ TypeInv /\ TexInv /\ StepsInv /\ FrameInv /\ LightInv /\ [Next]_vars
        => FrameInv' /\ LightInv'
  BY <1>1, FrameStep, LightStep DEF Base
<1>3. Init => FrameInv /\ LightInv
  BY FrameStart, LightStart
<1>4. FrameInv => FinalFrame
  BY SettledFrame DEF FinalFrame, Bright
<1> QED
  BY <1>1, <1>2, <1>3, <1>4, TexInvariant, StepsAddUp, PTL DEF Spec
===============================================================================
