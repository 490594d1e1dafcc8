---------------------------- MODULE FadeEngineGate ----------------------------
(***************************************************************************)
(* The engine implements the gate of FadeGate, unless the handler of a     *)
(* command is interrupted or the command is fadeout.                       *)
(***************************************************************************)
EXTENDS FadeEngine

\* The steps that slot s still has to take.
Legs(n)     == IF n > 0 THEN n ELSE 0
SlotSteps(s) ==
  IF fader.pc = "toggleEnd" /\ s = fader.slot THEN 0
  ELSE textures[s].fadein + textures[s].fadeover
         + FadeMax * Legs(textures[s].fadeloop)

\* The steps that the command will arm.
PlannedSteps == FadeMax * (Legs(cmd.loop) + 1)

GateOpen  == ~blockCommands /\ cmd.pc \in {"gate", "draw"}
StepsLeft == IF cmd.pc \in FadeArming THEN PlannedSteps
             ELSE SlotSteps(0) + SlotSteps(1) + SlotSteps(2)

Gate == INSTANCE FadeGate WITH open <- GateOpen, left <- StepsLeft,
                               MaxSteps <- FadeMax * (MaxLoop + 1)

\* Commands are admitted one at a time, each between two fades; a fade takes as
\* many steps as the command that armed it says, and its last step, and no
\* other, opens the gate, which happens (FadeGate).
GateRefinement == Gate!GateSpec
===============================================================================
