------------------------------- MODULE FadeGate -------------------------------
(***************************************************************************)
(* What the gate in front of processCommand promises (wallystart.c:216):   *)
(* commands are read one at a time; a fade command is admitted only when   *)
(* no fade is under way, fixes the number of steps its fade will take,     *)
(* and closes the gate; the gate opens with the last of those steps.       *)
(***************************************************************************)
EXTENDS Naturals

CONSTANT MaxSteps   \* an upper bound of the steps of one fade

VARIABLES open,     \* the next command may be read
          left      \* steps the fade under way still has to take

gateVars == <<open, left>>

GateInit == open = TRUE /\ left = 0

\* A fade of n steps is admitted.
Admit(n) == open /\ left = 0 /\ open' = FALSE /\ left' = n

\* The fade advances, and is not over yet.
Work == left > 1 /\ left' = left - 1 /\ UNCHANGED open

\* The last step of the fade opens the gate.
Finish == left = 1 /\ left' = 0 /\ open' = TRUE

GateNext == (\E n \in 1..MaxSteps : Admit(n)) \/ Work \/ Finish

GateSpec == GateInit /\ [][GateNext]_gateVars
                     /\ WF_gateVars(Work \/ Finish)
===============================================================================
