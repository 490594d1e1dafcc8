------------------------------- MODULE MCFrame --------------------------------
(***************************************************************************)
(* Two instances of the picture engine in one run.  In one, which the      *)
(* configuration describes, main lags behind the fader and fades may loop. *)
(* In the other, Prompt, main draws each step in time, no fade loops, and  *)
(* the timer asks for a redraw.  A behaviour is of one of them.            *)
(***************************************************************************)
EXTENDS MCFade

VARIABLE prompt   \* which of the two a behaviour is of

Prompt == INSTANCE FadeEngine WITH
            Preempt <- InTime, Commands <- PlainCommands, TimerUpds <- 1,
            FadeMax <- 4, MaxCmds <- 4, MaxLoop <- 0, LoadMayFail <- FALSE

FrameInit == \/ prompt = TRUE  /\ Prompt!Init
             \/ prompt = FALSE /\ Init

FrameNext == /\ \/ prompt /\ Prompt!Next
                \/ ~prompt /\ Next
             /\ UNCHANGED prompt

FrameSpec == FrameInit /\ [][FrameNext]_<<vars, prompt>>

\* update (68-116), fadeOver: once a fade is over and its redraws are served, the texture
\* drawn last holds the picture that was asked for; where main keeps pace with the fader
\* and no fade loops it is seen as well, opaque and at full brightness.
FadeShown == IF prompt THEN Prompt!FinalFrame ELSE LastDrawn
===============================================================================
