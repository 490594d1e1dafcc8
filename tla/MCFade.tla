-------------------------------- MODULE MCFade --------------------------------
(***************************************************************************)
(* Instances of the picture engine for TLC: the commands that are sent,    *)
(* and the handlers that may be interrupted.                               *)
(***************************************************************************)
EXTENDS FadeEngineGate

AllCommands   == {"fadein", "fadeout", "fadeover", "fadeloop", "draw"}
CalmCommands  == AllCommands \ {"fadeout"}
PlainCommands == CalmCommands \ {"fadeloop"}
OnlyFadeout   == {"fadeout"}

\* Without "lag", main draws each step of a fade before the fader counts the next.
Nowhere       == {}
OnlyLag       == {"lag"}
Everywhere    == Regions
FaderAndLoad  == {"fader", "load", "lag"}
OnlyHandler   == {"handler", "lag"}
OnlyUpdate    == {"update", "lag"}
OnlyLoad      == {"load", "lag"}
InTime        == {"update"}
===============================================================================
