-------------------------------- MODULE MCText --------------------------------
(***************************************************************************)
(* Instances of the text slots for TLC: who may interrupt whom.            *)
(***************************************************************************)
EXTENDS TextSlots

\* The timer may run while the display is drawn, and main while the timer is in
\* the middle of a slot; main and the command thread do not meet.
TimerAnywhere == {<<"timer", "render">>, <<"main", "timer">>}

\* Every handler is finished before another starts.
Turns == {}

Anything == Threads \X Regions
===============================================================================
