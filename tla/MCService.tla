------------------------------- MODULE MCService -------------------------------
(***************************************************************************)
(* Instances of the wallystart service for TLC.                            *)
(***************************************************************************)
EXTENDS Service

\* Two lines, and quit; an empty line, and one without an end.
AllRequests ==
  { [c1 |-> <<"f", NL, "u", NL>>, c2 |-> <<"q", NL>>],
    [c1 |-> <<NL>>, c2 |-> <<"#">>] }

\* No start script, an empty one, one that runs another.
AllScripts == {Missing, <<>>, <<"#", "r">>}

Nested == <<"u">>
===============================================================================
