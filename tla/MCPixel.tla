-------------------------------- MODULE MCPixel --------------------------------
(***************************************************************************)
(* The two programs that use a pixel list, for TLC: wallypixel, and a      *)
(* program that makes the library's calls. A behaviour is of one of them;  *)
(* the other is "off". Bytes have four bits, the strip three LEDs.         *)
(***************************************************************************)
EXTENDS PixelServer, PixelCalls

CallsOff ==
  /\ op = "off" /\ round = 0 /\ steps = 0 /\ calls = 0
  /\ target = <<>> /\ before = <<>>

ServerOff ==
  /\ main = "off" /\ logStr = 0 /\ dangling = FALSE /\ copy = 0
  /\ received = <<>> /\ executed = <<>> /\ asked = [n \in Leds |-> <<>>]

Init ==
  \/ ServerInit /\ CallsOff
  \/ CallsInit /\ ServerOff

Next ==
  \/ ServerNext /\ UNCHANGED callVars
  \/ CallsNext /\ UNCHANGED serverVars

vars == <<serverVars, callVars, listVars>>

\* The main thread goes on: it sleeps, shows and executes, and waits for nobody.
MainGoesOn == WF_vars(MainNext /\ UNCHANGED callVars)

Spec == Init /\ [][Next]_vars /\ MainGoesOn

(* Words keep their width, the list its length, and each program's state its types. *)
TypeOK == pVector \in [Leds -> Words] /\ ServerTypeOK

\* A colour, a colour whose brightness carries into blue, one wider than a word,
\* and an LED after the last.
AllRequests ==
  { [cmd |-> c, led |-> 0, color |-> 0, brightness |-> 0]
      : c \in {"clearlog", "log", "other", "missing"} }
  \cup
  { [cmd |-> "setPixel", led |-> n, color |-> c[1], brightness |-> c[2]]
      : n \in {0, 2}, c \in {<<2775, 13>>, <<4095, 0>>, <<18, 20>>, <<70001, 5>>} }
  \cup
  { [cmd |-> "setPixel", led |-> 3, color |-> 0, brightness |-> 0] }

ListA == [n \in Leds |-> Word(n, 15, 7, 3)]
ListB == [n \in Leds |-> Word(12, n, 0, IF n = 0 THEN 0 ELSE 9)]
ListC == [n \in Leds |-> Word(0, 0, 15, 2)]
AllLists == {ListA, ListB, ListC}
===============================================================================
