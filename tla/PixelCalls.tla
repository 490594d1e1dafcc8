------------------------------- MODULE PixelCalls ------------------------------
(***************************************************************************)
(* The calls of a pixel list that change it over time, for a program that  *)
(* uses the library by itself (src/src/pixel.cpp 91-162): fade, rise and   *)
(* crossfade, and dieNicely (src/src/clinkt.cpp 63-81) at the end. Each    *)
(* round of a call changes every pixel and shows the list.                 *)
(***************************************************************************)
EXTENDS PixelList

CONSTANTS
  Rounds,            \* rounds of fade: 7
  Lists,             \* lists the program may start with and cross to
  Rises,             \* brightnesses it may rise to
  Steps,             \* step counts it may cross in
  MaxCalls           \* bound: calls

ASSUME CallsAssumption ==
  /\ Rounds \in Nat /\ Rounds >= Dim - 1
  /\ Lists \subseteq [Leds -> Words] /\ Rises \subseteq Int /\ Steps \subseteq Int
  /\ MaxCalls \in Nat

VARIABLES
  op,                \* the call that runs, or how the last one ended
  round, steps,      \* rounds done, rounds asked for
  target,            \* the list crossfade goes to
  before,            \* history: the list when the call began
  calls              \* calls begun

callVars == <<op, round, steps, target, before, calls>>

Idle == op \in {"ready", "faded", "cut", "risen", "crossed"}

CallsInit ==
  /\ op = "ready" /\ round = 0 /\ steps = 0 /\ calls = 0
  /\ pVector \in Lists /\ before = pVector /\ target = pVector /\ wire = Dark

Call(name) ==
  /\ Idle /\ calls < MaxCalls /\ calls' = calls + 1
  /\ op' = name /\ round' = 0 /\ before' = pVector
  /\ UNCHANGED <<pVector, wire>>

CallFade == Call("fade") /\ UNCHANGED <<steps, target>>

CallRise == \E b \in Rises : Call("rise") /\ steps' = b /\ UNCHANGED target

\* The other list is passed by value (pixel.cpp 128).
CallCrossfade ==
  \E s \in Steps, other \in Lists : Call("cross") /\ steps' = s /\ target' = other

\* pixel.cpp 98-106: one less, unless it is 0.
Dimmed(w) ==
  setBrightness(w, IF getBrightness(w) > 0 THEN getBrightness(w) - 1 ELSE 0)

\* pixel.cpp 96, 104, 109-113: the sum of the first round starts from an
\* uninitialised byte, so it may be 0 or not; a later sum is 0 when all are dark.
FadeRound ==
  /\ op = "fade" /\ round < Rounds /\ round' = round + 1
  /\ pVector' = [n \in Leds |-> Dimmed(pVector[n])] /\ wire' = show(pVector')
  /\ \/ round = 0 /\ op' \in {"fade", "cut"}
     \/ /\ round > 0
        /\ op' = IF \A n \in Leds : getBrightness(pVector'[n]) = 0 THEN "faded" ELSE "fade"
  /\ UNCHANGED <<steps, target, before, calls>>

FadeEnds ==
  /\ op = "fade" /\ round = Rounds /\ op' = "faded"
  /\ UNCHANGED <<round, steps, target, before, calls, pVector, wire>>

\* pixel.cpp 119-125: the brightness is a byte.
RiseRound ==
  /\ op = "rise" /\ round < steps /\ round' = round + 1
  /\ pVector' = [n \in Leds |-> setBrightness(pVector[n], (round + 1) % Byte)]
  /\ wire' = show(pVector')
  /\ UNCHANGED <<op, steps, target, before, calls>>

RiseEnds ==
  /\ op = "rise" /\ round >= steps /\ op' = "risen"
  /\ UNCHANGED <<round, steps, target, before, calls, pVector, wire>>

\* Defect: the last round does not go the whole way.
TowardShort(a, b, k) ==
  IF a > b THEN a - ((a - b) \div (k + 1)) ELSE a + ((b - a) \div (k + 1))

\* pixel.cpp 144-150: the k-th part of the way from a to b; the sum is a floating
\* point number, and storing it in a byte cuts its fraction off.
Toward(a, b, k) ==
  IF a > b THEN (a * k - (a - b)) \div k ELSE (a * k + (b - a)) \div k

\* pixel.cpp 152-155.
Nearer(a, b) == IF a > b THEN a - 1 ELSE IF a < b THEN a + 1 ELSE a

\* pixel.cpp 134-157.
Crossed(w, o, k) ==
  setP(Toward(Red(w), Red(o), k), Toward(Green(w), Green(o), k),
       Toward(Blue(w), Blue(o), k), Nearer(getBrightness(w), getBrightness(o)))

\* pixel.cpp 130-161.
CrossRound ==
  /\ op = "cross" /\ round < steps /\ round' = round + 1
  /\ pVector' = [n \in Leds |-> Crossed(pVector[n], target[n], steps - round)]
  /\ wire' = show(pVector')
  /\ UNCHANGED <<op, steps, target, before, calls>>

CrossEnds ==
  /\ op = "cross" /\ round >= steps /\ op' = "crossed"
  /\ UNCHANGED <<round, steps, target, before, calls, pVector, wire>>

\* clinkt.cpp 63-81: a list of its own is shown, all words 0, and the program ends.
dieNicely ==
  /\ op # "dead" /\ op # "off" /\ op' = "dead"
  /\ wire' = show([n \in Leds |-> 0])
  /\ UNCHANGED <<round, steps, target, before, calls, pVector>>

CallsNext ==
  \/ CallFade \/ CallRise \/ CallCrossfade
  \/ FadeRound \/ FadeEnds \/ RiseRound \/ RiseEnds \/ CrossRound \/ CrossEnds
  \/ dieNicely

CallsSpec == CallsInit /\ [][CallsNext]_<<callVars, pVector, wire>>

Gap(w, o) == IF w > o THEN w - o ELSE o - w

(* A fade that is not cut short in its first round (the sum it tests is not
   initialised there) leaves every pixel dark and its colour as it was; a
   crossfade of any number of rounds leaves every pixel in the colour of the other
   list, and its brightness nearer by one for each round, or equal. *)
CallsLand ==
  /\ op = "faded" => \A n \in Leds :
       /\ getBrightness(pVector[n]) = 0
       /\ pVector[n] \div Byte = before[n] \div Byte
  /\ op = "crossed" /\ steps > 0 => \A n \in Leds :
       /\ pVector[n] \div Byte = target[n] \div Byte
       /\ LET gap == Gap(getBrightness(before[n]), getBrightness(target[n]))
          IN  Gap(getBrightness(pVector[n]), getBrightness(target[n]))
                = IF gap > steps THEN gap - steps ELSE 0
===============================================================================
