------------------------------ MODULE PixelServer ------------------------------
(***************************************************************************)
(* wallypixel (src/src/wallypixel.cpp): the main thread shows the list     *)
(* every 200 ms and executes the line it finds in logStr; the listener     *)
(* puts each line it receives there (src/src/wallylistener.c 69). Nothing  *)
(* guards logStr: main reads it, frees it and clears it in separate steps. *)
(*                                                                         *)
(* Strings are named by the line they hold: 0 is no string, k the k-th     *)
(* line received, Text the copy that the command log makes of its argument.*)
(* "broken" stands for whatever follows an undefined step: a second free,  *)
(* a word written outside the list, a missing argument read.               *)
(***************************************************************************)
EXTENDS PixelList

CONSTANTS
  Requests,          \* lines clients may send
  MaxRequests        \* bound: lines received

Text == -1
Line == [cmd : {"setPixel", "clearlog", "log", "other", "missing"},
         led : Int, color : Int, brightness : Int]

ASSUME ServerAssumption == Requests \subseteq Line /\ MaxRequests \in Nat

VARIABLES
  main,              \* where the main thread is
  logStr, dangling,  \* the mailbox; the string it points to has been freed
  copy,              \* the line main executes
  received,          \* history: the lines the listener put into logStr
  executed,          \* history: the strings main copied and executed
  asked              \* history: the channels last asked of each LED, <<>> if none or odd

mailVars   == <<logStr, dangling, copy, received, executed>>
serverVars == <<main, logStr, dangling, copy, received, executed, asked>>
listVars   == <<pVector, wire>>

Runs == main \notin {"off", "start", "exit", "broken"}

ServerInit ==
  /\ main = "start" /\ logStr = 0 /\ dangling = FALSE /\ copy = 0
  /\ received = <<>> /\ executed = <<>>
  /\ asked = [n \in Leds |-> <<>>] /\ wire = Dark
  /\ pVector = [n \in Leds |->
       IF n = 0 THEN Word(0, 0, Byte - 1, Pixel0)
       ELSE IF n = 1 THEN Word(0, Digit - 1, Byte - Digit, Pixel0)
       ELSE IF n = 2 THEN Word(Byte - 1, 0, 0, Pixel0)
       ELSE Pixel0]

\* wallypixel.cpp 34-43: the bus is set up and the listener created, or the program ends.
Start ==
  /\ main = "start" /\ main' \in {"nap", "exit"}
  /\ UNCHANGED <<mailVars, asked, listVars>>

\* wallypixel.cpp 48-49.
Show ==
  /\ main = "nap" /\ main' = "test" /\ wire' = show(pVector)
  /\ UNCHANGED <<mailVars, asked, pVector>>

\* Defect: the test is the wrong way round.
TestBackwards == IF logStr = 0 THEN "copy" ELSE "nap"

\* wallypixel.cpp 51.
AfterTest == IF logStr = 0 THEN "nap" ELSE "copy"

Test ==
  /\ main = "test" /\ main' = AfterTest
  /\ UNCHANGED <<mailVars, asked, listVars>>

\* wallypixel.cpp 52: strdup reads logStr again, and the copy is executed.
Copy ==
  /\ main = "copy" /\ main' = "exec"
  /\ copy' = logStr /\ executed' = Append(executed, logStr)
  /\ UNCHANGED <<logStr, dangling, received, asked, listVars>>

Executes(c) == main = "exec" /\ copy \in DOMAIN received /\ received[copy].cmd = c

\* What a setPixel asks for, if its numbers fit their fields.
Channels(r) ==
  IF r.color \in 0 .. Byte * Byte * Byte - 1 /\ r.brightness \in Chan
  THEN <<r.color \div (Byte * Byte), (r.color \div Byte) % Byte, r.color % Byte, r.brightness>>
  ELSE <<>>

\* wallypixel.cpp 80-88: the LED is not checked (pixel.cpp 165-170).
CmdSetPixel ==
  /\ Executes("setPixel")
  /\ LET r == received[copy] IN
     \/ /\ r.led \in Leds /\ main' = "free"
        /\ pVector' = [pVector EXCEPT ![r.led] = Packed(r.color, r.brightness)]
        /\ asked' = [asked EXCEPT ![r.led] = Channels(r)]
     \/ /\ r.led \notin Leds /\ main' = "broken"
        /\ UNCHANGED <<pVector, asked>>
  /\ UNCHANGED <<mailVars, wire>>

\* wallypixel.cpp 89-93: the global string is freed, a local variable gets the new one.
CmdClearlog ==
  /\ Executes("clearlog")
  /\ IF dangling THEN main' = "broken" /\ UNCHANGED dangling
                 ELSE main' = "free" /\ dangling' = (logStr # 0)
  /\ UNCHANGED <<logStr, copy, received, executed, asked, listVars>>

\* wallypixel.cpp 95, then 96: the string is freed, and the text takes its place.
CmdLog ==
  /\ Executes("log")
  /\ IF dangling THEN main' = "broken" /\ UNCHANGED dangling
                 ELSE main' = "log" /\ dangling' = (logStr # 0)
  /\ UNCHANGED <<logStr, copy, received, executed, asked, listVars>>

LogText ==
  /\ main = "log" /\ main' = "free" /\ logStr' = Text /\ dangling' = FALSE
  /\ UNCHANGED <<copy, received, executed, asked, listVars>>

\* wallypixel.cpp 77-79, 99-116: rot, sleep, nice, a comment, no command.
CmdOther ==
  /\ Executes("other") /\ main' = "free"
  /\ UNCHANGED <<mailVars, asked, listVars>>

\* wallypixel.cpp 68-71, 81-85, 100-106: an empty line or a command without its
\* arguments reads a null pointer.
CmdMissing ==
  /\ Executes("missing") /\ main' = "broken"
  /\ UNCHANGED <<mailVars, asked, listVars>>

\* wallypixel.cpp 53: whatever logStr is by now is freed.
Free ==
  /\ main = "free"
  /\ IF dangling THEN main' = "broken" /\ UNCHANGED dangling
                 ELSE main' = "clear" /\ dangling' = (logStr # 0)
  /\ UNCHANGED <<logStr, copy, received, executed, asked, listVars>>

\* Defect: the string is freed and logStr keeps its address.
ClearForgotten ==
  /\ main = "clear" /\ main' = "nap"
  /\ UNCHANGED <<mailVars, asked, listVars>>

\* wallypixel.cpp 54.
Clear ==
  /\ main = "clear" /\ main' = "nap" /\ logStr' = 0 /\ dangling' = FALSE
  /\ UNCHANGED <<copy, received, executed, asked, listVars>>

MainNext ==
  \/ Start \/ Show \/ Test \/ Copy
  \/ CmdSetPixel \/ CmdClearlog \/ CmdLog \/ LogText \/ CmdOther \/ CmdMissing
  \/ Free \/ Clear

\* wallylistener.c 69: the old string is not freed.
Store ==
  /\ Runs /\ Len(received) < MaxRequests
  /\ \E r \in Requests : received' = Append(received, r)
  /\ logStr' = Len(received) + 1 /\ dangling' = FALSE
  /\ UNCHANGED <<main, copy, executed, asked, listVars>>

ServerNext == MainNext \/ Store

ServerSpec == ServerInit /\ [][ServerNext]_<<serverVars, listVars>>

ServerTypeOK ==
  /\ main \in {"off", "start", "exit", "broken", "nap", "test", "copy", "exec", "log",
               "free", "clear"}
  /\ logStr \in Text .. MaxRequests /\ dangling \in BOOLEAN
  /\ copy \in Text .. MaxRequests
  /\ received \in Seq(Requests) /\ executed \in Seq(Text .. MaxRequests)
  /\ asked \in [Leds -> Seq(Chan)]

(* The mailbox: every string main executes is a line that was received, each at most
   once and in the order of arrival, however the listener's writes fall between main's
   read, free and clear; and the program breaks only on a line that asks for it, by a
   clearlog (which main's own free follows), an LED outside the list or a missing
   argument. *)
InOrder ==
  \A i \in DOMAIN executed :
    /\ executed[i] \in DOMAIN received
    /\ i > 1 => executed[i - 1] < executed[i]

BreaksWhenAsked ==
  main = "broken" =>
    /\ copy \in DOMAIN received
    /\ \/ received[copy].cmd \in {"clearlog", "missing"}
       \/ received[copy].cmd = "setPixel" /\ received[copy].led \notin Leds

MailSafe == InOrder /\ BreaksWhenAsked

(* After each show the strip has been sent, for every LED that a setPixel whose
   numbers fit their fields was the last to set, exactly the red, green and blue
   asked for, and the brightness in the five bits the strip takes. *)
FrameOf(c) == <<Byte - Glow + (c[4] % Glow), c[3], c[2], c[1]>>

StripShown ==
  main \in {"test", "copy", "exec"} =>
    \A n \in Leds : asked[n] # <<>> => wire[n] = FrameOf(asked[n])

(* A line that reaches the mailbox before main has tested and copied it is executed,
   unless a later line replaces it: main never passes a line by. (A line that comes
   between main's execution of another and the clearing of the mailbox is lost.) *)
Before == main \in {"nap", "test", "copy"}

Served ==
  \A k \in 1 .. MaxRequests :
    (logStr = k /\ Before) ~>
      (\/ \E i \in DOMAIN executed : executed[i] = k
       \/ Len(received) > k
       \/ main = "broken")
===============================================================================
