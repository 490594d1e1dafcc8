------------------------------ MODULE PixelProofs ------------------------------
(***************************************************************************)
(* What holds of pixel lists for every width of a byte, every strip and    *)
(* every line or call: the strip shows what was asked for (StripShows),    *)
(* the mailbox keeps the order of the lines and breaks only when asked     *)
(* (MailIsSafe), calls land where they should (CallsLandAlways), and words *)
(* keep their width (WordsKeepWidth).                                      *)
(***************************************************************************)
EXTENDS MCPixel, TLAPS

(***************************************************************************)
(* Words and bytes                                                         *)
(***************************************************************************)
LEMMA DivMod ==
  ASSUME NEW k \in Nat \ {0}, NEW q \in Int, NEW r \in 0 .. k - 1
  PROVE  (q * k + r) \div k = q /\ (q * k + r) % k = r
OBVIOUS

LEMMA Parts ==
  ASSUME NEW k \in Nat \ {0}, NEW n \in Int
  PROVE  n \div k \in Int /\ n % k \in 0 .. k - 1 /\ n = (n \div k) * k + (n % k)
OBVIOUS

LEMMA ByteIsNat == Byte \in Nat /\ Byte > 3 /\ Byte * Byte \in Nat \ {0}
<1>1. Digit \in Nat /\ Digit > 1
  BY PixelAssumption
<1>2. Digit * Digit \in Nat /\ Digit * Digit > 3
  BY <1>1
<1>3. Byte \in Nat /\ Byte > 3
  BY <1>2 DEF Byte
<1> QED BY <1>3

(* Two digits below k and one above them make one digit below k * k. *)
LEMMA TwoDigits ==
  ASSUME NEW k \in Nat \ {0}, NEW a \in 0 .. k - 1, NEW b \in 0 .. k - 1
  PROVE  a * k + b \in 0 .. k * k - 1
<1>1. a * k <= (k - 1) * k
  OBVIOUS
<1>2. (k - 1) * k = k * k - k
  OBVIOUS
<1>3. a * k >= 0 /\ a * k \in Int /\ k * k \in Int
  OBVIOUS
<1> QED BY <1>1, <1>2, <1>3

LEMMA MoreDigits ==
  ASSUME NEW m \in Nat \ {0}, NEW k \in Nat \ {0}, NEW a \in 0 .. m - 1, NEW b \in 0 .. k - 1
  PROVE  a * k + b \in 0 .. m * k - 1
<1>1. a * k <= (m - 1) * k
  OBVIOUS
<1>2. (m - 1) * k = m * k - k
  OBVIOUS
<1>3. a * k >= 0 /\ a * k \in Int /\ m * k \in Int
  OBVIOUS
<1> QED BY <1>1, <1>2, <1>3

(* What is above the last digit of a number of bounded width. *)
LEMMA FewerDigits ==
  ASSUME NEW m \in Nat \ {0}, NEW k \in Nat \ {0}, NEW n \in 0 .. m * k - 1
  PROVE  n \div k \in 0 .. m - 1
<1> DEFINE q == n \div k
           t == n % k
<1>1. q \in Int /\ t \in 0 .. k - 1 /\ n = q * k + t /\ n \in Int /\ m * k \in Int
  BY Parts
<1> HIDE DEF q, t
<1>2. q >= 0
  <2> SUFFICES ASSUME q <= -1 PROVE FALSE
    BY <1>1
  <2>1. q * k <= -k
    BY <1>1
  <2> QED BY <1>1, <2>1
<1>3. q <= m - 1
  <2> SUFFICES ASSUME q >= m PROVE FALSE
    BY <1>1
  <2>1. q * k >= m * k
    BY <1>1
  <2> QED BY <1>1, <2>1
<1> QED BY <1>1, <1>2, <1>3 DEF q

LEMMA WordFields ==
  ASSUME NEW r \in Chan, NEW g \in Chan, NEW b \in Chan, NEW br \in Chan
  PROVE  /\ Red(Word(r, g, b, br)) = r
         /\ Green(Word(r, g, b, br)) = g
         /\ Blue(Word(r, g, b, br)) = b
         /\ Word(r, g, b, br) % Byte = br
<1> DEFINE B == Byte
           w == Word(r, g, b, br)
<1>1. B \in Nat \ {0} /\ B * B \in Nat \ {0} /\ B * B * B \in Nat \ {0}
  <2>1. B \in Nat /\ B > 3 /\ B * B \in Nat \ {0}
    BY ByteIsNat
  <2> HIDE DEF B
  <2> QED BY <2>1
<1>2. r \in 0 .. B - 1 /\ g \in 0 .. B - 1 /\ b \in 0 .. B - 1 /\ br \in 0 .. B - 1
  BY DEF Chan
<1>3. w = ((r * B + g) * B + b) * B + br
  BY DEF Word
<1> HIDE DEF B, w
<1>4. b * B + br \in 0 .. B * B - 1 /\ g * B + b \in 0 .. B * B - 1
  BY <1>1, <1>2, TwoDigits
<1>5. w \div B = (r * B + g) * B + b /\ w % B = br
  <2>1. (r * B + g) * B + b \in Int
    BY <1>1, <1>2
  <2> QED BY <1>1, <1>2, <1>3, <2>1, DivMod
<1>6. w \div (B * B) = r * B + g
  <2>1. w = (r * B + g) * (B * B) + (b * B + br)
    BY <1>1, <1>2, <1>3
  <2>2. r * B + g \in Int
    BY <1>1, <1>2
  <2> QED BY <1>1, <1>4, <2>1, <2>2, DivMod
<1>7. w \div (B * B * B) = r
  <2>1. (g * B + b) * B + br \in 0 .. B * B * B - 1
    <3>1. (g * B + b) * B <= (B * B - 1) * B
      BY <1>1, <1>4
    <3>2. (B * B - 1) * B = B * B * B - B
      BY <1>1
    <3>3. (g * B + b) * B \in Int /\ (g * B + b) * B >= 0
      BY <1>1, <1>4
    <3> QED BY <1>1, <1>2, <3>1, <3>2, <3>3
  <2>2. w = r * (B * B * B) + ((g * B + b) * B + br)
    BY <1>1, <1>2, <1>3
  <2> DEFINE M == B * B * B
             t == (g * B + b) * B + br
  <2>3. M \in Nat \ {0} /\ t \in 0 .. M - 1 /\ w = r * M + t /\ r \in Int
    BY <1>1, <1>2, <2>1, <2>2
  <2>4. w \div M = r
    <3> HIDE DEF M, t
    <3> QED BY <2>3, DivMod
  <2> QED BY <2>4
<1>8. (w \div (B * B)) % B = g
  BY <1>1, <1>2, <1>6, DivMod
<1>9. (w \div B) % B = b
  <2>1. r * B + g \in Int
    BY <1>1, <1>2
  <2> QED BY <1>1, <1>2, <1>5, <2>1, DivMod
<1> QED BY <1>5, <1>7, <1>8, <1>9 DEF B, w, Red, Green, Blue

(* A divisor of a byte sees only the last byte of a word. *)
LEMMA LastByte ==
  ASSUME NEW k \in Nat \ {0}, Byte % k = 0, NEW q \in Int, NEW br \in Chan
  PROVE  (q * Byte + br) % k = br % k
<1> DEFINE B == Byte
           m == B \div k
           p == br \div k
<1>1. B \in Nat /\ B % k = 0 /\ br \in Int
  BY ByteIsNat DEF Chan
<1> HIDE DEF B
<1>2. B = m * k /\ m \in Int
  BY <1>1, Parts
<1>3. br = p * k + (br % k) /\ p \in Int /\ br % k \in 0 .. k - 1
  BY <1>1, Parts
<1> HIDE DEF m, p
<1>4. q * B + br = (q * m + p) * k + (br % k)
  <2>1. q * B = (q * m) * k
    BY <1>2
  <2>2. (q * m + p) * k = (q * m) * k + p * k
    BY <1>2, <1>3
  <2>3. (q * m) * k \in Int /\ p * k \in Int
    BY <1>2, <1>3
  <2> QED BY <1>3, <2>1, <2>2, <2>3
<1>5. q * m + p \in Int
  BY <1>2, <1>3
<1>6. (q * B + br) % k = br % k
  <2> DEFINE s == q * m + p
             t == br % k
  <2>1. q * B + br = s * k + t /\ s \in Int /\ t \in 0 .. k - 1
    BY <1>3, <1>4, <1>5
  <2> HIDE DEF s, t
  <2>2. (s * k + t) % k = t
    BY <2>1, DivMod
  <2>3. (q * B + br) % k = t
    BY <2>1, <2>2
  <2> QED BY <2>3 DEF t
<1> QED BY <1>6 DEF B

(* A word of four channels is sent as those channels, blue first. *)
LEMMA FrameOfWord ==
  ASSUME NEW r \in Chan, NEW g \in Chan, NEW b \in Chan, NEW br \in Chan
  PROVE  Frame(Word(r, g, b, br)) = FrameOf(<<r, g, b, br>>)
<1>1. Word(r, g, b, br) % Glow = br % Glow
  <2> DEFINE q == (r * Byte + g) * Byte + b
  <2>1. q \in Int
    BY ByteIsNat DEF Chan
  <2>2. Glow \in Nat \ {0} /\ Byte % Glow = 0
    BY PixelAssumption
  <2>3. (q * Byte + br) % Glow = br % Glow
    <3> HIDE DEF q
    <3> QED BY <2>1, <2>2, LastByte
  <2> QED BY <2>3 DEF Word
<1> QED BY <1>1, WordFields DEF Frame, FrameOf

(* A setPixel whose numbers fit their fields stores the word of its channels. *)
LEMMA PackedChannels ==
  ASSUME NEW req \in Line, Channels(req) # <<>>
  PROVE  \E r, g, b, br \in Chan :
           /\ Channels(req) = <<r, g, b, br>>
           /\ Packed(req.color, req.brightness) = Word(r, g, b, br)
<1> DEFINE B == Byte
           c == req.color
           br == req.brightness
           r == c \div (B * B)
           g == (c \div B) % B
           b == c % B
<1>1. c \in 0 .. B * B * B - 1 /\ br \in Chan /\ Channels(req) = <<r, g, b, br>>
  BY DEF Channels
<1>2. B \in Nat /\ B > 3 /\ B * B \in Nat \ {0} /\ Chan = 0 .. B - 1
  BY ByteIsNat DEF Chan
<1>3. Packed(c, br) = (c * B + br) % (B * B * B * B)
  BY DEF Packed
<1>4. Word(r, g, b, br) = ((r * B + g) * B + b) * B + br
  BY DEF Word
<1> HIDE DEF B, c, br
<1>5. c \in Int /\ B \in Nat \ {0}
  BY <1>1, <1>2
<1>6. c = (c \div B) * B + b /\ c \div B \in Int /\ b \in 0 .. B - 1
  BY <1>5, Parts
<1>7. c \div B = ((c \div B) \div B) * B + g /\ (c \div B) \div B \in Int /\ g \in 0 .. B - 1
  BY <1>5, <1>6, Parts
<1>8. r = (c \div B) \div B
  <2> DEFINE h == (c \div B) \div B
  <2>1. h \in Int /\ g * B + b \in 0 .. B * B - 1
    BY <1>5, <1>6, <1>7, TwoDigits
  <2>2. c = h * (B * B) + (g * B + b)
    <3> HIDE DEF b, g
    <3> DEFINE e == c \div B
    <3>1. e = h * B + g /\ c = e * B + b /\ e \in Int /\ g \in Int /\ b \in Int /\ h \in Int
      BY <1>6, <1>7, <2>1
    <3> HIDE DEF e, h
    <3> QED BY <3>1, <1>5
  <2> HIDE DEF h, g, b
  <2>3. (h * (B * B) + (g * B + b)) \div (B * B) = h
    BY <1>2, <2>1, DivMod
  <2> QED BY <2>2, <2>3 DEF h
<1>9. c = (r * B + g) * B + b
  BY <1>6, <1>7, <1>8
<1>10. r \in 0 .. B - 1
  <2>1. c \in 0 .. B * (B * B) - 1
    <3>1. B * (B * B) = B * B * B
      BY <1>2
    <3> QED BY <1>1, <3>1
  <2> QED BY <1>2, <1>5, <2>1, FewerDigits
<1>11. Packed(c, br) = c * B + br
  <2> DEFINE M == B * B * B
  <2>1. M \in Nat /\ c \in 0 .. M - 1 /\ br \in 0 .. B - 1
    BY <1>1, <1>2
  <2>2. B * B * B * B = M * B
    OBVIOUS
  <2> HIDE DEF M
  <2>3. c * B <= (M - 1) * B /\ c * B \in Int /\ c * B >= 0
    BY <1>2, <2>1
  <2>4. (M - 1) * B = M * B - B
    BY <1>2, <2>1
  <2>5. c * B + br \in 0 .. M * B - 1 /\ M * B \in Nat \ {0}
    BY <1>2, <2>1, <2>3, <2>4
  <2>6. (c * B + br) % (M * B) = c * B + br
    BY <2>5
  <2> QED BY <1>3, <2>2, <2>6
<1>12. r \in Chan /\ g \in Chan /\ b \in Chan /\ br \in Chan
  BY <1>1, <1>2, <1>6, <1>7, <1>10
<1>13. Packed(c, br) = Word(r, g, b, br)
  BY <1>4, <1>9, <1>11
<1> HIDE DEF r, g, b
<1> QED BY <1>1, <1>12, <1>13 DEF c, br

(***************************************************************************)
(* The strip shows what was asked for                                      *)
(*                                                                         *)
(* StripShown is not inductive: it says nothing while main changes the     *)
(* list. What lasts is that each LED's word holds the channels last asked  *)
(* of it, and that the strip shows the list from each show to the next     *)
(* command.                                                                *)
(***************************************************************************)
Held(n) == \E r, g, b, br \in Chan : asked[n] = <<r, g, b, br>> /\ pVector[n] = Word(r, g, b, br)

Lists0 == pVector = [n \in Leds |-> pVector[n]] /\ asked = [n \in Leds |-> asked[n]]
Holds  == \A n \in Leds : asked[n] # <<>> => Held(n)
Seen   == main \in {"test", "copy", "exec"} => wire = show(pVector)

StripInv == received \in Seq(Requests) /\ Lists0 /\ Holds /\ Seen

LEMMA StripInit == ServerInit => StripInv
  BY DEF ServerInit, StripInv, Lists0, Holds, Seen

(* A step that leaves the lists alone, and gets to where they show from nowhere else. *)
LEMMA StripQuiet ==
  ASSUME StripInv, UNCHANGED <<asked, listVars>>, received' \in Seq(Requests),
         main' \in {"test", "copy", "exec"} => main \in {"test", "copy", "exec"}
  PROVE  StripInv'
  BY DEF StripInv, Lists0, Holds, Held, Seen, listVars, show

LEMMA StripShow == StripInv /\ Show => StripInv'
  BY DEF StripInv, Lists0, Holds, Held, Seen, Show, mailVars, show

LEMMA StripSet == StripInv /\ CmdSetPixel => StripInv'
<1> SUFFICES ASSUME StripInv, CmdSetPixel PROVE StripInv'
  OBVIOUS
<1> DEFINE req == received[copy]
<1>1. received' = received /\ received \in Seq(Requests)
  BY DEF StripInv, CmdSetPixel, mailVars
<1>2. req \in Line
  <2>1. copy \in DOMAIN received
    BY DEF CmdSetPixel, Executes
  <2>2. received[copy] \in Requests
    BY <1>1, <2>1
  <2> QED BY <2>2, ServerAssumption
<1>3. main' \notin {"test", "copy", "exec"}
  BY DEF CmdSetPixel
<1>4. CASE req.led \notin Leds
  <2>1. UNCHANGED <<asked, listVars>>
    BY <1>4 DEF CmdSetPixel, listVars
  <2> QED BY <1>1, <1>3, <2>1, StripQuiet
<1>5. CASE req.led \in Leds
  <2>1. /\ pVector' = [pVector EXCEPT ![req.led] = Packed(req.color, req.brightness)]
        /\ asked' = [asked EXCEPT ![req.led] = Channels(req)]
    BY <1>5 DEF CmdSetPixel
  <2> HIDE DEF req
  <2>2. Lists0'
    BY <2>1 DEF StripInv, Lists0
  <2>3. ASSUME NEW n \in Leds, asked'[n] # <<>> PROVE Held(n)'
    <3>1. CASE n = req.led
      <4>1. /\ pVector'[n] = Packed(req.color, req.brightness)
            /\ asked'[n] = Channels(req)
        BY <2>1, <3>1 DEF StripInv, Lists0
      <4>2. Channels(req) # <<>>
        BY <2>3, <4>1
      <4> QED BY <1>2, <4>1, <4>2, PackedChannels DEF Held
    <3>2. CASE n # req.led
      <4>1. pVector'[n] = pVector[n] /\ asked'[n] = asked[n]
        BY <2>1, <3>2 DEF StripInv, Lists0
      <4>2. Held(n)
        BY <2>3, <4>1 DEF StripInv, Holds
      <4> QED BY <4>1, <4>2 DEF Held
    <3> QED BY <3>1, <3>2
  <2>4. Holds'
    BY <2>3 DEF Holds
  <2> QED BY <1>1, <1>3, <2>2, <2>4 DEF StripInv, Seen
<1> QED BY <1>4, <1>5

LEMMA StripStep == StripInv /\ [ServerNext]_<<serverVars, listVars>> => StripInv'
<1> SUFFICES ASSUME StripInv, [ServerNext]_<<serverVars, listVars>> PROVE StripInv'
  OBVIOUS
<1>1. received \in Seq(Requests)
  BY DEF StripInv
<1>2. CASE Start
  BY <1>1, <1>2, StripQuiet DEF Start, mailVars
<1>3. CASE Show
  BY <1>3, StripShow
<1>4. CASE Test
  BY <1>1, <1>4, StripQuiet DEF Test, mailVars
<1>5. CASE Copy
  BY <1>1, <1>5, StripQuiet DEF Copy
<1>6. CASE CmdSetPixel
  BY <1>6, StripSet
<1>7. CASE CmdClearlog
  BY <1>1, <1>7, StripQuiet DEF CmdClearlog
<1>8. CASE CmdLog
  BY <1>1, <1>8, StripQuiet DEF CmdLog
<1>9. CASE LogText
  BY <1>1, <1>9, StripQuiet DEF LogText
<1>10. CASE CmdOther
  BY <1>1, <1>10, StripQuiet DEF CmdOther, mailVars
<1>11. CASE CmdMissing
  BY <1>1, <1>11, StripQuiet DEF CmdMissing, mailVars
<1>12. CASE Free
  BY <1>1, <1>12, StripQuiet DEF Free
<1>13. CASE Clear
  BY <1>1, <1>13, StripQuiet DEF Clear
<1>14. CASE Store
  <2>1. received' \in Seq(Requests)
    BY <1>1, <1>14 DEF Store
  <2> QED BY <1>14, <2>1, StripQuiet DEF Store
<1>15. CASE UNCHANGED <<serverVars, listVars>>
  BY <1>1, <1>15, StripQuiet DEF serverVars
<1> QED BY <1>2, <1>3, <1>4, <1>5, <1>6, <1>7, <1>8, <1>9, <1>10, <1>11, <1>12, <1>13,
           <1>14, <1>15 DEF ServerNext, MainNext

LEMMA StripShownHolds == StripInv => StripShown
<1> SUFFICES ASSUME StripInv, main \in {"test", "copy", "exec"},
                    NEW n \in Leds, asked[n] # <<>>
             PROVE  wire[n] = FrameOf(asked[n])
  BY DEF StripShown
<1>1. wire[n] = Frame(pVector[n])
  BY DEF StripInv, Seen, show
<1>2. PICK r \in Chan, g \in Chan, b \in Chan, br \in Chan :
        asked[n] = <<r, g, b, br>> /\ pVector[n] = Word(r, g, b, br)
  BY DEF StripInv, Holds, Held
<1> QED BY <1>1, <1>2, FrameOfWord

(* wallypixel: for every width of a byte, every strip and all lines, what the strip
   shows after a show is what the last setPixel of each LED asked for. *)
THEOREM StripShows == ServerSpec => []StripShown
<1>1. ServerInit => StripInv
  BY StripInit
<1>2. StripInv /\ [ServerNext]_<<serverVars, listVars>> => StripInv'
  BY StripStep
<1>3. StripInv => StripShown
  BY StripShownHolds
<1> QED BY <1>1, <1>2, <1>3, PTL DEF ServerSpec

(***************************************************************************)
(* The mailbox                                                             *)
(*                                                                         *)
(* MailSafe rests on what logStr holds at each place of the main thread:   *)
(* up to the copy a line newer than all executed and not freed, then       *)
(* anything, freed by main itself only where main then replaces it.        *)
(***************************************************************************)
Typed ==
  /\ received \in Seq(Requests) /\ executed \in Seq(Int)
  /\ logStr \in Int /\ logStr <= Len(received)

Quiet == main \in {"start", "nap", "test", "copy"}

Newer ==
  Quiet =>
    /\ logStr >= 0
    /\ logStr > 0 => \A i \in DOMAIN executed : executed[i] < logStr
    /\ main = "copy" => logStr > 0

InHand == main \in {"exec", "log", "free"} => copy \in DOMAIN received

Freed ==
  dangling =>
    /\ ~Quiet /\ main # "exec"
    /\ main = "free" => received[copy].cmd = "clearlog"

MailInv == Typed /\ Newer /\ InHand /\ Freed /\ InOrder /\ BreaksWhenAsked

LEMMA MailInit == ServerInit => MailInv
  BY DEF ServerInit, MailInv, Typed, Newer, InHand, Freed, InOrder, BreaksWhenAsked, Quiet

LEMMA MailCopy == MailInv /\ Copy => MailInv'
<1> SUFFICES ASSUME MailInv, Copy PROVE MailInv'
  OBVIOUS
<1>1. /\ logStr > 0 /\ logStr \in Int /\ logStr <= Len(received) /\ ~dangling
      /\ \A i \in DOMAIN executed : executed[i] < logStr
      /\ executed \in Seq(Int) /\ received \in Seq(Requests)
  BY DEF MailInv, Typed, Newer, Freed, Quiet, Copy
<1>2. /\ main' = "exec" /\ copy' = logStr /\ executed' = Append(executed, logStr)
      /\ UNCHANGED <<logStr, dangling, received>>
  BY DEF Copy
<1>3. executed' \in Seq(Int) /\ logStr \in DOMAIN received
  BY <1>1, <1>2
<1>4. InOrder'
  <2> SUFFICES ASSUME NEW i \in DOMAIN executed'
               PROVE  /\ executed'[i] \in DOMAIN received
                      /\ i > 1 => executed'[i - 1] < executed'[i]
    BY <1>2 DEF InOrder
  <2>1. CASE i = Len(executed) + 1
    BY <1>1, <1>2, <1>3, <2>1
  <2>2. CASE i # Len(executed) + 1
    <3>1. i \in 1 .. Len(executed) /\ executed'[i] = executed[i]
      BY <1>1, <1>2, <2>2
    <3>2. i > 1 => executed'[i - 1] = executed[i - 1]
      BY <1>1, <1>2, <3>1
    <3> QED BY <1>1, <3>1, <3>2 DEF MailInv, InOrder
  <2> QED BY <2>1, <2>2
<1> QED BY <1>1, <1>2, <1>3, <1>4
        DEF MailInv, Typed, Newer, InHand, Freed, BreaksWhenAsked, Quiet

LEMMA MailStore == MailInv /\ Store => MailInv'
<1> SUFFICES ASSUME MailInv, Store PROVE MailInv'
  OBVIOUS
<1>1. PICK r \in Requests : received' = Append(received, r)
  BY DEF Store
<1>2. /\ received \in Seq(Requests) /\ executed \in Seq(Int)
      /\ logStr' = Len(received) + 1 /\ ~dangling' /\ main \notin {"broken", "start"}
      /\ UNCHANGED <<main, copy, executed>>
  BY DEF MailInv, Typed, Store, Runs
<1>3. /\ received' \in Seq(Requests) /\ Len(received') = Len(received) + 1
      /\ \A k \in DOMAIN received : k \in DOMAIN received' /\ received'[k] = received[k]
  BY <1>1, <1>2
<1>4. \A i \in DOMAIN executed : executed[i] \in DOMAIN received /\ executed[i] <= Len(received)
  BY <1>2 DEF MailInv, InOrder
<1>5. Typed'
  BY <1>2, <1>3 DEF Typed
<1>6. Newer'
  BY <1>2, <1>4 DEF Newer, Quiet
<1>7. InHand' /\ Freed'
  BY <1>2, <1>3 DEF MailInv, InHand, Freed, Quiet
<1>8. InOrder'
  BY <1>2, <1>3 DEF MailInv, InOrder
<1>9. BreaksWhenAsked'
  BY <1>2 DEF BreaksWhenAsked
<1> QED BY <1>5, <1>6, <1>7, <1>8, <1>9 DEF MailInv

(* The steps of a command, and of what main does after it. *)
LEMMA MailCommand ==
  ASSUME MailInv, CmdSetPixel \/ CmdClearlog \/ CmdLog \/ LogText \/ CmdOther \/ CmdMissing
  PROVE  MailInv'
<1>1. UNCHANGED <<copy, received, executed>>
  BY DEF CmdSetPixel, CmdClearlog, CmdLog, LogText, CmdOther, CmdMissing, mailVars
<1>2. copy \in DOMAIN received /\ (main = "exec" => ~dangling)
  BY DEF MailInv, InHand, Freed, CmdSetPixel, CmdClearlog, CmdLog, LogText, CmdOther,
         CmdMissing, Executes
<1>3. InOrder' /\ InHand'
  BY <1>1, <1>2 DEF MailInv, InOrder, InHand
<1>4. main' \in {"free", "log", "broken"}
  BY DEF CmdSetPixel, CmdClearlog, CmdLog, LogText, CmdOther, CmdMissing
<1>5. Newer'
  BY <1>4 DEF Newer, Quiet
<1>6. CASE CmdSetPixel
  BY <1>1, <1>2, <1>3, <1>4, <1>5, <1>6
     DEF MailInv, CmdSetPixel, Executes, Typed, Freed, BreaksWhenAsked, Quiet, mailVars
<1>7. CASE CmdClearlog
  BY <1>1, <1>2, <1>3, <1>4, <1>5, <1>7
     DEF MailInv, CmdClearlog, Executes, Typed, Freed, BreaksWhenAsked, Quiet
<1>8. CASE CmdLog
  BY <1>1, <1>2, <1>3, <1>4, <1>5, <1>8
     DEF MailInv, CmdLog, Executes, Typed, Freed, BreaksWhenAsked, Quiet
<1>9. CASE LogText
  BY <1>1, <1>2, <1>3, <1>4, <1>5, <1>9
     DEF MailInv, LogText, Typed, Freed, BreaksWhenAsked, Quiet, Text
<1>10. CASE CmdOther \/ CmdMissing
  BY <1>1, <1>2, <1>3, <1>4, <1>5, <1>10
     DEF MailInv, CmdOther, CmdMissing, Executes, Typed, Freed, BreaksWhenAsked, Quiet, mailVars
<1> QED BY <1>6, <1>7, <1>8, <1>9, <1>10

LEMMA MailStep == MailInv /\ [ServerNext]_<<serverVars, listVars>> => MailInv'
<1> SUFFICES ASSUME MailInv, [ServerNext]_<<serverVars, listVars>> PROVE MailInv'
  OBVIOUS
<1> USE DEF MailInv, Typed, Newer, InHand, Freed, InOrder, BreaksWhenAsked, Quiet
<1>1. CASE Start
  BY <1>1 DEF Start, mailVars
<1>2. CASE Show
  BY <1>2 DEF Show, mailVars
<1>3. CASE Test
  BY <1>3 DEF Test, AfterTest, mailVars
<1>4. CASE Copy
  BY <1>4, MailCopy
<1>5. CASE CmdSetPixel \/ CmdClearlog \/ CmdLog \/ LogText \/ CmdOther \/ CmdMissing
  BY <1>5, MailCommand
<1>6. CASE Free
  BY <1>6 DEF Free
<1>7. CASE Clear
  BY <1>7 DEF Clear
<1>8. CASE Store
  BY <1>8, MailStore
<1>9. CASE UNCHANGED <<serverVars, listVars>>
  BY <1>9 DEF serverVars
<1> QED BY <1>1, <1>2, <1>3, <1>4, <1>5, <1>6, <1>7, <1>8, <1>9 DEF ServerNext, MainNext

(* wallypixel: however the listener's writes fall between main's steps, lines are
   executed at most once and in order, and only the lines that ask for it break the
   program. *)
THEOREM MailIsSafe == ServerSpec => []MailSafe
<1>1. ServerInit => MailInv
  BY MailInit
<1>2. MailInv /\ [ServerNext]_<<serverVars, listVars>> => MailInv'
  BY MailStep
<1>3. MailInv => MailSafe
  BY DEF MailInv, MailSafe
<1> QED BY <1>1, <1>2, <1>3, PTL DEF ServerSpec

(***************************************************************************)
(* Calls land where they should                                            *)
(***************************************************************************)
LEMMA DimFacts == Dim \in Nat \ {0} /\ Byte % Dim = 0 /\ Dim <= Byte
<1> DEFINE B == Byte
           m == B \div Glow
           p == Glow \div Dim
<1>1. B \in Nat /\ B > 3 /\ B % Glow = 0
  BY ByteIsNat, PixelAssumption
<1>2. Glow \in Nat \ {0} /\ Dim \in Nat \ {0} /\ Glow % Dim = 0
  BY PixelAssumption
<1> HIDE DEF B
<1>3. B = m * Glow /\ m \in Int
  BY <1>1, <1>2, Parts
<1>4. Glow = p * Dim /\ p \in Int
  BY <1>2, Parts
<1> HIDE DEF m, p
<1>5. B = (m * p) * Dim /\ m * p \in Int
  BY <1>2, <1>3, <1>4
<1> DEFINE h == m * p
<1>6. B = h * Dim + 0 /\ h \in Int /\ 0 \in 0 .. Dim - 1
  BY <1>2, <1>5
<1> HIDE DEF h
<1>7. B % Dim = 0
  <2>1. (h * Dim + 0) % Dim = 0
    BY <1>2, <1>6, DivMod
  <2> QED BY <1>6, <2>1
<1>8. Dim <= B
  <2> SUFFICES ASSUME Dim > B PROVE FALSE
    BY <1>1, <1>2
  <2>1. B \in 0 .. Dim - 1
    BY <1>1, <1>2
  <2>2. B % Dim = B
    BY <1>2, <2>1
  <2> QED BY <1>1, <1>7, <2>2
<1> QED BY <1>2, <1>7, <1>8 DEF B

Top(r, g, b) == (r * Byte + g) * Byte + b

(* What Word puts on top of the last byte, and below it. *)
LEMMA WordTop ==
  ASSUME NEW r \in Int, NEW g \in Int, NEW b \in Int, NEW br \in 0 .. Dim - 1
  PROVE  /\ Word(r, g, b, br) \in Int
         /\ Word(r, g, b, br) \div Byte = Top(r, g, b)
         /\ getBrightness(Word(r, g, b, br)) = br
<1> DEFINE q == (r * Byte + g) * Byte + b
<1>1. Byte \in Nat \ {0} /\ q \in Int
  BY ByteIsNat
<1>2. br \in Chan /\ br \in 0 .. Byte - 1 /\ br \in Int
  BY ByteIsNat, DimFacts DEF Chan
<1>3. Word(r, g, b, br) = q * Byte + br
  BY DEF Word
<1> HIDE DEF q
<1>4. q * Byte + br \in Int /\ (q * Byte + br) \div Byte = q
  BY <1>1, <1>2, DivMod
<1>5. (q * Byte + br) % Dim = br % Dim
  BY <1>1, <1>2, DimFacts, LastByte
<1>6. br % Dim = br
  BY DimFacts
<1> QED BY <1>3, <1>4, <1>5, <1>6 DEF q, getBrightness, Top

(* The three fields of a colour are the digits of the word's upper part. *)
LEMMA TopFields ==
  ASSUME NEW o \in Int
  PROVE  /\ Red(o) \in Int /\ Green(o) \in Int /\ Blue(o) \in Int
         /\ o \div Byte = Top(Red(o), Green(o), Blue(o))
<1> DEFINE B == Byte
           e == o \div B
           f == e \div B
           h == f \div B
           t == o % B
           b == e % B
           g == f % B
<1>1. B \in Nat \ {0} /\ B * B \in Nat \ {0} /\ B * B * B \in Nat \ {0}
  <2>1. B \in Nat /\ B > 3
    BY ByteIsNat
  <2> HIDE DEF B
  <2> QED BY <2>1
<1> HIDE DEF B
<1>2. o = e * B + t /\ e \in Int /\ t \in 0 .. B - 1
  BY <1>1, Parts
<1> HIDE DEF e, t
<1>3. e = f * B + b /\ f \in Int /\ b \in 0 .. B - 1
  BY <1>1, <1>2, Parts
<1> HIDE DEF f, b
<1>4. f = h * B + g /\ h \in Int /\ g \in 0 .. B - 1
  BY <1>1, <1>3, Parts
<1> HIDE DEF h, g
<1>5. o \div (B * B) = f
  <2> DEFINE M == B * B
             u == b * B + t
  <2>1. o = f * M + u
    BY <1>1, <1>2, <1>3
  <2>2. u \in 0 .. M - 1 /\ M \in Nat \ {0}
    BY <1>1, <1>2, <1>3, TwoDigits
  <2> HIDE DEF M, u
  <2>3. o \div M = f
    BY <1>3, <2>1, <2>2, DivMod
  <2> QED BY <2>3 DEF M
<1>6. o \div (B * B * B) = h
  <2> DEFINE M == B * B
             u == b * B + t
             N == B * B * B
             v == g * M + u
  <2>1. u \in 0 .. M - 1 /\ M \in Nat \ {0} /\ N = B * M /\ N \in Nat \ {0}
    BY <1>1, <1>2, <1>3, TwoDigits
  <2>2. o = f * M + u
    BY <1>1, <1>2, <1>3
  <2>3. f * M = h * N + g * M
    <3>1. (h * B + g) * M = (h * B) * M + g * M
      BY <1>1, <1>4
    <3>2. (h * B) * M = h * N
      BY <1>1, <1>4
    <3> QED BY <1>4, <3>1, <3>2
  <2>4. v \in 0 .. N - 1
    <3> HIDE DEF M, u, N
    <3>1. g * M <= (B - 1) * M /\ g * M >= 0 /\ g * M \in Int
      BY <1>1, <1>4, <2>1
    <3>2. (B - 1) * M = N - M
      BY <1>1, <2>1
    <3> QED BY <2>1, <3>1, <3>2
  <2>5. o = h * N + v
    <3> HIDE DEF M, N, u
    <3>1. h * N \in Int /\ g * M \in Int /\ f * M \in Int
      BY <1>1, <1>3, <1>4, <2>1
    <3> QED BY <2>1, <2>2, <2>3, <3>1
  <2> HIDE DEF M, N, u, v
  <2>6. o \div N = h
    BY <1>4, <2>1, <2>4, <2>5, DivMod
  <2> QED BY <2>6 DEF N
<1>7. e = (h * B + g) * B + b
  BY <1>3, <1>4
<1>8. Red(o) = h /\ Green(o) = g /\ Blue(o) = b
  BY <1>5, <1>6 DEF Red, Green, Blue, B, e, b, g, f
<1> QED BY <1>3, <1>4, <1>7, <1>8 DEF B, e, Top

(* The last step of a crossfade goes all the way. *)
LEMMA TowardLast ==
  ASSUME NEW a \in Int, NEW b \in Int PROVE Toward(a, b, 1) = b
  BY DEF Toward

LEMMA TowardIsInt ==
  ASSUME NEW a \in Int, NEW b \in Int, NEW k \in Nat \ {0} PROVE Toward(a, b, k) \in Int
<1>1. a * k - (a - b) \in Int /\ a * k + (b - a) \in Int
  OBVIOUS
<1> QED BY <1>1, Parts DEF Toward

LEMMA BrightRange == ASSUME NEW w \in Int PROVE getBrightness(w) \in 0 .. Dim - 1
  BY DimFacts, Parts DEF getBrightness

LEMMA NearerRange ==
  ASSUME NEW a \in 0 .. Dim - 1, NEW b \in 0 .. Dim - 1
  PROVE  /\ Nearer(a, b) \in 0 .. Dim - 1
         /\ Gap(Nearer(a, b), b) = IF Gap(a, b) > 1 THEN Gap(a, b) - 1 ELSE 0
  BY DimFacts DEF Nearer, Gap

LEMMA CrossedWord ==
  ASSUME NEW w \in Int, NEW o \in Int, NEW k \in Nat \ {0}
  PROVE  /\ Crossed(w, o, k) \in Int
         /\ getBrightness(Crossed(w, o, k)) = Nearer(getBrightness(w), getBrightness(o))
         /\ k = 1 => Crossed(w, o, k) \div Byte = o \div Byte
<1> DEFINE r == Toward(Red(w), Red(o), k)
           g == Toward(Green(w), Green(o), k)
           b == Toward(Blue(w), Blue(o), k)
           x == Nearer(getBrightness(w), getBrightness(o))
<1>1. r \in Int /\ g \in Int /\ b \in Int
  BY TopFields, TowardIsInt
<1>2. x \in 0 .. Dim - 1
  BY BrightRange, NearerRange
<1>3. x % Dim = x
  <2> HIDE DEF x
  <2> QED BY <1>2, DimFacts
<1>4. Crossed(w, o, k) = Word(r, g, b, x)
  BY <1>3 DEF Crossed, setP
<1>5. k = 1 => r = Red(o) /\ g = Green(o) /\ b = Blue(o)
  BY TopFields, TowardLast
<1> HIDE DEF r, g, b, x
<1>6. /\ Word(r, g, b, x) \in Int /\ getBrightness(Word(r, g, b, x)) = x
      /\ Word(r, g, b, x) \div Byte = Top(r, g, b)
  <2>1. Word(r, g, b, x) \in Int
    BY <1>1, <1>2, WordTop
  <2>2. Word(r, g, b, x) \div Byte = Top(r, g, b)
    BY <1>1, <1>2, WordTop
  <2>3. getBrightness(Word(r, g, b, x)) = x
    BY <1>1, <1>2, WordTop
  <2> QED BY <2>1, <2>2, <2>3
<1> QED BY <1>4, <1>5, <1>6, TopFields DEF x

LEMMA DimmedWord ==
  ASSUME NEW w \in Int
  PROVE  /\ Dimmed(w) \in Int /\ Dimmed(w) \div Byte = w \div Byte
         /\ getBrightness(Dimmed(w)) =
              IF getBrightness(w) > 0 THEN getBrightness(w) - 1 ELSE 0
<1> DEFINE q == w \div Byte
           x == IF getBrightness(w) > 0 THEN getBrightness(w) - 1 ELSE 0
<1>1. Byte \in Nat \ {0}
  BY ByteIsNat
<1>2. w = q * Byte + (w % Byte) /\ q \in Int /\ w % Byte \in Int
  BY <1>1, Parts
<1>3. x \in 0 .. Dim - 1
  BY BrightRange, DimFacts
<1>4. x \in Chan /\ x \in 0 .. Byte - 1 /\ x \in Int
  BY <1>3, ByteIsNat, DimFacts DEF Chan
<1>5. Dimmed(w) = q * Byte + x
  <2>1. Dimmed(w) = (w - (w % Byte)) + x
    BY DEF Dimmed, setBrightness
  <2> HIDE DEF q, x
  <2>2. q * Byte \in Int
    BY <1>1, <1>2
  <2> QED BY <1>2, <1>4, <2>1, <2>2
<1> HIDE DEF q, x
<1>6. q * Byte + x \in Int
  BY <1>1, <1>2, <1>4
<1>7. (q * Byte + x) \div Byte = q
  BY <1>1, <1>2, <1>4, DivMod
<1>8. (q * Byte + x) % Dim = x % Dim
  BY <1>2, <1>4, DimFacts, LastByte
<1>9. x % Dim = x
  BY <1>3, DimFacts
<1> QED BY <1>5, <1>6, <1>8, <1>9, <1>7 DEF q, x, getBrightness

(* The call's state: a fade has taken one off each brightness for each round and
   leaves colours alone; a crossfade has brought each brightness nearer by one for
   each round, and its last round has brought the colours. *)
CallsTyped ==
  /\ pVector \in [Leds -> Int] /\ target \in [Leds -> Int] /\ before \in [Leds -> Int]
  /\ round \in Nat /\ steps \in Int

Fading ==
  op = "fade" => \A n \in Leds :
    /\ pVector[n] \div Byte = before[n] \div Byte
    /\ getBrightness(pVector[n]) = 0 \/ getBrightness(pVector[n]) + round < Dim

BrightNearer(n, k) ==
  LET gap == Gap(getBrightness(before[n]), getBrightness(target[n]))
  IN  Gap(getBrightness(pVector[n]), getBrightness(target[n]))
        = IF gap > k THEN gap - k ELSE 0

Crossing ==
  op = "cross" =>
    /\ round = 0 \/ round <= steps
    /\ \A n \in Leds :
         /\ BrightNearer(n, round)
         /\ round = steps /\ steps > 0 => pVector[n] \div Byte = target[n] \div Byte

CallsInv == CallsTyped /\ Fading /\ Crossing /\ CallsLand

LEMMA CallsInitHolds == CallsInit => CallsInv
<1> SUFFICES ASSUME CallsInit PROVE CallsInv
  OBVIOUS
<1>1. pVector \in [Leds -> Words]
  BY CallsAssumption DEF CallsInit
<1>2. Words \subseteq Int
  BY DEF Words
<1>3. pVector \in [Leds -> Int]
  BY <1>1, <1>2
<1> QED BY <1>3 DEF CallsInit, CallsInv, CallsTyped, Fading, Crossing, CallsLand

LEMMA CallBegins ==
  ASSUME CallsInv, NEW name \in {"fade", "rise", "cross"}, Call(name),
         steps' \in Int, target' \in [Leds -> Int]
  PROVE  CallsInv'
<1>1. CallsTyped' /\ pVector' = pVector /\ before' = pVector /\ round' = 0 /\ op' = name
  BY DEF CallsInv, CallsTyped, Call
<1>2. \A n \in Leds : getBrightness(pVector[n]) \in 0 .. Dim - 1
  BY BrightRange DEF CallsInv, CallsTyped
<1>3. Fading'
  BY <1>1, <1>2, DimFacts DEF Fading
<1>4. ASSUME NEW n \in Leds PROVE BrightNearer(n, 0)'
  <2>1. getBrightness(target'[n]) \in 0 .. Dim - 1
    BY BrightRange
  <2>2. pVector'[n] = before'[n] /\ getBrightness(pVector[n]) \in 0 .. Dim - 1
    BY <1>1, <1>2
  <2>3. getBrightness(before'[n]) \in 0 .. Dim - 1
    BY <1>1, <2>2
  <2> QED BY <2>1, <2>2, <2>3, DimFacts DEF BrightNearer, Gap
<1>5. Crossing'
  <2>1. \A n \in Leds : BrightNearer(n, round)'
    BY <1>1, <1>4 DEF BrightNearer
  <2>2. ~(round' = steps' /\ steps' > 0)
    BY <1>1
  <2> QED BY <1>1, <2>1, <2>2 DEF Crossing
<1>6. CallsLand'
  BY <1>1 DEF CallsLand
<1> QED BY <1>1, <1>3, <1>5, <1>6 DEF CallsInv

LEMMA FadeRoundHolds == CallsInv /\ FadeRound => CallsInv'
<1> SUFFICES ASSUME CallsInv, FadeRound PROVE CallsInv'
  OBVIOUS
<1>1. /\ pVector \in [Leds -> Int] /\ round \in Nat /\ round' = round + 1
      /\ pVector' = [n \in Leds |-> Dimmed(pVector[n])]
      /\ before' = before /\ op = "fade" /\ op' \in {"fade", "cut", "faded"}
  BY DEF CallsInv, CallsTyped, FadeRound
<1>2. ASSUME NEW n \in Leds
      PROVE  /\ pVector'[n] \in Int /\ pVector'[n] \div Byte = before'[n] \div Byte
             /\ \/ getBrightness(pVector'[n]) = 0
                \/ getBrightness(pVector'[n]) + round' < Dim
  <2>1. pVector'[n] = Dimmed(pVector[n]) /\ pVector[n] \in Int
    BY <1>1
  <2>2. pVector[n] \div Byte = before[n] \div Byte
        /\ (getBrightness(pVector[n]) = 0 \/ getBrightness(pVector[n]) + round < Dim)
    BY <1>1 DEF CallsInv, Fading
  <2>3. getBrightness(pVector[n]) \in 0 .. Dim - 1
    BY <2>1, BrightRange
  <2>4. pVector'[n] \in Int /\ pVector'[n] \div Byte = before'[n] \div Byte
    BY <1>1, <2>1, <2>2, DimmedWord
  <2>5. getBrightness(pVector'[n])
          = IF getBrightness(pVector[n]) > 0 THEN getBrightness(pVector[n]) - 1 ELSE 0
    BY <2>1, DimmedWord
  <2> QED BY <1>1, <2>2, <2>3, <2>4, <2>5, DimFacts
<1>3. CallsTyped'
  BY <1>1, <1>2 DEF CallsInv, CallsTyped, FadeRound
<1>4. Fading'
  BY <1>2 DEF Fading
<1>5. Crossing'
  BY <1>1 DEF Crossing
<1>6. op' = "faded" => \A n \in Leds : getBrightness(pVector'[n]) = 0
  BY DEF FadeRound
<1>7. CallsLand'
  BY <1>1, <1>2, <1>6 DEF CallsLand
<1> QED BY <1>3, <1>4, <1>5, <1>7 DEF CallsInv

LEMMA FadeEndsHolds == CallsInv /\ FadeEnds => CallsInv'
<1> SUFFICES ASSUME CallsInv, FadeEnds PROVE CallsInv'
  OBVIOUS
<1>1. /\ op = "fade" /\ round = Rounds /\ op' = "faded"
      /\ UNCHANGED <<round, steps, target, before, pVector>>
  BY DEF FadeEnds
<1>2. ASSUME NEW n \in Leds PROVE getBrightness(pVector[n]) = 0
  <2>1. pVector[n] \in Int
    BY DEF CallsInv, CallsTyped
  <2>2. getBrightness(pVector[n]) = 0 \/ getBrightness(pVector[n]) + Rounds < Dim
    BY <1>1 DEF CallsInv, Fading
  <2> QED BY <2>1, <2>2, BrightRange, DimFacts, CallsAssumption
<1>3. CallsLand'
  BY <1>1, <1>2 DEF CallsInv, Fading, CallsLand
<1> QED BY <1>1, <1>3 DEF CallsInv, CallsTyped, Fading, Crossing

LEMMA RiseRoundHolds == CallsInv /\ RiseRound => CallsInv'
<1> SUFFICES ASSUME CallsInv, RiseRound PROVE CallsInv'
  OBVIOUS
<1>1. /\ pVector \in [Leds -> Int] /\ round \in Nat /\ round' = round + 1
      /\ op = "rise" /\ op' = "rise" /\ UNCHANGED <<steps, target, before>>
      /\ pVector' = [n \in Leds |-> setBrightness(pVector[n], (round + 1) % Byte)]
  BY DEF CallsInv, CallsTyped, RiseRound
<1>2. ASSUME NEW w \in Int, NEW x \in Int PROVE setBrightness(w, x % Byte) \in Int
  <2>1. Byte \in Nat \ {0}
    BY ByteIsNat
  <2>2. w % Byte \in Int /\ x % Byte \in Int
    BY <2>1, Parts
  <2> QED BY <2>2 DEF setBrightness
<1>3. pVector' \in [Leds -> Int]
  BY <1>1, <1>2
<1> QED BY <1>1, <1>3 DEF CallsInv, CallsTyped, Fading, Crossing, CallsLand

LEMMA CrossRoundHolds == CallsInv /\ CrossRound => CallsInv'
<1> SUFFICES ASSUME CallsInv, CrossRound PROVE CallsInv'
  OBVIOUS
<1>1. /\ CallsTyped /\ round' = round + 1 /\ round < steps /\ op = "cross" /\ op' = "cross"
      /\ pVector' = [n \in Leds |-> Crossed(pVector[n], target[n], steps - round)]
      /\ UNCHANGED <<steps, target, before>>
  BY DEF CallsInv, CrossRound
<1>2. steps - round \in Nat \ {0}
  BY <1>1 DEF CallsTyped
<1>3. ASSUME NEW n \in Leds
      PROVE  /\ pVector'[n] \in Int
             /\ getBrightness(pVector'[n])
                  = Nearer(getBrightness(pVector[n]), getBrightness(target[n]))
             /\ round' = steps => pVector'[n] \div Byte = target[n] \div Byte
  <2>1. pVector[n] \in Int /\ target[n] \in Int /\ round \in Nat /\ steps \in Int
    BY <1>1 DEF CallsTyped
  <2>2. pVector'[n] = Crossed(pVector[n], target[n], steps - round)
    BY <1>1
  <2>3. round' = steps => steps - round = 1
    BY <1>1, <2>1
  <2> QED BY <1>2, <2>1, <2>2, <2>3, CrossedWord
<1>4. ASSUME NEW n \in Leds PROVE BrightNearer(n, round)'
  <2> DEFINE a == getBrightness(pVector[n])
             o == getBrightness(target[n])
             z == getBrightness(before[n])
             a1 == getBrightness(pVector'[n])
  <2>1. a \in 0 .. Dim - 1 /\ o \in 0 .. Dim - 1 /\ z \in 0 .. Dim - 1 /\ round \in Nat
    BY <1>1, BrightRange DEF CallsTyped
  <2>2. Gap(a, o) = IF Gap(z, o) > round THEN Gap(z, o) - round ELSE 0
    BY <1>1 DEF CallsInv, Crossing, BrightNearer
  <2>3. a1 = Nearer(a, o)
    BY <1>3
  <2>4. getBrightness(target'[n]) = o /\ getBrightness(before'[n]) = z
    BY <1>1
  <2> HIDE DEF a, o, z, a1
  <2>5. Gap(a1, o) = IF Gap(a, o) > 1 THEN Gap(a, o) - 1 ELSE 0
    BY <2>1, <2>3, NearerRange
  <2>6. Gap(z, o) \in Int
    BY <2>1, DimFacts DEF Gap
  <2>7. Gap(a1, o) = IF Gap(z, o) > round + 1 THEN Gap(z, o) - (round + 1) ELSE 0
    BY <2>1, <2>2, <2>5, <2>6
  <2> QED BY <1>1, <2>4, <2>7 DEF BrightNearer, a1
<1>5. CallsTyped'
  BY <1>1, <1>3 DEF CallsTyped
<1>6. round' <= steps'
  BY <1>1 DEF CallsTyped
<1>7. Crossing'
  BY <1>1, <1>3, <1>4, <1>6 DEF Crossing
<1> QED BY <1>1, <1>5, <1>7 DEF CallsInv, Fading, CallsLand

LEMMA CrossEndsHolds == CallsInv /\ CrossEnds => CallsInv'
<1> SUFFICES ASSUME CallsInv, CrossEnds PROVE CallsInv'
  OBVIOUS
<1>1. /\ op = "cross" /\ round >= steps /\ op' = "crossed"
      /\ UNCHANGED <<round, steps, target, before, pVector>>
  BY DEF CrossEnds
<1>2. steps > 0 => round = steps
  BY <1>1 DEF CallsInv, CallsTyped, Crossing
<1>3. steps > 0 => \A n \in Leds :
        BrightNearer(n, steps) /\ pVector[n] \div Byte = target[n] \div Byte
  BY <1>1, <1>2 DEF CallsInv, Crossing
<1>4. CallsLand'
  BY <1>1, <1>3 DEF CallsLand, BrightNearer
<1> QED BY <1>1, <1>4 DEF CallsInv, CallsTyped, Fading, Crossing

LEMMA CallsStep == CallsInv /\ [CallsNext]_<<callVars, pVector, wire>> => CallsInv'
<1> SUFFICES ASSUME CallsInv, [CallsNext]_<<callVars, pVector, wire>> PROVE CallsInv'
  OBVIOUS
<1>1. CASE CallFade
  <2>1. steps' \in Int /\ target' \in [Leds -> Int]
    BY <1>1 DEF CallFade, CallsInv, CallsTyped
  <2> QED BY <1>1, <2>1, CallBegins DEF CallFade
<1>2. CASE CallRise
  <2>1. steps' \in Int /\ target' \in [Leds -> Int]
    BY <1>2, CallsAssumption DEF CallRise, CallsInv, CallsTyped
  <2> QED BY <1>2, <2>1, CallBegins DEF CallRise
<1>3. CASE CallCrossfade
  <2>1. target' \in [Leds -> Words] /\ steps' \in Int
    BY <1>3, CallsAssumption DEF CallCrossfade
  <2>2. Words \subseteq Int
    BY DEF Words
  <2>3. target' \in [Leds -> Int]
    BY <2>1, <2>2
  <2> QED BY <1>3, <2>1, <2>3, CallBegins DEF CallCrossfade
<1>4. CASE FadeRound
  BY <1>4, FadeRoundHolds
<1>5. CASE FadeEnds
  BY <1>5, FadeEndsHolds
<1>6. CASE RiseRound
  BY <1>6, RiseRoundHolds
<1>7. CASE RiseEnds
  BY <1>7 DEF RiseEnds, CallsInv, CallsTyped, Fading, Crossing, CallsLand
<1>8. CASE CrossRound
  BY <1>8, CrossRoundHolds
<1>9. CASE CrossEnds
  BY <1>9, CrossEndsHolds
<1>10. CASE dieNicely
  BY <1>10 DEF dieNicely, CallsInv, CallsTyped, Fading, Crossing, CallsLand
<1>11. CASE UNCHANGED <<callVars, pVector, wire>>
  BY <1>11 DEF callVars, CallsInv, CallsTyped, Fading, Crossing, CallsLand, BrightNearer
<1> QED BY <1>1, <1>2, <1>3, <1>4, <1>5, <1>6, <1>7, <1>8, <1>9, <1>10, <1>11 DEF CallsNext

(* The library's calls: for every width of a byte, every list and every number of
   rounds, a fade that is not cut ends dark in its colours, and a crossfade ends in
   the colours of the other list. *)
THEOREM CallsLandAlways == CallsSpec => []CallsLand
<1>1. CallsInit => CallsInv
  BY CallsInitHolds
<1>2. CallsInv /\ [CallsNext]_<<callVars, pVector, wire>> => CallsInv'
  BY CallsStep
<1>3. CallsInv => CallsLand
  BY DEF CallsInv
<1> QED BY <1>1, <1>2, <1>3, PTL DEF CallsSpec

(***************************************************************************)
(* Words keep their width                                                  *)
(*                                                                         *)
(* About the two programs together. A setPixel cuts what does not fit, a   *)
(* call works on the bytes of a word; the numbers of strings stay within   *)
(* the bound because the listener counts what it received.                 *)
(***************************************************************************)
LEMMA Widths ==
  /\ Byte \in Nat \ {0} /\ Byte * Byte \in Nat \ {0} /\ Byte * Byte * Byte \in Nat \ {0}
  /\ Byte * Byte * Byte * Byte \in Nat \ {0}
  /\ Byte * (Byte * Byte * Byte) = Byte * Byte * Byte * Byte
  /\ Chan = 0 .. Byte - 1 /\ Words = 0 .. Byte * Byte * Byte * Byte - 1
<1> DEFINE B == Byte
<1>1. B \in Nat \ {0}
  BY ByteIsNat
<1>2. Chan = 0 .. B - 1 /\ Words = 0 .. B * B * B * B - 1
  BY DEF Chan, Words
<1> HIDE DEF B
<1>3. B * B \in Nat \ {0}
  BY <1>1
<1>4. B * B * B \in Nat \ {0}
  BY <1>1, <1>3
<1>5. B * B * B * B \in Nat \ {0}
  BY <1>1, <1>4
<1>6. B * (B * B * B) = B * B * B * B
  BY <1>1
<1> QED BY <1>1, <1>2, <1>3, <1>4, <1>5, <1>6 DEF B

LEMMA WordWidth ==
  ASSUME NEW r \in Chan, NEW g \in Chan, NEW b \in Chan, NEW br \in Chan
  PROVE  Word(r, g, b, br) \in Words
<1> DEFINE B == Byte
<1>1. /\ B \in Nat \ {0} /\ B * B \in Nat \ {0} /\ B * B * B \in Nat \ {0}
      /\ r \in 0 .. B - 1 /\ g \in 0 .. B - 1 /\ b \in 0 .. B - 1 /\ br \in 0 .. B - 1
  BY Widths
<1>2. Word(r, g, b, br) = ((r * B + g) * B + b) * B + br /\ Words = 0 .. B * B * B * B - 1
  BY DEF Word, Words
<1> HIDE DEF B
<1> DEFINE x == r * B + g
           y == x * B + b
<1>3. x \in 0 .. B * B - 1
  BY <1>1, MoreDigits
<1> HIDE DEF x
<1>4. y \in 0 .. B * B * B - 1
  BY <1>1, <1>3, MoreDigits
<1> HIDE DEF y
<1>5. y * B + br \in 0 .. B * B * B * B - 1
  BY <1>1, <1>4, MoreDigits
<1> QED BY <1>2, <1>5 DEF x, y

LEMMA PackedWidth ==
  ASSUME NEW color \in Int, NEW brightness \in Int
  PROVE  Packed(color, brightness) \in Words
<1> DEFINE M == Byte * Byte * Byte * Byte
           n == color * Byte + brightness
<1>1. M \in Nat \ {0} /\ n \in Int /\ Words = 0 .. M - 1 /\ Packed(color, brightness) = n % M
  BY Widths DEF Packed
<1> HIDE DEF M, n
<1> QED BY <1>1, Parts

LEMMA WordBytes ==
  ASSUME NEW w \in Words
  PROVE  /\ w \in Int /\ Red(w) \in Chan /\ Green(w) \in Chan /\ Blue(w) \in Chan
         /\ w \div Byte \in 0 .. Byte * Byte * Byte - 1
<1> DEFINE B == Byte
           M == B * B * B
<1>1. /\ B \in Nat \ {0} /\ B * B \in Nat \ {0} /\ M \in Nat \ {0}
      /\ w \in 0 .. B * M - 1 /\ B * M = M * B /\ Chan = 0 .. B - 1 /\ w \in Int
  <2>1. w \in 0 .. Byte * Byte * Byte * Byte - 1 /\ w \in Int
    BY DEF Words
  <2> QED BY <2>1, Widths
<1>2. Red(w) = w \div M /\ Green(w) = (w \div (B * B)) % B /\ Blue(w) = (w \div B) % B
  BY DEF Red, Green, Blue
<1> HIDE DEF M
<1>3. w \div M \in 0 .. B - 1
  BY <1>1, FewerDigits
<1>4. w \div B \in 0 .. M - 1
  <2>1. w \in 0 .. M * B - 1
    BY <1>1
  <2> QED BY <1>1, <2>1, FewerDigits
<1>5. w \div (B * B) \in Int /\ w \div B \in Int
  BY <1>1, Parts
<1>6. (w \div (B * B)) % B \in 0 .. B - 1 /\ (w \div B) % B \in 0 .. B - 1
  BY <1>1, <1>5, Parts
<1> QED BY <1>1, <1>2, <1>3, <1>4, <1>6 DEF M

LEMMA BrightWidth ==
  ASSUME NEW w \in Words, NEW br \in Chan
  PROVE  setBrightness(w, br) \in Words
<1> DEFINE B == Byte
           M == B * B * B
           q == w \div B
           t == w % B
<1>1. /\ B \in Nat \ {0} /\ M \in Nat \ {0} /\ w \in Int /\ q \in 0 .. M - 1
      /\ br \in 0 .. B - 1 /\ Words = 0 .. M * B - 1
  BY WordBytes, Widths
<1>2. w = q * B + t /\ t \in 0 .. B - 1 /\ q \in Int
  BY <1>1, Parts
<1>3. setBrightness(w, br) = (w - t) + br
  BY DEF setBrightness
<1> HIDE DEF B, M, q, t
<1>4. (w - t) + br = q * B + br
  <2>1. q * B \in Int
    BY <1>1, <1>2
  <2> QED BY <1>1, <1>2, <2>1
<1>5. q * B + br \in 0 .. M * B - 1
  BY <1>1, MoreDigits
<1> QED BY <1>1, <1>3, <1>4, <1>5

(* A step of a crossfade stays between the two bytes. *)
LEMMA TowardWidth ==
  ASSUME NEW a \in Chan, NEW b \in Chan, NEW k \in Nat \ {0}
  PROVE  Toward(a, b, k) \in Chan
<1>1. a \in Nat /\ b \in Nat /\ a < Byte /\ b < Byte /\ Byte \in Nat /\ Chan = 0 .. Byte - 1
  BY Widths DEF Chan
<1>2. CASE a > b
  <2>1. a * k \in Int /\ a * k >= a
    BY <1>1
  <2>2. a * k - (a - b) \in 0 .. a * k - 1 /\ a \in Nat \ {0}
    BY <1>1, <1>2, <2>1
  <2>3. (a * k - (a - b)) \div k \in 0 .. a - 1
    BY <2>2, FewerDigits
  <2>4. Toward(a, b, k) = (a * k - (a - b)) \div k
    BY <1>2 DEF Toward
  <2> QED BY <1>1, <2>3, <2>4
<1>3. CASE a <= b
  <2> DEFINE d == b - a
  <2>1. d \in Nat /\ d * k >= d /\ d * k \in Int /\ a * k \in Int /\ a * k >= 0
    BY <1>1, <1>3
  <2>2. (b + 1) * k = a * k + d * k + k
    BY <1>1
  <2>3. a * k + d \in 0 .. (b + 1) * k - 1 /\ b + 1 \in Nat \ {0}
    <3> HIDE DEF d
    <3> QED BY <1>1, <2>1, <2>2
  <2>4. (a * k + d) \div k \in 0 .. (b + 1) - 1
    <3> HIDE DEF d
    <3> QED BY <2>3, FewerDigits
  <2>5. Toward(a, b, k) = (a * k + d) \div k
    BY <1>1, <1>3 DEF Toward
  <2> HIDE DEF d
  <2> QED BY <1>1, <2>4, <2>5
<1> QED BY <1>1, <1>2, <1>3

LEMMA DimIsChan == 0 .. Dim - 1 \subseteq Chan
  BY DimFacts, ByteIsNat DEF Chan

LEMMA CrossedWidth ==
  ASSUME NEW w \in Words, NEW o \in Words, NEW k \in Nat \ {0}
  PROVE  Crossed(w, o, k) \in Words
<1> DEFINE r == Toward(Red(w), Red(o), k)
           g == Toward(Green(w), Green(o), k)
           b == Toward(Blue(w), Blue(o), k)
           x == Nearer(getBrightness(w), getBrightness(o)) % Dim
<1>1. r \in Chan /\ g \in Chan /\ b \in Chan
  BY WordBytes, TowardWidth
<1>2. w \in Int /\ o \in Int
  BY WordBytes
<1>3. Nearer(getBrightness(w), getBrightness(o)) \in 0 .. Dim - 1
  BY <1>2, BrightRange, NearerRange
<1>4. x \in 0 .. Dim - 1
  BY <1>3, DimFacts, Parts
<1>5. x \in Chan
  <2> HIDE DEF x
  <2> QED BY <1>4, DimIsChan
<1>6. Crossed(w, o, k) = Word(r, g, b, x)
  BY DEF Crossed, setP
<1> HIDE DEF r, g, b, x
<1> QED BY <1>1, <1>5, <1>6, WordWidth

LEMMA DimmedWidth == ASSUME NEW w \in Words PROVE Dimmed(w) \in Words
<1> DEFINE x == IF getBrightness(w) > 0 THEN getBrightness(w) - 1 ELSE 0
<1>1. w \in Int
  BY WordBytes
<1>2. getBrightness(w) \in 0 .. Dim - 1
  BY <1>1, BrightRange
<1>3. x \in 0 .. Dim - 1
  BY <1>2, DimFacts
<1>4. x \in Chan
  <2> HIDE DEF x
  <2> QED BY <1>3, DimIsChan
<1>5. Dimmed(w) = setBrightness(w, x)
  BY DEF Dimmed
<1> HIDE DEF x
<1> QED BY <1>4, <1>5, BrightWidth

LEMMA ChannelsTyped == ASSUME NEW req \in Line PROVE Channels(req) \in Seq(Chan)
<1>1. CASE Channels(req) = <<>>
  BY <1>1
<1>2. CASE Channels(req) # <<>>
  <2>1. PICK r \in Chan, g \in Chan, b \in Chan, br \in Chan : Channels(req) = <<r, g, b, br>>
    BY <1>2, PackedChannels
  <2> QED BY <2>1
<1> QED BY <1>1, <1>2

(* What the calls need besides their types: a list to cross to and a round count.
   What the listener received is within its bound. *)
WidthInv ==
  /\ TypeOK /\ Len(received) <= MaxRequests
  /\ op # "off" => target \in [Leds -> Words] /\ round \in Nat /\ steps \in Int

LEMMA NewStrip == ServerInit => pVector \in [Leds -> Words]
<1> SUFFICES ASSUME ServerInit, NEW n \in Leds PROVE pVector[n] \in Words
  BY DEF ServerInit
<1>1. Digit \in Nat /\ Digit > 1 /\ Byte = Digit * Digit
  BY PixelAssumption DEF Byte
<1>2. Digit * Digit >= Digit /\ Digit * Digit \in Nat
  BY <1>1
<1>3. Byte >= Digit /\ Byte \in Nat /\ Byte > 3
  BY <1>1, <1>2, ByteIsNat
<1>4. /\ 0 \in Chan /\ Pixel0 \in Chan /\ Byte - 1 \in Chan /\ Digit - 1 \in Chan
      /\ Byte - Digit \in Chan
  BY <1>1, <1>3, Widths DEF Pixel0
<1>5. Pixel0 = Word(0, 0, 0, Pixel0)
  BY <1>3 DEF Word, Pixel0
<1>6. /\ Word(0, 0, Byte - 1, Pixel0) \in Words
      /\ Word(0, Digit - 1, Byte - Digit, Pixel0) \in Words
      /\ Word(Byte - 1, 0, 0, Pixel0) \in Words /\ Word(0, 0, 0, Pixel0) \in Words
  BY <1>4, WordWidth
<1>7. \/ pVector[n] = Word(0, 0, Byte - 1, Pixel0)
      \/ pVector[n] = Word(0, Digit - 1, Byte - Digit, Pixel0)
      \/ pVector[n] = Word(Byte - 1, 0, 0, Pixel0)
      \/ pVector[n] = Pixel0
  BY DEF ServerInit
<1> QED BY <1>5, <1>6, <1>7

LEMMA WidthInit == Init => WidthInv
<1> SUFFICES ASSUME Init PROVE WidthInv
  OBVIOUS
<1>1. \A f : f = [n \in Leds |-> <<>>] => f \in [Leds -> Seq(Chan)]
  OBVIOUS
<1>2. MaxRequests \in Nat /\ 0 \in Text .. MaxRequests
  BY ServerAssumption DEF Text
<1>3. /\ main \in {"start", "off"} /\ logStr = 0 /\ copy = 0 /\ dangling \in BOOLEAN
      /\ received = <<>> /\ executed = <<>> /\ asked = [n \in Leds |-> <<>>]
  BY DEF Init, ServerInit, ServerOff
<1>4. received \in Seq(Requests) /\ executed \in Seq(Text .. MaxRequests)
  BY <1>3
<1>5. ServerTypeOK
  BY <1>1, <1>2, <1>3, <1>4 DEF ServerTypeOK
<1>6. Len(received) <= MaxRequests
  BY <1>2, <1>3
<1>7. CASE ServerInit /\ CallsOff
  BY <1>5, <1>6, <1>7, NewStrip DEF CallsOff, WidthInv, TypeOK
<1>8. CASE CallsInit /\ ServerOff
  <2>1. pVector \in [Leds -> Words] /\ target = pVector
    BY <1>8, CallsAssumption DEF CallsInit
  <2> QED BY <1>5, <1>6, <1>8, <2>1 DEF CallsInit, WidthInv, TypeOK
<1> QED BY <1>7, <1>8 DEF Init

LEMMA WidthCall ==
  ASSUME WidthInv, CallsNext, UNCHANGED serverVars
  PROVE  WidthInv'
<1>1. op # "off" /\ op' # "off"
  BY DEF CallsNext, CallFade, CallRise, CallCrossfade, Call, Idle, FadeRound, FadeEnds,
         RiseRound, RiseEnds, CrossRound, CrossEnds, dieNicely
<1>2. /\ pVector \in [Leds -> Words] /\ target \in [Leds -> Words]
      /\ round \in Nat /\ steps \in Int
  BY <1>1 DEF WidthInv, TypeOK
<1>3. ServerTypeOK' /\ Len(received') <= MaxRequests
  BY DEF WidthInv, TypeOK, ServerTypeOK, serverVars
<1> SUFFICES /\ pVector' \in [Leds -> Words] /\ target' \in [Leds -> Words]
             /\ round' \in Nat /\ steps' \in Int
  BY <1>3 DEF WidthInv, TypeOK
<1>4. CASE CallFade \/ CallRise \/ CallCrossfade
  BY <1>2, <1>4, CallsAssumption DEF CallFade, CallRise, CallCrossfade, Call
<1>5. CASE FadeRound
  <2>1. /\ pVector' = [n \in Leds |-> Dimmed(pVector[n])] /\ round' = round + 1
        /\ UNCHANGED <<steps, target>>
    BY <1>5 DEF FadeRound
  <2> QED BY <1>2, <2>1, DimmedWidth
<1>6. CASE RiseRound
  <2>1. /\ pVector' = [n \in Leds |-> setBrightness(pVector[n], (round + 1) % Byte)]
        /\ round' = round + 1 /\ UNCHANGED <<steps, target>>
    BY <1>6 DEF RiseRound
  <2>2. (round + 1) % Byte \in Chan
    BY <1>2, Widths, Parts
  <2> QED BY <1>2, <2>1, <2>2, BrightWidth
<1>7. CASE CrossRound
  <2>1. /\ pVector' = [n \in Leds |-> Crossed(pVector[n], target[n], steps - round)]
        /\ round < steps /\ round' = round + 1 /\ UNCHANGED <<steps, target>>
    BY <1>7 DEF CrossRound
  <2>2. steps - round \in Nat \ {0}
    BY <1>2, <2>1
  <2> QED BY <1>2, <2>1, <2>2, CrossedWidth
<1>8. CASE FadeEnds \/ RiseEnds \/ CrossEnds \/ dieNicely
  BY <1>2, <1>8 DEF FadeEnds, RiseEnds, CrossEnds, dieNicely
<1> QED BY <1>4, <1>5, <1>6, <1>7, <1>8 DEF CallsNext

LEMMA WidthServer ==
  ASSUME WidthInv, ServerNext, UNCHANGED callVars
  PROVE  WidthInv'
<1>1. /\ pVector \in [Leds -> Words] /\ ServerTypeOK /\ Len(received) <= MaxRequests
      /\ MaxRequests \in Nat
  BY ServerAssumption DEF WidthInv, TypeOK
<1>2. op' # "off" => target' \in [Leds -> Words] /\ round' \in Nat /\ steps' \in Int
  BY DEF WidthInv, callVars
<1> SUFFICES pVector' \in [Leds -> Words] /\ ServerTypeOK' /\ Len(received') <= MaxRequests
  BY <1>2 DEF WidthInv, TypeOK
<1> USE DEF ServerTypeOK
<1>3. CASE Start
  BY <1>1, <1>3 DEF Start, mailVars, listVars
<1>4. CASE Show
  BY <1>1, <1>4 DEF Show, mailVars
<1>5. CASE Test
  BY <1>1, <1>5 DEF Test, AfterTest, mailVars, listVars
<1>6. CASE Copy
  BY <1>1, <1>6 DEF Copy, listVars
<1>7. CASE CmdSetPixel
  <2> DEFINE req == received[copy]
  <2>1. req \in Line
    <3>1. copy \in DOMAIN received
      BY <1>7 DEF CmdSetPixel, Executes
    <3>2. received[copy] \in Requests
      BY <1>1, <3>1
    <3> QED BY <3>2, ServerAssumption
  <2>2. Packed(req.color, req.brightness) \in Words
    <3>1. req.color \in Int /\ req.brightness \in Int
      BY <2>1 DEF Line
    <3> QED BY <3>1, PackedWidth
  <2>3. Channels(req) \in Seq(Chan)
    BY <2>1, ChannelsTyped
  <2>4. /\ main' \in {"free", "broken"} /\ UNCHANGED mailVars
        /\ \/ UNCHANGED <<pVector, asked>>
           \/ /\ pVector' = [pVector EXCEPT ![req.led] = Packed(req.color, req.brightness)]
              /\ asked' = [asked EXCEPT ![req.led] = Channels(req)]
    BY <1>7 DEF CmdSetPixel
  <2> HIDE DEF req
  <2>5. pVector' \in [Leds -> Words] /\ asked' \in [Leds -> Seq(Chan)]
    BY <1>1, <2>2, <2>3, <2>4
  <2> QED BY <1>1, <2>4, <2>5 DEF mailVars
<1>8. CASE CmdClearlog \/ CmdLog \/ Free
  BY <1>1, <1>8 DEF CmdClearlog, CmdLog, Free, listVars
<1>9. CASE LogText \/ Clear
  <2>1. /\ main' \in {"free", "nap"} /\ logStr' \in {Text, 0} /\ dangling' \in BOOLEAN
        /\ UNCHANGED <<copy, received, executed, asked, pVector>>
    BY <1>9 DEF LogText, Clear, listVars
  <2>2. logStr' \in Text .. MaxRequests
    BY <1>1, <2>1 DEF Text
  <2> QED BY <1>1, <2>1, <2>2
<1>10. CASE CmdOther \/ CmdMissing
  BY <1>1, <1>10 DEF CmdOther, CmdMissing, mailVars, listVars
<1>11. CASE Store
  <2>1. PICK r \in Requests : received' = Append(received, r)
    BY <1>11 DEF Store
  <2>2. received' \in Seq(Requests) /\ Len(received') = Len(received) + 1
    BY <1>1, <2>1
  <2>3. /\ Len(received) < MaxRequests /\ logStr' = Len(received) + 1 /\ dangling' \in BOOLEAN
        /\ UNCHANGED <<main, copy, executed, asked, pVector>>
    BY <1>11 DEF Store, listVars
  <2>4. logStr' \in Text .. MaxRequests
    BY <1>1, <2>3 DEF Text
  <2>5. Len(received') <= MaxRequests
    BY <1>1, <2>2, <2>3
  <2> QED BY <1>1, <2>2, <2>3, <2>4, <2>5
<1> QED BY <1>3, <1>4, <1>5, <1>6, <1>7, <1>8, <1>9, <1>10, <1>11 DEF ServerNext, MainNext

(* wallypixel and the library's calls, for every width of a byte: whatever is asked,
   every word of the list keeps within its four bytes, and the mailbox its types. *)
THEOREM WordsKeepWidth == Spec => []TypeOK
<1>1. Init => WidthInv
  BY WidthInit
<1>2. WidthInv /\ [Next]_vars => WidthInv'
  <2>1. WidthInv /\ UNCHANGED vars => WidthInv'
    BY DEF WidthInv, TypeOK, ServerTypeOK, vars, serverVars, callVars, listVars
  <2> QED BY <2>1, WidthServer, WidthCall DEF Next
<1>3. WidthInv => TypeOK
  BY DEF WidthInv
<1> QED BY <1>1, <1>2, <1>3, PTL DEF Spec

(***************************************************************************)
(* The two programs together: a behaviour is of one of them, and keeps     *)
(* what that program keeps by itself.                                      *)
(***************************************************************************)
EitherInv ==
  /\ main = "off" \/ op = "off"
  /\ main # "off" => StripInv /\ MailInv
  /\ main = "off" => executed = <<>>
  /\ op # "off" => CallsInv

LEMMA ServerRuns == ServerNext => main # "off" /\ main' # "off"
  BY DEF ServerNext, MainNext, Start, Show, Test, AfterTest, Copy, CmdSetPixel, CmdClearlog,
         CmdLog, LogText, CmdOther, CmdMissing, Free, Clear, Store, Runs, Executes

LEMMA CallsRun == CallsNext => op # "off" /\ op' # "off"
  BY DEF CallsNext, CallFade, CallRise, CallCrossfade, Call, Idle, FadeRound, FadeEnds,
         RiseRound, RiseEnds, CrossRound, CrossEnds, dieNicely

LEMMA EitherStep == EitherInv /\ [Next]_vars => EitherInv'
<1> SUFFICES ASSUME EitherInv, [Next]_vars PROVE EitherInv'
  OBVIOUS
<1>1. CASE ServerNext /\ UNCHANGED callVars
  <2>1. main # "off" /\ main' # "off" /\ op = "off" /\ op' = "off"
    BY <1>1, ServerRuns DEF EitherInv, callVars
  <2>2. StripInv' /\ MailInv'
    BY <1>1, <2>1, StripStep, MailStep DEF EitherInv
  <2> QED BY <2>1, <2>2 DEF EitherInv
<1>2. CASE CallsNext /\ UNCHANGED serverVars
  <2>1. op # "off" /\ op' # "off" /\ main = "off" /\ main' = "off" /\ executed' = executed
    BY <1>2, CallsRun DEF EitherInv, serverVars
  <2>2. CallsInv'
    BY <1>2, <2>1, CallsStep DEF EitherInv
  <2> QED BY <2>1, <2>2 DEF EitherInv
<1>3. CASE UNCHANGED vars
  <2>1. UNCHANGED <<serverVars, listVars>> /\ UNCHANGED <<callVars, pVector, wire>>
    BY <1>3 DEF vars, listVars
  <2>2. UNCHANGED <<main, op, executed>>
    BY <2>1 DEF serverVars, callVars
  <2> QED BY <2>1, <2>2, StripStep, MailStep, CallsStep DEF EitherInv
<1> QED BY <1>1, <1>2, <1>3 DEF Next

(* Strip, mailbox and calls, in any behaviour of either program. *)
THEOREM EitherProgram == Spec => [](StripShown /\ MailSafe /\ CallsLand)
<1>1. Init => EitherInv
  <2>1. ServerInit /\ CallsOff => EitherInv
    BY StripInit, MailInit DEF EitherInv, CallsOff, ServerInit
  <2>2. CallsInit /\ ServerOff => EitherInv
    BY CallsInitHolds DEF EitherInv, ServerOff, CallsInit
  <2> QED BY <2>1, <2>2 DEF Init
<1>2. EitherInv /\ [Next]_vars => EitherInv'
  BY EitherStep
<1>3. EitherInv => StripShown /\ MailSafe /\ CallsLand
  <2> SUFFICES ASSUME EitherInv PROVE StripShown /\ MailSafe /\ CallsLand
    OBVIOUS
  <2>1. StripShown
    BY StripShownHolds DEF EitherInv, StripShown
  <2>2. MailSafe
    BY DEF EitherInv, MailInv, MailSafe, InOrder, BreaksWhenAsked
  <2>3. CallsLand
    BY DEF EitherInv, CallsInv, CallsLand
  <2> QED BY <2>1, <2>2, <2>3
<1> QED BY <1>1, <1>2, <1>3, PTL DEF Spec
===============================================================================
