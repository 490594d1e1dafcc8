------------------------------- MODULE PixelList -------------------------------
(***************************************************************************)
(* The pixels of an LED strip (src/src/pixel.cpp): a pixel is one word of  *)
(* four bytes, red first and brightness last; a list keeps a word for each *)
(* LED, and show() clocks four bytes for each of them out to the strip.    *)
(*                                                                         *)
(* A byte is Digit * Digit, so that TLC can use bytes of four bits where   *)
(* the code's have eight; the proofs hold for every Digit.                 *)
(***************************************************************************)
EXTENDS Integers, Sequences

CONSTANTS
  Digit,             \* values of a hexadecimal digit: 16
  Glow,              \* values of the brightness the strip is sent: 32
  Dim,               \* values of the brightness a pixel is asked for: 8
  NUM_LEDS

Byte  == Digit * Digit
Chan  == 0 .. Byte - 1
Words == 0 .. Byte * Byte * Byte * Byte - 1
Leds  == 0 .. NUM_LEDS - 1

ASSUME PixelAssumption ==
  /\ Digit \in Nat /\ Digit > 1
  /\ Glow \in Nat \ {0} /\ Byte % Glow = 0
  /\ Dim \in Nat \ {0} /\ Glow % Dim = 0
  /\ NUM_LEDS \in Nat /\ NUM_LEDS > 2

VARIABLES
  pVector,           \* the list: a word for each LED
  wire               \* what each LED was last sent

Word(r, g, b, br) == ((r * Byte + g) * Byte + b) * Byte + br

Red(w)   == w \div (Byte * Byte * Byte)
Green(w) == (w \div (Byte * Byte)) % Byte
Blue(w)  == (w \div Byte) % Byte

\* Defect: the word is wider than its 32 bits.
PackedWide(color, brightness) == color * Byte + brightness

\* The word setPixel stores: the digits of the colour, shifted by a byte, plus
\* the brightness, in the width of the word (pixel.cpp 24-26, wallypixel.cpp 85).
Packed(color, brightness) == (color * Byte + brightness) % (Byte * Byte * Byte * Byte)

\* pixel.cpp 45-52: the brightness is masked.
setP(r, g, b, br) == Word(r, g, b, br % Dim)

\* pixel.cpp 59-61.
getBrightness(w) == w % Dim

\* pixel.cpp 54-57: the last byte is replaced.
setBrightness(w, br) == (w - (w % Byte)) + br

\* Defect: the bytes are sent in the order the word has them.
FrameInOrder(w) == <<Byte - Glow + (w % Glow), Red(w), Green(w), Blue(w)>>

\* pixel.cpp 195-202: start bits and brightness, then blue, green and red.
Frame(w) == <<Byte - Glow + (w % Glow), Blue(w), Green(w), Red(w)>>

\* pixel.cpp 188-204: all LEDs, in order, between four zero bytes and the flush.
show(list) == [n \in Leds |-> Frame(list[n])]

Pixel0 == 3        \* the word of a new pixel (pixel.cpp 6-11): brightness alone

Dark == [n \in Leds |-> <<0, 0, 0, 0>>]
===============================================================================
