-------------------------------- MODULE MCVideo --------------------------------
(***************************************************************************)
(* Instances of the video player for TLC.                                  *)
(***************************************************************************)
EXTENDS VideoPlayer

Stream(type, coder)        == [type |-> type, coder |-> coder]
Packet(stream, bytes, dim) == [stream |-> stream, bytes |-> bytes, dim |-> dim]

\* A video stream and sound.
Film == [streams |-> <<Stream("video", 0), Stream("audio", 0)>>,
         packets |-> <<Packet(2, 1, 0)>>]

\* The first stream is sound: it is taken for the video stream.
SoundFirst == [streams |-> <<Stream("audio", 0), Stream("video", 0)>>,
               packets |-> <<Packet(2, 1, 1), Packet(1, 1, 0)>>]

\* No sound; the picture changes its size.
Silent == [streams |-> <<Stream("subtitle", 1), Stream("video", 0)>>,
           packets |-> <<Packet(2, 1, 1), Packet(2, 2, 2)>>]

AllFiles == {Film, SoundFirst, Silent}
===============================================================================
