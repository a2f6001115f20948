---------------------------- MODULE MCFrameExchange ----------------------------
(* FrameExchange for TLC. *)
EXTENDS FrameExchange

\* Around the boundaries of every width: 1, 200, 255, 2^15 - 1, 2^15, 2^16 - 1,
\* 2^31 - 1, -1, -128, -2^15, -2^31, one with four different bytes, and one with
\* which the two bytes of the checksum's sum add up to 256 (SpeedKp, 511).
BoundaryInt32s ==
    {<<1, 0, 0, 0>>, <<200, 0, 0, 0>>, <<255, 0, 0, 0>>, <<255, 127, 0, 0>>,
     <<0, 128, 0, 0>>, <<255, 255, 0, 0>>, <<255, 255, 255, 127>>,
     <<255, 255, 255, 255>>, <<128, 255, 255, 255>>, <<0, 128, 255, 255>>,
     <<0, 0, 0, 128>>, <<1, 2, 3, 4>>, <<255, 215, 0, 0>>}
=============================================================================
