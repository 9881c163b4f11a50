---------------------------- MODULE MCPacketStats ----------------------------
(* Instances of PacketStats for TLC.                                        *)
EXTENDS PacketStats

\* Commands of each class (0, 1, 2, 3, 16), and bytes that read as 00, 01, 02,
\* 03, 10, 1a, 1b, 99 and ff.
SomeBytes == {0, 1, 2, 3, 16, 26, 27, 153, 255}
=============================================================================
