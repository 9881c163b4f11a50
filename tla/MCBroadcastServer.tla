-------------------------- MODULE MCBroadcastServer --------------------------
(* Instances of BroadcastServer for TLC.  One connection sends (the packet  *)
(* client), the others listen (browsers).                                   *)
EXTENDS BroadcastServer

CONSTANTS p, q, b

OneProducer == {p}
ThreeConns == {p, q, b}
=============================================================================
