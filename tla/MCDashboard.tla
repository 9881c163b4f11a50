----------------------------- MODULE MCDashboard -----------------------------
(* Instances of Dashboard for TLC.                                          *)
EXTENDS Dashboard

TwoFields == {"state", "tx_packets"}
ShortMavlink == {1, 3}
=============================================================================
