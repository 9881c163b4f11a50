---------------------------- MODULE MCEchoPipeline ----------------------------
(* Instances of EchoPipeline for TLC.                                        *)
EXTENDS EchoPipeline
=============================================================================
