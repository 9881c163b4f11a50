-------------------------- MODULE MCReplaySimulator --------------------------
(* Instances of ReplaySimulator for TLC.                                    *)
EXTENDS ReplaySimulator

Rec(t, s, n, k) == [ts |-> t, seq |-> s, len |-> n, kind |-> k]

\* Records to send, one to skip, a gap in time, and sequence numbers that wrap
\* around with two of them missing.
ShortDump == <<Rec(2, 254, 3, "whole"), Rec(0, 7, 1, "whole"), Rec(4, 0, 1, "whole"),
               Rec(7, 2, 2, "whole")>>
\* The same with the last record cut off.
CutDump == <<Rec(2, 254, 3, "whole"), Rec(0, 7, 1, "whole"), Rec(4, 0, 1, "whole"),
             Rec(7, 2, 2, "cut")>>
\* A number twice, and then one behind it.
RepeatedDump == <<Rec(2, 5, 1, "whole"), Rec(3, 5, 2, "whole"), Rec(4, 4, 1, "whole")>>
\* A first record that is too long for the buffer.
HugeDump == <<Rec(2, 0, 3, "huge"), Rec(3, 1, 1, "whole")>>
\* A last one whose length is negative.
NegativeDump == <<Rec(2, 9, 3, "whole"), Rec(3, 10, 0, "negative")>>

AllDumps == {ShortDump, CutDump, RepeatedDump, HugeDump, NegativeDump}
=============================================================================
