------------------------------ MODULE Dashboard ------------------------------
(***************************************************************************)
(* The page that server/server.py serves (index_handler): what its message *)
(* handler keeps.  Per source and per kind of packet there is an entropy   *)
(* series and a chi-square series of at most maxDataPoints values, trimmed *)
(* together with the timestamps of the ciphertext; per source and kind a   *)
(* text area of at most MAX_LINES lines; the state panel; and one chart    *)
(* per series, drawn from it, which the window's load event builds anew.   *)
(*                                                                         *)
(* A measured value is the number of the packet it came from, a line of    *)
(* text the number of the line in its area, and a field of the panel the   *)
(* number of the state message that set it.  What a value is, is the       *)
(* subject of PacketStats; how a chart is laid out, of d3.                 *)
(***************************************************************************)
EXTENDS Naturals, Sequences

CONSTANTS
  maxDataPoints, \* values kept of a series
  MAX_LINES,     \* pieces a text area is cut to, the empty one at the end included
  MavLines,      \* lines a MAVLink message may take
  Fields,        \* fields of the state panel
  MaxMessages    \* bound: messages handled

ASSUME DashboardAssumption ==
  /\ maxDataPoints \in Nat \ {0}
  /\ MAX_LINES \in Nat \ {0}
  /\ MavLines \subseteq Nat \ {0}
  /\ MaxMessages \in Nat

Sources == {"fcc", "gcs"}
Areas == (Sources \X {"ciphertext", "plaintext", "mavlink"}) \cup {<<"dsm", "log">>}
Series == [plaintext : Seq(Nat), ciphertext : Seq(Nat), timestamps : Seq(Nat)]
Charts == Sources \X {"entropy", "chisquare"}

VARIABLES
  handled,  \* number of messages handled
  entropy,  \* entropyData and gcsEntropyData
  chi,      \* chiSquareData and gcsChiSquareData
  text,     \* complete lines in each area
  panel,    \* fields of the state panel; 0 is what the page starts with
  chartStates, \* each chart: is there one, its least maximum, its two lines
  loaded,   \* the load event of the window has been handled
  measured, \* history: packets measured, by source and kind
  written   \* history: lines written to each area

vars == <<handled, entropy, chi, text, panel, chartStates, loaded, measured, written>>

NoSeries == [plaintext |-> <<>>, ciphertext |-> <<>>, timestamps |-> <<>>]

\* initializeChart: whatever was drawn is removed; "No data available".
NewChart(max) ==
  [initialized |-> TRUE, defaultMaxValue |-> max, plaintext |-> <<>>, ciphertext |-> <<>>]

Init ==
  /\ handled = 0
  /\ entropy = [s \in Sources |-> NoSeries]
  /\ chi = [s \in Sources |-> NoSeries]
  /\ text = [a \in Areas |-> <<>>]
  /\ panel = [f \in Fields |-> 0]
  /\ chartStates = [c \in Charts |-> [NewChart(0) EXCEPT !.initialized = FALSE]]
  /\ loaded = FALSE
  /\ measured = [s \in Sources |-> [plaintext |-> 0, ciphertext |-> 0]]
  /\ written = [a \in Areas |-> 0]

-----------------------------------------------------------------------------
\* Fault: the limit is applied to the lines before the new ones are added.
CutBefore(lines, more) ==
  LET n == Len(lines) IN
  (IF n >= MAX_LINES THEN SubSeq(lines, n - MAX_LINES + 2, n) ELSE lines) \o more

\* The lines left of an area when more are added: split puts an empty piece
\* after the last one, and the last MAX_LINES pieces are kept.
Cut(lines, more) ==
  LET all == lines \o more
      n == Len(all)
  IN  IF n + 1 > MAX_LINES THEN SubSeq(all, n - MAX_LINES + 2, n) ELSE all

\* addMessage: n lines for every area of set.
AddMessage(set, n) ==
  /\ text' = [a \in Areas |-> IF a \in set
                THEN Cut(text[a], [i \in 1..n |-> written[a] + i]) ELSE text[a]]
  /\ written' = [a \in Areas |-> IF a \in set THEN written[a] + n ELSE written[a]]

\* A message is taken from the socket.
Handle == handled < MaxMessages /\ handled' = handled + 1

Shift(seq, cond) == IF cond THEN Tail(seq) ELSE seq

\* The series that a chart shows.
SeriesOf(c) == IF c[2] = "entropy" THEN entropy[c[1]] ELSE chi[c[1]]

\* Fault: a chart that is not there yet is not made (updateChartData alone).
DrawIfThere(s) ==
  chartStates' = [c \in Charts |->
    IF c[1] = s /\ chartStates[c].initialized
      THEN [chartStates[c] EXCEPT !.plaintext = SeriesOf(c)'.plaintext,
                                  !.ciphertext = SeriesOf(c)'.ciphertext]
      ELSE chartStates[c]]

\* updateEntropyChart and updateChiSquareChart: the charts of a source, made
\* first if they are not there yet, show its series as they are now.
Draw(s) ==
  chartStates' = [c \in Charts |->
    IF c[1] # s THEN chartStates[c]
    ELSE [(IF chartStates[c].initialized THEN chartStates[c]
           ELSE NewChart(IF c[2] = "entropy" THEN 3 ELSE 200))
          EXCEPT !.plaintext = SeriesOf(c)'.plaintext,
                 !.ciphertext = SeriesOf(c)'.ciphertext]]

-----------------------------------------------------------------------------
\* A status message, or the socket opens, closes or fails: a line everywhere.
Notice ==
  /\ Handle
  /\ AddMessage(Areas \ {<<"dsm", "log">>}, 1)
  /\ UNCHANGED <<entropy, chi, panel, chartStates, loaded, measured>>

\* Fault: the timestamps are not trimmed with the values.
CiphertextKeepsStamps(s, empty) ==
  LET n == measured[s].ciphertext + 1
      over == Len(entropy[s].ciphertext) + 1 > maxDataPoints
      Extend(series) ==
        [series EXCEPT !.ciphertext = Shift(Append(@, n), over), !.timestamps = Append(@, n)]
  IN /\ Handle
     /\ AddMessage({<<s, "ciphertext">>}, 1)
     /\ entropy' = [entropy EXCEPT ![s] = Extend(entropy[s])]
     /\ chi' = [chi EXCEPT ![s] = Extend(chi[s])]
     /\ measured' = [measured EXCEPT ![s].ciphertext = n]
     /\ Draw(s)
     /\ UNCHANGED <<panel, loaded>>

\* Fault: the length of the series is tested before the value is pushed.
CiphertextTrimsLate(s, empty) ==
  LET n == measured[s].ciphertext + 1
      over == Len(entropy[s].ciphertext) > maxDataPoints
      Extend(series) ==
        [plaintext  |-> series.plaintext,
         ciphertext |-> Shift(Append(series.ciphertext, n), over),
         timestamps |-> Shift(Append(series.timestamps, n), over)]
  IN /\ Handle
     /\ AddMessage({<<s, "ciphertext">>}, 1)
     /\ entropy' = [entropy EXCEPT ![s] = Extend(entropy[s])]
     /\ chi' = [chi EXCEPT ![s] = Extend(chi[s])]
     /\ measured' = [measured EXCEPT ![s].ciphertext = n]
     /\ Draw(s)
     /\ UNCHANGED <<panel, loaded>>

\* A ciphertext packet: a line, a value and a timestamp in both series; the
\* length of the entropy series decides for all four.  An empty packet of the
\* ground station is only written (line 434).
Ciphertext(s, empty) ==
  LET n == measured[s].ciphertext + 1
      over == Len(entropy[s].ciphertext) + 1 > maxDataPoints
      Extend(series) ==
        [plaintext  |-> series.plaintext,
         ciphertext |-> Shift(Append(series.ciphertext, n), over),
         timestamps |-> Shift(Append(series.timestamps, n), over)]
  IN /\ Handle
     /\ AddMessage({<<s, "ciphertext">>}, 1)
     /\ IF s = "gcs" /\ empty
          THEN UNCHANGED <<entropy, chi, measured, chartStates>>
          ELSE /\ entropy' = [entropy EXCEPT ![s] = Extend(entropy[s])]
               /\ chi' = [chi EXCEPT ![s] = Extend(chi[s])]
               /\ measured' = [measured EXCEPT ![s].ciphertext = n]
               /\ Draw(s)
     /\ UNCHANGED <<panel, loaded>>

\* Fault: the head of the ciphertext series goes with the one of the plaintext
\* series, whatever their lengths (no test in line 482).
PlaintextTrimsBoth(s) ==
  LET n == measured[s].plaintext + 1
      over == Len(entropy[s].plaintext) + 1 > maxDataPoints
      Extend(series) ==
        [series EXCEPT !.plaintext = Shift(Append(@, n), over),
                       !.ciphertext = Shift(@, over /\ @ # <<>>)]
  IN /\ Handle
     /\ AddMessage({<<s, "plaintext">>}, 1)
     /\ entropy' = [entropy EXCEPT ![s] = Extend(entropy[s])]
     /\ chi' = [chi EXCEPT ![s] = Extend(chi[s])]
     /\ measured' = [measured EXCEPT ![s].plaintext = n]
     /\ Draw(s)
     /\ UNCHANGED <<panel, loaded>>

\* A plaintext packet: after trimming, a ciphertext series that is longer than
\* the plaintext series loses its head too, though its timestamps do not.
Plaintext(s) ==
  LET n == measured[s].plaintext + 1
      over == Len(entropy[s].plaintext) + 1 > maxDataPoints
      longer == over /\ Len(entropy[s].plaintext) < Len(entropy[s].ciphertext)
      Extend(series) ==
        [plaintext  |-> Shift(Append(series.plaintext, n), over),
         ciphertext |-> Shift(series.ciphertext, longer),
         timestamps |-> series.timestamps]
  IN /\ Handle
     /\ AddMessage({<<s, "plaintext">>}, 1)
     /\ entropy' = [entropy EXCEPT ![s] = Extend(entropy[s])]
     /\ chi' = [chi EXCEPT ![s] = Extend(chi[s])]
     /\ measured' = [measured EXCEPT ![s].plaintext = n]
     /\ Draw(s)
     /\ UNCHANGED <<panel, loaded>>

Mavlink(s) ==
  /\ Handle
  /\ \E n \in MavLines : AddMessage({<<s, "mavlink">>}, n)
  /\ UNCHANGED <<entropy, chi, panel, chartStates, loaded, measured>>

\* A packet of an unknown type: its header and its data, where the ciphertext
\* of the flight controller goes.
Unknown ==
  /\ Handle
  /\ AddMessage({<<"fcc", "ciphertext">>}, 2)
  /\ UNCHANGED <<entropy, chi, panel, chartStates, loaded, measured>>

\* A state packet: its text is logged; its fields are shown if it parses.
State ==
  /\ Handle
  /\ AddMessage({<<"dsm", "log">>}, 1)
  /\ \E set \in SUBSET Fields :
       panel' = [f \in Fields |-> IF f \in set THEN handled' ELSE panel[f]]
  /\ UNCHANGED <<entropy, chi, chartStates, loaded, measured>>

\* The load event of the window comes once everything the page refers to is
\* there (its picture too), before or after the first messages of the socket.
Load ==
  /\ ~loaded
  /\ loaded' = TRUE
  /\ chartStates' = [c \in Charts |-> NewChart(IF c[2] = "entropy" THEN 3 ELSE 2)]
  /\ UNCHANGED <<handled, entropy, chi, text, panel, measured, written>>

Next ==
  \/ Notice \/ Unknown \/ State \/ Load
  \/ \E s \in Sources : \/ Mavlink(s)
                        \/ Plaintext(s)
                        \/ \E empty \in BOOLEAN : Ciphertext(s, empty)

Spec == Init /\ [][Next]_vars

-----------------------------------------------------------------------------
(* Properties.                                                             *)

\* Types of the state of the page; whatever comes, nothing that a message adds
\* to grows beyond its limit, the timestamps included.
Within(series) ==
  /\ Len(series.plaintext) <= maxDataPoints
  /\ Len(series.ciphertext) <= maxDataPoints
  /\ Len(series.timestamps) <= maxDataPoints
TypeOK ==
  /\ handled \in 0..MaxMessages
  /\ entropy \in [Sources -> Series]
  /\ chi \in [Sources -> Series]
  /\ \A s \in Sources : Within(entropy[s]) /\ Within(chi[s])
  /\ text \in [Areas -> Seq(Nat)]
  /\ \A a \in Areas : Len(text[a]) < MAX_LINES
  /\ panel \in [Fields -> 0..MaxMessages]
  /\ chartStates \in [Charts -> [initialized : BOOLEAN, defaultMaxValue : {0, 2, 3, 200},
                                 plaintext : Seq(Nat), ciphertext : Seq(Nat)]]
  /\ loaded \in BOOLEAN
  /\ measured \in [Sources -> [plaintext : Nat, ciphertext : Nat]]
  /\ written \in [Areas -> Nat]

\* seq holds the newest of the values 1..count, in order, at most limit of them.
Newest(seq, count, limit) ==
  /\ Len(seq) = IF count < limit THEN count ELSE limit
  /\ \A i \in 1..Len(seq) : seq[i] = count - Len(seq) + i

\* Both charts of a source show its newest packets of each kind, at most
\* maxDataPoints, none lost, repeated or out of order: the trims of lines
\* 427-432, 449-454, 479-486 and 502-509 never cut a series they should not.
ChartShowsNewest ==
  \A s \in Sources : \A kind \in {"plaintext", "ciphertext"} :
    /\ Newest(entropy[s][kind], measured[s][kind], maxDataPoints)
    /\ Newest(chi[s][kind], measured[s][kind], maxDataPoints)

\* Each value of a ciphertext series has the timestamp of its own packet
\* although plaintext packets may trim the values and not the timestamps
\* (lines 482-485 and 505-508).
StampsAligned ==
  \A s \in Sources : /\ entropy[s].timestamps = entropy[s].ciphertext
                     /\ chi[s].timestamps = chi[s].ciphertext

\* A text area shows the newest lines written to it and never grows beyond the
\* limit, whatever a message adds at once (lines 312-320).
TextShowsNewest ==
  \A a \in Areas : Newest(text[a], written[a], MAX_LINES - 1)

\* What is drawn follows the series, although a packet of one kind may trim
\* the series of the other and packets may come before the window has loaded,
\* when there is no chart to draw in yet (lines 842-874).  The load event itself
\* (lines 877-901), which makes the charts anew without drawing them, is left
\* out: it may put a chart out of step, and the source's next packet of either
\* kind mends it.
Shows(c) == /\ chartStates[c].plaintext = SeriesOf(c).plaintext
            /\ chartStates[c].ciphertext = SeriesOf(c).ciphertext
ChartsFollow ==
  [][\A c \in Charts : \/ Shows(c)'
                       \/ ~Shows(c) /\ SeriesOf(c)' = SeriesOf(c)
                       \/ loaded' # loaded]_vars
=============================================================================
