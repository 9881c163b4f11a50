----------------------------- MODULE PacketStats -----------------------------
(***************************************************************************)
(* What becomes of the bytes of a packet: client/client.py reads them,     *)
(* classifies the packet by its command (the first byte) and formats them  *)
(* as two-digit hexadecimal strings; the page of server/server.py counts   *)
(* them in a table of 256 frequencies and takes entropy and chi-square of  *)
(* the table, the chi-square over the bytes that are not zero only.  Each  *)
(* value enters a moving average that is kept per source and kind.         *)
(*                                                                         *)
(* The table is indexed with the strings.  A string is an index of an      *)
(* array only if it is a number in the decimal system, without a leading   *)
(* zero; any other becomes a property that the loops over 0..255 never     *)
(* read.  A hexadecimal string is the pair of its digits.                  *)
(***************************************************************************)
EXTENDS Integers, Sequences, FiniteSets

CONSTANTS
  Bytes,      \* the bytes that packets are made of
  MaxPayload  \* bound: bytes after the header of a packet, in the code 65535

ASSUME StatsAssumption ==
  /\ Bytes \subseteq 0..255
  /\ MaxPayload \in Nat

VARIABLES
  packet,   \* packet_data, its header included
  chi,      \* reduced chi-square of the packet as numerator and denominator
  isNumber, \* is the moving average of the chi-square of a series a number
  nulls     \* history: series of which a packet had only zero bytes

vars == <<packet, chi, isNumber, nulls>>

NotMeasured == <<0, 0, "not measured">>
Series == {"fcc", "gcs"} \X {"plaintext", "ciphertext"}
Slots == 0..255
NoSlot == 256

-----------------------------------------------------------------------------
(* The client.                                                             *)

\* Fault: the two directions are taken for each other.
ClassifySwapped(cmd) ==
  CASE cmd \in {1, 5} -> <<"fcc", "plaintext">>
    [] cmd \in {0, 4} -> <<"gcs", "plaintext">>
    [] cmd \in {3, 7} -> <<"fcc", "ciphertext">>
    [] cmd \in {2, 6} -> <<"gcs", "ciphertext">>
    [] OTHER          -> <<"unknown", "unknown">>

\* Source and type of a packet.
Classify(cmd) ==
  CASE cmd \in {0, 4} -> <<"fcc", "plaintext">>
    [] cmd \in {1, 5} -> <<"gcs", "plaintext">>
    [] cmd \in {2, 6} -> <<"fcc", "ciphertext">>
    [] cmd \in {3, 7} -> <<"gcs", "ciphertext">>
    [] cmd = 16       -> <<"dsm", "state">>
    [] OTHER          -> <<"unknown", "unknown">>

Hex(byte) == <<byte \div 16, byte % 16>>
format_packet_data(data) == [i \in DOMAIN data |-> Hex(data[i])]

\* The header is command, sequence number and the length of the rest.
Complete == Len(packet) >= 4 /\ Len(packet) = 4 + 256 * packet[3] + packet[4]

\* recv returns some more of the packet.  The two bytes of the length, the high
\* one first, are within the bound.
Receive(byte) ==
  /\ ~Complete
  /\ Len(packet) = 2 => 256 * byte <= MaxPayload
  /\ Len(packet) = 3 => 256 * packet[3] + byte <= MaxPayload
  /\ packet' = Append(packet, byte)
  /\ UNCHANGED <<chi, isNumber, nulls>>

-----------------------------------------------------------------------------
(* The page.                                                               *)

\* Fault: the strings are parsed as numbers (parseInt), which stops at a letter.
SlotParsed(x) == IF x[1] > 9 THEN NoSlot ELSE IF x[2] > 9 THEN x[1] ELSE 10 * x[1] + x[2]

\* The element of the table that a string designates, if any.
Slot(x) == IF x[1] \in 1..9 /\ x[2] \in 0..9 THEN 10 * x[1] + x[2] ELSE NoSlot

\* Both measures begin with the same table, here of the strings at the
\* positions of some.
Frequencies(data, some) ==
  [i \in Slots |-> Cardinality({k \in some : Slot(data[k]) = i})]

\* The loop over the slots, as one over rows of sixteen.
Total16(term) ==
  LET Sum[i \in 0..16] == IF i = 0 THEN 0 ELSE Sum[i - 1] + term[i - 1]
  IN  Sum[16]
Total(term) == Total16([r \in 0..15 |-> Total16([c \in 0..15 |-> term[16 * r + c]])])

\* Fault: the differences are not squared.
SumNotSquared(table, n) == Total([i \in Slots |-> 256 * table[i] - n]) \div 256

\* Over all slots, the square of table[i] - n/256, times 256: n times the
\* chi-square of n strings.
Square(x) == x * x
SumOfSquares(table, n) ==
  Total([i \in Slots |-> Square(256 * table[i] - n)]) \div 256

\* calculateChiSquare: zero for no data, and a fraction otherwise.
ChiSquare(table, n) == IF n = 0 THEN <<0, 1>> ELSE <<SumOfSquares(table, n), n>>

\* Fault: the zero bytes count in the chi-square and not in the divisor.
ReducedUnfiltered(data) ==
  LET rest == {k \in DOMAIN data : data[k] # <<0, 0>>}
      c == ChiSquare(Frequencies(data, DOMAIN data), Len(data))
  IN  <<c[1], c[2] * Cardinality(rest)>>

\* calculateReducedChiSquare: NaN, 0/0, if there is nothing but zero bytes.
ReducedChiSquare(data) ==
  LET rest == {k \in DOMAIN data : data[k] # <<0, 0>>}
      n == Cardinality(rest)
      c == ChiSquare(Frequencies(data, rest), n)
  IN  <<c[1], c[2] * n>>

\* The message handler of the page takes the packet into its averages; state
\* packets and unknown ones are not measured.
Measure ==
  LET s == Classify(packet[1]) IN
  /\ Complete /\ chi = NotMeasured
  /\ IF s \in Series
       THEN /\ chi' = ReducedChiSquare(format_packet_data(packet))
            /\ isNumber' = [isNumber EXCEPT ![s] = @ /\ chi'[2] # 0]
            /\ nulls' = IF \A i \in DOMAIN packet : packet[i] = 0 THEN nulls \cup {s} ELSE nulls
            /\ UNCHANGED packet
       ELSE /\ packet' = <<>>
            /\ UNCHANGED <<chi, isNumber, nulls>>

\* The next packet.
NextPacket ==
  /\ chi # NotMeasured
  /\ packet' = <<>> /\ chi' = NotMeasured
  /\ UNCHANGED <<isNumber, nulls>>

Init ==
  /\ packet = <<>> /\ chi = NotMeasured
  /\ isNumber = [s \in Series |-> TRUE]
  /\ nulls = {}

Next == Measure \/ NextPacket \/ \E byte \in Bytes : Receive(byte)

Spec == Init /\ [][Next]_vars

-----------------------------------------------------------------------------
(* Properties.                                                             *)

\* Types of the state of the statistics; a chi-square is never negative.
TypeOK ==
  /\ packet \in Seq(Bytes) /\ Len(packet) <= MaxPayload + 4
  /\ chi = NotMeasured \/ chi \in Nat \X Nat
  /\ isNumber \in [Series -> BOOLEAN]
  /\ nulls \subseteq Series

Measured == chi # NotMeasured
Times(byte) == Cardinality({i \in DOMAIN packet : packet[i] = byte})

\* The frequency of a slot is the frequency of one byte value: however strings
\* and indices are mixed (lines 589 and 617), no two values share a slot.
SlotsCountOneValue ==
  Measured => LET table == Frequencies(format_packet_data(packet), DOMAIN packet) IN
    \A i \in Slots : table[i] > 0 => \E b \in Bytes : Slot(Hex(b)) = i /\ table[i] = Times(b)

\* The comments of lines 586 and 614, "Count frequency of each byte value": each
\* byte of a packet is counted somewhere in the table.
CountsEveryByte ==
  Measured => Total(Frequencies(format_packet_data(packet), DOMAIN packet)) = Len(packet)

\* The chi-square over the byte values themselves, with the zeros left out.
NotZero == Len(packet) - Times(0)
TrueChi ==
  <<SumOfSquares([b \in Slots |-> IF b = 0 THEN 0 ELSE Times(b)], NotZero), NotZero * NotZero>>

\* The chi-square shown is never above the one of the bytes, and equal to it
\* only if each byte that is not zero reads as a decimal number (line 617 loses
\* the others, against its comment, see CountsEveryByte): what that makes of a
\* packet is one that looks more random than it is, never less.
\* That takes fewer than 128 bytes that are not zero: with more, to leave out a
\* value that is rarer than one in 128 makes the sum larger.
NeverLooksLessRandom ==
  Measured /\ 0 < NotZero /\ NotZero < 128 =>
    /\ chi[1] * TrueChi[2] <= TrueChi[1] * chi[2]
    /\ chi[1] * TrueChi[2] = TrueChi[1] * chi[2] <=>
         \A i \in DOMAIN packet : packet[i] = 0 \/ Slot(Hex(packet[i])) # NoSlot

\* Line 639 divides by the number of bytes that are not zero.  An average is
\* lost for good with the first packet that has none, and as the command is one
\* of the bytes, only the plaintext of the flight controller can lose it.
AverageLostOnlyToNulls ==
  \A s \in Series : ~isNumber[s] <=> s \in nulls /\ s = <<"fcc", "plaintext">>
=============================================================================
