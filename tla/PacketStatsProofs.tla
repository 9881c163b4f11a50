-------------------------- MODULE PacketStatsProofs --------------------------
(* Theorems of PacketStats, for every set of bytes and every bound of the    *)
(* length of a packet, 65535 after the header in particular.                 *)
EXTENDS PacketStats, NaturalLemmas, FiniteSetTheorems, TLAPS

-----------------------------------------------------------------------------
(* The sum over the slots.                                                 *)

\* The loop runs: there is a function that its equation describes.
LEMMA LoopExists ==
  ASSUME NEW term \in [0..15 -> Int]
  PROVE  \E g : g = [i \in 0..16 |-> IF i = 0 THEN 0 ELSE g[i - 1] + term[i - 1]]
<1> DEFINE P(m) == \E g : g = [i \in 0..m |-> IF i = 0 THEN 0 ELSE g[i - 1] + term[i - 1]]
           T == {m \in 0..16 : ~P(m)}
<1>1. P(0)
  <2> DEFINE g == [i \in 0..0 |-> 0]
  <2>1. g = [i \in 0..0 |-> IF i = 0 THEN 0 ELSE g[i - 1] + term[i - 1]]
    OBVIOUS
  <2> HIDE DEF g
  <2> QED BY <2>1
<1>2. ASSUME NEW m \in 1..16, P(m - 1) PROVE P(m)
  <2>1. PICK g : g = [i \in 0..(m - 1) |-> IF i = 0 THEN 0 ELSE g[i - 1] + term[i - 1]]
    BY <1>2
  <2> DEFINE h == [i \in 0..m |-> IF i = m THEN g[m - 1] + term[m - 1] ELSE g[i]]
  <2>2. \A i \in 0..(m - 1) : g[i] = IF i = 0 THEN 0 ELSE g[i - 1] + term[i - 1]
    BY <2>1
  <2>3. \A i \in 0..m : h[i] = IF i = 0 THEN 0 ELSE h[i - 1] + term[i - 1]
    <3> SUFFICES ASSUME NEW i \in 0..m
                 PROVE  h[i] = IF i = 0 THEN 0 ELSE h[i - 1] + term[i - 1]
      OBVIOUS
    <3>1. CASE i = m
      <4>1. m - 1 \in 0..m /\ m - 1 # m /\ m # 0 /\ m \in 0..m
        OBVIOUS
      <4>2. h[m] = g[m - 1] + term[m - 1] /\ h[m - 1] = g[m - 1]
        BY <4>1
      <4> HIDE DEF h
      <4> QED BY <3>1, <4>1, <4>2
    <3>2. CASE i # m
      <4>1. i \in 0..(m - 1) /\ h[i] = g[i] /\ (i # 0 => h[i - 1] = g[i - 1])
        BY <3>2
      <4> HIDE DEF h
      <4> QED BY <2>2, <4>1
    <3> QED BY <3>1, <3>2
  <2>4. h = [i \in 0..m |-> h[i]]
    OBVIOUS
  <2> HIDE DEF h
  <2>5. h = [i \in 0..m |-> IF i = 0 THEN 0 ELSE h[i - 1] + term[i - 1]]
    BY <2>3, <2>4
  <2> QED BY <2>5
<1> HIDE DEF P
<1>3. ASSUME T # {} PROVE FALSE
  <2>1. T \in SUBSET Nat
    OBVIOUS
  <2>2. PICK m \in T : \A k \in T : m <= k
    BY <1>3, <2>1, LeastNatural
  <2>3. m \in 1..16 /\ m - 1 \in 0..16 /\ m - 1 \notin T
    BY <1>1, <2>2
  <2> QED BY <1>2, <2>2, <2>3
<1>4. P(16)
  BY <1>3
<1> QED BY <1>4 DEF P

LEMMA Total16Is ==
  ASSUME NEW term \in [0..15 -> Int]
  PROVE  Total16(term) =
           term[0] + term[1] + term[2] + term[3] + term[4] + term[5] + term[6] + term[7]
           + term[8] + term[9] + term[10] + term[11] + term[12] + term[13] + term[14] + term[15]
<1> DEFINE g == CHOOSE g : g = [i \in 0..16 |-> IF i = 0 THEN 0 ELSE g[i - 1] + term[i - 1]]
<1>1. g = [i \in 0..16 |-> IF i = 0 THEN 0 ELSE g[i - 1] + term[i - 1]]
  BY LoopExists
<1>2. Total16(term) = g[16]
  BY DEF Total16
<1> HIDE DEF g
<1>3. g[0] = 0 /\ \A i \in 1..16 : g[i] = g[i - 1] + term[i - 1]
  BY <1>1
<1>4. /\ g[1] = g[0] + term[0] /\ g[2] = g[1] + term[1] /\ g[3] = g[2] + term[2]
      /\ g[4] = g[3] + term[3] /\ g[5] = g[4] + term[4] /\ g[6] = g[5] + term[5]
      /\ g[7] = g[6] + term[6] /\ g[8] = g[7] + term[7] /\ g[9] = g[8] + term[8]
  BY <1>3
<1>5. /\ g[10] = g[9] + term[9] /\ g[11] = g[10] + term[10] /\ g[12] = g[11] + term[11]
      /\ g[13] = g[12] + term[12] /\ g[14] = g[13] + term[13] /\ g[15] = g[14] + term[14]
      /\ g[16] = g[15] + term[15]
  BY <1>3
<1> QED BY <1>2, <1>3, <1>4, <1>5

\* Of sequences of terms that differ in one place, the sums differ as much.
LEMMA Total16Differs ==
  ASSUME NEW f \in [0..15 -> Int], NEW g \in [0..15 -> Int], NEW j \in 0..15,
         \A i \in 0..15 : i # j => f[i] = g[i]
  PROVE  Total16(f) = Total16(g) + (f[j] - g[j])
<1> DEFINE d == f[j] - g[j]
<1>1. \A i \in 0..15 : f[i] \in Int /\ g[i] \in Int /\ f[i] = g[i] + (IF i = j THEN d ELSE 0)
  OBVIOUS
<1>2. d \in Int
  BY <1>1
<1> HIDE DEF d
<1>3. \/ j = 0 \/ j = 1 \/ j = 2 \/ j = 3 \/ j = 4 \/ j = 5 \/ j = 6 \/ j = 7
      \/ j = 8 \/ j = 9 \/ j = 10 \/ j = 11 \/ j = 12 \/ j = 13 \/ j = 14 \/ j = 15
  OBVIOUS
<1>4. Total16(f) = Total16(g) + d
  BY <1>1, <1>2, <1>3, Total16Is
<1> QED BY <1>4 DEF d

LEMMA Total16Type ==
  /\ \A f \in [0..15 -> Int] : Total16(f) \in Int
  /\ \A f \in [0..15 -> Nat] : Total16(f) \in Nat
<1>1. ASSUME NEW f \in [0..15 -> Int] PROVE Total16(f) \in Int
  BY Total16Is
<1>2. ASSUME NEW f \in [0..15 -> Nat] PROVE Total16(f) \in Nat
  <2>1. f \in [0..15 -> Int] /\ \A i \in 0..15 : f[i] \in Nat
    OBVIOUS
  <2> QED BY <2>1, Total16Is
<1> QED BY <1>1, <1>2

LEMMA TotalType ==
  /\ \A f \in [Slots -> Int] : Total(f) \in Int
  /\ \A f \in [Slots -> Nat] : Total(f) \in Nat
<1>1. \A r, c \in 0..15 : 16 * r + c \in Slots
  BY DEF Slots
<1>2. ASSUME NEW S \in {Int, Nat}, NEW f \in [Slots -> S] PROVE Total(f) \in S
  <2>1. \A r \in 0..15 : [c \in 0..15 |-> f[16 * r + c]] \in [0..15 -> S]
    BY <1>1
  <2>2. \A r \in 0..15 : Total16([c \in 0..15 |-> f[16 * r + c]]) \in S
    BY <2>1, Total16Type
  <2> QED BY <2>2, Total16Type DEF Total
<1> QED BY <1>2

LEMMA TotalDiffers ==
  ASSUME NEW f \in [Slots -> Int], NEW g \in [Slots -> Int], NEW j \in Slots,
         \A i \in Slots : i # j => f[i] = g[i]
  PROVE  Total(f) = Total(g) + (f[j] - g[j])
<1> DEFINE Row(h, r) == [c \in 0..15 |-> h[16 * r + c]]
           Rows(h) == [r \in 0..15 |-> Total16(Row(h, r))]
           jr == j \div 16
           jc == j % 16
<1>1. \A r, c \in 0..15 : 16 * r + c \in Slots /\ (16 * r + c = j <=> r = jr /\ c = jc)
  BY DEF Slots
<1>2. jr \in 0..15 /\ jc \in 0..15 /\ 16 * jr + jc = j
  BY DEF Slots
<1> HIDE DEF jr, jc
<1>3. \A r \in 0..15 : Row(f, r) \in [0..15 -> Int] /\ Row(g, r) \in [0..15 -> Int]
  BY <1>1
<1>4. \A r \in 0..15 : r # jr => Row(f, r) = Row(g, r)
  BY <1>1
<1>5. \A c \in 0..15 : c # jc => Row(f, jr)[c] = Row(g, jr)[c]
  BY <1>1, <1>2
<1>6. Row(f, jr)[jc] = f[j] /\ Row(g, jr)[jc] = g[j]
  BY <1>2
<1> HIDE DEF Row
<1>7. Rows(f) \in [0..15 -> Int] /\ Rows(g) \in [0..15 -> Int]
  BY <1>3, Total16Type
<1>8. Total16(Row(f, jr)) = Total16(Row(g, jr)) + (f[j] - g[j])
  <2>1. Row(f, jr) \in [0..15 -> Int] /\ Row(g, jr) \in [0..15 -> Int]
    BY <1>2, <1>3
  <2>2. Total16(Row(f, jr)) = Total16(Row(g, jr)) + (Row(f, jr)[jc] - Row(g, jr)[jc])
    BY <1>2, <1>5, <2>1, Total16Differs
  <2> QED BY <1>6, <2>2
<1>9. \A r \in 0..15 : r # jr => Rows(f)[r] = Rows(g)[r]
  BY <1>4
<1>10. Rows(f)[jr] = Total16(Row(f, jr)) /\ Rows(g)[jr] = Total16(Row(g, jr))
  BY <1>2
<1> HIDE DEF Rows
<1>11. Total16(Rows(f)) = Total16(Rows(g)) + (Rows(f)[jr] - Rows(g)[jr])
  BY <1>2, <1>7, <1>9, Total16Differs
<1>12. Total(f) = Total16(Rows(f)) /\ Total(g) = Total16(Rows(g))
  BY DEF Total, Rows, Row
<1>13. /\ Total16(Row(g, jr)) \in Int /\ f[j] \in Int /\ g[j] \in Int
       /\ Total16(Rows(g)) \in Int
  BY <1>2, <1>3, <1>7, Total16Type
<1> QED BY <1>8, <1>10, <1>11, <1>12, <1>13

-----------------------------------------------------------------------------
(* Bytes, their strings and their slots.                                   *)

LEMMA HexIs ==
  ASSUME NEW b \in 0..255
  PROVE  /\ Hex(b)[1] = b \div 16 /\ Hex(b)[2] = b % 16
         /\ Hex(b) = <<0, 0>> <=> b = 0
<1>1. Hex(b) = <<b \div 16, b % 16>>
  BY DEF Hex
<1>2. b = 0 <=> b \div 16 = 0 /\ b % 16 = 0
  OBVIOUS
<1>3. Hex(b) = <<0, 0>> <=> b \div 16 = 0 /\ b % 16 = 0
  BY <1>1
<1> QED BY <1>1, <1>2, <1>3

\* No two bytes share a slot.
LEMMA SlotsDiffer ==
  /\ \A b \in 0..255 : Slot(Hex(b)) \in Slots \cup {NoSlot}
  /\ \A b, c \in 0..255 : Slot(Hex(b)) = Slot(Hex(c)) /\ Slot(Hex(b)) # NoSlot => b = c
  /\ NoSlot \notin Slots
<1> DEFINE S(x, y) == IF x \in 1..9 /\ y \in 0..9 THEN 10 * x + y ELSE 256
<1>1. \A b \in 0..255 : Slot(Hex(b)) = S(b \div 16, b % 16)
  BY HexIs DEF Slot, NoSlot
<1>2. \A b \in 0..255 : S(b \div 16, b % 16) \in 0..256
  OBVIOUS
<1>3. ASSUME NEW b \in 0..255, NEW c \in 0..255,
             S(b \div 16, b % 16) = S(c \div 16, c % 16), S(b \div 16, b % 16) # 256
      PROVE  b = c
  <2> DEFINE x == b \div 16
             y == b % 16
             u == c \div 16
             v == c % 16
  <2>1. /\ x \in 0..15 /\ y \in 0..15 /\ b = 16 * x + y
        /\ u \in 0..15 /\ v \in 0..15 /\ c = 16 * u + v
    OBVIOUS
  <2>2. S(x, y) = S(u, v) /\ S(x, y) # 256
    BY <1>3
  <2> HIDE DEF x, y, u, v
  <2>3. x = u /\ y = v
    BY <2>1, <2>2
  <2> QED BY <2>1, <2>3
<1> HIDE DEF S
<1>4. ASSUME NEW b \in 0..255 PROVE Slot(Hex(b)) \in Slots \cup {NoSlot}
  <2>1. Slot(Hex(b)) = S(b \div 16, b % 16) /\ S(b \div 16, b % 16) \in 0..256
    BY <1>1, <1>2
  <2>2. 0..256 = Slots \cup {NoSlot}
    BY DEF Slots, NoSlot
  <2> QED BY <2>1, <2>2
<1>5. ASSUME NEW b \in 0..255, NEW c \in 0..255,
             Slot(Hex(b)) = Slot(Hex(c)), Slot(Hex(b)) # NoSlot
      PROVE  b = c
  <2>1. Slot(Hex(b)) = S(b \div 16, b % 16) /\ Slot(Hex(c)) = S(c \div 16, c % 16)
    BY <1>1
  <2> QED BY <1>3, <1>5, <2>1 DEF NoSlot
<1>6. NoSlot \notin Slots
  BY DEF Slots, NoSlot
<1> QED BY <1>4, <1>5, <1>6

\* The positions of the bytes that are not zero.
Rest == {k \in DOMAIN packet : packet[k] # 0}

LEMMA PacketFacts ==
  ASSUME packet \in Seq(Bytes)
  PROVE  /\ Len(packet) \in Nat /\ DOMAIN packet = 1..Len(packet)
         /\ \A k \in DOMAIN packet : packet[k] \in Bytes /\ packet[k] \in 0..255
         /\ DOMAIN format_packet_data(packet) = DOMAIN packet
         /\ \A k \in DOMAIN packet : format_packet_data(packet)[k] = Hex(packet[k])
         /\ \A P \in SUBSET (DOMAIN packet) : IsFiniteSet(P) /\ Cardinality(P) \in Nat
<1>1. Len(packet) \in Nat /\ DOMAIN packet = 1..Len(packet)
      /\ \A k \in DOMAIN packet : packet[k] \in Bytes
  OBVIOUS
<1>2. \A k \in DOMAIN packet : packet[k] \in 0..255
  BY <1>1, StatsAssumption
<1>3. IsFiniteSet(DOMAIN packet)
  BY <1>1, FS_Interval
<1>4. \A P \in SUBSET (DOMAIN packet) : IsFiniteSet(P) /\ Cardinality(P) \in Nat
  BY <1>3, FS_Subset, FS_CardinalityType
<1> QED BY <1>1, <1>2, <1>4 DEF format_packet_data

LEMMA FrequenciesType ==
  ASSUME packet \in Seq(Bytes), NEW P \in SUBSET (DOMAIN packet)
  PROVE  Frequencies(format_packet_data(packet), P) \in [Slots -> Nat]
<1> DEFINE At(i) == {k \in P : Slot(format_packet_data(packet)[k]) = i}
<1>1. \A i \in Slots : Cardinality(At(i)) \in Nat
  BY PacketFacts
<1>2. Frequencies(format_packet_data(packet), P) = [i \in Slots |-> Cardinality(At(i))]
  BY DEF Frequencies
<1> HIDE DEF At
<1> QED BY <1>1, <1>2

\* What the chi-square shown is computed from.
LEMMA ReducedIs ==
  ASSUME packet \in Seq(Bytes)
  PROVE  LET n == Cardinality(Rest)
             table == Frequencies(format_packet_data(packet), Rest)
         IN  /\ n \in Nat /\ (n = 0 <=> Rest = {})
             /\ ReducedChiSquare(format_packet_data(packet)) =
                  IF n = 0 THEN <<0, 0>> ELSE <<SumOfSquares(table, n), n * n>>
<1> DEFINE data == format_packet_data(packet)
           n == Cardinality(Rest)
           table == Frequencies(data, Rest)
<1>1. {k \in DOMAIN data : data[k] # <<0, 0>>} = Rest
  BY PacketFacts, HexIs DEF Rest
<1>2. Rest \in SUBSET (DOMAIN packet)
  BY DEF Rest
<1>3. n \in Nat /\ (n = 0 <=> Rest = {})
  BY <1>2, PacketFacts, FS_EmptySet
<1>4. ReducedChiSquare(data) = <<ChiSquare(table, n)[1], ChiSquare(table, n)[2] * n>>
  BY <1>1 DEF ReducedChiSquare
<1> HIDE DEF data, n, table
<1>5. CASE n = 0
  BY <1>3, <1>4, <1>5 DEF ChiSquare, data, n, table
<1>6. CASE n # 0
  BY <1>3, <1>4, <1>6 DEF ChiSquare, data, n, table
<1> QED BY <1>5, <1>6

LEMMA SquareType == \A x \in Int : Square(x) \in Nat
<1> SUFFICES ASSUME NEW x \in Int PROVE Square(x) \in Nat
  OBVIOUS
<1>1. CASE x >= 0
  BY <1>1 DEF Square
<1>2. CASE x < 0
  <2>1. x * x = (-x) * (-x) /\ -x \in Nat
    BY <1>2
  <2> QED BY <2>1 DEF Square
<1> QED BY <1>1, <1>2

\* The terms of the loop for a table.
Terms(table, n) == [i \in Slots |-> Square(256 * table[i] - n)]

LEMMA TermsType ==
  ASSUME NEW table \in [Slots -> Nat], NEW n \in Nat
  PROVE  /\ Terms(table, n) \in [Slots -> Nat] /\ Terms(table, n) \in [Slots -> Int]
         /\ Total(Terms(table, n)) \in Nat
         /\ SumOfSquares(table, n) = Total(Terms(table, n)) \div 256
         /\ SumOfSquares(table, n) \in Nat
<1>1. \A i \in Slots : Square(256 * table[i] - n) \in Nat
  <2>1. \A i \in Slots : 256 * table[i] - n \in Int
    OBVIOUS
  <2> QED BY <2>1, SquareType
<1>2. Terms(table, n) \in [Slots -> Nat] /\ Terms(table, n) \in [Slots -> Int]
  BY <1>1 DEF Terms
<1>3. Total(Terms(table, n)) \in Nat
  BY <1>2, TotalType
<1>4. SumOfSquares(table, n) = Total(Terms(table, n)) \div 256
  BY DEF SumOfSquares, Terms
<1> QED BY <1>2, <1>3, <1>4

LEMMA ReducedType ==
  ASSUME packet \in Seq(Bytes)
  PROVE  LET c == ReducedChiSquare(format_packet_data(packet))
         IN  c \in Nat \X Nat /\ (c[2] = 0 <=> Rest = {})
<1> DEFINE n == Cardinality(Rest)
           table == Frequencies(format_packet_data(packet), Rest)
           c == ReducedChiSquare(format_packet_data(packet))
<1>1. /\ n \in Nat /\ (n = 0 <=> Rest = {})
      /\ c = IF n = 0 THEN <<0, 0>> ELSE <<SumOfSquares(table, n), n * n>>
  BY ReducedIs
<1>2. SumOfSquares(table, n) \in Nat
  <2>1. table \in [Slots -> Nat]
    BY FrequenciesType DEF Rest
  <2> HIDE DEF table, n
  <2> QED BY <1>1, <2>1, TermsType
<1> HIDE DEF n, table, c
<1>3. n * n \in Nat /\ (n * n = 0 <=> n = 0)
  BY <1>1
<1>4. c \in Nat \X Nat /\ (c[2] = 0 <=> Rest = {})
  BY <1>1, <1>2, <1>3
<1> QED BY <1>4 DEF c

-----------------------------------------------------------------------------
(* The inductive invariant.                                                *)

\* The header bounds the packet, and what is shown was computed from it.
PacketInv ==
  /\ packet \in Seq(Bytes)
  /\ Len(packet) >= 4 => /\ 256 * packet[3] + packet[4] <= MaxPayload
                         /\ Len(packet) <= 4 + 256 * packet[3] + packet[4]
  /\ Measured => Complete /\ chi = ReducedChiSquare(format_packet_data(packet))

AverageInv ==
  /\ isNumber \in [Series -> BOOLEAN]
  /\ nulls \subseteq Series
  /\ AverageLostOnlyToNulls

StatsInv == PacketInv /\ AverageInv

LEMMA EmptyPacketInv ==
  ASSUME packet = <<>>, chi = NotMeasured
  PROVE  PacketInv
BY DEF PacketInv, Measured

LEMMA ReceiveKeeps ==
  ASSUME PacketInv, NEW byte \in Bytes, Receive(byte)
  PROVE  PacketInv'
<1> DEFINE n == Len(packet)
           new == Append(packet, byte)
<1>1. /\ n \in Nat /\ new \in Seq(Bytes) /\ Len(new) = n + 1
      /\ \A i \in 1..n : new[i] = packet[i]
      /\ new[n + 1] = byte
      /\ \A i \in 1..n : packet[i] \in Nat
      /\ MaxPayload \in Nat /\ byte \in Nat
  <2>1. packet \in Seq(Bytes)
    BY DEF PacketInv
  <2>2. \A b \in Bytes : b \in Nat
    BY StatsAssumption
  <2>3. /\ n \in Nat /\ new \in Seq(Bytes) /\ Len(new) = n + 1
        /\ \A i \in 1..n : new[i] = packet[i]
        /\ new[n + 1] = byte
    BY <2>1
  <2>4. \A i \in 1..n : packet[i] \in Bytes
    BY <2>1
  <2>5. MaxPayload \in Nat
    BY StatsAssumption
  <2> HIDE DEF n, new
  <2> QED BY <2>2, <2>3, <2>4, <2>5
<1>2. /\ packet' = new /\ chi' = chi /\ ~Complete
      /\ n = 3 => 256 * packet[3] + byte <= MaxPayload
  BY DEF Receive
<1>3. ~Measured
  BY <1>2 DEF PacketInv
<1>4. n >= 4 => /\ packet[3] \in Nat /\ packet[4] \in Nat
               /\ 256 * packet[3] + packet[4] <= MaxPayload
               /\ n < 4 + 256 * packet[3] + packet[4]
  <2>1. n >= 4 => /\ packet[3] \in Nat /\ packet[4] \in Nat
                  /\ 256 * packet[3] + packet[4] <= MaxPayload
                  /\ n <= 4 + 256 * packet[3] + packet[4]
    BY <1>1 DEF PacketInv
  <2>2. n >= 4 => n # 4 + 256 * packet[3] + packet[4]
    BY <1>2 DEF Complete
  <2> HIDE DEF n, new
  <2>3. n \in Nat
    BY <1>1
  <2> QED BY <2>1, <2>2, <2>3
<1> HIDE DEF n, new
<1>5. n + 1 >= 4 => /\ 256 * new[3] + new[4] <= MaxPayload
                   /\ n + 1 <= 4 + 256 * new[3] + new[4]
  <2>1. n + 1 = 4 => new[4] = byte /\ new[3] = packet[3] /\ packet[3] \in Nat
    BY <1>1
  <2>2. n >= 4 => new[4] = packet[4] /\ new[3] = packet[3]
    BY <1>1
  <2> QED BY <1>1, <1>2, <1>4, <2>1, <2>2
<1> QED BY <1>1, <1>2, <1>3, <1>5 DEF PacketInv, Measured

\* A packet of zero bytes only has command 0: plaintext of the flight controller.
LEMMA MeasureKeeps ==
  ASSUME StatsInv, Measure
  PROVE  StatsInv'
<1> DEFINE s == Classify(packet[1])
<1>1. packet \in Seq(Bytes) /\ Complete /\ chi = NotMeasured
  BY DEF StatsInv, PacketInv, Measure
<1>2. CASE s \notin Series
  <2>1. packet' = <<>> /\ UNCHANGED <<chi, isNumber, nulls>>
    BY <1>2 DEF Measure
  <2> QED BY <1>1, <2>1 DEF StatsInv, PacketInv, Measured, AverageInv, AverageLostOnlyToNulls
<1>3. CASE s \in Series
  <2> DEFINE c == ReducedChiSquare(format_packet_data(packet))
             zero == \A i \in DOMAIN packet : packet[i] = 0
  <2>1. /\ chi' = c /\ packet' = packet
        /\ isNumber' = [isNumber EXCEPT ![s] = isNumber[s] /\ chi'[2] # 0]
        /\ nulls' = IF zero THEN nulls \cup {s} ELSE nulls
    BY <1>3 DEF Measure
  <2>2. chi'[2] = 0 <=> zero
    <3>1. Rest = {} <=> zero
      BY DEF Rest
    <3> QED BY <1>1, <2>1, <3>1, ReducedType
  <2>3. zero => s = <<"fcc", "plaintext">>
    <3>1. 1 \in DOMAIN packet
      BY <1>1, PacketFacts DEF Complete
    <3> QED BY <3>1 DEF Classify
  <2>4. PacketInv'
    BY <1>1, <2>1 DEF StatsInv, PacketInv, Complete
  <2> HIDE DEF s, c, zero
  <2>5. isNumber' \in [Series -> BOOLEAN] /\ nulls' \subseteq Series
    BY <1>3, <2>1 DEF StatsInv, AverageInv
  <2>6. \A t \in Series : ~isNumber'[t] <=> t \in nulls' /\ t = <<"fcc", "plaintext">>
    BY <1>3, <2>1, <2>2, <2>3 DEF StatsInv, AverageInv, AverageLostOnlyToNulls
  <2> QED BY <2>4, <2>5, <2>6 DEF StatsInv, AverageInv, AverageLostOnlyToNulls
<1> QED BY <1>2, <1>3

LEMMA StatsInvStep ==
  StatsInv /\ [Next]_vars => StatsInv'
<1> SUFFICES ASSUME StatsInv, [Next]_vars PROVE StatsInv'
  OBVIOUS
<1>1. ASSUME UNCHANGED <<isNumber, nulls>> PROVE AverageInv'
  BY <1>1 DEF StatsInv, AverageInv, AverageLostOnlyToNulls
<1>2. CASE UNCHANGED vars
  BY <1>1, <1>2 DEF vars, StatsInv, PacketInv, Measured, Complete
<1>3. ASSUME NEW byte \in Bytes, Receive(byte) PROVE StatsInv'
  BY <1>1, <1>3, ReceiveKeeps DEF StatsInv, Receive
<1>4. CASE NextPacket
  BY <1>1, <1>4 DEF NextPacket, StatsInv, PacketInv, Measured
<1>5. CASE Measure
  BY <1>5, MeasureKeeps
<1> QED BY <1>2, <1>3, <1>4, <1>5 DEF Next

LEMMA StatsInvInit == Init => StatsInv
BY DEF Init, StatsInv, PacketInv, Measured, AverageInv, AverageLostOnlyToNulls

\* What is measured is a packet with its command, and of bytes.
LEMMA StatsInvTypes == StatsInv => TypeOK
<1> SUFFICES ASSUME StatsInv PROVE TypeOK
  OBVIOUS
<1>1. packet \in Seq(Bytes) /\ Len(packet) \in Nat /\ MaxPayload \in Nat
  BY StatsAssumption, PacketFacts DEF StatsInv, PacketInv
<1>2. Len(packet) <= MaxPayload + 4
  <2>1. Len(packet) >= 4 => 3 \in DOMAIN packet /\ 4 \in DOMAIN packet
    BY <1>1
  <2>2. \A k \in DOMAIN packet : packet[k] \in 0..255
    BY <1>1, PacketFacts
  <2>3. ASSUME Len(packet) >= 4 PROVE packet[3] \in Nat /\ packet[4] \in Nat
    <3>1. packet[3] \in 0..255 /\ packet[4] \in 0..255
      BY <2>1, <2>2, <2>3, Zenon
    <3> QED BY <3>1
  <2> QED BY <1>1, <2>3 DEF StatsInv, PacketInv
<1>3. chi = NotMeasured \/ chi \in Nat \X Nat
  BY <1>1, ReducedType DEF StatsInv, PacketInv, Measured
<1> QED BY <1>1, <1>2, <1>3 DEF TypeOK, StatsInv, AverageInv

-----------------------------------------------------------------------------
(* The chi-square shown against the one of the bytes.  Both sums are       *)
(* followed while the values below some bound are entered in the tables:   *)
(* with a value that has no slot the sum of the bytes gets ahead.          *)

\* The positions of the values below bound, and the tables with these values.
Below(bound) == {k \in DOMAIN packet : packet[k] # 0 /\ packet[k] < bound}
TrueTable(bound) == [b \in Slots |-> IF b = 0 \/ b >= bound THEN 0 ELSE Times(b)]
Counted(bound) == Frequencies(format_packet_data(packet), Below(bound))

\* By how much the sum of the bytes is ahead.
Ahead(bound, lead) ==
  /\ Total(Terms(TrueTable(bound), NotZero)) =
       Total(Terms(Counted(bound), NotZero)) + 256 * lead
  /\ lead = 0 <=> \A k \in Below(bound) : Slot(Hex(packet[k])) # NoSlot

LEMMA NotZeroIs ==
  ASSUME packet \in Seq(Bytes)
  PROVE  NotZero = Cardinality(Rest) /\ NotZero \in Nat
<1> DEFINE Zero == {k \in DOMAIN packet : packet[k] = 0}
<1>1. /\ DOMAIN packet = 1..Len(packet) /\ Len(packet) \in Nat
      /\ IsFiniteSet(DOMAIN packet) /\ IsFiniteSet(Zero)
      /\ Cardinality(Rest) \in Nat
  BY PacketFacts DEF Rest
<1>2. Rest = DOMAIN packet \ Zero
  BY DEF Rest
<1>3. DOMAIN packet \cap Zero = Zero
  OBVIOUS
<1>4. Times(0) = Cardinality(Zero)
  BY DEF Times
<1> HIDE DEF Zero
<1>5. Cardinality(DOMAIN packet) = Len(packet)
  <2>1. ASSUME NEW m \in Nat PROVE Cardinality(1..m) = m
    <3>1. Cardinality(1..m) = IF 1 > m THEN 0 ELSE m - 1 + 1
      BY FS_Interval
    <3> QED BY <3>1
  <2> QED BY <1>1, <2>1
<1>6. Cardinality(Rest) = Cardinality(DOMAIN packet) - Cardinality(Zero)
  BY <1>1, <1>2, <1>3, FS_Difference
<1> QED BY <1>1, <1>4, <1>5, <1>6 DEF NotZero

LEMMA TablesType ==
  ASSUME packet \in Seq(Bytes), NEW bound \in Int
  PROVE  /\ TrueTable(bound) \in [Slots -> Nat]
         /\ Counted(bound) \in [Slots -> Nat]
<1>1. \A b \in Slots : Times(b) \in Nat
  BY PacketFacts DEF Times
<1>2. Below(bound) \in SUBSET (DOMAIN packet)
  BY DEF Below
<1> QED BY <1>1, <1>2, FrequenciesType DEF TrueTable, Counted

\* With a value that occurs, a sum grows by a multiple of 256; for n < 128 it
\* does grow.
LEMMA SquareGrows ==
  ASSUME NEW t \in Nat, NEW n \in Nat
  PROVE  /\ Square(256 * t - n) - Square(256 * 0 - n) = 256 * (t * (256 * t - 2 * n))
         /\ t * (256 * t - 2 * n) \in Int
         /\ t > 0 /\ n < 128 => t * (256 * t - 2 * n) > 0
<1>1. Square(256 * t - n) - Square(256 * 0 - n) = 256 * (t * (256 * t - 2 * n))
  BY DEF Square
<1>2. ASSUME t > 0, n < 128 PROVE t * (256 * t - 2 * n) > 0
  <2>1. 256 * t - 2 * n \in Nat \ {0}
    BY <1>2
  <2>2. \A x, y \in Nat \ {0} : x * y > 0
    OBVIOUS
  <2> QED BY <1>2, <2>1, <2>2
<1> QED BY <1>1, <1>2

\* Entering a value into a table.
LEMMA EnterValue ==
  ASSUME NEW f \in [Slots -> Nat], NEW g \in [Slots -> Nat], NEW j \in Slots,
         NEW n \in Nat, NEW t \in Nat,
         \A i \in Slots : i # j => f[i] = g[i],
         f[j] = t, g[j] = 0
  PROVE  Total(Terms(f, n)) = Total(Terms(g, n)) + 256 * (t * (256 * t - 2 * n))
<1>1. Terms(f, n) \in [Slots -> Int] /\ Terms(g, n) \in [Slots -> Int]
  BY TermsType
<1>2. \A i \in Slots : i # j => Terms(f, n)[i] = Terms(g, n)[i]
  BY DEF Terms
<1>3. Total(Terms(f, n)) = Total(Terms(g, n)) + (Terms(f, n)[j] - Terms(g, n)[j])
  BY <1>1, <1>2, TotalDiffers
<1>4. Terms(f, n)[j] = Square(256 * t - n) /\ Terms(g, n)[j] = Square(256 * 0 - n)
  BY DEF Terms
<1> QED BY <1>3, <1>4, SquareGrows

\* Entering the value bound keeps the account.
LEMMA EnterKeeps ==
  ASSUME packet \in Seq(Bytes), NotZero < 128, NEW bound \in 0..255,
         NEW lead \in Nat, Ahead(bound, lead)
  PROVE  \E more \in Nat : Ahead(bound + 1, more)
<1> DEFINE n == NotZero
           t == Times(bound)
           At == {k \in DOMAIN packet : packet[k] = bound}
           F == Counted(bound)
           G == Counted(bound + 1)
           more == t * (256 * t - 2 * n)
<1>1. /\ n \in Nat /\ n < 128
      /\ t = Cardinality(At) /\ t \in Nat
      /\ t = 0 <=> At = {}
      /\ F \in [Slots -> Nat] /\ G \in [Slots -> Nat]
      /\ TrueTable(bound) \in [Slots -> Nat] /\ TrueTable(bound + 1) \in [Slots -> Nat]
  <2>1. IsFiniteSet(At) /\ Cardinality(At) \in Nat
    BY PacketFacts
  <2>2. t = Cardinality(At)
    BY DEF Times
  <2> HIDE DEF At
  <2>3. Cardinality(At) = 0 <=> At = {}
    BY <2>1, FS_EmptySet
  <2>4. bound \in Int /\ bound + 1 \in Int
    OBVIOUS
  <2>5. F \in [Slots -> Nat] /\ TrueTable(bound) \in [Slots -> Nat]
    BY <2>4, TablesType
  <2>6. \A m \in Int : Counted(m) \in [Slots -> Nat] /\ TrueTable(m) \in [Slots -> Nat]
    BY TablesType
  <2>7. G \in [Slots -> Nat] /\ TrueTable(bound + 1) \in [Slots -> Nat]
    BY <2>4, <2>6, Zenon
  <2>8. n \in Nat
    BY NotZeroIs
  <2>9. n < 128
    OBVIOUS
  <2> HIDE DEF n, t, F, G
  <2> QED BY <2>1, <2>2, <2>3, <2>5, <2>7, <2>8, <2>9
<1>0. \A k \in DOMAIN packet : packet[k] \in 0..255
  BY PacketFacts
<1>2. bound > 0 => Below(bound + 1) = Below(bound) \cup At
  <2>1. ASSUME bound > 0, NEW k \in DOMAIN packet
        PROVE  (packet[k] # 0 /\ packet[k] < bound + 1)
                <=> (packet[k] # 0 /\ packet[k] < bound) \/ packet[k] = bound
    <3>1. \A x \in 0..255 : (x # 0 /\ x < bound + 1) <=> (x # 0 /\ x < bound) \/ x = bound
      BY <2>1
    <3> QED BY <1>0, <3>1, Zenon
  <2> QED BY <2>1 DEF Below
<1>3. At = {} \/ bound = 0 => Below(bound + 1) = Below(bound)
  <2>1. ASSUME At = {} \/ bound = 0, NEW k \in DOMAIN packet
        PROVE  (packet[k] # 0 /\ packet[k] < bound + 1) <=> (packet[k] # 0 /\ packet[k] < bound)
    <3>1. packet[k] \in 0..255 /\ (packet[k] = bound => bound = 0)
      BY <1>0, <2>1
    <3>2. \A x \in 0..255 : (x = bound => bound = 0) =>
            ((x # 0 /\ x < bound + 1) <=> (x # 0 /\ x < bound))
      OBVIOUS
    <3> QED BY <3>1, <3>2, Zenon
  <2> QED BY <2>1 DEF Below
<1>4. At = {} \/ bound = 0 => TrueTable(bound + 1) = TrueTable(bound)
  <2>1. At = {} => t = 0
    BY <1>1
  <2> SUFFICES ASSUME At = {} \/ bound = 0, NEW b \in 0..255
               PROVE  (IF b = 0 \/ b >= bound + 1 THEN 0 ELSE Times(b))
                       = IF b = 0 \/ b >= bound THEN 0 ELSE Times(b)
    BY DEF TrueTable, Slots
  <2>2. CASE b = bound
    BY <2>1, <2>2
  <2>3. CASE b # bound
    BY <2>3
  <2> QED BY <2>2, <2>3
<1>5. CASE At = {} \/ bound = 0
  <2>1. Counted(bound + 1) = Counted(bound)
    BY <1>3, <1>5 DEF Counted
  <2>2. Ahead(bound + 1, lead)
    BY <1>3, <1>4, <1>5, <2>1 DEF Ahead
  <2> QED BY <2>2
<1>6. CASE At # {} /\ bound # 0
  <2>1. Total(Terms(TrueTable(bound + 1), n)) = Total(Terms(TrueTable(bound), n)) + 256 * more
    <3>1. bound \in Slots /\ TrueTable(bound + 1)[bound] = t /\ TrueTable(bound)[bound] = 0
      BY <1>6 DEF TrueTable, Slots
    <3>2. \A i \in Slots : i # bound => TrueTable(bound + 1)[i] = TrueTable(bound)[i]
      BY DEF TrueTable, Slots
    <3> DEFINE f == TrueTable(bound + 1)
               g == TrueTable(bound)
    <3>3. f \in [Slots -> Nat] /\ g \in [Slots -> Nat] /\ n \in Nat /\ t \in Nat
      BY <1>1
    <3>4. bound \in Slots /\ f[bound] = t /\ g[bound] = 0
      BY <3>1
    <3>5. \A i \in Slots : i # bound => f[i] = g[i]
      BY <3>2
    <3> HIDE DEF f, g, n, t
    <3>6. Total(Terms(f, n)) = Total(Terms(g, n)) + 256 * (t * (256 * t - 2 * n))
      BY <3>3, <3>4, <3>5, EnterValue
    <3> QED BY <3>6 DEF f, g
  <2>2. more \in Nat /\ more > 0
    <3> HIDE DEF t, n, At
    <3> QED BY <1>1, <1>6, SquareGrows
  <2>3. \A k \in At : format_packet_data(packet)[k] = Hex(bound) /\ packet[k] = bound
    BY PacketFacts
  <2>4. /\ Total(Terms(TrueTable(bound), n)) = Total(Terms(F, n)) + 256 * lead
        /\ lead = 0 <=> \A k \in Below(bound) : Slot(Hex(packet[k])) # NoSlot
    BY DEF Ahead
  <2>5. Total(Terms(F, n)) \in Nat /\ Total(Terms(TrueTable(bound), n)) \in Nat
        /\ Total(Terms(G, n)) \in Nat
    <3> HIDE DEF n, F, G
    <3> QED BY <1>1, TermsType
  <2>6. Below(bound + 1) = Below(bound) \cup At
    BY <1>2, <1>6
  <2>7. CASE Slot(Hex(bound)) = NoSlot
    <3>1. \A i \in Slots : {k \in Below(bound + 1) : Slot(format_packet_data(packet)[k]) = i}
                         = {k \in Below(bound) : Slot(format_packet_data(packet)[k]) = i}
      <4> HIDE DEF At
      <4> QED BY <2>3, <2>6, <2>7, SlotsDiffer
    <3>2. G = F
      BY <3>1 DEF Counted, Frequencies
    <3>3. \E k \in Below(bound + 1) : Slot(Hex(packet[k])) = NoSlot
      <4> HIDE DEF At
      <4> QED BY <1>6, <2>3, <2>6, <2>7
    <3> HIDE DEF n, F, G, more
    <3>4. Total(Terms(TrueTable(bound + 1), n)) = Total(Terms(G, n)) + 256 * (lead + more)
      BY <2>1, <2>2, <2>4, <2>5, <3>2
    <3>5. lead + more \in Nat /\ lead + more # 0
      BY <2>2
    <3>6. Ahead(bound + 1, lead + more)
      BY <3>3, <3>4, <3>5 DEF Ahead, n, G
    <3> QED BY <3>5, <3>6
  <2>8. CASE Slot(Hex(bound)) # NoSlot
    <3> DEFINE j == Slot(Hex(bound))
    <3>1. j \in Slots /\ bound \in 0..255
      BY <2>8, SlotsDiffer
    <3>2. \A k \in DOMAIN packet : format_packet_data(packet)[k] = Hex(packet[k])
      BY PacketFacts
    <3>3. ASSUME NEW k \in DOMAIN packet
          PROVE  Slot(format_packet_data(packet)[k]) = j <=> packet[k] = bound
      <4>1. packet[k] \in 0..255 /\ format_packet_data(packet)[k] = Hex(packet[k])
        BY <1>0, <3>2
      <4>2. Slot(Hex(packet[k])) = Slot(Hex(bound)) => packet[k] = bound
        BY <2>8, <4>1, SlotsDiffer
      <4> QED BY <4>1, <4>2
    <3>4. {k \in Below(bound + 1) : Slot(format_packet_data(packet)[k]) = j} = At
      BY <2>6, <3>3 DEF Below
    <3>5. {k \in Below(bound) : Slot(format_packet_data(packet)[k]) = j} = {}
      BY <3>3 DEF Below
    <3>6. \A i \in Slots \ {j} :
            {k \in Below(bound + 1) : Slot(format_packet_data(packet)[k]) = i}
            = {k \in Below(bound) : Slot(format_packet_data(packet)[k]) = i}
      <4> HIDE DEF At
      <4> QED BY <2>3, <2>6
    <3>7. G[j] = t /\ F[j] = 0
      BY <1>1, <3>1, <3>4, <3>5, FS_EmptySet DEF Counted, Frequencies
    <3>8. \A i \in Slots : i # j => G[i] = F[i]
      BY <3>6 DEF Counted, Frequencies
    <3>9. Total(Terms(G, n)) = Total(Terms(F, n)) + 256 * more
      <4>1. F \in [Slots -> Nat] /\ G \in [Slots -> Nat] /\ n \in Nat /\ t \in Nat
        BY <1>1
      <4>2. j \in Slots
        BY <3>1
      <4> HIDE DEF n, t, F, G, j
      <4> QED BY <3>7, <3>8, <4>1, <4>2, EnterValue
    <3>10. (\A k \in Below(bound + 1) : Slot(Hex(packet[k])) # NoSlot)
            <=> (\A k \in Below(bound) : Slot(Hex(packet[k])) # NoSlot)
      <4> HIDE DEF At
      <4> QED BY <2>3, <2>6, <2>8
    <3> HIDE DEF n, F, G, more
    <3>11. Total(Terms(TrueTable(bound + 1), n)) = Total(Terms(G, n)) + 256 * lead
      BY <2>1, <2>2, <2>4, <2>5, <3>9
    <3>12. Ahead(bound + 1, lead)
      BY <2>4, <3>10, <3>11 DEF Ahead, n, G
    <3> QED BY <3>12
  <2> QED BY <2>7, <2>8
<1> QED BY <1>5, <1>6

LEMMA AllEntered ==
  ASSUME packet \in Seq(Bytes), NotZero < 128
  PROVE  \E lead \in Nat : Ahead(256, lead)
<1> DEFINE P(bound) == \E lead \in Nat : Ahead(bound, lead)
           T == {bound \in 0..256 : ~P(bound)}
<1>1. P(0)
  <2>1. Below(0) = {}
    <3>1. \A k \in DOMAIN packet : packet[k] \in 0..255
      BY PacketFacts
    <3>2. \A x \in 0..255 : ~(x < 0)
      OBVIOUS
    <3>3. \A k \in DOMAIN packet : ~(packet[k] < 0)
      BY <3>1, <3>2, Zenon
    <3> QED BY <3>3 DEF Below
  <2>2. \A i \in Slots : Counted(0)[i] = 0 /\ TrueTable(0)[i] = 0
    <3> SUFFICES ASSUME NEW i \in Slots PROVE Counted(0)[i] = 0 /\ TrueTable(0)[i] = 0
      OBVIOUS
    <3>1. {k \in Below(0) : Slot(format_packet_data(packet)[k]) = i} = {}
      BY <2>1
    <3>2. Counted(0)[i] = 0
      BY <3>1, FS_EmptySet DEF Counted, Frequencies
    <3>3. TrueTable(0)[i] = 0
      <4>1. i >= 0
        BY DEF Slots
      <4> QED BY <4>1 DEF TrueTable
    <3> QED BY <3>2, <3>3
  <2>3. Counted(0) = TrueTable(0)
    <3>1. Counted(0) \in [Slots -> Nat] /\ TrueTable(0) \in [Slots -> Nat]
      BY TablesType
    <3> QED BY <2>2, <3>1
  <2>4. Total(Terms(TrueTable(0), NotZero)) \in Nat
    <3>1. TrueTable(0) \in [Slots -> Nat] /\ NotZero \in Nat
      BY NotZeroIs, TablesType
    <3> QED BY <3>1, TermsType
  <2>5. Ahead(0, 0)
    BY <2>1, <2>3, <2>4 DEF Ahead
  <2> QED BY <2>5
<1>2. ASSUME NEW bound \in 0..255, P(bound) PROVE P(bound + 1)
  BY <1>2, EnterKeeps
<1> HIDE DEF P
<1>3. ASSUME T # {} PROVE FALSE
  <2>1. T \in SUBSET Nat
    <3>1. 0..256 \subseteq Nat
      OBVIOUS
    <3> QED BY <3>1, Zenon
  <2>2. PICK m \in T : \A k \in T : m <= k
    BY <1>3, <2>1, LeastNatural
  <2>3. m \in 1..256 /\ m - 1 \in 0..255 /\ m - 1 \in 0..256 /\ m - 1 \notin T
    BY <1>1, <2>2
  <2>4. P((m - 1) + 1)
    BY <1>2, <2>3
  <2> QED BY <2>2, <2>3, <2>4
<1>4. P(256)
  BY <1>3
<1> QED BY <1>4 DEF P

-----------------------------------------------------------------------------
(* The theorems.                                                           *)

\* The inductive invariant of the statistics.
THEOREM StatsInvariant == Spec => []StatsInv
BY StatsInvInit, StatsInvStep, PTL DEF Spec

\* A packet never grows beyond what its header says, and a chi-square is a
\* fraction of natural numbers.
THEOREM StatisticsTypes == Spec => []TypeOK
BY StatsInvariant, StatsInvTypes, PTL

\* The only thing that makes an average NaN is a packet of zero bytes only, and
\* only the plaintext of the flight controller can have one.
THEOREM AveragesLostToNulls == Spec => []AverageLostOnlyToNulls
<1>1. StatsInv => AverageLostOnlyToNulls
  BY DEF StatsInv, AverageInv
<1> QED BY <1>1, StatsInvariant, PTL

\* However bytes become strings and strings indices, a slot of the table counts
\* the occurrences of a single byte.
THEOREM NoTwoValuesShareASlot == Spec => []SlotsCountOneValue
<1>1. StatsInv => SlotsCountOneValue
  <2> DEFINE data == format_packet_data(packet)
             At(i) == {k \in DOMAIN packet : Slot(data[k]) = i}
             table == Frequencies(data, DOMAIN packet)
  <2> SUFFICES ASSUME StatsInv, NEW i \in Slots, table[i] > 0
               PROVE  \E b \in Bytes : Slot(Hex(b)) = i /\ table[i] = Times(b)
    BY DEF SlotsCountOneValue
  <2>1. packet \in Seq(Bytes)
    BY DEF StatsInv, PacketInv
  <2>2. table[i] = Cardinality(At(i))
    BY DEF Frequencies
  <2>3. At(i) # {}
    <3> HIDE DEF At, table
    <3>1. At(i) = {} => Cardinality(At(i)) = 0
      BY FS_EmptySet
    <3> QED BY <2>2, <3>1
  <2>4. PICK k \in DOMAIN packet : Slot(data[k]) = i
    BY <2>3
  <2>5. packet[k] \in Bytes /\ packet[k] \in 0..255 /\ Slot(Hex(packet[k])) = i
    BY <2>1, <2>4, PacketFacts
  <2>6. At(i) = {j \in DOMAIN packet : packet[j] = packet[k]}
    <3>1. \A j \in DOMAIN packet : packet[j] \in 0..255 /\ data[j] = Hex(packet[j])
      BY <2>1, PacketFacts
    <3>2. i # NoSlot
      BY SlotsDiffer
    <3>3. \A j \in DOMAIN packet : Slot(data[j]) = i <=> packet[j] = packet[k]
      BY <2>5, <3>1, <3>2, SlotsDiffer
    <3> QED BY <3>3
  <2>7. table[i] = Times(packet[k])
    BY <2>2, <2>6 DEF Times
  <2> QED BY <2>5, <2>7
<1> QED BY <1>1, StatsInvariant, PTL

\* A packet of any length that has fewer than 128 bytes that are not zero never
\* looks less random than it is, and looks as random as it is only if no byte
\* was lost between the strings and the indices.
THEOREM NoFalseAlarm == Spec => []NeverLooksLessRandom
<1>1. StatsInv => NeverLooksLessRandom
  <2> DEFINE n == NotZero
             T == SumOfSquares(TrueTable(256), n)
             S == SumOfSquares(Counted(256), n)
             read == \A i \in DOMAIN packet : packet[i] = 0 \/ Slot(Hex(packet[i])) # NoSlot
  <2> SUFFICES ASSUME StatsInv, Measured, 0 < NotZero, NotZero < 128
               PROVE  /\ chi[1] * TrueChi[2] <= TrueChi[1] * chi[2]
                      /\ chi[1] * TrueChi[2] = TrueChi[1] * chi[2] <=> read
    BY DEF NeverLooksLessRandom
  <2>1. packet \in Seq(Bytes) /\ chi = ReducedChiSquare(format_packet_data(packet))
    BY DEF StatsInv, PacketInv
  <2>2. \A k \in DOMAIN packet : packet[k] \in 0..255
    BY <2>1, PacketFacts
  <2>3. Below(256) = Rest
    <3>1. \A x \in 0..255 : x < 256
      OBVIOUS
    <3>2. \A k \in DOMAIN packet : packet[k] < 256
      BY <2>2, <3>1, Zenon
    <3> QED BY <3>2 DEF Below, Rest
  <2>4. TrueTable(256) = [b \in Slots |-> IF b = 0 THEN 0 ELSE Times(b)]
    <3>1. \A b \in Slots : ~(b >= 256)
      BY DEF Slots
    <3> QED BY <3>1 DEF TrueTable
  <2>5. n = Cardinality(Rest) /\ n \in Nat /\ n \in 1..127
    <3>1. n = Cardinality(Rest) /\ n \in Nat
      BY <2>1, NotZeroIs
    <3> QED BY <3>1
  <2>6. TrueChi = <<T, n * n>>
    BY <2>4 DEF TrueChi
  <2>7. chi = <<S, n * n>>
    <3>1. n # 0
      BY <2>5
    <3> QED BY <2>1, <2>3, <2>5, <3>1, ReducedIs DEF Counted
  <2>8. PICK lead \in Nat : Ahead(256, lead)
    BY <2>1, AllEntered
  <2>9. T = S + lead /\ T \in Nat /\ S \in Nat
    <3> DEFINE f == Total(Terms(TrueTable(256), n))
               g == Total(Terms(Counted(256), n))
    <3>1. TrueTable(256) \in [Slots -> Nat] /\ Counted(256) \in [Slots -> Nat]
      <4>1. \A m \in Int : TrueTable(m) \in [Slots -> Nat] /\ Counted(m) \in [Slots -> Nat]
        BY <2>1, TablesType
      <4> QED BY <4>1
    <3> HIDE DEF n
    <3>2. /\ f \in Nat /\ g \in Nat /\ T = f \div 256 /\ S = g \div 256
          /\ T \in Nat /\ S \in Nat
      BY <2>5, <3>1, TermsType
    <3>3. f = g + 256 * lead
      BY <2>8 DEF Ahead, n
    <3> HIDE DEF f, g, T, S
    <3>4. (g + 256 * lead) \div 256 = g \div 256 + lead
      BY <3>2
    <3> QED BY <3>2, <3>3, <3>4
  <2>10. lead = 0 <=> read
    <3>1. lead = 0 <=> \A k \in Rest : Slot(Hex(packet[k])) # NoSlot
      BY <2>3, <2>8 DEF Ahead
    <3> QED BY <3>1 DEF Rest
  <2> HIDE DEF n, T, S, read
  <2>11. n * n \in Nat /\ n * n > 0
    BY <2>5
  <2>12. \A m \in Nat : m > 0 =>
           S * m <= (S + lead) * m /\ (S * m = (S + lead) * m <=> lead = 0)
    <3> SUFFICES ASSUME NEW m \in Nat, m > 0
                 PROVE  S * m <= (S + lead) * m /\ (S * m = (S + lead) * m <=> lead = 0)
      OBVIOUS
    <3>1. (S + lead) * m = S * m + lead * m /\ S * m \in Nat /\ lead * m \in Nat
      BY <2>9
    <3>2. lead * m = 0 <=> lead = 0
      OBVIOUS
    <3> HIDE DEF S
    <3> QED BY <3>1, <3>2
  <2>13. S * (n * n) <= T * (n * n) /\ (S * (n * n) = T * (n * n) <=> lead = 0)
    BY <2>9, <2>11, <2>12
  <2> QED BY <2>6, <2>7, <2>10, <2>13
<1> QED BY <1>1, StatsInvariant, PTL
=============================================================================
