------------------------ MODULE ReplaySimulatorProofs ------------------------
(* Theorems of ReplaySimulator, for every dump, every length of a record and *)
(* every size of a block and of the buffer of the client.                    *)
EXTENDS ReplaySimulator, NaturalLemmas, TLAPS

-----------------------------------------------------------------------------
(* The operators.                                                          *)

LEMMA DumpType ==
  ASSUME dump \in Dumps
  PROVE  /\ N \in Nat
         /\ \A i \in 1..N : /\ dump[i].ts \in Nat /\ dump[i].seq \in 0..255
                            /\ dump[i].len \in Nat /\ dump[i].kind \in Kinds
<1>1. dump \in Seq(Record)
  BY DumpAssumption
<1>2. N \in Nat /\ \A i \in 1..N : dump[i] \in Record
  BY <1>1 DEF N
<1> QED BY <1>2 DEF Record

\* There is a time after every timestamp, so the CHOOSE of Horizon finds one.
LEMMA HorizonType ==
  ASSUME dump \in Dumps
  PROVE  Horizon \in Nat \ {0}
<1> DEFINE f == [i \in 1..N |-> dump[i].ts]
           H == {dump[i].ts + 1 : i \in 1..N} \cup {1}
<1>1. N \in Nat /\ \A i \in 1..N : f[i] \in Nat /\ f[i] = dump[i].ts
  BY DumpType
<1>2. PICK h \in {f[i] : i \in 1..N} \cup {0} : \A i \in 1..N : f[i] <= h
  <2> HIDE DEF f
  <2> QED BY <1>1, LargestOf
<1>3. h \in Nat /\ h + 1 \in H
  BY <1>1
<1>4. \A i \in 1..N : dump[i].ts < h + 1
  BY <1>1, <1>2, <1>3
<1>5. Horizon \in H
  BY <1>3, <1>4 DEF Horizon
<1>6. H \subseteq Nat \ {0}
  BY <1>1
<1> QED BY <1>5, <1>6

\* Counting on by the distance, modulo 256, gives the number that came.
LEMMA DropsCountOn ==
  ASSUME NEW seq \in 0..255, prev \in 0..255
  PROVE  Drops(seq) \in 0..255 /\ (prev + (1 + Drops(seq))) % 256 = seq
<1> DEFINE e == (prev + 1) % 256
           d == IF seq - e < 0 THEN (seq - e) + 256 ELSE seq - e
<1>1. Drops(seq) = d
  BY DEF Drops, Expected
<1>2. d \in 0..255 /\ (prev + (1 + d)) % 256 = seq
  OBVIOUS
<1> HIDE DEF d
<1> QED BY <1>1, <1>2

\* n units from the position in buf go on with what was sent of it.
LEMMA GoesOn ==
  ASSUME NEW k \in Nat, NEW n \in Nat
  PROVE  [i \in 1..k |-> i] \o [i \in 1..n |-> k + i] = [i \in 1..(k + n) |-> i]
<1> DEFINE s == [i \in 1..k |-> i]
           t == [i \in 1..n |-> k + i]
<1>1. s \in Seq(Nat) /\ Len(s) = k /\ t \in Seq(Nat) /\ Len(t) = n
  OBVIOUS
<1>2. /\ s \o t \in Seq(Nat) /\ Len(s \o t) = k + n
      /\ \A i \in 1..(k + n) : (s \o t)[i] = IF i <= k THEN s[i] ELSE t[i - k]
  BY <1>1
<1>3. \A i \in 1..(k + n) : (s \o t)[i] = i
  BY <1>2
<1>4. s \o t = [i \in 1..(k + n) |-> (s \o t)[i]]
  BY <1>2
<1> QED BY <1>3, <1>4

-----------------------------------------------------------------------------
(* The inductive invariant.                                                *)

\* Every record before j was sent in this pass, the last of them last; or none
\* is to be sent before j, and the pass before this one, if any, was complete.
UpTo(j) ==
  \/ /\ last = 0 \/ (last >= j /\ NoneBetween(last, N + 1))
     /\ NoneBetween(0, j)
  \/ 0 < last /\ last < j /\ NoneBetween(last, j)

\* How the place in the file, the record in buf and the one sent last to this
\* client go together.
Place ==
  /\ last # 0 => last \in Sendable
  /\ pc = "read" => UpTo(pos)
  /\ pc \in {"wait", "send"} => rec \in Sendable /\ pos = rec + 1 /\ UpTo(rec)

\* How the counters of the send loop and what the kernel took go together.
Portions ==
  pc = "send" => /\ off + left = dump[rec].len
                 /\ stream = [i \in 1..off |-> i]

\* The printer remembers the number of the record printed last.  That one is in
\* buf, or it is the one sent last to this client, or this client was sent none.
Printed ==
  /\ shown = 0 => prev = NoSeq
  /\ shown # 0 => shown \in Sendable /\ prev = dump[shown].seq
  /\ pc = "send" => shown = rec
  /\ pc \in {"read", "wait"} /\ last # 0 => shown = last

ReplayInv == TypeOK /\ Place /\ Portions /\ Printed

\* What TypeOK says, and what it makes of the operators.
LEMMA Facts ==
  ASSUME TypeOK
  PROVE  /\ N \in Nat /\ Horizon \in Nat \ {0} /\ Block \in Nat \ {0} /\ Room \in Nat \ {0}
         /\ \A i \in 1..N : /\ dump[i].ts \in Nat /\ dump[i].seq \in 0..255
                            /\ dump[i].len \in Nat
         /\ Sendable \subseteq 1..N
BY DumpType, HorizonType, DumpAssumption DEF TypeOK, Sendable

LEMMA DumpFixed ==
  [Next]_vars => dump' = dump /\ N' = N /\ Horizon' = Horizon /\ Sendable' = Sendable
<1> SUFFICES ASSUME [Next]_vars
             PROVE  dump' = dump /\ N' = N /\ Horizon' = Horizon /\ Sendable' = Sendable
  OBVIOUS
<1>1. dump' = dump
  BY DEF Next, vars, Accept, Server, Reads, Rewind, BadRecord, SkipRecord, ReadRecord,
         StartSend, Send, SendFails, RecordSent, Tick, ClientReads, ClientCloses
<1> QED BY <1>1 DEF N, Horizon, Sendable

-----------------------------------------------------------------------------
(* Types.                                                                  *)

\* A portion is not larger than what is left, and the buffer has room for it.
LEMMA SendType ==
  ASSUME TypeOK, Send
  PROVE  /\ left' \in Nat /\ off' \in Nat /\ stream' \in Seq(Nat) /\ buffered' \in 0..Room
         /\ client' \in {"none", "up", "shut", "reset"}
         /\ off' + left' = off + left
<1>1. /\ left \in Nat /\ left > 0 /\ off \in Nat /\ stream \in Seq(Nat) /\ buffered \in 0..Room
      /\ Block \in Nat \ {0} /\ Room \in Nat /\ client \in {"none", "up", "shut", "reset"}
  BY Facts DEF TypeOK, Send
<1>2. PICK ret \in 1..Least(Block, left) :
        Takes(ret) /\ left' = left - ret /\ off' = off + ret
  BY DEF Send
<1>3. ret \in Nat /\ ret <= left
  BY <1>1, <1>2 DEF Least
<1>4. stream' \in Seq(Nat)
  <2>1. [i \in 1..ret |-> off + i] \in Seq(Nat)
    BY <1>1, <1>3
  <2> QED BY <1>1, <1>2, <2>1 DEF Takes
<1>5. buffered' \in 0..Room /\ client' \in {"none", "up", "shut", "reset"}
  BY <1>1, <1>2, <1>3 DEF Takes
<1> QED BY <1>1, <1>2, <1>3, <1>4, <1>5

LEMMA TypeOKStep ==
  ReplayInv /\ [Next]_vars => TypeOK'
<1> SUFFICES ASSUME TypeOK, Place, Printed, [Next]_vars PROVE TypeOK'
  BY DEF ReplayInv
<1>1. /\ N \in Nat /\ Horizon \in Nat \ {0} /\ Block \in Nat \ {0} /\ Room \in Nat \ {0}
      /\ \A i \in 1..N : /\ dump[i].ts \in Nat /\ dump[i].seq \in 0..255
                         /\ dump[i].len \in Nat
      /\ Sendable \subseteq 1..N
  BY Facts
<1>2. dump' = dump /\ N' = N /\ Horizon' = Horizon
  BY DumpFixed
<1> HIDE DEF N, Horizon, Sendable
<1> USE DEF sendVars, printVars
<1>3. CASE UNCHANGED vars
  BY <1>2, <1>3 DEF vars, TypeOK
<1>4. CASE Accept
  BY <1>1, <1>2, <1>4 DEF Accept, TypeOK
<1>5. CASE Rewind \/ SkipRecord
  <2>1. pos' \in 1..(N + 1)
    BY <1>1, <1>5 DEF Rewind, SkipRecord, TypeOK
  <2>2. UNCHANGED <<dump, pc, rec, first, elapsed, client, buffered, passTime, last,
                    left, off, stream, prev, report, shown>>
    BY <1>5 DEF Rewind, SkipRecord
  <2> QED BY <1>2, <2>1, <2>2 DEF TypeOK
<1>6. CASE BadRecord
  BY <1>1, <1>2, <1>6 DEF BadRecord, Hangup, TypeOK
<1>7. CASE ReadRecord
  <2>1. pos \in 1..N
    BY <1>1, <1>7 DEF ReadRecord
  <2> QED BY <1>1, <1>2, <1>7, <2>1 DEF ReadRecord, TypeOK
<1>8. CASE StartSend
  <2>1. rec \in 1..N /\ dump[rec].seq \in 0..255 /\ dump[rec].len \in Nat
    BY <1>1, <1>8 DEF StartSend, Place
  <2>2. prev' \in 0..NoSeq /\ shown' \in 0..N'
    BY <1>1, <1>2, <1>8, <2>1 DEF StartSend, PrintPacket, Reports, NoSeq
  <2>3. report' \in 0..255
    <3>1. prev # NoSeq => prev \in 0..255
      BY DEF TypeOK, NoSeq
    <3>2. CASE prev = NoSeq
      BY <1>8, <3>2 DEF StartSend, PrintPacket, Reports
    <3>3. CASE prev # NoSeq
      <4>1. report' = Drops(dump[rec].seq)
        BY <1>8, <3>3 DEF StartSend, PrintPacket, Reports
      <4> QED BY <2>1, <3>1, <3>3, <4>1, DropsCountOn
    <3> QED BY <3>2, <3>3
  <2>4. left' \in Nat /\ off' \in Nat /\ stream' \in Seq(Nat)
    BY <1>8, <2>1 DEF StartSend
  <2> QED BY <1>2, <1>8, <2>2, <2>3, <2>4 DEF StartSend, TypeOK
<1>9. CASE Send
  BY <1>2, <1>9, SendType DEF Send, TypeOK
<1>10. CASE Tick
  <2>1. \A t \in 0..Horizon : Passes(t) \in 0..Horizon
    BY <1>1 DEF Passes
  <2>2. elapsed' \in 0..Horizon /\ passTime' \in 0..Horizon
    BY <1>10, <2>1 DEF Tick, TypeOK
  <2> QED BY <1>2, <1>10, <2>2 DEF Tick, TypeOK
<1>11. CASE SendFails
  BY <1>1, <1>2, <1>11 DEF SendFails, Hangup, TypeOK
<1>12. CASE RecordSent
  BY <1>1, <1>2, <1>12 DEF RecordSent, TypeOK
<1>13. CASE ClientReads
  BY <1>1, <1>2, <1>13 DEF ClientReads, TypeOK
<1>14. CASE ClientCloses
  BY <1>1, <1>2, <1>14 DEF ClientCloses, TypeOK
<1> QED BY <1>3, <1>4, <1>5, <1>6, <1>7, <1>8, <1>9, <1>10, <1>11, <1>12, <1>13, <1>14
   DEF Next, Server, Reads

-----------------------------------------------------------------------------
(* The place in the dump, the portions and the printer.                    *)

LEMMA PlaceStep ==
  ReplayInv /\ [Next]_vars => Place'
<1> SUFFICES ASSUME ReplayInv, [Next]_vars PROVE Place'
  OBVIOUS
<1>1. /\ TypeOK /\ Place /\ Sendable \subseteq 1..N /\ N \in Nat
      /\ pos \in 1..(N + 1) /\ rec \in 0..N /\ last \in 0..N
      /\ Sendable \subseteq Nat
  BY Facts DEF ReplayInv, TypeOK
<1>2. dump' = dump /\ N' = N /\ Sendable' = Sendable
  BY DumpFixed
<1>3. ASSUME UNCHANGED last PROVE \A j : UpTo(j) <=> UpTo(j)'
  BY <1>2, <1>3 DEF UpTo, NoneBetween
<1>4. CASE UNCHANGED <<pc, pos, rec, last>>
  BY <1>1, <1>2, <1>3, <1>4 DEF Place
<1>5. CASE UNCHANGED vars
  BY <1>4, <1>5 DEF vars
<1>6. CASE Send \/ Tick \/ ClientReads \/ ClientCloses
  BY <1>4, <1>6 DEF Send, Tick, ClientReads, ClientCloses
<1>7. CASE Accept
  <2>1. pc' = "read" /\ pos' = 1 /\ last' = 0
    BY <1>7 DEF Accept
  <2>2. UpTo(1)'
    BY <1>1, <1>2, <2>1 DEF UpTo, NoneBetween
  <2> QED BY <2>1, <2>2 DEF Place
<1>8. CASE Rewind
  <2>1. pc = "read" /\ pc' = "read" /\ pos = N + 1 /\ pos' = 1 /\ UNCHANGED last
    BY <1>8 DEF Rewind
  <2>2. last = 0 \/ (last \in Sendable /\ NoneBetween(last, N + 1))
    BY <1>1, <2>1 DEF Place, UpTo
  <2>3. UpTo(1)
    BY <1>1, <2>2 DEF UpTo, NoneBetween
  <2>4. UpTo(1)'
    BY <1>3, <2>1, <2>3
  <2> QED BY <1>1, <1>2, <2>1, <2>4 DEF Place
<1>9. CASE BadRecord \/ SendFails
  <2>1. pc' = "accept" /\ last' = last
    BY <1>9 DEF BadRecord, SendFails, Hangup
  <2> QED BY <1>1, <1>2, <2>1 DEF Place
<1>10. CASE SkipRecord
  <2>1. /\ pc = "read" /\ pc' = "read" /\ pos' = pos + 1 /\ pos \notin Sendable
        /\ UNCHANGED last
    BY <1>10 DEF SkipRecord, Sendable
  <2>2. UpTo(pos) /\ last # pos
    BY <1>1, <2>1 DEF Place
  <2>3. UpTo(pos + 1)
    BY <1>1, <2>1, <2>2 DEF UpTo, NoneBetween
  <2>4. UpTo(pos)'
    BY <1>3, <2>1, <2>3
  <2> QED BY <1>1, <1>2, <2>1, <2>4 DEF Place
<1>11. CASE ReadRecord
  <2>1. /\ pc = "read" /\ pc' = "wait" /\ rec' = pos /\ pos' = pos + 1 /\ pos \in Sendable
        /\ UNCHANGED last
    BY <1>11 DEF ReadRecord
  <2>2. UpTo(pos)
    BY <1>1, <2>1 DEF Place
  <2> QED BY <1>1, <1>2, <1>3, <2>1, <2>2 DEF Place
<1>12. CASE StartSend
  <2>1. /\ pc = "wait" /\ pc' = "send" /\ UNCHANGED <<pos, rec, last>>
    BY <1>12 DEF StartSend
  <2>2. UpTo(rec)'
    BY <1>1, <1>3, <2>1 DEF Place
  <2> QED BY <1>1, <1>2, <2>1, <2>2 DEF Place
<1>13. CASE RecordSent
  <2>1. /\ pc = "send" /\ pc' = "read" /\ last' = rec /\ UNCHANGED <<pos, rec>>
    BY <1>13 DEF RecordSent
  <2>2. rec \in Sendable /\ pos = rec + 1
    BY <1>1, <2>1 DEF Place
  <2>3. UpTo(pos)'
    BY <1>1, <1>2, <2>1, <2>2 DEF UpTo, NoneBetween
  <2> QED BY <1>2, <2>1, <2>2, <2>3 DEF Place
<1> QED BY <1>5, <1>6, <1>7, <1>8, <1>9, <1>10, <1>11, <1>12, <1>13 DEF Next, Server, Reads

LEMMA PortionsStep ==
  ReplayInv /\ [Next]_vars => Portions'
<1> SUFFICES ASSUME ReplayInv, [Next]_vars, pc' = "send"
             PROVE  /\ off' + left' = dump'[rec'].len
                    /\ stream' = [i \in 1..off' |-> i]
  BY DEF Portions
<1>1. TypeOK /\ Portions /\ dump' = dump
  BY DumpFixed DEF ReplayInv
<1> USE DEF sendVars
<1>2. CASE UNCHANGED <<pc, rec, sendVars>>
  BY <1>1, <1>2 DEF Portions
<1>3. CASE StartSend
  <2>1. /\ left' = dump[rec].len /\ off' = 0 /\ stream' = <<>> /\ rec' = rec
        /\ pc = "wait"
    BY <1>3 DEF StartSend
  <2>2. dump[rec].len \in Nat
    BY <1>1, <2>1, Facts DEF ReplayInv, Place
  <2>3. [i \in 1..0 |-> i] = <<>>
    OBVIOUS
  <2> QED BY <1>1, <2>1, <2>2, <2>3
<1>4. CASE Send
  <2>1. PICK ret \in 1..Least(Block, left) :
          stream' = stream \o [i \in 1..ret |-> off + i] /\ off' = off + ret
    BY <1>4 DEF Send, Takes
  <2>2. ret \in Nat /\ off \in Nat
    BY <1>1, <2>1, Facts DEF TypeOK, Least
  <2>3. stream = [i \in 1..off |-> i] /\ off + left = dump[rec].len /\ rec' = rec
    BY <1>1, <1>4 DEF Portions, Send
  <2>4. stream' = [i \in 1..(off + ret) |-> i]
    BY <2>1, <2>2, <2>3, GoesOn
  <2> QED BY <1>1, <1>4, <2>1, <2>3, <2>4, SendType
<1>5. CASE Tick \/ ClientReads \/ ClientCloses \/ UNCHANGED vars
  BY <1>2, <1>5 DEF Tick, ClientReads, ClientCloses, vars
<1>6. CASE Accept \/ Rewind \/ BadRecord \/ SkipRecord \/ ReadRecord \/ SendFails \/ RecordSent
  BY <1>6 DEF Accept, Rewind, BadRecord, SkipRecord, ReadRecord, SendFails, RecordSent, Hangup
<1> QED BY <1>3, <1>4, <1>5, <1>6 DEF Next, Server, Reads

LEMMA PrintedStep ==
  ReplayInv /\ [Next]_vars => Printed'
<1> SUFFICES ASSUME ReplayInv, [Next]_vars PROVE Printed'
  OBVIOUS
<1>1. TypeOK /\ Place /\ Printed /\ dump' = dump /\ Sendable' = Sendable
  BY DumpFixed DEF ReplayInv
<1> USE DEF printVars
<1>2. CASE UNCHANGED <<pc, rec, last, printVars>>
  BY <1>1, <1>2 DEF Printed
<1>3. CASE UNCHANGED vars \/ Send \/ Tick \/ ClientReads \/ ClientCloses \/ Rewind \/ SkipRecord
  BY <1>2, <1>3 DEF vars, Send, Tick, ClientReads, ClientCloses, Rewind, SkipRecord
<1>4. CASE Accept
  BY <1>1, <1>4 DEF Accept, Printed
<1>5. CASE BadRecord \/ SendFails
  BY <1>1, <1>5 DEF BadRecord, SendFails, Hangup, Printed
<1>6. CASE ReadRecord
  BY <1>1, <1>6 DEF ReadRecord, Printed
<1>7. CASE StartSend
  <2>1. /\ rec \in Sendable /\ shown' = rec /\ rec' = rec /\ prev' = dump[rec].seq
        /\ pc' = "send"
    BY <1>1, <1>7 DEF StartSend, PrintPacket, Reports, Place
  <2>2. rec # 0
    BY <1>1, <2>1, Facts
  <2> QED BY <1>1, <2>1, <2>2 DEF Printed
<1>8. CASE RecordSent
  BY <1>1, <1>8 DEF RecordSent, Printed
<1> QED BY <1>3, <1>4, <1>5, <1>6, <1>7, <1>8 DEF Next, Server, Reads

LEMMA ReplayInvInit == Init => ReplayInv
<1> SUFFICES ASSUME Init PROVE ReplayInv
  OBVIOUS
<1>1. dump \in Dumps
  BY DEF Init
<1>2. N \in Nat /\ Horizon \in Nat \ {0} /\ Room \in Nat
  BY <1>1, DumpType, HorizonType, DumpAssumption
<1> HIDE DEF N, Horizon
<1> QED BY <1>1, <1>2 DEF Init, ReplayInv, TypeOK, Place, Portions, Printed, NoSeq

-----------------------------------------------------------------------------
(* The theorems.                                                           *)

\* The inductive invariant of the simulator: the place in the file with what was
\* sent to the client, the counters of the send loop with what the kernel took,
\* and the number the printer remembers with the record printed last.
THEOREM ReplayInvariant == Spec => []ReplayInv
<1>1. ReplayInv /\ [Next]_vars => ReplayInv'
  BY TypeOKStep, PlaceStep, PortionsStep, PrintedStep DEF ReplayInv
<1> QED BY <1>1, ReplayInvInit, PTL DEF Spec

\* The simulator keeps its types: it never reads beyond the end of the dump,
\* sends more than a record has or fills the buffer beyond its room.
THEOREM SimulatorTypes == Spec => []TypeOK
<1>1. ReplayInv => TypeOK
  BY DEF ReplayInv
<1> QED BY <1>1, ReplayInvariant, PTL

\* Whatever records a dump has, a client gets those to be sent in their order
\* and without a gap, from the first one on, pass after pass.
THEOREM ReplayIsInOrder == Spec => ReplayInOrder
<1>1. ReplayInv /\ [Next]_vars =>
        [last' # last /\ last' # 0 =>
           \/ last < last' /\ NoneBetween(last, last')
           \/ last' <= last /\ NoneBetween(0, last') /\ NoneBetween(last, N + 1)]_vars
  <2> SUFFICES ASSUME ReplayInv, [Next]_vars, last' # last, last' # 0
               PROVE  \/ last < last' /\ NoneBetween(last, last')
                      \/ last' <= last /\ NoneBetween(0, last') /\ NoneBetween(last, N + 1)
    OBVIOUS
  <2>1. RecordSent
    BY DEF Next, vars, Accept, Server, Reads, Rewind, BadRecord, SkipRecord, ReadRecord,
           StartSend, Send, SendFails, Tick, ClientReads, ClientCloses
  <2>2. last' = rec /\ rec \in Sendable /\ UpTo(rec)
    BY <2>1 DEF RecordSent, ReplayInv, Place
  <2>3. rec \in Nat \ {0}
    BY <2>2, Facts DEF ReplayInv
  <2> QED BY <2>2, <2>3 DEF UpTo
<1> QED BY <1>1, ReplayInvariant, PTL DEF Spec, ReplayInOrder

\* Whatever portions the kernel takes of a record, it has each unit of it, once
\* and in its place, when the server goes on to the next one.
THEOREM RecordsAreWhole == Spec => RecordsWhole
<1>1. ReplayInv /\ [Next]_vars =>
        [pc = "send" /\ pc' = "read" => stream = [i \in 1..dump[rec].len |-> i]]_vars
  <2> SUFFICES ASSUME ReplayInv, [Next]_vars, pc = "send", pc' = "read"
               PROVE  stream = [i \in 1..dump[rec].len |-> i]
    OBVIOUS
  <2>1. RecordSent
    BY DEF Next, vars, Accept, Server, Reads, Rewind, BadRecord, SkipRecord, ReadRecord,
           StartSend, Send, SendFails, Hangup, Tick, ClientReads, ClientCloses
  <2>2. off \in Nat /\ left = 0
    BY <2>1 DEF RecordSent, ReplayInv, TypeOK
  <2>3. off = dump[rec].len /\ stream = [i \in 1..off |-> i]
    BY <2>2 DEF ReplayInv, Portions
  <2> QED BY <2>3
<1> QED BY <1>1, ReplayInvariant, PTL DEF Spec, RecordsWhole

\* For every dump: the number printed as drops is the distance between the
\* numbers of two records that follow each other in the file, or between the
\* first one and whatever was printed before it.
THEOREM DropsAreDistances == Spec => ReportsTheDistance
<1>1. ReplayInv /\ [Next]_vars =>
        [pc = "wait" /\ pc' = "send" =>
           IF shown = 0 THEN report' = 0
           ELSE /\ (dump[shown].seq + (1 + report')) % 256 = dump[rec].seq
                /\ \/ shown < rec /\ NoneBetween(shown, rec)
                   \/ NoneBetween(0, rec)]_vars
  <2> SUFFICES ASSUME ReplayInv, [Next]_vars, pc = "wait", pc' = "send"
               PROVE  /\ shown = 0 => report' = 0
                      /\ shown # 0 =>
                           /\ (dump[shown].seq + (1 + report')) % 256 = dump[rec].seq
                           /\ \/ shown < rec /\ NoneBetween(shown, rec)
                              \/ NoneBetween(0, rec)
    OBVIOUS
  <2>1. PrintPacket(dump[rec].seq)
    BY DEF Next, vars, Accept, Server, Reads, Rewind, BadRecord, SkipRecord, ReadRecord,
           StartSend, Send, SendFails, RecordSent, Hangup, Tick, ClientReads, ClientCloses
  <2>2. rec \in Sendable /\ UpTo(rec) /\ dump[rec].seq \in 0..255
    BY Facts DEF ReplayInv, Place
  <2>3. CASE shown = 0
    BY <2>1, <2>3 DEF ReplayInv, Printed, PrintPacket, Reports
  <2>4. CASE shown # 0
    <3>1. prev = dump[shown].seq /\ prev \in 0..255
      BY <2>4, Facts DEF ReplayInv, Printed
    <3>2. report' = Drops(dump[rec].seq)
      BY <2>1, <3>1 DEF PrintPacket, Reports, NoSeq
    <3>3. (dump[shown].seq + (1 + report')) % 256 = dump[rec].seq
      BY <2>2, <3>1, <3>2, DropsCountOn
    <3>4. last # 0 => shown = last
      BY DEF ReplayInv, Printed
    <3>5. \/ shown < rec /\ NoneBetween(shown, rec)
          \/ NoneBetween(0, rec)
      BY <2>2, <3>4 DEF UpTo
    <3> QED BY <2>4, <3>3, <3>5
  <2> QED BY <2>3, <2>4
<1> QED BY <1>1, ReplayInvariant, PTL DEF Spec, ReportsTheDistance
=============================================================================
