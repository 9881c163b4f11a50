--------------------------- MODULE ReplaySimulator ---------------------------
(***************************************************************************)
(* The monitor server that replays a recorded dump (mon_server_task in     *)
(* server/simulator/sim_mon_srv.c).  It serves one client at a time: from  *)
(* accept until a send fails, it reads records, waits until the time of    *)
(* the record has come, and sends the record, over and over.               *)
(*                                                                         *)
(* The dump is a sequence of records, each with its timestamp.  Time is    *)
(* what the code compares it with: milliseconds since the reference taken  *)
(* at the first record, up to one more than any timestamp (Horizon).       *)
(* The data of a record is a number of units.  A send is asked for at most *)
(* Block of them and may take fewer; the client's kernel buffer takes Room *)
(* units, and a send that finds it full for 3 seconds fails (SO_SNDTIMEO). *)
(*                                                                         *)
(* Each packet is also printed (mon_print_packet in mon_print.c), which    *)
(* follows the sequence numbers, one byte each, and reports a mismatch as  *)
(* a number of drops.  The number it compares with is a global: it         *)
(* outlives clients and rewinds.                                           *)
(***************************************************************************)
EXTENDS Integers, Sequences

CONSTANTS
  Dumps,   \* files to replay: sequences of records, see Record
  Block,   \* units a send is asked for at most (BLOCK_LEN)
  Room     \* units the kernel buffers for a client that does not read

\* A record is whole, cut off by the end of the file, or too long for buf; or
\* its length field is 2^31 or more.  That is negative in an int: it passes the
\* test for too long ones, fread takes the rest of the file for its data (which
\* we assume to fit into buf), it is waited for and printed, and nothing of it
\* is sent.
Kinds == {"whole", "cut", "huge", "negative"}
\* Records hold at least the timestamp and the header of a packet.
Record == [ts : Nat, seq : 0..255, len : Nat, kind : Kinds]

ASSUME DumpAssumption ==
  /\ \A d \in Dumps :
       /\ d \in Seq(Record)
       /\ \A i \in 1..Len(d) : d[i].kind \in {"cut", "negative"} => i = Len(d)
       /\ \A i \in 1..Len(d) : d[i].kind = "negative" => d[i].len = 0
  /\ Block \in Nat \ {0}
  /\ Room \in Nat \ {0}

VARIABLES
  dump,    \* the file that was opened (fp), it does not change
  pc,      \* "accept", "read", "wait", "send"
  pos,     \* record the next fread starts at; N + 1 is the end of the file
  rec,     \* record in buf
  first,   \* ts_first, 0 for TS_TIME_INVALID
  elapsed, \* cur - ref_time
  left,    \* units of the record still to send (data_len)
  off,     \* units of it behind the position in buf (pos - 8)
  client,  \* "none", "up", "shut" (closed by the peer), "reset"
  buffered,\* units in the kernel buffer of the client
  prev,    \* g_seq_prev
  report,  \* the number of drops printed with the last packet, 0 for none
  stream,  \* history: which units of the record the kernel took, in order
  shown,   \* history: the record printed last, 0 if none
  passTime,\* history: time since the first record of this pass over the dump
  last     \* history: the last record sent to this client, 0 if none

sendVars == <<left, off, stream>>
printVars == <<prev, report, shown>>
vars == <<dump, pc, pos, rec, first, elapsed, client, buffered, passTime, last,
          sendVars, printVars>>

NoSeq == 256  \* MON_SEQ_INIT_VALUE

N == Len(dump)
\* Records that are sent: a timestamp of zero marks one to skip (line 183).
Accepted == {"whole", "negative"}
Sendable == {i \in 1..N : dump[i].kind \in Accepted /\ dump[i].ts > 0}
Horizon == CHOOSE h \in {dump[i].ts + 1 : i \in 1..N} \cup {1} :
             \A i \in 1..N : dump[i].ts < h

Init ==
  /\ dump \in Dumps
  /\ pc = "accept" /\ pos = 1 /\ rec = 0 /\ first = 0 /\ elapsed = 0
  /\ client = "none" /\ buffered = 0 /\ passTime = 0 /\ last = 0
  /\ left = 0 /\ off = 0 /\ stream = <<>>
  /\ prev = NoSeq /\ report = 0 /\ shown = 0

-----------------------------------------------------------------------------
\* Fault: the dump goes on where the last client left it (no fseek, 145).
AcceptAndGoOn ==
  /\ pc = "accept"
  /\ pc' = "read" /\ first' = 0 /\ elapsed' = 0
  /\ client' = "up" /\ buffered' = 0
  /\ passTime' = 0 /\ last' = 0
  /\ UNCHANGED <<dump, pos, rec, sendVars, printVars>>

\* A client connects; the dump is rewound and the time reference dropped.
Accept ==
  /\ pc = "accept"
  /\ pc' = "read" /\ pos' = 1 /\ first' = 0 /\ elapsed' = 0
  /\ client' = "up" /\ buffered' = 0
  /\ passTime' = 0 /\ last' = 0
  /\ UNCHANGED <<dump, rec, sendVars, printVars>>

\* The client is closed and the server waits for another one.
Hangup ==
  /\ pc' = "accept" /\ client' = "none" /\ buffered' = 0

\* The end of the file: back to the beginning, after a second, with the time
\* reference of the first pass.
Rewind ==
  /\ pc = "read" /\ pos = N + 1
  /\ pos' = 1
  /\ UNCHANGED <<dump, pc, rec, first, elapsed, client, buffered, passTime, last,
                 sendVars, printVars>>

\* A record that is too long or cut off: the client is closed (167, 178).
BadRecord ==
  /\ pc = "read" /\ pos <= N
  /\ dump[pos].kind \notin Accepted
  /\ Hangup
  /\ pos' = IF dump[pos].kind = "cut" THEN 1 ELSE pos
  /\ UNCHANGED <<dump, rec, first, elapsed, passTime, last, sendVars, printVars>>

SkipRecord ==
  /\ pc = "read" /\ pos <= N
  /\ dump[pos].kind \in Accepted /\ dump[pos].ts = 0
  /\ pos' = pos + 1
  /\ UNCHANGED <<dump, pc, rec, first, elapsed, client, buffered, passTime, last,
                 sendVars, printVars>>

\* The first record after accept sets ts_first; later passes keep it.
ReadRecord ==
  /\ pc = "read" /\ pos \in Sendable
  /\ pc' = "wait" /\ rec' = pos /\ pos' = pos + 1
  /\ first' = IF first = 0 THEN dump[pos].ts ELSE first
  /\ passTime' = IF last = 0 \/ last >= pos THEN 0 ELSE passTime
  /\ UNCHANGED <<dump, elapsed, client, buffered, last, sendVars, printVars>>

\* ts - ts_first, an unsigned difference: before ts_first it is beyond any time.
Due(i, t) == dump[i].ts >= first /\ t > dump[i].ts - first

\* A millisecond passes; the reference is taken when the first wait begins.
Passes(t) == IF t < Horizon THEN t + 1 ELSE t
Tick ==
  /\ pc # "accept" /\ first > 0
  /\ elapsed' = Passes(elapsed) /\ passTime' = Passes(passTime)
  /\ elapsed' # elapsed \/ passTime' # passTime
  /\ UNCHANGED <<dump, pc, pos, rec, first, client, buffered, last, sendVars, printVars>>

\* mon_print_packet: the first packet of the process is only remembered; for
\* every other one, whoever it is sent to, the distance from the number that
\* should have come is printed as drops.
Expected == (prev + 1) % 256
Drops(seq) ==
  LET count == seq - Expected IN IF count < 0 THEN count + 256 ELSE count
Reports(seq) ==
  /\ report' = IF prev = NoSeq THEN 0 ELSE Drops(seq)
  /\ shown' = rec

\* Fault: after a mismatch the number is not taken over (no line 152).
PrintAndLag(seq) ==
  /\ Reports(seq)
  /\ prev' = IF prev = NoSeq THEN seq ELSE Expected

PrintPacket(seq) ==
  /\ Reports(seq)
  /\ prev' = seq

\* The time of the record has come: it is printed, and there is data to send.
StartSend ==
  /\ pc = "wait" /\ Due(rec, elapsed)
  /\ pc' = "send" /\ left' = dump[rec].len /\ off' = 0 /\ stream' = <<>>
  /\ PrintPacket(dump[rec].seq)
  /\ UNCHANGED <<dump, pos, rec, first, elapsed, client, buffered, passTime, last>>

\* The kernel takes n units from the position in buf, as far as it has room.
\* The first send after the peer closed succeeds too, and is answered by a reset.
Takes(n) ==
  /\ stream' = stream \o [i \in 1..n |-> off + i]
  /\ \/ /\ client = "up" /\ buffered + n <= Room
        /\ buffered' = buffered + n
        /\ UNCHANGED client
     \/ /\ client = "shut"
        /\ client' = "reset"
        /\ UNCHANGED buffered

Least(m, n) == IF m <= n THEN m ELSE n

\* Fault: the last send is asked for a full block (no lines 226-228).
SendFullBlocks ==
  /\ pc = "send" /\ left > 0
  /\ \E ret \in 1..Block :
       /\ Takes(ret)
       /\ left' = left - ret /\ off' = off + ret
  /\ UNCHANGED <<dump, pc, pos, rec, first, elapsed, passTime, last, printVars>>

\* Fault: a send is taken to have sent all it was asked for.
SendTrusting ==
  /\ pc = "send" /\ left > 0
  /\ \E ret \in 1..Least(Block, left) :
       /\ Takes(ret)
       /\ left' = left - Least(Block, left) /\ off' = off + Least(Block, left)
  /\ UNCHANGED <<dump, pc, pos, rec, first, elapsed, passTime, last, printVars>>

\* send takes all it was asked for or less, and what it took is counted.
Send ==
  /\ pc = "send" /\ left > 0
  /\ \E ret \in 1..Least(Block, left) :
       /\ Takes(ret)
       /\ left' = left - ret /\ off' = off + ret
  /\ UNCHANGED <<dump, pc, pos, rec, first, elapsed, passTime, last, printVars>>

\* Fault: a failed send is retried for ever.
RetrySend ==
  /\ pc = "send" /\ left > 0
  /\ client = "reset" \/ buffered = Room
  /\ UNCHANGED vars

\* send fails: the connection was reset, or the buffer stayed full.
SendFails ==
  /\ pc = "send" /\ left > 0
  /\ client = "reset" \/ buffered = Room
  /\ Hangup
  /\ UNCHANGED <<dump, pos, rec, first, elapsed, passTime, last, sendVars, printVars>>

RecordSent ==
  /\ pc = "send" /\ ~(left > 0)
  /\ pc' = "read" /\ last' = rec
  /\ UNCHANGED <<dump, pos, rec, first, elapsed, client, buffered, passTime, sendVars, printVars>>

-----------------------------------------------------------------------------
(* The client on the other side of the socket.                             *)

ClientReads ==
  /\ client = "up" /\ buffered > 0
  /\ buffered' = buffered - 1
  /\ UNCHANGED <<dump, pc, pos, rec, first, elapsed, client, passTime, last, sendVars, printVars>>

ClientCloses ==
  /\ client = "up"
  /\ client' = "shut" /\ buffered' = 0
  /\ UNCHANGED <<dump, pc, pos, rec, first, elapsed, passTime, last, sendVars, printVars>>

-----------------------------------------------------------------------------
Reads == Rewind \/ BadRecord \/ SkipRecord \/ ReadRecord
Server == Reads \/ StartSend \/ Send \/ SendFails \/ RecordSent
Next == Accept \/ Server \/ Tick \/ ClientReads \/ ClientCloses

Spec == Init /\ [][Next]_vars

\* The server runs and time passes; clients owe nothing.
FairSpec == Spec /\ WF_vars(Server) /\ WF_vars(Tick)

-----------------------------------------------------------------------------
(* Properties.                                                             *)

\* Types of the state of the simulator.
TypeOK ==
  /\ dump \in Dumps
  /\ pc \in {"accept", "read", "wait", "send"}
  /\ pos \in 1..(N + 1) /\ rec \in 0..N /\ last \in 0..N
  /\ first \in Nat /\ elapsed \in 0..Horizon /\ passTime \in 0..Horizon
  /\ left \in Nat /\ off \in Nat /\ stream \in Seq(Nat)
  /\ client \in {"none", "up", "shut", "reset"} /\ buffered \in 0..Room
  /\ prev \in 0..NoSeq /\ report \in 0..255 /\ shown \in 0..N

\* What a client gets is the dump from its beginning, in order and without a
\* gap, again and again: after record i comes the next sendable one, and the
\* first one only at the start and after the end (lines 145 and 160).
NoneBetween(i, j) == \A k \in Sendable : ~(i < k /\ k < j)
ReplayInOrder ==
  [][last' # last /\ last' # 0 =>
       \/ last < last' /\ NoneBetween(last, last')
       \/ last' <= last /\ NoneBetween(0, last') /\ NoneBetween(last, N + 1)]_vars

\* A record that the server is done with was given to the client whole: each
\* unit once and in its place, in whatever portions the sends took it (lines
\* 224-238).
RecordsWhole ==
  [][pc = "send" /\ pc' = "read" => stream = [i \in 1..dump[rec].len |-> i]]_vars

\* What is printed as drops is the distance between two numbers of the file that
\* follow each other in it, through wrap-arounds, repeats and earlier mismatches
\* (mon_print.c, lines 142-154), but for the first record: after a rewind or for
\* a new client it is compared with whatever was printed last, and a mismatch is
\* reported though nothing was dropped.  Only the first packet of the process is
\* exempt from that.
ReportsTheDistance ==
  [][pc = "wait" /\ pc' = "send" =>
       IF shown = 0 THEN report' = 0
       ELSE /\ (dump[shown].seq + (1 + report')) % 256 = dump[rec].seq
            /\ \/ shown < rec /\ NoneBetween(shown, rec)
               \/ NoneBetween(0, rec)]_vars

\* Comment of line 193, "WAIT timestamp": a record is sent when its time in the
\* recording has come, counted from the start of the pass it belongs to.
EveryPassPaced ==
  [][pc = "wait" /\ pc' = "send" => passTime >= dump[rec].ts - first]_vars

\* The server of one client becomes free again: a client that closed or was
\* reset is noticed by a send that fails (line 231), at any point of a dump that
\* has data to send and no timestamp below the first one (for such a record the
\* code waits until 32 bits of milliseconds have passed).
GoneClientIsNoticed == client \in {"shut", "reset"} ~> pc = "accept"

\* Neither does a client that stopped reading hold the server for ever.
StuckClientIsDropped ==
  pc = "send" /\ buffered = Room ~> pc = "accept" \/ buffered < Room
=============================================================================
