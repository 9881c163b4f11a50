------------------------- MODULE MonitorClientProofs -------------------------
(* Theorems of MonitorClient, for every number of polls of the 5 s wait.     *)
EXTENDS MonitorClient, TLAPS

\* TypeOK in two parts: the flags, and all the rest.
FlagsOK == threw \in BOOLEAN /\ connected \in BOOLEAN
RestOK ==
  /\ pc \in PCs /\ by \in {"monitor", "main", "handler"}
  /\ ticks \in 0..MaxTicks /\ ret \in Codes
  /\ sock \in {"none", "open", "closed"} /\ packet \in Kinds
  /\ undelivered \in Nat /\ con \in ConStates
  /\ thread \in {"none", "running", "finished"}

LEMMA TypeParts == TypeOK <=> FlagsOK /\ RestOK
BY DEF TypeOK, FlagsOK, RestOK

LEMMA TypeOKInit == Init => TypeOK
<1>1. Init => FlagsOK
  BY Zenon DEF Init, FlagsOK
<1>2. Init => RestOK
  BY ClientAssumption DEF ClientAssumption, Init, RestOK, PCs, Codes, Kinds, ConStates
<1> QED BY <1>1, <1>2, TypeParts

LEMMA MainFlags ==
  ASSUME FlagsOK, Main
  PROVE  FlagsOK'
<1> USE DEF FlagsOK, wsVars
<1>1. CASE StartSession
  BY <1>1, Zenon DEF StartSession, Throw, EndSession
<1>2. CASE Poll \/ Greet \/ Dial
  BY <1>2, Zenon DEF Poll, Greet, Dial
<1>3. CASE Packets
  BY <1>3, Zenon DEF Packets, ReadHeader, PayloadComplete, PayloadEOF, PayloadError, Throw
<1>4. CASE Forwards
  BY <1>4, Zenon DEF Forwards, ForwardPacket, StateNotText, ForwardMavlink, FieldNotText, Throw
<1>5. CASE CloseConnection \/ Join \/ Restart
  BY <1>5, Zenon DEF CloseConnection, Join, Restart, Throw
<1> QED BY <1>1, <1>2, <1>3, <1>4, <1>5 DEF Main

LEMMA MainRest ==
  ASSUME RestOK, Main
  PROVE  RestOK'
<1> USE ClientAssumption DEF ClientAssumption, RestOK, PCs, Codes, Kinds, ConStates, wsVars
<1>1. CASE StartSession
  BY <1>1 DEF StartSession, Throw, EndSession
<1>2. CASE Poll
  BY <1>2 DEF Poll, EndSession
<1>3. CASE Greet
  BY <1>3 DEF Greet, EndSession
<1>4. CASE Dial
  BY <1>4 DEF Dial, EndSession
<1>5. CASE Packets
  BY <1>5 DEF Packets, ReadHeader, PayloadComplete, PayloadEOF, PayloadError, EndSession, Throw
<1>6. CASE Forwards
  BY <1>6 DEF Forwards, ForwardPacket, StateNotText, ForwardMavlink, FieldNotText,
              SendResult, Throw
<1>7. CASE CloseConnection
  BY <1>7 DEF CloseConnection, Throw
<1>8. CASE Join
  BY <1>8 DEF Join
<1>9. CASE Restart
  BY <1>9 DEF Restart
<1> QED BY <1>1, <1>2, <1>3, <1>4, <1>5, <1>6, <1>7, <1>8, <1>9 DEF Main

LEMMA MainType == TypeOK /\ Main => TypeOK'
<1> SUFFICES ASSUME TypeOK, Main PROVE FlagsOK' /\ RestOK'
  BY TypeParts, PTL
<1> QED BY TypeParts, MainFlags, MainRest

LEMMA TypeOKStep == TypeOK /\ [Next]_vars => TypeOK'
<1>1. ASSUME TypeOK, Thread PROVE TypeOK'
  BY <1>1 DEF TypeOK, ConStates, Thread, WsStep, mainVars, WsOpens, WsFails, WsPeerCloses,
              WsDrops, WsCloseHandler, ThreadEnds
<1>2. ASSUME TypeOK, UNCHANGED vars PROVE TypeOK'
  BY <1>2 DEF TypeOK, vars, mainVars, wsVars
<1> QED BY <1>1, <1>2, MainType DEF Next

\* The state of the client keeps its types, whatever device and peer do.
THEOREM TypeCorrect == Spec => []TypeOK
<1> QED BY TypeOKInit, TypeOKStep, PTL DEF Spec

-----------------------------------------------------------------------------
(* The life of the connection.  That nothing is left of it when the client   *)
(* is destroyed follows from what holds at every step: the flag, the         *)
(* connection and the thread agree, and join alone forgets the thread.       *)
FlagFollows == connected <=> con \in {"open", "closing", "terminating"}
ThreadServes ==
  /\ con \in {"connecting", "open", "closing", "terminating"} => thread = "running"
  /\ con = "none" => thread = "none"
FreshStart == pc = "start" => con = "none"
Joined == pc = "sleep" => thread = "none"
ConnectionInv == TypeOK /\ FlagFollows /\ ThreadServes /\ FreshStart /\ Joined

LEMMA ConnectionStep == ConnectionInv /\ [Next]_vars => ConnectionInv'
<1> SUFFICES ASSUME ConnectionInv, [Next]_vars
             PROVE  FlagFollows' /\ ThreadServes' /\ FreshStart' /\ Joined'
  BY TypeOKStep DEF ConnectionInv
<1> USE DEF ConnectionInv, TypeOK, ConStates, FlagFollows, ThreadServes, FreshStart, Joined
<1>1. CASE UNCHANGED vars
  BY <1>1 DEF vars, wsVars
<1>2. CASE StartSession
  BY <1>2 DEF StartSession, Throw, EndSession
<1>3. CASE CloseConnection
  BY <1>3 DEF CloseConnection, Throw
<1>4. CASE Join
  BY <1>4 DEF Join
<1>5. CASE Restart
  BY <1>5 DEF Restart
<1>6. CASE Thread
  BY <1>6 DEF Thread, WsStep, WsOpens, WsFails, WsPeerCloses, WsDrops, WsCloseHandler, ThreadEnds
<1>7. CASE Poll \/ Greet \/ Dial \/ Packets \/ Forwards
  <2>1. UNCHANGED wsVars
    BY <1>7 DEF Poll, Greet, Dial, Packets, ReadHeader, PayloadComplete, PayloadEOF,
                PayloadError, Forwards, ForwardPacket, StateNotText, ForwardMavlink, FieldNotText
  <2>2. pc' \notin {"start", "sleep"}
    BY <1>7 DEF Poll, Greet, Dial, Packets, ReadHeader, PayloadComplete, PayloadEOF,
                PayloadError, Forwards, ForwardPacket, StateNotText, ForwardMavlink, FieldNotText,
                EndSession, Throw
  <2> QED BY <2>1, <2>2 DEF wsVars
<1> QED BY <1>1, <1>2, <1>3, <1>4, <1>5, <1>6, <1>7 DEF Next, Main

\* No interleaving of main and the WebSocket thread destroys a client whose
\* thread is joinable or whose connection still runs its callbacks.
THEOREM DestroyedCleanCorrect == Spec => []DestroyedClean
<1>1. Init => ConnectionInv
  BY TypeOKInit DEF ConnectionInv, Init, FlagFollows, ThreadServes, FreshStart, Joined
<1>2. ConnectionInv => DestroyedClean
  BY DEF ConnectionInv, TypeOK, ConStates, FlagFollows, ThreadServes, Joined, DestroyedClean
<1> QED BY <1>1, <1>2, ConnectionStep, PTL DEF Spec

-----------------------------------------------------------------------------
(* What a session loses.  A send that failed is never followed by one that   *)
(* works, because a session opens its connection once; and a packet that was *)
(* not forwarded leaves an error in ret until the next payload.              *)
Greeted ==
  pc \in {"dial", "header", "payload", "forward", "mavlink"}
    => con \in {"open", "closing", "terminating", "closed"}
LossRecorded ==
  /\ pc \in {"start", "wait", "greet", "dial", "forward"} => undelivered = 0
  /\ pc \in {"header", "payload"}
       => undelivered = 0 \/ (undelivered = 1 /\ ret # "SUCCESS")
  /\ pc = "mavlink" => undelivered = 0 \/ (undelivered = 1 /\ con # "open")
LossInv == ConnectionInv /\ Greeted /\ LossRecorded /\ LossBound

LEMMA LossStep == LossInv /\ [Next]_vars => LossInv'
<1> SUFFICES ASSUME LossInv, [Next]_vars
             PROVE  Greeted' /\ LossRecorded' /\ LossBound'
  BY ConnectionStep DEF LossInv
<1> USE DEF LossInv, ConnectionInv, TypeOK, ConStates, FlagFollows, Greeted, LossRecorded, LossBound
<1>1. CASE UNCHANGED vars
  BY <1>1 DEF vars, mainVars, wsVars
<1>2. CASE StartSession
  BY <1>2 DEF StartSession, Throw, EndSession
<1>3. CASE Poll
  BY <1>3 DEF Poll, EndSession, wsVars
<1>4. CASE Greet
  BY <1>4 DEF Greet, SendWorks, EndSession, wsVars
<1>5. CASE Dial
  BY <1>5 DEF Dial, EndSession, wsVars
<1>6. CASE Packets
  BY <1>6 DEF Packets, ReadHeader, PayloadComplete, PayloadEOF, PayloadError, EndSession, Throw,
              wsVars
<1>7. CASE Forwards
  BY <1>7 DEF Forwards, ForwardPacket, StateNotText, ForwardMavlink, FieldNotText,
              SendResult, SendWorks, Throw, wsVars
<1>8. CASE CloseConnection \/ Join \/ Restart
  BY <1>8 DEF CloseConnection, Join, Restart, Throw
<1>9. CASE Thread
  BY <1>9 DEF Thread, WsStep, mainVars, WsOpens, WsFails, WsPeerCloses, WsDrops,
              WsCloseHandler, ThreadEnds
<1> QED BY <1>1, <1>2, <1>3, <1>4, <1>5, <1>6, <1>7, <1>8, <1>9 DEF Next, Main

\* Whenever the WebSocket dies, the session reads at most two packets for
\* nothing: the one it could not send and the one that makes it look at ret.
THEOREM LossBoundCorrect == Spec => []LossBound
<1>1. Init => LossInv
  BY TypeOKInit DEF LossInv, ConnectionInv, Init, FlagFollows, ThreadServes, FreshStart, Joined,
                    Greeted, LossRecorded, LossBound
<1>2. LossInv => LossBound
  BY DEF LossInv
<1> QED BY <1>1, <1>2, LossStep, PTL DEF Spec

-----------------------------------------------------------------------------
(* The TCP socket: a session without exception closes it on each way out.    *)
SocketOnlyInPackets ==
  /\ pc \in {"start", "wait", "greet", "dial"} => sock # "open"
  /\ pc \in {"cleanup", "join", "sleep"} /\ ~threw => sock # "open"

LEMMA SocketStep ==
  TypeOK /\ SocketOnlyInPackets /\ [Next]_vars => SocketOnlyInPackets'
<1> SUFFICES ASSUME TypeOK, SocketOnlyInPackets, [Next]_vars PROVE SocketOnlyInPackets'
  OBVIOUS
<1> USE DEF TypeOK, SocketOnlyInPackets
<1>1. CASE UNCHANGED vars
  BY <1>1 DEF vars, mainVars
<1>2. CASE StartSession \/ Poll \/ Greet \/ Dial
  BY <1>2 DEF StartSession, Poll, Greet, Dial, EndSession, Throw
<1>3. CASE Packets
  BY <1>3 DEF Packets, ReadHeader, PayloadComplete, PayloadEOF, PayloadError, EndSession, Throw
<1>4. CASE Forwards
  BY <1>4 DEF Forwards, ForwardPacket, StateNotText, ForwardMavlink, FieldNotText, Throw
<1>5. CASE CloseConnection \/ Join \/ Restart
  BY <1>5 DEF CloseConnection, Join, Restart, Throw
<1>6. CASE Thread
  BY <1>6 DEF Thread, WsStep, mainVars, WsOpens, WsFails, WsPeerCloses, WsDrops,
              WsCloseHandler, ThreadEnds
<1> QED BY <1>1, <1>2, <1>3, <1>4, <1>5, <1>6 DEF Next, Main

\* Only an exception can leave the socket of the device open.
THEOREM QuietExitCorrect == Spec => []QuietExitCloses
<1>1. Init => SocketOnlyInPackets
  BY DEF Init, SocketOnlyInPackets
<1>2. SocketOnlyInPackets => QuietExitCloses
  BY DEF SocketOnlyInPackets, QuietExitCloses
<1> QED BY <1>1, <1>2, SocketStep, TypeOKInit, TypeOKStep, PTL DEF Spec
=============================================================================
