-------------------------- MODULE EchoPipelineProofs --------------------------
(* Theorems of EchoPipeline, for every number of sessions and frames and     *)
(* every capacity: client and relay, closed with each other, keep what each  *)
(* of them keeps.                                                            *)
EXTENDS EchoPipeline, FiniteSetTheorems, TLAPS

\* The relay of the pipeline with what is proved about it.
Proved == INSTANCE BroadcastServerProofs WITH
  Conns <- Sessions, Producers <- Sessions, NoConn <- 0, pc <- handler

\* The sessions are connections as the relay assumes them.
LEMMA RelayAssumed == Proved!RelayAssumption
<1>1. IsFiniteSet(Sessions)
  BY ClientAssumption, FS_Interval DEF Sessions
<1> QED
  BY <1>1, PipelineAssumption DEF Proved!RelayAssumption, Sessions, IsFiniteSet,
                                  Proved!IsFiniteSet

-----------------------------------------------------------------------------
(* The client.  A frame is only sent when the ones before it left the        *)
(* transport with room, or else the client is suspended: that is what bounds *)
(* the frames on their way.  A session has none before it begins.            *)
Running == {"dial", "greet", "recv", "forward", "parse", "mavlink"}
ClientInv ==
  /\ ClientTypeOK
  /\ pc \notin {"connect", "stopped"} => link \in Sessions
  /\ \A c \in Sessions : c > link => up[c] = 0
  /\ pc \in Running /\ link \notin lost => up[link] <= Room

LEMMA ClientInvInit == Init => ClientInv
<1> SUFFICES ASSUME ClientInit PROVE ClientInv
  BY DEF Init
<1>1. MaxSessions \in Nat /\ Room \in Nat /\ MaxQueue \in Nat
  BY ClientAssumption
<1>2. 0 \in 0..(Room + 1) /\ 0 \in 0..MaxQueue /\ 0 \in 0..MaxSessions
  BY <1>1
<1>3. ClientTypeOK
  <2>1. up \in [Sessions -> 0..(Room + 1)]
    BY <1>2 DEF ClientInit
  <2>2. link \in 0..MaxSessions /\ queue \in 0..MaxQueue /\ interrupts \in 0..2
    BY <1>2 DEF ClientInit
  <2> QED BY <2>1, <2>2 DEF ClientInit, ClientTypeOK
<1> QED BY <1>3 DEF ClientInit, ClientInv, Running

\* What the relay does with its own state alone.
LEMMA EnvironmentKeeps ==
  ASSUME ClientInv, UNCHANGED clientVars, lost \subseteq lost'
  PROVE  ClientInv'
BY DEF ClientInv, ClientTypeOK, clientVars

LEMMA SendKeeps ==
  ASSUME ClientInv, pc \in {"greet", "forward", "mavlink"}, NEW next \in {"recv", "parse"},
         SendToWebsocket(next), UNCHANGED <<link, open, queue, ping, interrupts, cancel, lost>>
  PROVE  ClientInv'
<1>1. /\ link \in Sessions /\ Room \in Nat /\ up \in [Sessions -> 0..(Room + 1)]
      /\ pc \in Running /\ Sessions \subseteq Nat
  BY ClientAssumption DEF ClientInv, ClientTypeOK, Running, Sessions
<1>2. CASE /\ link \notin lost
           /\ up' = [up EXCEPT ![link] = @ + 1]
           /\ IF up[link] < Room THEN pc' = next /\ UNCHANGED then
                                 ELSE pc' = "drain" /\ then' = next
           /\ UNCHANGED broken
  <2>1. up[link] \in 0..Room
    BY <1>1, <1>2 DEF ClientInv
  <2>2. up' \in [Sessions -> 0..(Room + 1)] /\ up'[link] = up[link] + 1
        /\ \A c \in Sessions \ {link} : up'[c] = up[c]
    BY <1>1, <1>2, <2>1
  <2>3. up[link] < Room \/ pc' = "drain"
    BY <1>2
  <2>4. pc' \in Running /\ link \notin lost => up'[link] <= Room
    BY <1>1, <2>1, <2>2, <2>3 DEF Running
  <2>5. \A c \in Sessions : c > link => up'[c] = 0
    BY <1>1, <2>2 DEF ClientInv
  <2>6. pc' \in {"recv", "parse", "drain"} /\ then' \in {"recv", "parse"}
    BY <1>2 DEF ClientInv, ClientTypeOK
  <2> QED BY <1>1, <1>2, <2>2, <2>4, <2>5, <2>6 DEF ClientInv, ClientTypeOK
<1>3. CASE link \in lost /\ broken' \in BOOLEAN /\ pc' \in {next, "close"} /\ UNCHANGED <<then, up>>
  BY <1>1, <1>3 DEF ClientInv, ClientTypeOK, Running
<1> QED BY <1>2, <1>3 DEF SendToWebsocket, ClientInv, ClientTypeOK

LEMMA ConnectKeeps ==
  ASSUME ClientInv, Connect, UNCHANGED lost
  PROVE  ClientInv' /\ link' \in Sessions
<1>1. /\ link \in 0..MaxSessions /\ link < MaxSessions /\ link' = link + 1
      /\ MaxSessions \in Nat /\ Room \in Nat
  BY ClientAssumption DEF Connect, ClientInv, ClientTypeOK
<1>2. link' \in Sessions /\ link' \in 0..MaxSessions /\ link' > link
  BY <1>1 DEF Sessions
<1>3. \A c \in Sessions : c > link' => up[c] = 0
  BY <1>1 DEF Sessions, ClientInv
<1>4. up[link'] = 0
  BY <1>2 DEF ClientInv
<1> QED
  BY <1>1, <1>2, <1>3, <1>4 DEF Connect, ClientInv, ClientTypeOK

LEMMA ClientStepKeeps ==
  ASSUME ClientInv, UNCHANGED lost,
         ClientRuns \/ Receive \/ Dial \/ DeviceEnds \/ Ping \/ Pong \/ Interrupt
  PROVE  ClientInv'
<1>1. /\ Room \in Nat /\ MaxQueue \in Nat /\ MaxSessions \in Nat /\ link \in 0..MaxSessions
  BY ClientAssumption DEF ClientInv, ClientTypeOK
<1>2. CASE Greet \/ ForwardMavlink
  BY <1>2, SendKeeps DEF Greet, ForwardMavlink
<1>3. CASE Forward
  BY <1>3, SendKeeps DEF Forward
<1>4. CASE Parse \/ Receive \/ DeviceEnds \/ Dial
  BY <1>4 DEF Parse, Receive, DeviceEnds, Dial, ClientInv, ClientTypeOK, Running
<1>5. CASE CloseReturns
  <2>1. 0 \in 0..MaxQueue
    BY <1>1
  <2>2. pc' \in {"connect", "stopped"}
    BY <1>5 DEF CloseReturns
  <2> QED BY <1>5, <2>1, <2>2 DEF CloseReturns, ClientInv, ClientTypeOK, Running
<1>6. CASE SendReturns
  BY <1>6 DEF SendReturns, ClientInv, ClientTypeOK, Running
<1>7. CASE SendRaises \/ Ping \/ Pong
  BY <1>7 DEF SendRaises, Ping, Pong, ClientInv, ClientTypeOK, Running
<1>8. CASE Cancelled
  BY <1>8 DEF Cancelled, Suspended, ClientInv, ClientTypeOK, Running
<1>9. CASE Interrupt
  BY <1>9 DEF Interrupt, Suspended, ClientInv, ClientTypeOK, Running
<1> QED
  BY <1>2, <1>3, <1>4, <1>5, <1>6, <1>7, <1>8, <1>9 DEF ClientRuns

LEMMA ClientInvStep ==
  ClientInv /\ [Next]_vars => ClientInv'
<1> SUFFICES ASSUME ClientInv, [Next]_vars PROVE ClientInv'
  OBVIOUS
<1>1. CASE UNCHANGED vars
  BY <1>1, EnvironmentKeeps DEF vars, relayVars
<1>2. CASE Join
  BY <1>2, ConnectKeeps DEF Join, Relay!Connect, Relay!peerVars
<1>3. CASE Packet \/ ClientStep \/ ClientMeets
  BY <1>3, ClientStepKeeps DEF Packet, ClientStep, ClientMeets, relayVars
<1>4. CASE EchoArrives
  BY <1>4, ClientAssumption
     DEF EchoArrives, Relay!PeerReads, ClientInv, ClientTypeOK
<1>5. ASSUME NEW c \in Sessions, TakeFrame(c) PROVE ClientInv'
  <2>1. /\ up \in [Sessions -> 0..(Room + 1)] /\ up[c] > 0 /\ up' = [up EXCEPT ![c] = up[c] - 1]
        /\ Room \in Nat
    BY <1>5, ClientAssumption DEF TakeFrame, ClientInv, ClientTypeOK
  <2>2. /\ up' \in [Sessions -> 0..(Room + 1)]
        /\ \A d \in Sessions : up'[d] <= up[d] /\ (d # c => up'[d] = up[d])
        /\ \A d \in Sessions : up[d] \in 0..(Room + 1)
    BY <2>1
  <2>3. UNCHANGED <<pc, then, link, open, queue, broken, ping, interrupts, cancel, lost>>
    BY <1>5 DEF TakeFrame, Relay!TakeMessage, Relay!peerVars
  <2>4. \A d \in Sessions : d > link => up'[d] = 0
    BY <2>1, <2>2 DEF ClientInv
  <2>5. pc \in Running /\ link \notin lost => up'[link] <= Room
    <3>1. pc \in Running => link \in Sessions
      BY DEF ClientInv, Running
    <3> QED BY <2>1, <2>2, <3>1 DEF ClientInv
  <2> QED BY <2>2, <2>3, <2>4, <2>5 DEF ClientInv, ClientTypeOK
<1>6. ASSUME NEW c \in Sessions, HandlerRuns(c) \/ CloseFrame(c) PROVE ClientInv'
  <2>1. UNCHANGED clientVars
    BY <1>6 DEF HandlerRuns, CloseFrame
  <2>2. UNCHANGED lost
    BY <1>6 DEF HandlerRuns, CloseFrame, Relay!RunsOn, Relay!IterationRaises,
                Relay!FinishBroadcast, Relay!SendFails, Relay!SendWrites, Relay!SendReturns,
                Relay!EndOfFrames, Relay!RejectFrame, Relay!Leave, Relay!peerVars
  <2> QED BY <2>1, <2>2, EnvironmentKeeps
<1>7. ASSUME NEW c \in Sessions, ConnectionEnds(c) PROVE ClientInv'
  BY <1>7 DEF ConnectionEnds, Relay!PeerLost, ClientInv, ClientTypeOK
<1> QED BY <1>1, <1>2, <1>3, <1>4, <1>5, <1>6, <1>7 DEF Next

-----------------------------------------------------------------------------
(* The relay of the pipeline does nothing that a relay does not do.          *)

LEMMA RelayInit == Init => Relay!Init
BY DEF Init

LEMMA RelayStep ==
  ClientInv /\ [Next]_vars => [Relay!Next]_(Relay!vars)
<1> SUFFICES ASSUME ClientInv, [Next]_vars
             PROVE  Relay!Next \/ UNCHANGED Relay!vars
  OBVIOUS
<1>1. ASSUME UNCHANGED relayVars PROVE UNCHANGED Relay!vars
  BY <1>1 DEF relayVars, Relay!vars, Relay!peerVars
<1>2. CASE Join
  <2>1. PICK c \in Sessions : c = link'
    BY <1>2, ConnectKeeps DEF Join, Relay!Connect, Relay!peerVars
  <2>2. Relay!Connect(c)
    BY <1>2, <2>1 DEF Join, Relay!Connect, Relay!SetClients
  <2> QED BY <2>2 DEF Relay!Next
<1>3. CASE Packet \/ ClientStep \/ ClientMeets
  BY <1>1, <1>3 DEF Packet, ClientStep, ClientMeets
<1>4. CASE EchoArrives
  <2>1. link \in Sessions /\ Relay!PeerReads(link)
    BY <1>4 DEF EchoArrives, ClientInv
  <2> QED BY <2>1 DEF Relay!Next
<1>5. ASSUME NEW c \in Sessions,
             TakeFrame(c) \/ HandlerRuns(c) \/ CloseFrame(c) \/ ConnectionEnds(c)
      PROVE  Relay!Next
  BY <1>5 DEF TakeFrame, HandlerRuns, CloseFrame, ConnectionEnds, Relay!Next
<1>6. CASE UNCHANGED vars
  BY <1>1, <1>6 DEF vars
<1> QED BY <1>2, <1>3, <1>4, <1>5, <1>6 DEF Next

\* The instance the theorems are stated for is the one of the pipeline.
LEMMA SameSize == ASSUME NEW S PROVE Relay!Cardinality(S) = Proved!Cardinality(S)
BY Zenon DEF Relay!Cardinality, Proved!Cardinality

LEMMA SameLoop == ASSUME NEW S PROVE Relay!LoopOver(S) = Proved!LoopOver(S)
BY SameSize DEF Relay!LoopOver, Proved!LoopOver

LEMMA SameSet ==
  ASSUME NEW h, NEW new
  PROVE  Relay!SetClients(h, new) = Proved!SetClients(h, new)
BY SameLoop DEF Relay!SetClients, Proved!SetClients, Relay!NoLoop, Proved!NoLoop,
                Relay!Broadcasting, Proved!Broadcasting

LEMMA SameInit == Relay!Init => Proved!Init
BY SameLoop DEF Relay!Init, Proved!Init, Relay!NoLoop, Proved!NoLoop

LEMMA SameHandler ==
  ASSUME NEW c \in Sessions
  PROVE  /\ Relay!Connect(c) => Proved!Connect(c)
         /\ Relay!TakeMessage(c) => Proved!TakeMessage(c)
         /\ Relay!RejectFrame(c) => Proved!RejectFrame(c)
         /\ Relay!EndOfFrames(c) => Proved!EndOfFrames(c)
         /\ Relay!SendReturns(c) => Proved!SendReturns(c)
<1> USE DEF Relay!LoopFree, Proved!LoopFree, Relay!peerVars, Proved!peerVars
<1>1. Relay!Connect(c) => Proved!Connect(c)
  BY SameSet DEF Relay!Connect, Proved!Connect
<1>2. Relay!TakeMessage(c) => Proved!TakeMessage(c)
  BY SameLoop DEF Relay!TakeMessage, Proved!TakeMessage
<1>3. Relay!Leave(c) => Proved!Leave(c)
  BY SameSet DEF Relay!Leave, Proved!Leave
<1>4. Relay!RejectFrame(c) => Proved!RejectFrame(c)
  BY <1>3 DEF Relay!RejectFrame, Proved!RejectFrame
<1>5. Relay!EndOfFrames(c) => Proved!EndOfFrames(c)
  BY <1>3 DEF Relay!EndOfFrames, Proved!EndOfFrames
<1>6. Relay!SendReturns(c) => Proved!SendReturns(c)
  BY DEF Relay!SendReturns, Proved!SendReturns
<1> QED BY <1>1, <1>2, <1>4, <1>5, <1>6

LEMMA SameRun ==
  ASSUME NEW h \in Sessions, Relay!RunsOn(h)
  PROVE  Proved!RunsOn(h)
<1> USE DEF Relay!peerVars, Proved!peerVars
<1>1. Relay!SizeChanged(h) = Proved!SizeChanged(h)
  BY SameSize DEF Relay!SizeChanged, Proved!SizeChanged
<1>2. Relay!MayStop(h) = Proved!MayStop(h) /\ Relay!MayYield(h) = Proved!MayYield(h)
  BY DEF Relay!MayStop, Proved!MayStop, Relay!MayYield, Proved!MayYield
<1>3. ASSUME NEW c \in Sessions, NEW fails \in BOOLEAN, Relay!Yield(h, c, fails)
      PROVE  Proved!Yield(h, c, fails)
  BY <1>1, <1>2, <1>3 DEF Relay!Yield, Proved!Yield
<1>4. CASE Relay!IterationRaises(h)
  BY <1>1, <1>4, SameSet
     DEF Relay!IterationRaises, Proved!IterationRaises, Relay!Leave, Proved!Leave, Proved!RunsOn
<1>5. CASE Relay!FinishBroadcast(h)
  BY <1>1, <1>2, <1>5, SameSet DEF Relay!FinishBroadcast, Proved!FinishBroadcast, Proved!RunsOn
<1>6. ASSUME NEW c \in Sessions, Relay!SendFails(h, c) \/ Relay!SendWrites(h, c)
      PROVE  Proved!SendFails(h, c) \/ Proved!SendWrites(h, c)
  BY <1>3, <1>6
     DEF Relay!SendFails, Proved!SendFails, Relay!SendWrites, Proved!SendWrites, Relay!Write,
         Proved!Write, Relay!Counts, Proved!Counts, Relay!Asks, Proved!Asks
<1> QED BY <1>4, <1>5, <1>6 DEF Relay!RunsOn, Proved!RunsOn

LEMMA SameNext == [Relay!Next]_(Relay!vars) => [Proved!Next]_(Proved!vars)
<1> SUFFICES ASSUME [Relay!Next]_(Relay!vars) PROVE Proved!Next \/ UNCHANGED Proved!vars
  OBVIOUS
<1>1. CASE UNCHANGED Relay!vars
  BY <1>1 DEF Relay!vars, Proved!vars, Relay!peerVars, Proved!peerVars
<1>2. ASSUME NEW c \in Sessions, Relay!PeerReads(c) PROVE Proved!PeerReads(c)
  BY <1>2 DEF Relay!PeerReads, Proved!PeerReads, Relay!WakeWriters, Proved!WakeWriters,
              Relay!LoopFree, Proved!LoopFree
<1>3. ASSUME NEW c \in Sessions, Relay!PeerLost(c) PROVE Proved!PeerLost(c)
  BY <1>3 DEF Relay!PeerLost, Proved!PeerLost, Relay!WakeWriters, Proved!WakeWriters,
              Relay!LoopFree, Proved!LoopFree
<1> QED BY <1>1, <1>2, <1>3, SameHandler, SameRun DEF Relay!Next, Proved!Next

-----------------------------------------------------------------------------
(* The theorems.                                                           *)

\* The relay of the pipeline implements the relay by itself: nothing that the
\* Python client does makes it take a step that BroadcastServer does not know.
THEOREM PipelineHasTheRelay == Spec => Relay!Spec
BY ClientInvInit, ClientInvStep, RelayInit, RelayStep, PTL DEF Spec, Relay!Spec

LEMMA PipelineHasTheProved == Spec => Proved!Spec
BY PipelineHasTheRelay, SameInit, SameNext, PTL DEF Relay!Spec, Proved!Spec

\* Client and relay keep their types: in particular, no session has more than
\* one frame on its way beyond the room of its transport.
THEOREM PipelineTypes == Spec => []TypeOK
<1>1. Proved!Spec => []Proved!TypeOK
  BY RelayAssumed, Proved!TypeCorrect
<1>2. Proved!TypeOK => Relay!TypeOK
  BY DEF Proved!TypeOK, Relay!TypeOK, Proved!Broadcasting, Relay!Broadcasting, Proved!Msg,
         Relay!Msg, Proved!Loop, Relay!Loop
<1>3. ClientInv /\ Relay!TypeOK => TypeOK
  BY DEF ClientInv, TypeOK
<1> QED
  BY <1>1, <1>2, <1>3, PipelineHasTheProved, ClientInvInit, ClientInvStep, PTL DEF Spec

\* What is proved of the relay with any peers holds with this one: it serves
\* exactly its connections, buffers a bounded number of frames for a session
\* that does not read, and echoes each session's frames in order.
THEOREM PipelineKeepsTheRelay == Spec => []RelaySound
<1>1. Proved!Spec => [](Proved!RegistrySound /\ Proved!Backpressure /\ Proved!SenderOrder)
  <2>1. Proved!Spec => []Proved!RegistrySound
    BY RelayAssumed, Proved!RegistryCorrect
  <2>2. Proved!Spec => []Proved!Backpressure
    BY RelayAssumed, Proved!BackpressureCorrect
  <2>3. Proved!Spec => []Proved!SenderOrder
    BY RelayAssumed, Proved!SenderOrderCorrect
  <2> QED BY <2>1, <2>2, <2>3, PTL
<1>2. Proved!RegistrySound => Relay!RegistrySound
  BY DEF Proved!RegistrySound, Relay!RegistrySound, Proved!Alive, Relay!Alive,
         Proved!Broadcasting, Relay!Broadcasting
<1>3. Proved!Backpressure => Relay!Backpressure
  BY SameSize DEF Proved!Backpressure, Relay!Backpressure, Proved!Waiting, Relay!Waiting
<1>4. Proved!SenderOrder => Relay!SenderOrder
  BY DEF Proved!SenderOrder, Relay!SenderOrder
<1>5. Proved!RegistrySound /\ Proved!Backpressure /\ Proved!SenderOrder => RelaySound
  BY <1>2, <1>3, <1>4 DEF RelaySound
<1> QED BY <1>1, <1>5, PipelineHasTheProved, PTL

\* So does what a single broadcast promises: with nobody joining or leaving
\* meanwhile, the echo of a frame is in the buffer of its session, or was read.
THEOREM PipelineDelivers == Spec => Relay!StableBroadcastDelivers
<1>1. Proved!Spec => Proved!StableBroadcastDelivers
  BY RelayAssumed, Proved!DeliveryCorrect
<1>2. \A h, c : Proved!Delivered(h, c) = Relay!Delivered(h, c)
  BY DEF Proved!Delivered, Relay!Delivered
<1>3. UNCHANGED Proved!vars => UNCHANGED Relay!vars
  BY DEF Proved!vars, Relay!vars, Proved!peerVars, Relay!peerVars
<1>4. [\A h \in Sessions :
         handler[h] = "iterate" /\ handler'[h] = "receive" /\ h \notin churned
           => \A c \in loop[h].base : c \in lost \/ Proved!Delivered(h, c)]_(Proved!vars)
      => [\A h \in Sessions :
            handler[h] = "iterate" /\ handler'[h] = "receive" /\ h \notin churned
              => \A c \in loop[h].base : c \in lost \/ Relay!Delivered(h, c)]_(Relay!vars)
  BY <1>2, <1>3
<1> QED
  BY <1>1, <1>4, PipelineHasTheProved, PTL
     DEF Proved!StableBroadcastDelivers, Relay!StableBroadcastDelivers

\* And the abstract relay is implemented here too.
THEOREM PipelineKeepsPromise == Spec => Relay!KeepsPromise
<1>1. Proved!Spec => Proved!KeepsPromise
  BY RelayAssumed, Proved!KeepsPromiseCorrect
<1>2. Proved!Promise!Init => Relay!Promise!Init
  BY DEF Proved!Promise!Init, Relay!Promise!Init
<1>3. [Proved!Promise!Next]_(Proved!Promise!vars) => [Relay!Promise!Next]_(Relay!Promise!vars)
  BY DEF Proved!Promise!Next, Relay!Promise!Next, Proved!Promise!vars, Relay!Promise!vars,
         Proved!Promise!Join, Relay!Promise!Join, Proved!Promise!Leave, Relay!Promise!Leave,
         Proved!Promise!Forget, Relay!Promise!Forget,
         Proved!Promise!Lose, Relay!Promise!Lose, Proved!Promise!Publish,
         Relay!Promise!Publish, Proved!Promise!Read, Relay!Promise!Read
<1> QED
  BY <1>1, <1>2, <1>3, PipelineHasTheProved, PTL
     DEF Proved!KeepsPromise, Relay!KeepsPromise, Proved!Promise!Spec, Relay!Promise!Spec
=============================================================================
