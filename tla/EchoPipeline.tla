----------------------------- MODULE EchoPipeline -----------------------------
(***************************************************************************)
(* The Python client and the relay together.  Every frame that the client  *)
(* sends comes back to it, as it is a member of websocket_clients itself   *)
(* (server/server.py, line 38), and it reads none of them: what the client *)
(* and the handler of its connection wait for, each in a send, may be the  *)
(* other.  A session that the client has ended may still have frames at    *)
(* the relay when the next one begins, and meets it there.                 *)
(***************************************************************************)
EXTENDS PyMonitorClient, Sequences

CONSTANTS MaxMsgs, HighWater, LowWater, DrainLimit, MaxYields  \* see BroadcastServer

ASSUME PipelineAssumption ==
  /\ {MaxMsgs, HighWater, DrainLimit, MaxYields} \subseteq Nat
  /\ LowWater \in 0..HighWater

VARIABLES
  handler,  \* pc of the handler of each connection
  clients, outbuf, paused, unchecked, seen, taken, loop, churned, target

relayVars == <<handler, clients, lost, outbuf, paused, unchecked, seen, taken, loop, churned, target>>
vars == <<clientVars, relayVars>>

Relay == INSTANCE BroadcastServer WITH
  Conns <- Sessions, Producers <- Sessions, NoConn <- 0, pc <- handler

Init == ClientInit /\ Relay!Init

-----------------------------------------------------------------------------
\* The client connects: its handler registers it.
Join == Connect /\ Relay!Connect(link')

\* The bound of the frames of a session, counting the two of a packet.
Packet == /\ Receive
          /\ link \in lost \/ taken[link] + up[link] + 2 <= MaxMsgs
          /\ UNCHANGED relayVars

\* The client goes on by itself.
ClientStep == ClientRuns /\ UNCHANGED relayVars
ClientMeets ==
  (Dial \/ DeviceEnds \/ Ping \/ Pong \/ Interrupt) /\ UNCHANGED relayVars

\* The handler of c takes a frame that the client sent.
TakeFrame(c) ==
  /\ up[c] > 0
  /\ Relay!TakeMessage(c)
  /\ up' = [up EXCEPT ![c] = @ - 1]
  /\ UNCHANGED <<pc, then, link, open, queue, broken, ping, interrupts, cancel>>

\* The handler of c goes on by itself.
HandlerRuns(c) ==
  /\ Relay!RunsOn(c) \/ Relay!SendReturns(c) \/ Relay!EndOfFrames(c)
  /\ UNCHANGED clientVars

\* The close frame of the client comes after what it sent before.
CloseFrame(c) ==
  /\ c \notin open /\ up[c] = 0
  /\ Relay!RejectFrame(c)
  /\ UNCHANGED clientVars

\* The library of the client reads an echoed frame while its event loop runs
\* and its queue has room.
EchoArrives ==
  /\ pc \in {"drain", "close"} /\ queue < MaxQueue
  /\ Relay!PeerReads(link)
  /\ queue' = queue + 1
  /\ UNCHANGED <<pc, then, link, open, up, broken, ping, interrupts, cancel>>

\* A connection ends: closed by the client, by its handler, or lost; the ping
\* of the session is answered by nobody then.
ConnectionEnds(c) ==
  /\ Relay!PeerLost(c)
  /\ ping' = IF c = link THEN "no" ELSE ping
  /\ UNCHANGED <<pc, then, link, open, up, queue, broken, interrupts, cancel>>

Next ==
  \/ Join \/ Packet \/ ClientStep \/ ClientMeets \/ EchoArrives
  \/ \E c \in Sessions : TakeFrame(c) \/ HandlerRuns(c) \/ CloseFrame(c) \/ ConnectionEnds(c)

Spec == Init /\ [][Next]_vars

\* Both event loops schedule what can run, and both libraries notice a
\* connection that the other side has closed.  The device owes nothing.
FairSpec ==
  /\ Spec
  /\ WF_vars(ClientStep) /\ WF_vars(EchoArrives) /\ WF_vars(Ping /\ UNCHANGED relayVars)
  /\ \A c \in Sessions :
       /\ WF_vars(TakeFrame(c) \/ HandlerRuns(c))
       /\ WF_vars((c \notin open \/ handler[c] = "done") /\ ConnectionEnds(c))

-----------------------------------------------------------------------------
(* Properties.                                                             *)

\* Types of the state of client and relay.
TypeOK == ClientTypeOK /\ Relay!TypeOK

\* What the relay promises holds with two sessions that broadcast to each other:
\* the old handler, with frames its client left behind, and the new one.
RelaySound == Relay!RegistrySound /\ Relay!Backpressure /\ Relay!SenderOrder

\* The relay forgets a session that the client has ended (client.py, lines
\* 154-156), whatever the handler was doing, but for one thing: the frames that
\* are left of it go to the next session, whose transport may be full.
SessionForgotten ==
  \A c \in 1..(MaxSessions - 1) :
    (c < link) ~> (c \notin clients \/ (handler[c] = "drain" /\ target[c] > c))

\* The second interrupt stops the client wherever it is, and the first one does
\* if a send is suspended, even for ever (lines 150-165).
InterruptStops ==
  (interrupts = 2 \/ (interrupts = 1 /\ pc = "drain")) ~> (pc = "stopped")

\* A client that lost its WebSocket while it was reading from the device finds
\* out, if the device keeps sending, and ends the session (lines 44-46).
LossEndsSession ==
  WF_vars(Packet) => ((link \in lost /\ pc = "recv") ~> (pc \in {"close", "stopped"}))

\* A suspended send ends as long as the library of the client has room for what
\* the relay echoes: until then neither side waits for the other in vain.
SendEndsUntilQueueFull ==
  (pc = "drain" /\ queue < MaxQueue) ~> (pc # "drain" \/ queue = MaxQueue)

\* The comment of client.py, line 94, "print the packet and send it over the
\* WebSocket": the send ends, by success or by the end of the session.
SendEnds == (pc = "drain") ~> (pc # "drain")
=============================================================================
