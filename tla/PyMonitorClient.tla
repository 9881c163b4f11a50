---------------------------- MODULE PyMonitorClient ----------------------------
(***************************************************************************)
(* The packet client in Python, client/client.py: one coroutine that opens *)
(* a WebSocket to the relay and a TCP socket to the device, and forwards   *)
(* packets until something fails; main starts it again at once.            *)
(*                                                                         *)
(* The socket of the device is read with blocking calls, so the event loop *)
(* (and with it the WebSocket library and the delivery of a cancellation)  *)
(* runs only while the coroutine is suspended in an await that is not      *)
(* ready: a connection attempt, a send on a full transport, a close.       *)
(* Nothing ever calls recv on the WebSocket: the frames that the relay     *)
(* echoes pile up in the library's queue, which is bounded.                *)
(*                                                                         *)
(* This module is the client alone.  EchoPipeline closes it with the relay.*)
(* The library (websockets) is modelled from the way the client uses it.   *)
(***************************************************************************)
EXTENDS Naturals

CONSTANTS
  MaxSessions,   \* bound: WebSocket connections made
  Interruptible, \* bound: the connections in whose time a SIGINT may come
  Room,          \* frames on their way to the relay before a send is suspended
  MaxQueue       \* echoed frames the library takes before it stops reading

ASSUME ClientAssumption ==
  /\ {MaxSessions, Room, MaxQueue} \subseteq Nat
  /\ Interruptible \subseteq 0..MaxSessions

VARIABLES
  pc,         \* where the coroutine is
  then,       \* where it goes on when the suspended send returns
  link,       \* number of connections made; the last one is the session's
  open,       \* connections that were made and not closed
  up,         \* frames of each connection that the relay has not read yet
  queue,      \* echoed frames of this session read by the library
  broken,     \* the transport knows that the connection is gone
  ping,       \* the keepalive ping: "no", "sent", or "waits" to be written
  interrupts, \* number of SIGINTs
  cancel,     \* cancellation of the main task: "no", "pending", "delivered"
  lost        \* connections that are gone; changed by the environment

clientVars == <<pc, then, link, open, up, queue, broken, ping, interrupts, cancel>>

Sessions == 1..MaxSessions
Suspended == pc \in {"connect", "drain", "close"}

ClientInit ==
  /\ pc = "connect" /\ then = "recv"
  /\ link = 0 /\ open = {}
  /\ up = [c \in Sessions |-> 0]
  /\ queue = 0 /\ broken = FALSE /\ ping = "no"
  /\ interrupts = 0 /\ cancel = "no"

-----------------------------------------------------------------------------
\* A connection is made.  An attempt that fails is followed by another one.
Connect ==
  /\ pc = "connect" /\ cancel = "no" /\ link < MaxSessions
  /\ pc' = "dial"
  /\ link' = link + 1 /\ open' = open \cup {link'}
  /\ UNCHANGED <<then, up, queue, broken, ping, interrupts, cancel>>

\* The device accepts the connection, or does not.
Dial ==
  /\ pc = "dial"
  /\ pc' \in {"greet", "close"}
  /\ UNCHANGED <<then, link, open, up, queue, broken, ping, interrupts, cancel>>

\* Fault: the send is not awaited.
SendUnawaited(next) ==
  /\ pc' = next
  /\ up' = [up EXCEPT ![link] = @ + 1]
  /\ UNCHANGED <<then, broken>>

\* Fault: the exception of the send is printed and not raised again (line 46).
SendPrints(next) ==
  IF link \in lost
  THEN pc' = next /\ UNCHANGED <<then, up, broken>>
  ELSE /\ up' = [up EXCEPT ![link] = @ + 1]
       /\ UNCHANGED broken
       /\ IF up[link] < Room THEN pc' = next /\ UNCHANGED then
                             ELSE pc' = "drain" /\ then' = next

\* send_to_websocket: the frame is written, and the coroutine is suspended if
\* the transport is full.  A connection that is gone takes one more frame
\* before it is found out, or none; then the send raises.
SendToWebsocket(next) ==
  \/ /\ link \notin lost
     /\ up' = [up EXCEPT ![link] = @ + 1]
     /\ IF up[link] < Room THEN pc' = next /\ UNCHANGED then
                           ELSE pc' = "drain" /\ then' = next
     /\ UNCHANGED broken
  \/ /\ link \in lost /\ ~broken
     /\ broken' = TRUE /\ pc' = next
     /\ UNCHANGED <<then, up>>
  \/ /\ link \in lost
     /\ pc' = "close"
     /\ UNCHANGED <<then, up, broken>>

Greet ==
  /\ pc = "greet" /\ SendToWebsocket("recv")
  /\ UNCHANGED <<link, open, queue, ping, interrupts, cancel>>

\* A whole packet was read with blocking calls.
Receive ==
  /\ pc = "recv" /\ pc' = "forward"
  /\ UNCHANGED <<then, link, open, up, queue, broken, ping, interrupts, cancel>>

\* End of stream or an error, in the header or in the payload.
DeviceEnds ==
  /\ pc = "recv" /\ pc' = "close"
  /\ UNCHANGED <<then, link, open, up, queue, broken, ping, interrupts, cancel>>

Forward ==
  /\ pc = "forward" /\ SendToWebsocket("parse")
  /\ UNCHANGED <<link, open, queue, ping, interrupts, cancel>>

\* A plaintext packet completes MAVLink messages or not; parse_char may raise.
Parse ==
  /\ pc = "parse" /\ pc' \in {"recv", "mavlink", "close"}
  /\ UNCHANGED <<then, link, open, up, queue, broken, ping, interrupts, cancel>>

ForwardMavlink ==
  /\ pc = "mavlink" /\ SendToWebsocket("recv")
  /\ UNCHANGED <<link, open, queue, ping, interrupts, cancel>>

\* Fault: the WebSocket is not closed (no finally clause).
CloseSkipped ==
  /\ pc = "close" /\ cancel # "pending"
  /\ pc' = IF cancel = "delivered" THEN "stopped" ELSE "connect"
  /\ then' = "recv" /\ queue' = 0 /\ broken' = FALSE /\ ping' = "no"
  /\ UNCHANGED <<link, open, up, interrupts, cancel>>

\* The finally clause: the close handshake is awaited for a limited time, and
\* main goes on with the next session.  (Its delay is for an exception that
\* leaves monitor_client, which catches them all.)
CloseReturns ==
  /\ pc = "close" /\ cancel # "pending"
  /\ pc' = IF cancel = "delivered" THEN "stopped" ELSE "connect"
  /\ open' = open \ {link}
  /\ then' = "recv" /\ queue' = 0 /\ broken' = FALSE /\ ping' = "no"
  /\ UNCHANGED <<link, up, interrupts, cancel>>

-----------------------------------------------------------------------------
(* The event loop, while the coroutine is suspended.                       *)

\* The transport has room again.
SendReturns ==
  /\ pc = "drain" /\ cancel # "pending"
  /\ link \notin lost /\ up[link] <= Room
  /\ pc' = then /\ then' = "recv"
  /\ ping' = IF ping = "waits" THEN "sent" ELSE ping
  /\ UNCHANGED <<link, open, up, queue, broken, interrupts, cancel>>

\* The loss of the connection, or a ping that was not answered in time, fails
\* the connection: the send raises.
SendRaises ==
  /\ pc = "drain" /\ cancel # "pending"
  /\ link \in lost \/ ping = "sent"
  /\ pc' = "close" /\ then' = "recv" /\ ping' = "no"
  /\ UNCHANGED <<link, open, up, queue, broken, interrupts, cancel>>

\* The keepalive task writes its ping, as any frame: it waits for room too.
Ping ==
  /\ pc = "drain" /\ ping = "no" /\ link \notin lost
  /\ ping' = IF up[link] > Room THEN "waits" ELSE "sent"
  /\ UNCHANGED <<pc, then, link, open, up, queue, broken, interrupts, cancel>>

\* Its answer is behind the echoed frames.
Pong ==
  /\ pc = "drain" /\ ping = "sent" /\ link \notin lost /\ queue < MaxQueue
  /\ ping' = "no"
  /\ UNCHANGED <<pc, then, link, open, up, queue, broken, interrupts, cancel>>

\* The first SIGINT cancels the main task, which takes effect in the next await
\* that suspends it; the second raises KeyboardInterrupt where the code is:
\* monitor_client catches it and closes, the event loop ends the program.
Interrupt ==
  /\ interrupts < 2 /\ link \in Interruptible /\ pc # "stopped"
  /\ interrupts' = interrupts + 1
  /\ IF interrupts = 0
       THEN cancel' = "pending" /\ UNCHANGED <<pc, open>>
       ELSE /\ pc' = IF Suspended THEN "stopped" ELSE "close"
            /\ open' = IF Suspended THEN {} ELSE open
            /\ UNCHANGED cancel
  /\ UNCHANGED <<then, link, up, queue, broken, ping>>

\* Fault: send_to_websocket catches the cancellation too (a bare except).
CancelSwallowed ==
  /\ Suspended /\ cancel = "pending"
  /\ IF pc = "drain"
       THEN cancel' = "no" /\ pc' = then /\ UNCHANGED open
       ELSE cancel' = "delivered" /\ pc' = "stopped" /\ open' = {}
  /\ UNCHANGED <<then, link, up, queue, broken, ping, interrupts>>

\* CancelledError is no Exception: it passes every handler but the finally
\* clause, whose close is awaited when the cancellation has been delivered.
Cancelled ==
  /\ Suspended /\ cancel = "pending"
  /\ cancel' = "delivered"
  /\ pc' = IF pc = "drain" THEN "close" ELSE "stopped"
  /\ open' = IF pc = "drain" THEN open ELSE {}
  /\ UNCHANGED <<then, link, up, queue, broken, ping, interrupts>>

-----------------------------------------------------------------------------
\* Steps that need neither the device nor a signal.
ClientRuns ==
  \/ Greet \/ Forward \/ Parse \/ ForwardMavlink \/ CloseReturns
  \/ SendReturns \/ SendRaises \/ Cancelled

ClientTypeOK ==
  /\ pc \in {"connect", "dial", "greet", "recv", "forward", "parse", "mavlink",
             "drain", "close", "stopped"}
  /\ then \in {"recv", "parse"}
  /\ link \in 0..MaxSessions /\ open \subseteq Sessions
  /\ up \in [Sessions -> 0..(Room + 1)]
  /\ queue \in 0..MaxQueue /\ broken \in BOOLEAN
  /\ ping \in {"no", "sent", "waits"}
  /\ interrupts \in 0..2 /\ cancel \in {"no", "pending", "delivered"}
=============================================================================
