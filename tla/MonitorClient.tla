---------------------------- MODULE MonitorClient ----------------------------
(***************************************************************************)
(* The C++ packet client (client/client.cpp): the restart loop of main,    *)
(* one monitoring session per turn, and the thread that runs the WebSocket *)
(* connection.  main and that thread share the flag connected and meet in  *)
(* cleanupWebSocket, which closes the connection and joins the thread.     *)
(*                                                                         *)
(* The device behind the TCP socket and the peer of the WebSocket answer,  *)
(* fail or stay silent at any moment.  websocketpp is modelled by its      *)
(* connection states: only an open connection sends or starts a close, a   *)
(* handshake ends in an open or a failed connection, and a connection that *)
(* is closing ends at the latest by its close timeout.                     *)
(***************************************************************************)
EXTENDS Naturals

CONSTANTS
  MaxTicks   \* bound: polls of connected before the connection is given up

ASSUME ClientAssumption == MaxTicks \in Nat

VARIABLES
  pc,          \* where main is
  by,          \* who called the cleanup: "monitor", "main" or "handler"
  ticks,       \* polls left (timeout)
  ret,         \* the return value of the session
  sock,        \* the TCP socket: "none", "open", "closed"
  packet,      \* the packet being handled
  undelivered, \* history: packets of the session read but not forwarded
  threw,       \* history: the session ended with an exception
  con,         \* state of the WebSocket connection
  connected,   \* the flag of the same name
  thread       \* ws_thread: "none", "running", "finished" (joinable if not none)

mainVars == <<by, ticks, ret, sock, packet, undelivered, threw>>
wsVars == <<con, connected, thread>>
vars == <<pc, mainVars, wsVars>>

PCs == {"start", "wait", "greet", "dial", "header", "payload", "forward",
        "mavlink", "cleanup", "join", "sleep", "aborted"}
Codes == {"SUCCESS", "ERROR_WEBSOCKET_CONNECT", "ERROR_SOCKET_CREATE",
          "ERROR_RECV_HEADER", "ERROR_RECV_DATA", "ERROR_WEBSOCKET_SEND"}
\* What the handling of a packet depends on: plaintext is parsed for MAVLink,
\* state is forwarded as text, the rest as it is.
Kinds == {"plaintext", "state", "other"}
ConStates == {"none", "connecting", "open", "closing", "terminating", "closed"}

Init ==
  /\ pc = "start" /\ by = "monitor" /\ ticks = 0 /\ ret = "SUCCESS"
  /\ sock = "none" /\ packet = "other" /\ undelivered = 0 /\ threw = FALSE
  /\ con = "none" /\ connected = FALSE /\ thread = "none"

-----------------------------------------------------------------------------
(* main: one session.                                                      *)

\* The session returns code: cleanupWebSocket is called by monitorClient.
EndSession(code) ==
  /\ pc' = "cleanup" /\ by' = "monitor" /\ ret' = code

\* An exception leaves monitorClient for the handler of main.
Throw ==
  /\ pc' = "cleanup" /\ by' = "handler" /\ threw' = TRUE

\* A fresh DSMClient starts its connection and the thread that runs it, unless
\* a number of its configuration does not parse or the URI is not accepted.
StartSession ==
  /\ pc = "start"
  /\ \/ /\ pc' = "wait" /\ ticks' = MaxTicks
        /\ con' = "connecting" /\ thread' = "running"
        /\ UNCHANGED <<by, ret, threw>>
     \/ Throw /\ UNCHANGED <<ret, ticks, con, thread>>
     \/ EndSession("ERROR_WEBSOCKET_CONNECT") /\ UNCHANGED <<threw, ticks, con, thread>>
  /\ UNCHANGED <<sock, packet, undelivered, connected>>

\* Fault: the poll does not look at what is left of the timeout.
PollForever ==
  /\ pc = "wait"
  /\ IF connected THEN pc' = "greet" /\ UNCHANGED ticks
                  ELSE ticks' = ticks - 1 /\ UNCHANGED pc
  /\ UNCHANGED <<by, ret, sock, packet, undelivered, threw, wsVars>>

\* One poll of connected, at most MaxTicks times.
Poll ==
  /\ pc = "wait"
  /\ \/ connected /\ pc' = "greet" /\ UNCHANGED <<by, ret, ticks>>
     \/ ~connected /\ ticks > 0 /\ ticks' = ticks - 1 /\ UNCHANGED <<pc, by, ret>>
     \/ ~connected /\ ticks = 0 /\ EndSession("ERROR_WEBSOCKET_CONNECT")
          /\ UNCHANGED ticks
  /\ UNCHANGED <<sock, packet, undelivered, threw, wsVars>>

SendWorks == connected /\ con = "open"

\* The status message.
Greet ==
  /\ pc = "greet"
  /\ IF SendWorks THEN pc' = "dial" /\ UNCHANGED <<by, ret>>
                  ELSE EndSession("ERROR_WEBSOCKET_SEND")
  /\ UNCHANGED <<ticks, sock, packet, undelivered, threw, wsVars>>

\* createTCPSocket; ret is reset before the packet loop.
Dial ==
  /\ pc = "dial"
  /\ \/ pc' = "header" /\ sock' = "open" /\ ret' = "SUCCESS" /\ UNCHANGED by
     \/ EndSession("ERROR_SOCKET_CREATE") /\ UNCHANGED sock
  /\ UNCHANGED <<ticks, packet, undelivered, threw, wsVars>>

\* A header arrived whole, or recv returned less than four bytes.
ReadHeader ==
  /\ pc = "header"
  /\ \/ pc' = "payload" /\ packet' \in Kinds /\ UNCHANGED <<by, ret, sock>>
     \/ EndSession("ERROR_RECV_HEADER") /\ sock' = "closed" /\ UNCHANGED packet
  /\ UNCHANGED <<ticks, undelivered, threw, wsVars>>

\* Fault: the socket is not closed when the loop is left (475).
PayloadCompleteLeaks ==
  /\ pc = "payload"
  /\ IF ret = "SUCCESS"
       THEN pc' = "forward" /\ UNCHANGED <<by, ret, undelivered>>
       ELSE EndSession(ret) /\ undelivered' = undelivered + 1
  /\ UNCHANGED <<ticks, sock, packet, threw, wsVars>>

\* The payload arrived whole; ret still holds the result of the last send.
PayloadComplete ==
  /\ pc = "payload"
  /\ IF ret = "SUCCESS"
       THEN pc' = "forward" /\ UNCHANGED <<by, ret, sock, undelivered>>
       ELSE /\ EndSession(ret) /\ sock' = "closed"
            /\ undelivered' = undelivered + 1
  /\ UNCHANGED <<ticks, packet, threw, wsVars>>

\* The device closed the connection inside a payload.
PayloadEOF ==
  /\ pc = "payload"
  /\ EndSession("ERROR_RECV_DATA") /\ sock' = "closed"
  /\ UNCHANGED <<ticks, packet, undelivered, threw, wsVars>>

\* recv returned -1: the insertion of a range of length -1 throws.
PayloadError ==
  /\ pc = "payload"
  /\ Throw
  /\ UNCHANGED <<ticks, ret, sock, packet, undelivered, wsVars>>

SendResult == IF SendWorks THEN "SUCCESS" ELSE "ERROR_WEBSOCKET_SEND"

\* Fault: the result of the first send is not kept in ret (430).
ForwardPacketBlindly ==
  /\ pc = "forward"
  /\ undelivered' = IF SendWorks THEN undelivered ELSE undelivered + 1
  /\ \/ pc' = "header"
     \/ pc' = "mavlink" /\ packet = "plaintext"
  /\ UNCHANGED <<by, ticks, ret, sock, packet, threw, wsVars>>

\* The packet goes out; plaintext may complete MAVLink messages to be sent next.
ForwardPacket ==
  /\ pc = "forward"
  /\ ret' = SendResult
  /\ undelivered' = IF SendWorks THEN undelivered ELSE undelivered + 1
  /\ \/ pc' = "header"
     \/ pc' = "mavlink" /\ packet = "plaintext"
  /\ UNCHANGED <<by, ticks, sock, packet, threw, wsVars>>

\* The text of a state packet is not UTF-8 and dump throws.
StateNotText ==
  /\ pc = "forward" /\ packet = "state" /\ connected
  /\ Throw /\ undelivered' = undelivered + 1
  /\ UNCHANGED <<ticks, ret, sock, packet, wsVars>>

ForwardMavlink ==
  /\ pc = "mavlink"
  /\ pc' = "header" /\ ret' = SendResult
  /\ UNCHANGED <<by, ticks, sock, packet, undelivered, threw, wsVars>>

\* A char field of a MAVLink message is not ASCII and dump throws (line 453).
FieldNotText ==
  /\ pc = "mavlink"
  /\ Throw
  /\ UNCHANGED <<ticks, ret, sock, packet, undelivered, wsVars>>

-----------------------------------------------------------------------------
(* cleanupWebSocket, called by monitorClient, then by main (deinitialize), *)
(* or by the handler of main.                                              *)

\* close() throws when the connection is not open: monitorClient passes the
\* exception to the handler of main, where another one ends the process.
CloseConnection ==
  /\ pc = "cleanup"
  /\ IF ~connected
       THEN pc' = "join" /\ UNCHANGED <<by, threw, con>>
     ELSE IF con = "open"
       THEN pc' = "join" /\ con' = "closing" /\ UNCHANGED <<by, threw>>
     ELSE IF by = "handler"
       THEN pc' = "aborted" /\ UNCHANGED <<by, threw, con>>
       ELSE Throw /\ UNCHANGED con
  /\ UNCHANGED <<ticks, ret, sock, packet, undelivered, connected, thread>>

\* Fault: the thread is left to itself instead of joined.
Detach ==
  /\ pc = "join"
  /\ thread' = "none"
  /\ IF by = "monitor" THEN pc' = "cleanup" /\ by' = "main"
                       ELSE pc' = "sleep" /\ UNCHANGED by
  /\ UNCHANGED <<ticks, ret, sock, packet, undelivered, threw, con, connected>>

\* join returns when the thread is over, or at once when there is none.
Join ==
  /\ pc = "join"
  /\ thread # "running"
  /\ thread' = "none"
  /\ IF by = "monitor" THEN pc' = "cleanup" /\ by' = "main"
                       ELSE pc' = "sleep" /\ UNCHANGED by
  /\ UNCHANGED <<ticks, ret, sock, packet, undelivered, threw, con, connected>>

\* After 3 seconds the DSMClient is destroyed and the loop makes another.
Restart ==
  /\ pc = "sleep"
  /\ pc' = "start" /\ by' = "monitor" /\ ret' = "SUCCESS"
  /\ sock' = "none" /\ packet' = "other" /\ undelivered' = 0 /\ threw' = FALSE
  /\ con' = "none" /\ connected' = FALSE /\ thread' = "none"
  /\ UNCHANGED ticks

-----------------------------------------------------------------------------
(* The thread of the WebSocket connection, and its peer.                   *)

WsStep == pc # "aborted" /\ UNCHANGED <<pc, mainVars>>

\* The handshake succeeded and the open handler runs, however late.
WsOpens ==
  /\ WsStep /\ con = "connecting"
  /\ con' = "open" /\ connected' = TRUE
  /\ UNCHANGED thread

\* Resolving, connecting or the handshake failed: there is no handler for it.
WsFails ==
  /\ WsStep /\ con = "connecting"
  /\ con' = "closed"
  /\ UNCHANGED <<connected, thread>>

\* A close frame arrived: it is answered, and connected stays set.
WsPeerCloses ==
  /\ WsStep /\ con = "open"
  /\ con' = "closing"
  /\ UNCHANGED <<connected, thread>>

\* The connection broke, or the closing handshake ended or timed out.
WsDrops ==
  /\ WsStep /\ con \in {"open", "closing"}
  /\ con' = "terminating"
  /\ UNCHANGED <<connected, thread>>

\* Fault: the close handler only logs.
WsCloseHandlerLogs ==
  /\ WsStep /\ con = "terminating"
  /\ con' = "closed"
  /\ UNCHANGED <<connected, thread>>

\* The close handler.
WsCloseHandler ==
  /\ WsStep /\ con = "terminating"
  /\ con' = "closed" /\ connected' = FALSE
  /\ UNCHANGED thread

\* run() has no work left and returns.
ThreadEnds ==
  /\ WsStep /\ con = "closed" /\ thread = "running"
  /\ thread' = "finished"
  /\ UNCHANGED <<con, connected>>

-----------------------------------------------------------------------------
Packets == ReadHeader \/ PayloadComplete \/ PayloadEOF \/ PayloadError
Forwards == ForwardPacket \/ StateNotText \/ ForwardMavlink \/ FieldNotText
Main == StartSession \/ Poll \/ Greet \/ Dial \/ Packets \/ Forwards
          \/ CloseConnection \/ Join \/ Restart
Thread == WsOpens \/ WsFails \/ WsPeerCloses \/ WsDrops \/ WsCloseHandler \/ ThreadEnds

\* An aborted process takes no step.
Next == Main \/ Thread

Spec == Init /\ [][Next]_vars

\* main and the thread are scheduled; websocketpp ends every handshake (5 s
\* timers).  The device and the peer owe nothing: they may stay silent.
Fairness ==
  /\ WF_vars(StartSession \/ Poll \/ Greet \/ Dial \/ Forwards
               \/ CloseConnection \/ Join \/ Restart)
  /\ WF_vars(WsOpens \/ WsFails)
  /\ WF_vars(WsDrops /\ con = "closing")
  /\ WF_vars(WsCloseHandler \/ ThreadEnds)

FairSpec == Spec /\ Fairness

\* A device that keeps sending packets or closes its connection.
LiveDevice == WF_vars(Packets)
LiveDeviceSpec == FairSpec /\ LiveDevice

-----------------------------------------------------------------------------
(* Properties.                                                             *)

\* Types of the state of the client.
TypeOK ==
  /\ pc \in PCs /\ by \in {"monitor", "main", "handler"}
  /\ ticks \in 0..MaxTicks /\ ret \in Codes
  /\ sock \in {"none", "open", "closed"} /\ packet \in Kinds
  /\ undelivered \in Nat /\ threw \in BOOLEAN
  /\ con \in ConStates /\ connected \in BOOLEAN
  /\ thread \in {"none", "running", "finished"}

\* The DSMClient is only destroyed once its thread is joined and its
\* connection is gone: a joinable thread would end the process (line 514),
\* a connection in use would be freed under its own callbacks.
DestroyedClean ==
  pc = "sleep" => thread = "none" /\ con \in {"none", "closed"} /\ ~connected

\* A session whose WebSocket died stops by itself: the check of line 374 lets
\* at most one more packet be read after the one that could not be sent.
LossBound == undelivered <= 2

\* The session that ends without an exception has closed its socket (344, 364,
\* 475), so that the device is free for the next one.  One that ends by an
\* exception (line 369, dump) has not, against the comment of line 474.
QuietExitCloses == pc = "sleep" /\ ~threw => sock # "open"

\* While the device talks, the loss of the WebSocket always leads to a new
\* session, whatever main was doing when it happened (the loop of line 489).
LossRestarts == con = "closed" ~> pc = "start"

\* Comment of line 488 ("Restart loop") and the message of line 504: a session
\* that ends is followed by another one.
EndedSessionRestarts == pc = "join" ~> pc = "start"

\* The handler of line 507 ends with "Restarting client in 3 seconds..."
\* (line 511): the process never dies of an exception.
NeverAborts == pc # "aborted"
=============================================================================
