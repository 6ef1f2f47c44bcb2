-------------------------- MODULE HttpProxyStream --------------------------
(***************************************************************************)
(* One connection of the local HTTP proxy: class HttpProxyStream reads a   *)
(* request, connects to its target through the tunnel and then forwards    *)
(* what the client and the target send.  The two sockets are QTcpSockets   *)
(* of one event loop: a signal is handled before the next one.             *)
(*                                                                         *)
(* Bytes are counted in units; the i-th unit a peer sends is the number i, *)
(* so that a lost, repeated or reordered unit is seen.                     *)
(***************************************************************************)
EXTENDS Integers, Sequences

CONSTANTS
    ClientUnits, TargetUnits,   \* what each peer may send, at most
    MaxRequestHeadersSize, MaxPendingBytes, ChunkSize

ASSUME StreamAssumption ==
    /\ ClientUnits \in Nat /\ TargetUnits \in Nat
    /\ MaxRequestHeadersSize \in Nat \ {0}
    /\ MaxPendingBytes \in Nat \ {0}
    /\ ChunkSize \in Nat \ {0}

VARIABLES
    stream,     \* the HttpProxyStream and its sockets
    request,    \* what the client asks for; its headers end with unit headersEnd
    clientSent, targetSent,     \* units sent by the peers
    clientGot, targetGot,       \* what the peers received
    clientLeft, targetLeft,     \* the peers closed their connections
    stopped     \* the server stopped the stream

peerVars == <<clientSent, targetSent, clientGot, targetGot, clientLeft, targetLeft>>
vars == <<stream, request, peerVars, stopped>>

Requests == [connect : BOOLEAN, valid : BOOLEAN, headersEnd : 1..MaxRequestHeadersSize + 1]

Established == 200
Failures == {400, 408, 431, 502, 504}
-----------------------------------------------------------------------------
(* QTcpSocket *)

Units(first, last) == [i \in 1..last - first + 1 |-> first + i - 1]
First(n, seq) == SubSeq(seq, 1, n)
Rest(n, seq) == SubSeq(seq, n + 1, Len(seq))
Least(a, b) == IF a <= b THEN a ELSE b

Idle == [state |-> "Unconnected", in |-> <<>>, out |-> <<>>]

\* abort() drops what was received and what was not sent.
Aborted == Idle

\* disconnectFromHost(): "Pending data is sent before disconnection"
Disconnect(socket) ==
    [socket EXCEPT !.state = IF socket.out = <<>> THEN "Unconnected" ELSE "Closing"]

Write(socket, data) == [socket EXCEPT !.out = @ \o data]

IsUp(socket) == socket.state \in {"Connected", "Closing"}

-----------------------------------------------------------------------------
(* forwardData: chunks are written while less than MaxPendingBytes wait *)

ForwardedInChunks(from, to) == Len(from.in)   \* mutant
Forwarded(from, to) ==
    IF Len(to.out) >= MaxPendingBytes THEN 0
    ELSE Least(Len(from.in),
               ChunkSize * ((MaxPendingBytes - Len(to.out) + ChunkSize - 1) \div ChunkSize))

ForwardData(s, from, to) ==
    LET n == Forwarded(s[from], s[to])
    IN  IF s[to].state # "Connected" THEN s
        ELSE [s EXCEPT ![from].in = Rest(n, @), ![to].out = @ \o First(n, s[from].in)]

\* "Close the other side once everything received from the disconnected side
\* is delivered"; the states are those before the data was forwarded.
HangUp(before, s, from, to) ==
    IF /\ before[from].state = "Unconnected" /\ s[from].in = <<>>
       /\ before[to].state = "Connected"
    THEN [s EXCEPT ![to] = Disconnect(@)] ELSE s

Relay(s) ==
    LET forwarded == ForwardData(ForwardData(s, "client", "target"), "target", "client")
    IN  HangUp(s, HangUp(s, forwarded, "client", "target"), "target", "client")

GiveUp(s) == [s EXCEPT !.state = "Closing", !.timer = FALSE, !.target = Aborted]

BothUnconnected(s) == s.client.state = "Unconnected" /\ s.target.state = "Unconnected"

DeleteIfTunneling(s) ==   \* mutant
    [s EXCEPT !.deleteScheduled = @ \/ (BothUnconnected(s) /\ s.state = "Tunneling")]
DeleteIfDone(s) == [s EXCEPT !.deleteScheduled = @ \/ BothUnconnected(s)]

\* A state changed inside pump runs pump again, which finds nothing but the
\* deletion left to do.
Pump(s) ==
    DeleteIfDone(
        IF s.state = "Tunneling" THEN Relay(s)
        ELSE IF s.state # "Closing" /\ s.client.state = "Unconnected" THEN GiveUp(s)
        ELSE s)

-----------------------------------------------------------------------------
RespondAndClose(s, status) ==
    LET closing == GiveUp(s)
    IN  Pump(IF s.client.state = "Connected"
             THEN [closing EXCEPT !.client = Disconnect(Write(@, <<status>>))]
             ELSE closing)

\* What the target is sent of a request whose headers are complete: the headers
\* of CONNECT are for the proxy, others are rewritten.
ForTarget(data) ==
    (IF request.connect THEN <<>> ELSE <<request.headersEnd>>) \o Rest(request.headersEnd, data)

\* parseRequest of a valid request
ConnectWithoutTimer(s, data) ==   \* mutant
    [s EXCEPT !.state = "Connecting", !.timer = FALSE, !.buffer = ForTarget(data),
              !.target.state = "Connecting"]
StartConnecting(s, data) ==
    [s EXCEPT !.state = "Connecting", !.timer = TRUE, !.buffer = ForTarget(data),
              !.target.state = "Connecting"]

ReadRequest(s) ==
    LET data == s.buffer \o s.client.in
        read == [s EXCEPT !.buffer = data, !.client.in = <<>>]
        seen == Least(Len(data), request.headersEnd)
    IN  IF s.state # "ReadingRequest" THEN s
        ELSE IF seen > MaxRequestHeadersSize THEN RespondAndClose(read, 431)
        ELSE IF seen < request.headersEnd THEN read
        ELSE IF ~request.valid THEN RespondAndClose([read EXCEPT !.buffer = <<>>], 400)
        ELSE StartConnecting(read, data)

\* handleTargetConnect
RelayBeforeRequest(s) ==   \* mutant
    LET relayed == Pump([s EXCEPT !.state = "Tunneling", !.timer = FALSE,
                                  !.target.state = "Connected", !.buffer = <<>>])
    IN  [relayed EXCEPT !.target = Write(@, s.buffer),
                        !.client = Write(@, IF request.connect THEN <<Established>> ELSE <<>>)]
HandleTargetConnect(s) ==
    Pump([s EXCEPT !.state = "Tunneling", !.timer = FALSE,
                   !.target = [Write(@, s.buffer) EXCEPT !.state = "Connected"],
                   !.client = Write(@, IF request.connect THEN <<Established>> ELSE <<>>),
                   !.buffer = <<>>])

\* handleTargetError
HandleTargetError(s) == RespondAndClose([s EXCEPT !.target = Idle], 502)

HandleTimeout(s) ==
    IF s.state = "ReadingRequest" THEN RespondAndClose(s, 408)
    ELSE IF s.state = "Connecting" THEN RespondAndClose(s, 504)
    ELSE s

CloseAndDeleteLater(s) ==
    Pump([s EXCEPT !.state = "Closing", !.client = Aborted, !.target = Aborted])

\* bytesWritten, and the end of a disconnection that waited for it
WrittenUnnoticed(s, side, n) ==   \* mutant
    LET rest == [s[side] EXCEPT !.out = Rest(n, @)]
    IN  [s EXCEPT ![side] = IF rest.state = "Closing" THEN Disconnect(rest) ELSE rest]
Written(s, side, n) ==
    LET rest == [s[side] EXCEPT !.out = Rest(n, @)]
    IN  Pump([s EXCEPT ![side] = IF rest.state = "Closing" THEN Disconnect(rest) ELSE rest])

\* The peer closed: what it sent can still be read, what it did not receive is lost.
PeerLeft(s, side) ==
    Pump([s EXCEPT ![side] = [@ EXCEPT !.state = "Unconnected", !.out = <<>>]])

-----------------------------------------------------------------------------
Init ==
    /\ request \in Requests
    /\ stream = [state |-> "ReadingRequest", timer |-> TRUE, buffer |-> <<>>,
                 client |-> [Idle EXCEPT !.state = "Connected"], target |-> Idle,
                 deleteScheduled |-> FALSE]
    /\ clientSent = 0 /\ targetSent = 0
    /\ clientGot = <<>> /\ targetGot = <<>>
    /\ clientLeft = FALSE /\ targetLeft = FALSE
    /\ stopped = FALSE

\* readyRead of the client's socket, which reads no more than its buffer holds:
\* readRequest and, once tunneling, pump
ClientSends ==
    /\ IsUp(stream.client)
    /\ \E last \in clientSent + 1..ClientUnits :
          LET in == stream.client.in \o Units(clientSent + 1, last)
              received == [stream EXCEPT !.client.in = in]
          IN  /\ Len(in) <= MaxPendingBytes
              /\ clientSent' = last
              /\ stream' = IF stream.state = "Tunneling" THEN Pump(received)
                           ELSE ReadRequest(received)
    /\ UNCHANGED <<request, targetSent, clientGot, targetGot, clientLeft, targetLeft, stopped>>

TargetSends ==
    /\ IsUp(stream.target)
    /\ \E last \in targetSent + 1..TargetUnits :
          LET in == stream.target.in \o Units(targetSent + 1, last)
          IN  /\ Len(in) <= MaxPendingBytes
              /\ targetSent' = last
              /\ stream' = Pump([stream EXCEPT !.target.in = in])
    /\ UNCHANGED <<request, clientSent, clientGot, targetGot, clientLeft, targetLeft, stopped>>

ClientReceives ==
    /\ IsUp(stream.client)
    /\ \E n \in 1..Len(stream.client.out) :
          /\ clientGot' = clientGot \o First(n, stream.client.out)
          /\ stream' = Written(stream, "client", n)
    /\ UNCHANGED <<request, clientSent, targetSent, targetGot, clientLeft, targetLeft, stopped>>

TargetReceives ==
    /\ IsUp(stream.target)
    /\ \E n \in 1..Len(stream.target.out) :
          /\ targetGot' = targetGot \o First(n, stream.target.out)
          /\ stream' = Written(stream, "target", n)
    /\ UNCHANGED <<request, clientSent, targetSent, clientGot, clientLeft, targetLeft, stopped>>

ClientLeaves ==
    /\ IsUp(stream.client)
    /\ clientLeft' = TRUE
    /\ stream' = PeerLeft(stream, "client")
    /\ UNCHANGED <<request, clientSent, targetSent, clientGot, targetGot, targetLeft, stopped>>

TargetLeaves ==
    /\ IsUp(stream.target)
    /\ targetLeft' = TRUE
    /\ stream' = PeerLeft(stream, "target")
    /\ UNCHANGED <<request, clientSent, targetSent, clientGot, targetGot, clientLeft, stopped>>

TargetConnects ==
    /\ stream.target.state = "Connecting"
    /\ stream' = HandleTargetConnect(stream)
    /\ UNCHANGED <<request, peerVars, stopped>>

TargetFails ==
    /\ stream.target.state = "Connecting"
    /\ stream' = HandleTargetError(stream)
    /\ UNCHANGED <<request, peerVars, stopped>>

Timeout ==
    /\ stream.timer /\ ~stream.deleteScheduled
    /\ stream' = [HandleTimeout(stream) EXCEPT !.timer = FALSE]
    /\ UNCHANGED <<request, peerVars, stopped>>

\* HttpProxyServer::stop
Stop ==
    /\ ~stopped /\ ~stream.deleteScheduled
    /\ stopped' = TRUE
    /\ stream' = CloseAndDeleteLater(stream)
    /\ UNCHANGED <<request, peerVars>>

Next ==
    \/ ClientSends \/ ClientReceives \/ ClientLeaves
    \/ TargetConnects \/ TargetFails
    \/ TargetSends \/ TargetReceives \/ TargetLeaves
    \/ Timeout
    \/ Stop

Spec == Init /\ [][Next]_vars

(***************************************************************************)
(* The event loop runs what became due, and peers that stay read what they *)
(* are sent.  Nobody has to send anything or to leave.                     *)
(***************************************************************************)
Fairness ==
    /\ WF_vars(Timeout)
    /\ WF_vars(ClientReceives) /\ WF_vars(TargetReceives)

FairSpec == Spec /\ Fairness

-----------------------------------------------------------------------------
Phase == CASE stream.state = "Tunneling" -> "tunneling"
           [] stream.state = "Closing"   -> "closing"
           [] OTHER                      -> "requesting"

\* What the peers see: everything in order, nothing lost, nothing twice, and
\* nothing cut off by the side that left first.
Exchange == INSTANCE ProxiedExchange WITH phase <- Phase, ended <- stream.deleteScheduled
ImplementsExchange == Exchange!Spec

\* Data that can be written is never left unread: a slow peer throttles the
\* other one, but nothing waits for an event that may not come (pump runs
\* after each of readyRead, bytesWritten and stateChanged).
NothingStalls ==
    stream.state = "Tunneling" =>
        \A from \in {"client", "target"} :
            LET to == IF from = "client" THEN "target" ELSE "client"
            IN  (stream[from].in # <<>> /\ stream[to].state = "Connected") =>
                    Len(stream[to].out) >= MaxPendingBytes

\* What waits for a slow peer is limited (MaxPendingBytes "per direction"),
\* the request that is sent at once included.
MemoryIsBounded ==
    LET limit == MaxPendingBytes + (IF MaxRequestHeadersSize >= ChunkSize
                                    THEN MaxRequestHeadersSize ELSE ChunkSize - 1)
    IN  /\ Len(stream.client.in) <= MaxPendingBytes
        /\ Len(stream.target.in) <= MaxPendingBytes
        /\ Len(stream.client.out) <= limit /\ Len(stream.target.out) <= limit
        /\ Len(stream.buffer) <= limit

\* Each request ends in a tunnel or is refused, however slowly it comes and
\* whatever the target does: the timeout of handleTimeout covers both waits.
RequestIsDecided ==
    stream.state = "ReadingRequest" ~> stream.state \in {"Tunneling", "Closing"}

\* Each stream whose peer left, or that failed, is disposed of: pump gets to
\* its deleteLater when those who stay take the rest of the data.
StreamEnds ==
    (clientLeft \/ targetLeft \/ stream.state = "Closing") ~> stream.deleteScheduled
=============================================================================
