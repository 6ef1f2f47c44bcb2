-------------------------- MODULE HttpProxyServer --------------------------
(***************************************************************************)
(* The local HTTP proxy: class HttpProxyServer listens while the tunnel    *)
(* stands, makes a stream for each connection, and closes all of them when *)
(* it stops.  Streams are objects that delete themselves later, when both  *)
(* of their sockets are done (see HttpProxyStream); the server keeps       *)
(* pointers to them.                                                       *)
(***************************************************************************)
EXTENDS Naturals

CONSTANTS
    Addresses,      \* memory for streams, used again after a stream is deleted
    Proxies,        \* SOCKS proxies of the tunnels that were started
    NoProxy

ASSUME ServerAssumption == NoProxy \notin Proxies

VARIABLES
    listening,      \* m_tcpServer->isListening()
    socksProxy,     \* m_socksProxy
    streams,        \* m_streams
    objects         \* streams that exist, by address: their state and their proxy

vars == <<listening, socksProxy, streams, objects>>

NoObject == [state |-> "none", proxy |-> NoProxy]
Existing == {address \in Addresses : objects[address].state # "none"}
Open == {address \in Addresses : objects[address].state = "open"}

-----------------------------------------------------------------------------
\* closeAndDeleteLater of all streams, the ones that are being deleted included
CloseStreams ==
    /\ objects' = [address \in Addresses |->
                      IF address \in streams /\ objects[address].state = "open"
                      THEN [objects[address] EXCEPT !.state = "deleting"]
                      ELSE objects[address]]
    /\ streams' = {}

Init ==
    /\ listening = FALSE /\ socksProxy = NoProxy
    /\ streams = {}
    /\ objects = [address \in Addresses |-> NoObject]

StartWithoutStop(proxy) ==   \* mutant
    /\ socksProxy' = proxy
    /\ listening' \in BOOLEAN
    /\ UNCHANGED <<streams, objects>>
Start(proxy) ==
    /\ CloseStreams
    /\ socksProxy' = proxy
    /\ listening' \in BOOLEAN

Stop ==
    /\ CloseStreams
    /\ listening' = FALSE
    /\ UNCHANGED socksProxy

NewConnection(address) ==
    /\ listening
    /\ objects[address].state = "none"
    /\ objects' = [objects EXCEPT ![address] = [state |-> "open", proxy |-> socksProxy]]
    /\ streams' = streams \cup {address}
    /\ UNCHANGED <<listening, socksProxy>>

\* pump found both sockets unconnected: deleteLater
StreamEnds(address) ==
    /\ objects[address].state = "open"
    /\ objects' = [objects EXCEPT ![address].state = "deleting"]
    /\ UNCHANGED <<listening, socksProxy, streams>>

\* The event loop deletes it; destroyed() takes it off the list.
DeleteUnnoticed(address) ==   \* mutant
    /\ objects[address].state = "deleting"
    /\ objects' = [objects EXCEPT ![address] = NoObject]
    /\ UNCHANGED <<listening, socksProxy, streams>>
Delete(address) ==
    /\ objects[address].state = "deleting"
    /\ objects' = [objects EXCEPT ![address] = NoObject]
    /\ streams' = streams \ {address}
    /\ UNCHANGED <<listening, socksProxy>>

Next ==
    \/ \E proxy \in Proxies : Start(proxy)
    \/ Stop
    \/ \E address \in Addresses :
          NewConnection(address) \/ StreamEnds(address) \/ Delete(address)

Spec == Init /\ [][Next]_vars

-----------------------------------------------------------------------------
\* No pointer outlives its stream: stop() may call each of them, in any state
\* of the deletions that are under way.
NoDanglingStream == streams \subseteq Existing

\* Every open stream is on the list and goes through the tunnel of now, so
\* none goes on with the proxy of an earlier one, or without a listener.
StreamsAreCurrent ==
    /\ Open \subseteq streams
    /\ \A address \in Open : listening /\ objects[address].proxy = socksProxy
=============================================================================
