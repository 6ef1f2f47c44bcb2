------------------------- MODULE TunnelClientsProofs -------------------------
(***************************************************************************)
(* The clients of the tunnel, proved right for any number of connections,  *)
(* SOCKS proxies and releases.  The invariant has three parts that do not  *)
(* depend on each other: the HTTP proxy and the process, the update        *)
(* checker, and what the checker was told of the tunnel.                   *)
(***************************************************************************)
EXTENDS TunnelClients, TLAPS

-----------------------------------------------------------------------------
(* The list of streams of HttpProxyServer, for any number of connections *)

\* What the streams of memory look like: a stream is open or being deleted,
\* and the list holds addresses.
StreamsType ==
    /\ streams \subseteq Addresses
    /\ objects \in [Addresses -> [state : {"none", "open", "deleting"},
                                  proxy : Proxies \cup {NoProxy}]]
    /\ socksProxy \in Proxies \cup {NoProxy}

\* An open stream that is not on the list would survive stop() and leave its
\* proxy behind; an address on the list without a stream would be called.
ListInv == StreamsType /\ NoDanglingStream /\ StreamsAreCurrent

LEMMA InitList == Init => ListInv
  BY DEF Init, ListInv, StreamsType, NoDanglingStream, StreamsAreCurrent, Existing, Open,
         NoObject

\* After closeAndDeleteLater of all, no stream is open and the list is empty.
LEMMA ClosedList ==
    ASSUME ListInv, CloseStreams
    PROVE  /\ streams' = {} /\ Open' = {}
           /\ objects' \in [Addresses -> [state : {"none", "open", "deleting"},
                                          proxy : Proxies \cup {NoProxy}]]
  <1>1. streams' = {}
    BY DEF CloseStreams
  <1>2. ASSUME NEW address \in Addresses
        PROVE  /\ objects'[address].state # "open"
               /\ objects'[address] \in [state : {"none", "open", "deleting"},
                                         proxy : Proxies \cup {NoProxy}]
    <2>1. CASE objects[address].state = "open"
      <3>1. address \in streams
        BY <2>1 DEF ListInv, StreamsAreCurrent, Open
      <3>. QED
        BY <2>1, <3>1 DEF CloseStreams, ListInv, StreamsType
    <2>2. CASE objects[address].state # "open"
      BY <2>2 DEF CloseStreams, ListInv, StreamsType
    <2>. QED  BY <2>1, <2>2
  <1>3. objects' \in [Addresses -> [state : {"none", "open", "deleting"},
                                    proxy : Proxies \cup {NoProxy}]]
    BY <1>2 DEF CloseStreams
  <1>. QED  BY <1>1, <1>2, <1>3 DEF Open

LEMMA StepList == ListInv /\ [Next]_vars => ListInv'
  <1>. SUFFICES ASSUME ListInv, [Next]_vars PROVE ListInv'
    OBVIOUS
  <1>1. ASSUME NEW proxy \in Proxies, Start(proxy) PROVE ListInv'
    BY <1>1, ClosedList
       DEF Start, ListInv, StreamsType, NoDanglingStream, StreamsAreCurrent, Existing
  <1>2. CASE Stop
    BY <1>2, ClosedList
       DEF Stop, ListInv, StreamsType, NoDanglingStream, StreamsAreCurrent, Existing
  <1>3. ASSUME NEW address \in Addresses, NewConnection(address) PROVE ListInv'
    <2>1. StreamsType'
      BY <1>3 DEF NewConnection, ListInv, StreamsType
    <2>2. NoDanglingStream'
      BY <1>3 DEF NewConnection, ListInv, StreamsType, NoDanglingStream, Existing
    <2>3. StreamsAreCurrent'
      BY <1>3 DEF NewConnection, ListInv, StreamsType, StreamsAreCurrent, Open
    <2>. QED  BY <2>1, <2>2, <2>3 DEF ListInv
  <1>4. ASSUME NEW address \in Addresses, StreamEnds(address) PROVE ListInv'
    <2>1. StreamsType'
      BY <1>4 DEF StreamEnds, ListInv, StreamsType
    <2>2. NoDanglingStream'
      BY <1>4 DEF StreamEnds, ListInv, StreamsType, NoDanglingStream, Existing
    <2>3. StreamsAreCurrent'
      BY <1>4 DEF StreamEnds, ListInv, StreamsType, StreamsAreCurrent, Open
    <2>. QED  BY <2>1, <2>2, <2>3 DEF ListInv
  <1>5. ASSUME NEW address \in Addresses, Delete(address) PROVE ListInv'
    <2>1. StreamsType'
      BY <1>5 DEF Delete, ListInv, StreamsType, NoObject
    <2>2. NoDanglingStream'
      BY <1>5 DEF Delete, ListInv, StreamsType, NoDanglingStream, Existing, NoObject
    <2>3. StreamsAreCurrent'
      BY <1>5 DEF Delete, ListInv, StreamsType, StreamsAreCurrent, Open, NoObject
    <2>. QED  BY <2>1, <2>2, <2>3 DEF ListInv
  <1>6. CASE UNCHANGED vars
    BY <1>6 DEF vars, ListInv, StreamsType, NoDanglingStream, StreamsAreCurrent, Existing, Open
  <1>. QED  BY <1>1, <1>2, <1>3, <1>4, <1>5, <1>6 DEF Next

-----------------------------------------------------------------------------
LEMMA ListInvariance == Spec => []ListInv
  BY InitList, StepList, PTL DEF Spec

\* stop() and start() of the server never call a stream that was deleted,
\* whatever the order of connections, ends of streams and deletions.
THEOREM PointersAreValid == Spec => []NoDanglingStream
  BY ListInvariance, PTL DEF ListInv

\* Every open stream is on the list and uses the proxy of the tunnel that is
\* standing: none survives the stop of its tunnel.
THEOREM OpenStreamsAreCurrent == Spec => []StreamsAreCurrent
  BY ListInvariance, PTL DEF ListInv

-----------------------------------------------------------------------------
(* The invariants of the composition *)

\* A server that listens belongs to the process that runs.
ServerInv ==
    /\ ListInv
    /\ tunnelProxy \in Proxies \cup {NoProxy}
    /\ process = "Starting" => tunnelProxy \in Proxies
    /\ listening => process = "Running" /\ socksProxy = tunnelProxy

\* A request is known by its answer, so that no answer looks like NoRequest.
CheckerInv ==
    /\ request = Checker!NoRequest \/ request \in [route : Proxies \cup {NoProxy}, answer : Nat]
    /\ checkerProxy \in Proxies \cup {NoProxy} /\ tunnelProxy \in Proxies \cup {NoProxy}
    /\ published \in Releases
    /\ ~running => latest = Checker!NoVersion /\ request = Checker!NoRequest
    /\ CheckIsAwaited
    /\ OfferIsTrue

\* While no status timer is pending, the indication is right; the checker has
\* a proxy only while the tunnel is indicated as open.
ShownInv ==
    /\ ~running => process = "NotRunning"
    /\ ~indicatedOpen => checkerProxy = NoProxy
    /\ ~statusTimer => (indicatedOpen <=> TunnelIsOpened)

-----------------------------------------------------------------------------
(* The HTTP proxy *)

LEMMA Closed ==
    ASSUME ListInv, CloseStreams, socksProxy' \in Proxies \cup {NoProxy}
    PROVE  ListInv'
  BY ClosedList DEF ListInv, StreamsType, NoDanglingStream, StreamsAreCurrent, Existing

LEMMA ListKept ==
    ASSUME ListInv, UNCHANGED serverVars
    PROVE  ListInv'
  BY StepList DEF serverVars, vars

LEMMA InitServer == CInit => ServerInv
  BY InitList DEF CInit, Init, ServerInv

LEMMA AttemptServer == ServerInv /\ Attempt => ServerInv'
  <1>. SUFFICES ASSUME ServerInv, Attempt PROVE ServerInv'
    OBVIOUS
  <1>1. ASSUME StopServer, process' # "Running",
               tunnelProxy' \in Proxies \cup {NoProxy},
               process' = "Starting" => tunnelProxy' \in Proxies
        PROVE  ServerInv'
    <2>1. CASE process = "NotRunning"
      BY <1>1, <2>1, ListKept DEF StopServer, ServerInv, serverVars
    <2>2. CASE process # "NotRunning"
      <3>1. CloseStreams /\ ~listening'
        BY <1>1, <2>2 DEF StopServer
      <3>2. socksProxy' \in Proxies \cup {NoProxy}
        BY <1>1, <2>2 DEF StopServer, ServerInv, ListInv, StreamsType
      <3>. QED
        BY <1>1, <3>1, <3>2, Closed DEF ServerInv
    <2>. QED  BY <2>1, <2>2
  <1>2. CASE GiveUpAttempt
    BY <1>1, <1>2 DEF GiveUpAttempt, ServerInv
  <1>3. ASSUME NEW proxy \in Proxies, StartFails(proxy) PROVE ServerInv'
    BY <1>1, <1>3 DEF StartFails
  <1>4. ASSUME NEW proxy \in Proxies, Starts(proxy) PROVE ServerInv'
    <2>1. CASE Start(proxy)
      BY <1>4, <2>1, Closed DEF Starts, Start, ServerInv
    <2>2. CASE Stop
      BY <1>4, <2>2, Closed DEF Starts, Stop, ServerInv, ListInv, StreamsType
    <2>. QED  BY <1>4, <2>1, <2>2 DEF Starts, StartHttpProxy
  <1>. QED  BY <1>2, <1>3, <1>4 DEF Attempt

LEMMA StepServer == ServerInv /\ [CNext]_clientVars => ServerInv'
  <1>. SUFFICES ASSUME ServerInv, [CNext]_clientVars PROVE ServerInv'
    OBVIOUS
  <1>1. ASSUME UNCHANGED <<tunnelVars, serverVars>> PROVE ServerInv'
    BY <1>1, ListKept DEF tunnelVars, serverVars, ServerInv
  <1>2. CASE End
    <2>1. ListInv'
      BY <1>2 DEF End, ListInv, StreamsType, NoDanglingStream, StreamsAreCurrent, Existing,
                  Open, NoObject
    <2>. QED  BY <1>2, <2>1 DEF End, ServerInv
  <1>3. CASE Attempt
    BY <1>3, AttemptServer
  <1>4. CASE ProcessStarted
    <2>1. CASE Start(tunnelProxy)
      BY <1>4, <2>1, Closed DEF ProcessStarted, Start, ServerInv
    <2>2. CASE Stop
      BY <1>4, <2>2, Closed DEF ProcessStarted, Stop, ServerInv, ListInv, StreamsType
    <2>. QED  BY <1>4, <2>1, <2>2 DEF ProcessStarted, StartHttpProxy
  <1>5. CASE ProcessFailsToStart
    BY <1>5, ListKept DEF ProcessFailsToStart, ServerInv, serverVars
  <1>6. CASE ProcessFinished
    BY <1>6, Closed DEF ProcessFinished, Stop, ServerInv, ListInv, StreamsType
  <1>7. ASSUME NEW success \in BOOLEAN, HealthCheckEnds(success) PROVE ServerInv'
    BY <1>7, ListKept DEF HealthCheckEnds, ServerInv, serverVars
  <1>8. ASSUME NEW address \in Addresses, StreamStep(address) PROVE ServerInv'
    <2>1. ListInv'
      BY <1>8, StepList DEF StreamStep, Next, ServerInv
    <2>2. UNCHANGED <<listening, socksProxy, process, tunnelProxy>>
      BY <1>8 DEF StreamStep, NewConnection, StreamEnds, Delete, othersOfServer, tunnelVars
    <2>. QED  BY <2>1, <2>2 DEF ServerInv
  <1>9. CASE Boot
    BY <1>9, <1>1 DEF Boot
  <1>10. ASSUME NEW status \in BOOLEAN, NetworkEvent(status) PROVE ServerInv'
    BY <1>10, <1>1 DEF NetworkEvent
  <1>11. CASE StatusTimeout
    BY <1>11, <1>1 DEF StatusTimeout
  <1>12. CASE CheckTimeout \/ GitHubAnswers \/ ReplyFails \/ ReplyArrives
                \/ SaveOther \/ Publish \/ Upgrade
    BY <1>12, <1>1
       DEF CheckTimeout, GitHubAnswers, ReplyFails, ReplyArrives, SaveOther, Publish, Upgrade,
           othersOfChecker
  <1>13. CASE UNCHANGED clientVars
    BY <1>13, <1>1 DEF clientVars
  <1>. QED
    BY <1>2, <1>3, <1>4, <1>5, <1>6, <1>7, <1>8, <1>9, <1>10, <1>11, <1>12, <1>13 DEF CNext

LEMMA ServerInvariance == CSpec => []ServerInv
  BY InitServer, StepServer, PTL DEF CSpec

\* Nobody is relayed past the ssh that serves its SOCKS proxy: the list of
\* streams, the server and the process stay in step through every start, late
\* start, failure and end of an ssh (maybeStartHttpProxyServer).
THEOREM RelaysFollowTunnel == CSpec => []RelayedByTunnel
  <1>1. ServerInv => RelayedByTunnel
    BY DEF ServerInv, ListInv, StreamsAreCurrent, RelayedByTunnel, Open
  <1>. QED  BY <1>1, ServerInvariance, PTL

\* The list of the server holds no deleted stream in the application either,
\* where starts, stops and crashes call it in any order.
THEOREM PointersStayValid == CSpec => []NoDanglingStream
  <1>1. ServerInv => NoDanglingStream
    BY DEF ServerInv, ListInv
  <1>. QED  BY <1>1, ServerInvariance, PTL

-----------------------------------------------------------------------------
(* The update checker *)

LEMMA InitChecker == CInit => CheckerInv
  BY DEF CInit, Checker!CheckerInit, CheckerInv, CheckIsAwaited, OfferIsTrue,
         Checker!NewVersion, Checker!NoVersion

\* Steps that the checker does not notice
LEMMA CheckerKept ==
    ASSUME CheckerInv, UNCHANGED checkerVars, running' = running,
           tunnelProxy' \in Proxies \cup {NoProxy}
    PROVE  CheckerInv'
  BY DEF CheckerInv, checkerVars, CheckIsAwaited, OfferIsTrue, Checker!NewVersion,
         Checker!NoVersion, Checker!NoRequest

LEMMA StepChecker == CheckerInv /\ [CNext]_clientVars => CheckerInv'
  <1>. SUFFICES ASSUME CheckerInv, [CNext]_clientVars PROVE CheckerInv'
    OBVIOUS
  <1>. USE DEF Checker!NoVersion, Checker!Pending
  <1>1. CASE Boot
    BY <1>1 DEF Boot, Checker!StartChecker, Checker!releaseVars, tunnelVars, CheckerInv,
                CheckIsAwaited, OfferIsTrue, Checker!NewVersion, Checker!NoRequest
  <1>2. CASE End
    BY <1>2 DEF End, Checker!EndChecker, Checker!releaseVars, CheckerInv, CheckIsAwaited,
                OfferIsTrue, Checker!NewVersion, Checker!NoRequest
  <1>3. CASE Attempt
    <2>1. tunnelProxy' \in Proxies \cup {NoProxy}
      BY <1>3 DEF Attempt, GiveUpAttempt, StartFails, Starts, CheckerInv
    <2>. QED  BY <1>3, <2>1, CheckerKept DEF Attempt
  <1>4. CASE ProcessStarted \/ ProcessFailsToStart \/ ProcessFinished
    BY <1>4, CheckerKept
       DEF ProcessStarted, ProcessFailsToStart, ProcessFinished, CheckerInv
  <1>5. ASSUME NEW value \in BOOLEAN, HealthCheckEnds(value) \/ NetworkEvent(value)
        PROVE  CheckerInv'
    BY <1>5, CheckerKept DEF HealthCheckEnds, NetworkEvent, tunnelVars, CheckerInv
  <1>6. CASE StatusTimeout
    <2>1. CASE indicatedOpen = TunnelIsOpened
      BY <1>6, <2>1, CheckerKept DEF StatusTimeout, tunnelVars, CheckerInv
    <2>2. CASE indicatedOpen # TunnelIsOpened
      <3>1. PICK route \in Proxies \cup {NoProxy} : Checker!SetProxy(route)
        BY <1>6, <2>2 DEF StatusTimeout, CheckerInv
      <3>2. UNCHANGED <<running, tunnelProxy, checkTimer, request, latest, saved, offered,
                        own, published>>
        BY <1>6, <3>1 DEF StatusTimeout, Checker!SetProxy, Checker!releaseVars, tunnelVars
      <3>3. checkerProxy' \in Proxies \cup {NoProxy}
        BY <3>1 DEF Checker!SetProxy
      <3>. QED
        BY <3>2, <3>3 DEF CheckerInv, CheckIsAwaited, OfferIsTrue, Checker!NewVersion,
                          Checker!NoRequest
    <2>. QED  BY <2>1, <2>2
  <1>7. ASSUME NEW address \in Addresses, StreamStep(address) PROVE CheckerInv'
    BY <1>7, CheckerKept DEF StreamStep, othersOfServer, tunnelVars, CheckerInv
  <1>8. CASE CheckTimeout
    <2>1. running /\ request = Checker!NoRequest
      BY <1>8 DEF CheckTimeout, Checker!Check, CheckerInv, CheckIsAwaited
    <2>2. checkTimer' <=> ~online
      BY <1>8, <2>1, Zenon DEF CheckTimeout, Checker!Check
    <2>3. request' = IF online THEN [route |-> checkerProxy, answer |-> 0] ELSE request
      BY <1>8, <2>1 DEF CheckTimeout, Checker!Check
    <2>4. UNCHANGED <<running, tunnelProxy, checkerProxy, latest, offered, own, published>>
      BY <1>8 DEF CheckTimeout, Checker!Check, Checker!releaseVars, othersOfChecker, tunnelVars
    <2>. QED
      BY <2>1, <2>2, <2>3, <2>4
         DEF CheckerInv, CheckIsAwaited, OfferIsTrue, Checker!NewVersion, Checker!NoRequest
  <1>9. CASE GitHubAnswers
    <2>1. request \in [route : Proxies \cup {NoProxy}, answer : Nat] /\ request.answer = 0
      BY <1>9 DEF GitHubAnswers, Checker!ServerAnswers, CheckerInv, Checker!NoRequest
    <2>2. /\ request' \in [route : Proxies \cup {NoProxy}, answer : Nat]
          /\ request' # Checker!NoRequest /\ request # Checker!NoRequest
      BY <1>9, <2>1, ReleasesAssumption
         DEF GitHubAnswers, Checker!ServerAnswers, CheckerInv, Checker!NoRequest
    <2>. QED
      BY <1>9, <2>2 DEF GitHubAnswers, Checker!ServerAnswers, Checker!releaseVars,
                othersOfChecker, tunnelVars, CheckerInv, CheckIsAwaited, OfferIsTrue,
                Checker!NewVersion, Checker!NoRequest
  <1>10. CASE ReplyFails
    BY <1>10 DEF ReplyFails, Checker!ReplyFails, Checker!releaseVars, othersOfChecker,
                tunnelVars, CheckerInv, CheckIsAwaited, OfferIsTrue, Checker!NewVersion,
                Checker!NoRequest
  <1>11. CASE ReplyArrives
    <2>1. running
      BY <1>11, ReleasesAssumption
         DEF ReplyArrives, Checker!ReplyArrives, CheckerInv, Checker!NoRequest
    <2>2. OfferIsTrue'
      BY <1>11 DEF ReplyArrives, Checker!ReplyArrives, Checker!Learn, Checker!releaseVars,
                CheckerInv, OfferIsTrue, Checker!NewVersion
    <2>. QED
      BY <1>11, <2>1, <2>2
         DEF ReplyArrives, Checker!ReplyArrives, Checker!releaseVars, othersOfChecker,
             tunnelVars, CheckerInv, CheckIsAwaited, Checker!NoRequest
  <1>12. CASE SaveOther
    BY <1>12 DEF SaveOther, Checker!SaveOther, Checker!releaseVars, othersOfChecker,
                tunnelVars, CheckerInv, CheckIsAwaited, OfferIsTrue, Checker!NewVersion,
                Checker!NoRequest
  <1>13. ASSUME NEW version \in Releases, Checker!Publish(version), UNCHANGED othersOfChecker
         PROVE  CheckerInv'
    BY <1>13 DEF Checker!Publish, Checker!checkerVars, othersOfChecker,
                tunnelVars, CheckerInv, CheckIsAwaited, OfferIsTrue, Checker!NewVersion,
                Checker!NoRequest
  <1>14. CASE Upgrade
    BY <1>14, ReleasesAssumption
       DEF Upgrade, Checker!Upgrade, Checker!checkerVars, othersOfChecker, tunnelVars,
           CheckerInv, CheckIsAwaited, OfferIsTrue, Checker!NewVersion, Checker!NoRequest
  <1>15. CASE UNCHANGED clientVars
    BY <1>15, CheckerKept DEF clientVars, tunnelVars, CheckerInv
  <1>. QED
    BY <1>1, <1>2, <1>3, <1>4, <1>5, <1>6, <1>7, <1>8, <1>9, <1>10, <1>11, <1>12, <1>13,
       <1>14, <1>15 DEF CNext, Publish

LEMMA CheckerInvariance == CSpec => []CheckerInv
  BY InitChecker, StepChecker, PTL DEF CSpec

\* The checks never end and never overlap, whatever happens to the network, the
\* tunnel and the replies (check, handleReplyFinish).
THEOREM ChecksGoOn == CSpec => []CheckIsAwaited
  <1>1. CheckerInv => CheckIsAwaited
    BY DEF CheckerInv
  <1>. QED  BY <1>1, CheckerInvariance, PTL

\* What the menu offers is what is known to be newer, also across restarts,
\* upgrades and withdrawn releases (handleReplyFinish, newVersion).
THEOREM OffersAreTrue == CSpec => []OfferIsTrue
  <1>1. CheckerInv => OfferIsTrue
    BY DEF CheckerInv
  <1>. QED  BY <1>1, CheckerInvariance, PTL

-----------------------------------------------------------------------------
(* What the checker was told *)

LEMMA InitShown == CInit => ShownInv
  BY DEF CInit, Checker!CheckerInit, ShownInv, TunnelIsOpened

\* Whatever restarts the status timer may change what is to be shown.
LEMMA ShownLater ==
    ASSUME ShownInv, running', statusTimer', UNCHANGED <<indicatedOpen, checkerProxy>>
    PROVE  ShownInv'
  BY DEF ShownInv

\* Steps that change nothing of it
LEMMA ShownKept ==
    ASSUME ShownInv,
           UNCHANGED <<running, process, internetReachable, indicatedOpen, statusTimer,
                       checkerProxy>>
    PROVE  ShownInv'
  BY DEF ShownInv, TunnelIsOpened

LEMMA StepShown == ShownInv /\ [CNext]_clientVars => ShownInv'
  <1>. SUFFICES ASSUME ShownInv, [CNext]_clientVars PROVE ShownInv'
    OBVIOUS
  <1>1. CASE Boot
    BY <1>1 DEF Boot, Checker!StartChecker, tunnelVars, shownVars, ShownInv, TunnelIsOpened
  <1>2. CASE End
    BY <1>2 DEF End, Checker!EndChecker, ShownInv, TunnelIsOpened
  <1>3. CASE Attempt
    BY <1>3, ShownLater DEF Attempt, checkerVars
  <1>4. CASE ProcessStarted \/ ProcessFinished
    <2>1. running
      BY <1>4 DEF ProcessStarted, ProcessFinished, ShownInv
    <2>. QED  BY <1>4, <2>1, ShownLater DEF ProcessStarted, ProcessFinished, checkerVars
  <1>5. CASE ProcessFailsToStart
    BY <1>5 DEF ProcessFailsToStart, shownVars, checkerVars, ShownInv, TunnelIsOpened
  <1>6. ASSUME NEW value \in BOOLEAN, HealthCheckEnds(value) \/ NetworkEvent(value)
        PROVE  ShownInv'
    <2>1. running
      BY <1>6 DEF HealthCheckEnds, NetworkEvent, ShownInv
    <2>. QED  BY <1>6, <2>1, ShownLater DEF HealthCheckEnds, NetworkEvent, checkerVars
  <1>7. CASE StatusTimeout
    <2>1. (indicatedOpen' <=> TunnelIsOpened) /\ (TunnelIsOpened' <=> TunnelIsOpened)
      BY <1>7 DEF StatusTimeout, tunnelVars, TunnelIsOpened
    <2>2. ~indicatedOpen' => checkerProxy' = NoProxy
      <3>1. CASE indicatedOpen = TunnelIsOpened
        BY <1>7, <3>1 DEF StatusTimeout, checkerVars, ShownInv
      <3>2. CASE indicatedOpen # TunnelIsOpened
        BY <1>7, <2>1, <3>2 DEF StatusTimeout, Checker!SetProxy
      <3>. QED  BY <3>1, <3>2
    <2>3. running'
      BY <1>7 DEF StatusTimeout
    <2>. QED  BY <2>1, <2>2, <2>3 DEF ShownInv
  <1>8. ASSUME NEW address \in Addresses, StreamStep(address) PROVE ShownInv'
    BY <1>8, ShownKept DEF StreamStep, othersOfServer, tunnelVars, shownVars, checkerVars
  <1>9. CASE CheckTimeout \/ GitHubAnswers \/ ReplyFails \/ ReplyArrives \/ SaveOther
                \/ Publish \/ Upgrade
    <2>1. UNCHANGED othersOfChecker
      BY <1>9 DEF CheckTimeout, GitHubAnswers, ReplyFails, ReplyArrives, SaveOther, Publish,
                  Upgrade
    <2>2. UNCHANGED checkerProxy
      BY <1>9 DEF CheckTimeout, GitHubAnswers, ReplyFails, ReplyArrives, SaveOther, Publish,
                  Upgrade, Checker!Check, Checker!ServerAnswers, Checker!ReplyFails,
                  Checker!ReplyArrives, Checker!SaveOther, Checker!Publish,
                  Checker!Upgrade, Checker!checkerVars
    <2>. QED  BY <2>1, <2>2, ShownKept DEF othersOfChecker, tunnelVars, shownVars
  <1>10. CASE UNCHANGED clientVars
    BY <1>10, ShownKept DEF clientVars, tunnelVars, shownVars, checkerVars
  <1>. QED
    BY <1>1, <1>2, <1>3, <1>4, <1>5, <1>6, <1>7, <1>8, <1>9, <1>10 DEF CNext

\* Checks go out directly once the tunnel is known to be closed: no order of
\* starts, ends and status timers leaves the checker with the SOCKS proxy of a
\* tunnel that is gone (maybeUpdateStatus).
THEOREM NoCheckAtClosedPort == CSpec => []DirectWhenClosed
  <1>1. ShownInv => DirectWhenClosed
    BY DEF ShownInv, DirectWhenClosed
  <1>. QED  BY <1>1, InitShown, StepShown, PTL DEF CSpec
=============================================================================
