---------------------------- MODULE TunnelClients ----------------------------
(***************************************************************************)
(* The parts of the application that go online through the tunnel: the     *)
(* HTTP proxy with its streams and the update checker.  Both are told of   *)
(* the SOCKS proxy by Shprot, the one when ssh starts and ends, the other  *)
(* by the status timer, which is restarted by whatever happens.            *)
(*                                                                         *)
(* Of the supervisor only what they depend on is kept; its timers, health  *)
(* checks and settings (see Tunnel) leave a choice here.                   *)
(***************************************************************************)
EXTENDS HttpProxyServer

CONSTANT Releases   \* versions that may be published

ASSUME ReleasesAssumption == Releases \subseteq Nat \ {0}

VARIABLES
    running,            \* the application runs
    process,            \* m_tunnelProcess->state()
    internetReachable,  \* m_internetReachable
    tunnelProxy,        \* m_tunnelSocksProxy
    indicatedOpen,      \* m_tunnelIndicatedAsOpened
    statusTimer,        \* m_statusTimer->isActive()
    online,             \* QNetworkInformation::reachability() = Online
    checkTimer, request, checkerProxy, latest, saved, offered, own, published

Checker == INSTANCE UpdateChecker WITH Routes <- Proxies \cup {NoProxy}, Direct <- NoProxy

serverVars == <<listening, socksProxy, streams, objects>>
checkerVars == <<checkTimer, request, checkerProxy, latest, saved, offered, own, published>>
tunnelVars == <<process, internetReachable, tunnelProxy>>
shownVars == <<indicatedOpen, statusTimer>>
clientVars == <<running, online, tunnelVars, shownVars, serverVars, checkerVars>>

TunnelIsOpened == process = "Running" /\ internetReachable

CInit ==
    /\ Init
    /\ running = FALSE /\ online \in BOOLEAN
    /\ process = "NotRunning" /\ internetReachable = FALSE
    /\ tunnelProxy = NoProxy
    /\ indicatedOpen = FALSE /\ statusTimer = FALSE
    /\ Checker!CheckerInit

Boot ==
    /\ ~running
    /\ running' = TRUE
    /\ Checker!StartChecker
    /\ UNCHANGED <<online, tunnelVars, shownVars, serverVars>>

\* Quit or crash: the objects of the application are gone.
End ==
    /\ running
    /\ running' = FALSE
    /\ process' = "NotRunning" /\ internetReachable' = FALSE
    /\ tunnelProxy' = NoProxy
    /\ indicatedOpen' = FALSE /\ statusTimer' = FALSE
    /\ listening' = FALSE /\ socksProxy' = NoProxy
    /\ streams' = {} /\ objects' = [address \in Addresses |-> NoObject]
    /\ Checker!EndChecker
    /\ UNCHANGED online

-----------------------------------------------------------------------------
(* maybeRestartTunnelProcess *)

\* maybeStartHttpProxyServer of a Running process; the preferences may not ask
\* for the HTTP proxy.
StartHttpProxy(proxy) == Start(proxy) \/ Stop

\* What the stop leaves of the server: finished() of a process stops it; one
\* that was Starting may have started it before.
StopServer ==
    IF process = "NotRunning" THEN UNCHANGED serverVars
    ELSE /\ CloseStreams
         /\ listening' = FALSE
         /\ socksProxy' \in IF process = "Starting" THEN {socksProxy, tunnelProxy}
                            ELSE {socksProxy}

StopTunnelProcess == internetReachable' = (internetReachable /\ process = "NotRunning")

\* Every early return calls setLastError.
GiveUpAttempt ==
    /\ StopTunnelProcess /\ StopServer
    /\ process' = "NotRunning"
    /\ UNCHANGED tunnelProxy

\* ssh did not start, or not yet
StartFails(proxy) ==
    /\ StopTunnelProcess /\ StopServer
    /\ process' \in {"NotRunning", "Starting"}
    /\ tunnelProxy' = proxy

Starts(proxy) ==
    /\ StopTunnelProcess /\ StartHttpProxy(proxy)
    /\ process' = "Running"
    /\ tunnelProxy' = proxy

Attempt ==
    /\ running
    /\ GiveUpAttempt \/ \E proxy \in Proxies : StartFails(proxy) \/ Starts(proxy)
    /\ statusTimer' = TRUE
    /\ UNCHANGED <<running, online, indicatedOpen, checkerVars>>

-----------------------------------------------------------------------------
(* Handlers of the process, of health checks and of the network *)

ProcessStarted ==
    /\ process = "Starting"
    /\ process' = "Running"
    /\ StartHttpProxy(tunnelProxy)
    /\ statusTimer' = TRUE
    /\ UNCHANGED <<running, online, internetReachable, tunnelProxy, indicatedOpen, checkerVars>>

ProcessFailsToStart ==
    /\ process = "Starting"
    /\ process' = "NotRunning"
    /\ UNCHANGED <<running, online, internetReachable, tunnelProxy, shownVars, serverVars,
                   checkerVars>>

ProcessFinished ==
    /\ process = "Running"
    /\ process' = "NotRunning"
    /\ Stop
    /\ internetReachable' = FALSE
    /\ statusTimer' = TRUE
    /\ UNCHANGED <<running, online, tunnelProxy, indicatedOpen, checkerVars>>

\* The end of a health check that was not stopped
HealthCheckEnds(success) ==
    /\ process = "Running"
    /\ internetReachable' = success
    /\ statusTimer' = TRUE
    /\ UNCHANGED <<running, online, process, tunnelProxy, indicatedOpen, serverVars,
                   checkerVars>>

\* handleNetworkChange forgets the last error.
NetworkEvent(status) ==
    /\ running
    /\ online' = status
    /\ statusTimer' = TRUE
    /\ UNCHANGED <<running, tunnelVars, indicatedOpen, serverVars, checkerVars>>

\* maybeUpdateStatus: the checker is told only when the indication changes.
ToldOfOpening ==   \* mutant
    /\ running /\ statusTimer
    /\ statusTimer' = FALSE
    /\ indicatedOpen' = TunnelIsOpened
    /\ IF TunnelIsOpened /\ ~indicatedOpen THEN Checker!SetProxy(tunnelProxy)
       ELSE UNCHANGED checkerVars
    /\ UNCHANGED <<running, online, tunnelVars, serverVars>>
StatusTimeout ==
    /\ running /\ statusTimer
    /\ statusTimer' = FALSE
    /\ indicatedOpen' = TunnelIsOpened
    /\ IF indicatedOpen # TunnelIsOpened
       THEN Checker!SetProxy(IF TunnelIsOpened THEN tunnelProxy ELSE NoProxy)
       ELSE UNCHANGED checkerVars
    /\ UNCHANGED <<running, online, tunnelVars, serverVars>>

-----------------------------------------------------------------------------
(* The clients *)

othersOfServer == <<running, online, tunnelVars, shownVars, checkerVars>>
othersOfChecker == <<running, online, tunnelVars, shownVars, serverVars>>

StreamStep(address) ==
    /\ NewConnection(address) \/ StreamEnds(address) \/ Delete(address)
    /\ UNCHANGED othersOfServer

CheckTimeout == running /\ Checker!Check(online) /\ UNCHANGED othersOfChecker

\* Who is on the route of the request lets it through: the network, and the
\* ssh that the SOCKS proxy of the request belongs to.
Reaches(route) ==
    /\ online
    /\ route # NoProxy => TunnelIsOpened /\ route = tunnelProxy

GitHubAnswers ==
    /\ Reaches(request.route)
    /\ Checker!ServerAnswers
    /\ UNCHANGED othersOfChecker

ReplyFails == Checker!ReplyFails /\ UNCHANGED othersOfChecker
ReplyArrives == Checker!ReplyArrives /\ UNCHANGED othersOfChecker
SaveOther == running /\ Checker!SaveOther /\ UNCHANGED othersOfChecker
Publish == (\E version \in Releases : Checker!Publish(version)) /\ UNCHANGED othersOfChecker
Upgrade ==
    /\ ~running
    /\ \E version \in Releases : Checker!Upgrade(version)
    /\ UNCHANGED othersOfChecker

CNext ==
    \/ Boot \/ End
    \/ Attempt
    \/ ProcessStarted \/ ProcessFailsToStart \/ ProcessFinished
    \/ \E success \in BOOLEAN : HealthCheckEnds(success)
    \/ \E status \in BOOLEAN : NetworkEvent(status)
    \/ StatusTimeout
    \/ \E address \in Addresses : StreamStep(address)
    \/ CheckTimeout \/ GitHubAnswers \/ ReplyFails \/ ReplyArrives
    \/ SaveOther \/ Publish \/ Upgrade

\* The event loop runs each timer, and a request that is not answered times
\* out.  GitHub, asked again and again, answers at some time, and one of the
\* answers gets through.
CFairness ==
    /\ WF_clientVars(CheckTimeout) /\ WF_clientVars(StatusTimeout)
    /\ WF_clientVars(ReplyFails)
    /\ SF_clientVars(GitHubAnswers) /\ SF_clientVars(ReplyArrives)

CSpec == CInit /\ [][CNext]_clientVars /\ CFairness

-----------------------------------------------------------------------------
\* Nothing is relayed, and no connection is taken, unless the ssh that owns the
\* SOCKS proxy of the server and of the stream runs: whatever the order of
\* starts that fail, come late or are repeated with another address
\* (maybeStartHttpProxyServer).
RelayedByTunnel ==
    /\ Open # {} => listening
    /\ listening => process = "Running" /\ socksProxy = tunnelProxy
    /\ \A address \in Open : address \in streams /\ objects[address].proxy = tunnelProxy

\* The next check is either scheduled or will be when the reply ends: neither
\* an offline system, nor a failed, unexpected or late reply, nor a proxy that
\* changes meanwhile ends the checks, and two never run at a time (check,
\* handleReplyFinish).
CheckIsAwaited == running => (checkTimer <=> request = Checker!NoRequest)

\* The menu offers what was learnt last, exactly while that is newer than the
\* application: also after a restart, an upgrade, a failed save or a withdrawal
\* ("so a withdrawn release stops being offered").
OfferIsTrue == offered = Checker!NewVersion(latest)

\* Once the tunnel is known to be closed, no check is sent to a SOCKS port that
\* nobody serves (maybeUpdateStatus).
DirectWhenClosed ==
    (running /\ ~statusTimer /\ ~TunnelIsOpened) => checkerProxy = NoProxy

\* A closed tunnel does not keep a release from being found, whatever the
\* routes of earlier requests were: if the latest release and an online system
\* stay while the tunnel is closed, it is learnt and offered.
ReleaseIsFound ==
    (/\ <>[](running /\ online /\ process = "NotRunning")
     /\ <>[][FALSE]_published)
        => <>[](latest = published /\ OfferIsTrue)

\* "Updates are checked through the tunnel while it's open" (Shprot.cpp:947):
\* the checks use the SOCKS proxy of the tunnel that is indicated as open.
UpdatesGoThroughTunnel ==
    (indicatedOpen /\ TunnelIsOpened /\ ~statusTimer) => checkerProxy = tunnelProxy
=============================================================================
