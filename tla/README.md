# Verification of Shprot

Shprot keeps an SSH tunnel to a server open: it runs `ssh -D` as a child
process, checks that websites are reachable through it, restarts it when they
are not, and offers its SOCKS port as a local HTTP proxy too. This directory
holds TLA+ models of its components, the TLC configurations that check them on
small instances, and proofs of the main results for all instances.

Paths below are relative to `src/Sources` unless they begin with `src/`.

## The system

Everything but the posting of log records runs in the event loop of one Qt
thread. A handler of a timer, of a signal of the child process or of a socket
runs to its end before the next one, so a handler is one action of a model.
What is hard about this program is not data races. It is that the state is spread
over a dozen timers, flags, sockets and a process that end in any order, that
some signals are delivered *inside* a handler (`waitForFinished`,
`waitForStarted`), and that each early return has to leave something behind
that will go on later.

| Component | State | Operations | Talks to |
|---|---|---|---|
| Tunnel supervisor (`Shprot.cpp` 345-907) | the ssh process, `m_tunnelTimer`, `m_healthCheckTimer`, the check socket, failure counters, the key file | restart, stop, health check, reaction to the network, to sleep, to settings | ssh, Preferences, HTTP proxy, status, logs |
| Status indication (`Shprot.cpp` 909-1080) | last and notified error, icon, menu items, two timers | `maybeUpdateStatus`, `updateStatusText`, `setLastError` | reads the supervisor |
| HTTP proxy (`HttpProxyServer.cpp`, `HttpProxyStream.cpp`) | listener, the set of streams; per stream two sockets, a buffer, a timer, a state | accept, read a request, connect, relay, time out, close | started and stopped by the supervisor |
| Logs (`Logs.cpp`) | recent records, serials, a file per day | post (any thread), restore after a restart, remove old files | notifies the dialog |
| Logs dialog (`LogsDialog.cpp`) | text blocks, records per day, last serial shown | reload, append, trim | Logs |
| Single instance (`Shprot.cpp` 1083-1259) | local socket and its file, read timeouts | start, find another instance, `activate` and `quit` messages, exit | other processes, the supervisor |
| Update checker (`UpdateChecker.cpp`) | a timer, the pending reply, its proxy, versions learnt, saved and offered | check, handle the reply, take another proxy | told of the SOCKS proxy by the status, Preferences, GitHub |
| Preferences (`Preferences.cpp`) and their dialog (`PreferencesDialog.cpp`) | settings in memory and on disk; edited fields | load, save atomically; validate, import, record the host key | supervisor |
| Private key editor (`PrivateKeyTextEdit.cpp`) | the key, hidden or revealed | reveal, conceal, edit | Preferences dialog |
| Utilities (`Utilities.cpp`) | none | parse authorities, compare and print the local proxies, describe the errors of ssh, probe a host key, test a key | all |
| Presentation | none | texts, sizes, styles | - |

What makes each of them correct, in short: the supervisor never forgets to
retry or to watch, never leaves a process or the key where none is wanted, and
never takes the outcome of an old process for that of the new one. The status
agrees with the tunnel. A proxied connection loses, repeats and reorders
nothing, and ends. Nothing is relayed through an ssh that was replaced. A new release
is offered, also when the proxy changes under the check. Records are shown once
and in order. One instance runs and can be reached. The full list of what can go wrong, line by line, is under
`hazards` in `PROJECT.json`.

## Modules

`MC*` modules only give constants their small values and the symmetry sets.

| Module | Models | Checked by |
|---|---|---|
| `RestartDelay` | `scheduleTunnelProcessRestart`: the delay after n failures | all runs of the tunnel |
| `Tunnel` | the supervisor: every handler, ssh itself, the network, the user | the runs of the modules that extend it |
| `TunnelService` | abstract: phases, counted failures and retries | implemented by `Tunnel` |
| `TunnelRefinement` | the refinement mapping from `Tunnel` to `TunnelService` | `MCTunnelHistory.cfg` |
| `TunnelHistory` | `Tunnel` with observing variables | `MCTunnelHistory.cfg`, `AuthRetryRare.cfg` |
| `TunnelStatus` | what is indicated, on top of each step of `Tunnel` | `MCTunnelStatus.cfg` |
| `TunnelLiveness` | `Tunnel` with fairness and an environment that calms down | `MCTunnelLiveness.cfg` |
| `ProxiedExchange` | abstract: what a proxied connection promises both peers | refined by `HttpProxyStream` |
| `HttpProxyStream` | one connection of the HTTP proxy and its two sockets | `HttpProxyStream.cfg` |
| `HttpProxyServer` | the listener, its set of streams and their deferred deletion | the runs of `TunnelClients`, which extends it |
| `UpdateChecker` | the check for a release, its proxy and what is learnt, saved and offered | the runs of `TunnelClients`, which instantiates it |
| `TunnelClients` | the HTTP proxy and the update checker composed with the tunnel that they go through | `TunnelClients.cfg`, `UpdateProxyStale.cfg` |
| `Utilities` | the pure functions: authorities, local proxies, errors of ssh | `Utilities.cfg` |
| `Logs` | records, serials, files of days, restoring | the runs of `LogsDialog`, which extends it |
| `LogsDialog` | `Logs` composed with the viewer and queued notifications | `MCLogsDialog.cfg`, `LogsOfThreads.cfg` |
| `SingleInstance` | `main`: several processes around one local socket | `SingleInstance.cfg` |
| `Preferences` | settings in memory and in their file, and what the code asks about them | the run of `PreferencesDialog`, which extends it |
| `PreferencesDialog` | editing, validating, asking and saving; the tray menu next to it | `MCPreferencesDialog.cfg` |
| `TunnelProofs`, `HttpProxyStreamProofs`, `LogsDialogProofs`, `SingleInstanceProofs`, `PreferencesDialogProofs`, `UtilitiesProofs` | theorems about the module of that name (`TunnelProofs` also about `RestartDelay` and `TunnelRefinement`, `LogsDialogProofs` also about `Logs`) | the proof checker |
| `TunnelObserverProofs` | theorems about `TunnelHistory` and `TunnelStatus` | the proof checker |
| `TunnelClientsProofs` | theorems about `HttpProxyServer`, `UpdateChecker` and `TunnelClients` | the proof checker |

Operators that are marked `\* mutant` are wrong on purpose: each is a plausible
bug of the definition next to it, no specification uses them, and replacing
the definition by them makes the property it is listed with in `PROJECT.json`
fail.

### Tunnel

The variables are the members of `Shprot` (`portOpened` is
`m_tunnelPortOpened`, and so on; the comments in the module give the names)
and what the code cannot see: `ssh`, what the child really does, `foreign`,
another program on the SOCKS port, and `reachable`. A timer is what it is going
to run. Only `tunnelTimer` keeps its interval, since the code's choice of delay is what
several properties are about.

* `MaybeRestartTunnelProcess` has one disjunct per way out of
  `maybeRestartTunnelProcess` (387-499): the four early returns, the failed
  write of the key, a start that fails, one that times out, one that succeeds.
  All of them first run `stopTunnelProcess` (506-549) *with the handlers it
  calls from inside*: `waitForFinished` delivers `finished` and, for a process
  that was still starting, possibly `started`. Handlers that run nested are functions
  on `Members`, the record of the members they may set: `StopTunnelProcess` runs
  `HandleFinish`, or `HandleStart` and then it, on the members as the code around has
  left them, with the mark of an intentional stop already set, and `RestartStarted` runs
  `HandleStart` on what it returns. An action sets the variables to the outcome.
* `ProcessFinished` is `handleTunnelProcessFinish`. The three ways to end
  (`lost`, `refused`, `failed`) are what the code tells apart by its reading of
  stderr.
* `HealthTimeout` and the `SocketEnds` family are `maybeRunHealthCheck` and the
  branches of `handleHealthCheckSocketStateChange` (726-824). Sockets are
  identities, since the code compares the sender with `m_healthCheckSocket` to
  recognise results of stopped checks.
* `Quit` runs `~Shprot`; `Crash` leaves the key and possibly ssh behind.

`failedRestarts` saturates at the largest shift that changes a delay; theorem
`SaturationIsExact` shows that the counter of the code, which does not
saturate, gives the same delays.

### TunnelService

What a user may rely on, without ssh, sockets and checks: four variables and ten
actions. The mapping reads `phase` off the process and `m_internetReachable`,
`failures` and `retry` are the counter and the interval of the restart timer, and
`possible` is the condition that the early returns of `maybeRestartTunnelProcess`
test. The service says what the handlers must amount to together: an attempt that was
made and fails is counted and retried after the delay of the backoff; the counter is
reset only by a tunnel that serves, by the network or by settings; a refusal is
believed only of a tunnel that is not open; only an attempt that is not possible leaves
nothing pending (`idle`).

The delay is stated here once more, as a base that doubles with each failure and is
capped (`Backoff`), while the code shifts by a capped number and caps the result
(`RestartDelay`, with a table of the powers of two): the refinement checks one
against the other, and the proof needs `PowersAreExact`.

It allows two things that one might not expect, since the code does them. A tunnel that
was unreachable for too long is counted when the restart is scheduled, and once more
when its ssh exits before that (`Falter`, then `Lose`); the delay is then one step
longer. And after a network change the old connection may still fail and delay the
first attempt on the new network (`Forgive`, then `Lose`).

### TunnelClients, HttpProxyServer and UpdateChecker

`HttpProxyServer` takes addresses from a small set and reuses them, so that a
pointer to a deleted stream would be seen. `UpdateChecker` numbers releases in their
order, keeps the proxy of a request with the request (a proxy that changes is used
from the next check on), lets the write of the preferences fail, and lets the
application be replaced by an older or newer version between two runs.

`TunnelClients` puts both beside the supervisor, who tells them of the SOCKS proxy on
different paths: the server is started and stopped by the handlers of the process,
some of them nested in a stop, the checker by the status timer half a second after
something happened. Of the supervisor it keeps the process, `m_internetReachable`, the
SOCKS proxy and the status timer. Its timers, settings and checks are choices:
each attempt may be given up, fail, time out or start with any proxy, and a
check may succeed or fail whenever ssh runs. These are more behaviours than
`Tunnel` has, so what holds here holds there.

### Utilities

Its inputs are spelled by the specification: an authority piece by piece, a pair of
local proxies, the stderr of ssh line by line. A piece is a character that the parser
looks at, a plus or white space (which `toUShort` accepts around a number), a number, or
any other part of a name. `AuthoritiesAreParsed` compares
`parseAuthority`, which cuts at the first and last marks, with the grammar, which
considers all ways to cut. `LocalProxiesWork` compares the spelling test of
`proxyAddressesConflict` with the addresses that ssh, `QTcpServer` and a client use.
`FailuresAreNamed` compares the two places that read the errors of ssh. `LastWords` and
`MayFollow` say what ssh writes, in which order. The name of a host stands for an
address of its own there: two names of one address, and two spellings of one IPv6
address that is not loopback, are not recognised by the code and are left out.

### The other modules

`TunnelStatus` conjoins each action of `Tunnel` with what its handler does to
the indication, so both change in the same step, and adds the two timers that
bring the indication up to date. `TunnelHistory` observes: its variables
restrict no step.

In `HttpProxyStream` a byte is a unit and the i-th unit a peer sends is the
number i, which makes a lost, repeated or reordered unit visible. `Pump`,
`ForwardData`, `RespondAndClose` and `ReadRequest` are functions from stream to
stream named as in the code, since the handlers nest them. A request is
reduced to whether it is valid, whether it is a `CONNECT` and where its headers end.
`ProxiedExchange` says what the peers may see; the refinement mapping maps the
four states to its three phases and `deleteScheduled` to `ended`.

`Logs` numbers messages, keeps a file per day as a sequence of messages and
lets the process restart in any state. `LogsDialog` extends it: the main thread
delivers its own notification at once, other threads queue theirs, and another
thread may post between the unlock and the signal (`Post` and `Notify` are two
actions for that reason). The text is modelled as blocks, since `insertRecord` removes
the oldest line by its position.

`SingleInstance` has one copy of `main` per process. The socket file belongs to
whoever created it last, as on Linux. Starts may overlap, and nothing keeps both
instances from running then: each finds nobody listening, and the second one removes
the socket of the first (`Shprot.cpp` 1150-1165). The history variable `raced`, which
no action reads, notes that two instances were between the two calls at the same time,
and it is taken back when none of those that run is left. What is
claimed of the socket is claimed unless `raced`, so it also says that the race is the
only way to an instance that is not found, and that it does no lasting harm.

`Preferences` has the settings of the tunnel, which the dialog, the menu and
the supervisor share; a save is atomic, may fail, and a failed one leaves memory
ahead of the file. In `PreferencesDialog` the sequence `boxes` holds the message
boxes, the newest last. Each one is an event loop inside the handler that asked, so
they are answered from the last to the first, and `Box` records the
handler that goes on then. `under` tells which boxes are older than the visible dialog:
those are blocked by it, as the dialog is by newer ones. The check behind the
*Trust Check* button starts 50 ms late, so it may start inside the question of
another handler, or when the dialog was hidden or opened again; `TrustCheckButton` and
`RunTrustCheck` are two actions for that reason. `accept` is cut where it asks: `Accept`
goes up to the first question, `ConfirmExposure` and `TrustKey` go on from
theirs. The probe of a server may find any of the keys.
`agreed`, the exposed settings that the user accepted, and `toggled`, whether
the menu has toggled the tunnel since `accept` compared the fields with the settings, are
history variables.

A menu stays `left` when the dialog appears while it is open: Qt may close a popup
then, but a desktop that draws the menu itself need not. Its switch, decided upon in
`aboutToShow` when the dialog was not there, may then toggle the tunnel once, even while
`accept` waits for an answer. `ToggledInOnePlace` says that this is all that can
happen (the comment at `Shprot.cpp` 319 means to exclude it altogether, and `accept` then overwrites the
toggle), and `SavedAsAgreed`
that the exposure was confirmed against the settings it was compared with.

### What is assumed of Qt and of the system

* One event loop per application; handlers do not interleave.
* `waitForFinished` and `waitForStarted` emit the signals of the process
  before they return. A process that got SIGKILL ends while it is waited for.
* `QProcess::errorOccurred` is not connected in the code, so a process that
  fails to start late is noticed by nobody.
* A deleted or aborted `QTcpSocket` reports nothing more. `disconnectFromHost`
  sends what is pending first; a peer that closed leaves what it sent readable.
* The success of a connection and its disconnection right after are one step.
* Message boxes and the dialog are application modal: the newest one blocks the
  others. The menu of the tray is not blocked.
* A menu closes when an item of it is chosen. It need not close when a window is shown.
* Reachability changes together with the signal that tells about it.
* Timers have no durations: an active timer may fire at any time. This allows
  more orders than the program has, so safety results carry over; liveness
  results only use that an active timer fires.

## Runs

| Run | States | Shows |
|---|---|---|
| `tunnel` | 57,402 | Without crashes and other listeners on the port, the supervisor implements `TunnelService`; results of old checks are dropped, the long delay after a refused authentication is kept on an unchanged network, open means authenticated, quitting leaves nothing. |
| `tunnel_liveness` | 25,115 | An enabled tunnel opens once faults stop; an ssh that serves nobody is noticed. |
| `tunnel_status` | 1.3 million | With crashes that leave the key and an ssh that holds the port: no retry and no watchdog is forgotten, the process is the wanted one, a disabled tunnel leaves nothing; icon, notification, *Reconnect Now*, countdown and HTTP proxy error agree with the tunnel. |
| `proxy_stream` | 18,458 | The stream implements `ProxiedExchange`, never stalls, buffers little, answers every request and ends. |
| `tunnel_clients` | 614,232 | No pointer to a stream dangles, nothing is relayed past the ssh it belongs to, checks go on, the menu offers exactly what is newer, a release is found while the tunnel is closed. |
| `utilities` | 1.1 million | Authorities of up to six pieces, all pairs of local proxies and the outputs of ssh of up to three lines are treated as their meaning asks. |
| `logs` | 709,355 | Restoring gives the latest lines in order and serials have no gaps; the text stays grouped, nothing is shown twice or out of order, the newest record is shown. |
| `single_instance` | 17,506 | Unless two starts raced, the running instance is reachable (so there is one); it quits only on request, a whole message is obeyed, connections end; with overlapping starts and crashes. |
| `preferences` | 2.2 million (symmetric) | A handler's question stays about the fields that it will save, only what was agreed is saved, the menu changes settings behind the dialog only with a switch it had before, once, edits are not dropped silently. |

The invariants of the supervisor have parts, named in the module:
`NothingIsForgotten` is `WatchdogArmed`, `StartingIsSupervised` and `RetryPending`;
`ProcessIsAsWanted` is `UnexpectedExitNoticed` and `SettingsApplied` (no mark or
setting of one process is taken over by the next). `ChecksStopAtLimit` and
`NothingOutlivesProcess` are proved and are in no run.

### Bounds

* Delays keep their order (network, backoff, authentication, missing ssh) but
  are small; three doublings reach the cap of one kind and not of the other.
  The failure limit of checks is 3 (2 with the status and the fairness, where
  only reaching it matters).
* Four settings: two enabled ones that differ, a disabled one, one with an
  encrypted key. Three sockets alive at a time: a check, and two stopped ones
  that report late; a fourth would be another late one. The status and liveness runs use
  two.
* `tunnel_clients`: two SOCKS proxies, since what can go wrong is to keep the old
  one; two stream addresses, so one is reused while the other is open; two
  releases, so there is an older, an equal and a newer one for every version of the
  application. `update_proxy_stale` needs one address only.
* `utilities`: six pieces are user information, brackets around an address of
  three pieces and one more; seven would add nothing but longer names. Ten hosts are
  one of each kind the functions tell apart. ssh writes up to three lines: two
  that do not end it, before one that does.
* `proxy_stream`: headers of one or two units or too long, up to 6 units from
  the client and 4 from the target with a buffer limit of 3 and chunks of 2, so
  the limit is hit in both directions, within and between chunks.
* `logs`: three threads, 2 recent records, 4 messages, 3 days of which files of
  2 are kept, so trimming (which empties days), removal and restoring over
  midnight happen.
* `single_instance`: two instances that are started again and again, also at the
  same time, and one foreign process, messages of two parts and one that is too long.
* `preferences`: two servers, for each of which a probe may find either of two keys
  (which are alike, so they are a symmetry set), and five
  entries: a local proxy, a disabled one with a destination that is not valid, one exposed
  at an outer address, one at the other server with an exposed HTTP proxy, and one whose two
  proxies conflict. Each outcome of the validation and each question is reached, and so
  are boxes two deep (one of them is always of the check).

### Fairness

* `TunnelLiveness`: weak fairness of each timer, each signal and each live
  socket (the event loop never blocks for ever: waits in handlers have
  timeouts), and of ssh getting to its end (it runs with `ConnectTimeout` and
  `ServerAliveInterval`). Strong fairness only of a successful probe while the
  port accepts: probes are repeated, and the code relies on an open port
  accepting "right away". Recovery is claimed for behaviours in which faults
  stop (`BecomeCalm`); they may last arbitrarily long before.
* `TunnelClients`: weak fairness of the timer of the checks, of the status timer, and
  of the end of a request (it has a timeout). Strong fairness of GitHub's answer
  and of its arrival: requests are repeated and not every one is lost, which is an
  assumption about the network, not about the code. Nothing is assumed of ssh; a
  release is claimed to be found for a tunnel that stays closed. While it is
  open the check may use a proxy of an earlier tunnel, see below.
* `HttpProxyStream`: the timer fires, and a peer that stays reads what it is
  sent. Nobody has to send or to leave.
* `SingleInstance`: the event loop of a running instance, its read timer and its
  exit. Senders are not fair.
* No liveness is claimed of the dialog: nobody has to answer a question.

`CHECK_DEADLOCK FALSE` is set where the modelled thing really ends: a closed
stream, and a calm system whose tunnel is disabled.

## Where code and documentation disagree

Each is a run that TLC ends with a counterexample.

* `auth_retry_on_network_change` (`Shprot.cpp:622`): a changed network
  replaces the delay after a refused authentication by one second;
  `src/README.md:18` promises "no more than once a minute".
* `update_proxy_stale` (`Shprot.cpp:943`): the checker is given a proxy when the
  *indication* changes. A tunnel that is replaced by one with another SOCKS
  address and opens again before the status timer fires changes no indication, so
  checks go to the old port; `Shprot.cpp:947` says that they go through the tunnel
  while it is open. `NoCheckAtClosedPort` proves that a tunnel indicated as closed
  does not have this problem.
* `logs_of_threads` (`LogsDialog.cpp:116`): two threads may deliver records out
  of serial order; the older one is dropped by the open dialog.

## Proofs

The theorems hold for every value of the constants that satisfies the
assumptions `DelayAssumption` (delays are positive, authentication waits at
least as long), `TunnelAssumption` (settings are records of three Booleans, the
limit is positive, delays are natural numbers), `ReleasesAssumption` (releases are
positive numbers), `ServerAssumption`, `StatusAssumption`, `StreamAssumption` (limits and chunks are
not empty), `LogsAssumption`, `InstanceAssumption`, `UtilitiesAssumption`, `PreferencesAssumption` and the two
`DialogAssumption`s (markers such as `NoServer` are no servers, entries are settings, the main
thread is a thread). One of them is more than a type: `LogsAssumption` has the tail of a file
hold as many lines as are kept in memory, so lines are taken to be shorter than 1.3 KB on
average (256 KB for 200 records). With longer ones a restart would show the tail of one day
after the lines of earlier days, and a gap between them.
What a theorem assumes beyond them is said below
and stands in its `ASSUME`.

`DelayBounded`, `DelayMonotone` and `SaturationIsExact` (in `TunnelProofs`) are about the pure delay.
The powers of two are a table, as far as the shift goes, so no induction is needed.
`DelayMonotone` has two halves: a delay never shrinks as failures are counted, and after as many
failures a refused authentication never waits less than another failure.

For the supervisor (`TunnelProofs`), no single invariant is inductive: that a process is watched
depends on checks stopping only when a restart is scheduled, which depends on
the counter being reset by each new process, which depends on the exit being
noticed. `IInv` is the conjunction of the type invariant and the eight
invariants that need each other. The proof has the usual shape: `InitInv`, one
lemma per group of actions (`RestartStep` for the eight ways out of a restart,
`SocketStep`, `OtherStep`), `NextInv`, and temporal theorems that
combine them. The handlers that run nested are dealt with once: for each way out of a restart an
`Outcome` operator says what its attempt leaves whichever handlers ran inside,
`RestartOutcomes` shows that it does, and the rest of the proof uses these outcomes only. `NestedHandlersLeaveNothing` says for itself that
the stop leaves no timer, check, HTTP proxy or indication and counts no failure, whether the process it
stops runs or starts. `OpenMeansAuthenticated` needs `Faults = {}`, and
`QuitIsClean` that there are no crashes; both are assumptions of the theorems, since
TLC refutes both invariants without them: a listener of another program passes
the port probe, and a crash leaves the key on disk.

`ServiceIsImplemented` (also there): with `Faults = {}`, every behaviour of
`Tunnel` implements `TunnelService`. `RInv` is `IInv`, `OpenIsOurs` and that there is no
process when the application does not run. It is needed because, for example, a step
that maps to `Lose` has to know that a process that exits was not meant to, and one that
maps to `Serve` that the process is up. A lemma for each group of handlers names the steps of the service
that they map to, or shows that they map to stutters (`StepService`). The assumption is necessary: an ssh
left by a crash, or another program, can hold the port, which lets a tunnel be
refused after it was taken for open.

`TunnelObserverProofs`: the observers take the steps of `Tunnel` and write only variables of
their own, so `IInv` holds in them (`HistoryInvariance`, `StatusInvariance`), and theirs build
on it. `HistoryInv` adds that a refused authentication is remembered only while the application
runs and no ssh does, which is why no health check can schedule an earlier restart; the six
theorems need no assumption beyond those on the constants, so they hold with crashes and with
other programs on the port as well, where TLC looks at `MCTunnelHistory` without them.
`StatusInv` is the conjunction of what the indication promises, with the two facts it hides
behind: an attempt that leaves neither a process nor a timer leaves a reason
(`BlockedIsExplained`), and an HTTP proxy that failed to listen has an error (`HttpFailureShown`).

`HttpProxyStreamProofs`: `StreamInv` says for each state of a connection what its buffers and
what its peers got have to do with one another. While it tunnels, that is `Delivery` for both
directions: what a peer received, what waits to be written to it and what was read from the
other and waits are together all that is meant for it, and a socket is only closed after that
or because its peer left. `NothingStalls` and `MemoryIsBounded` follow from it.
`ExchangeIsImplemented` maps every action to a step of `ProxiedExchange` or a stutter; the
buffers are variables that `ProxiedExchange` does not have, so the invariant is what says that a
peer that got everything did get everything. These theorems hold for all requests, all numbers
of units that are sent and all sizes of limits and chunks.

`TunnelClientsProofs`, the server: that no pointer dangles is not inductive, since `stop`
closes the streams on the list and the next proxy is only safe if those are all;
`ListInv` adds that every open stream is listed and uses the present proxy.

The composition: `ServerInv` is `ListInv` with the supervisor's part (the
server listens only while ssh runs, for the proxy of that ssh), and uses the lemmas about
the server for its steps. `CheckerInv` is about the checker alone:
exactly one of timer and request, and that the menu offers `newVersion` of what is
known. `ShownInv` relates the proxy of the checker to what is indicated, and that to
the tunnel when the status timer is not armed; it gives `NoCheckAtClosedPort`. These
theorems hold for any sets of addresses, proxies and releases and assume no fairness.

`SingleInstanceProofs`: `SocketInv` is the types, `StartsAlone` (unless `raced`, one instance
at a time is between the two calls, and then nobody listens) and `IsReachable`. It is
inductive because a step that lets two instances be there at once sets `raced`, and `raced` is taken
back only when nobody listens, where both parts hold again. `RunningIsReachable` and `OnlyOneRuns`
need no assumption. `OnlyRequestsEnd` rests on `PartsInv`, that nothing is read
before it is written and nothing follows a message, so a connection that is handled as
complete was written to its end.

`LogsDialogProofs`: `DialogInv` is the types and four parts. `FilesInv`: the lines that were
written (`saved`) have the days and the numbers in order, and each file that is kept has those
of its day, so the files one after the other are the end of `saved`; a failed write leaves
both alone. `SerialsInv`: whatever is known of a record, in memory, with a thread or in the queue,
its serial and its number agree, and those in memory have no gap. `ShownInv`: what is shown is
older than everything known with a later serial, and if an open dialog does not show the last
serial then its notification is pending. This is why `LatestIsShown` holds although
notifications overtake one another: the one that ends a burst cannot be dropped as old.
`DaysInv`: there are places at which the days begin, each where the one before it ends, and
what is not shown yet is of no earlier day than what is, so `insertRecord` never has to look
further back than the last day; the removal of the oldest record moves all places by one, or
by two when its day goes with it.
`RestartRestoresLatest` compares two loops, over the files backwards and over `saved`
forwards; both are shown equal to a part of `saved`.

Loops are recursive functions here. The library's induction theorems cannot be used, but
induction over the natural numbers can be had for a set: `SetInduction` shows that a set with
0 that is closed under adding one contains `Nat`, from the pigeonhole theorem about finite
sets. With it the functions of `Reload`, `RestoreRecentRecords` and `KeptLines` are shown to
exist (a recursive definition is a `CHOOSE`) and to have the properties needed.

`PreferencesDialogProofs`: `DialogInv` is the types, that a menu with a switch
is not shown beside a visible dialog, that a visible dialog is no older than it
claims (`under <= Len(boxes)`), and `QuestionsAreAboutEdits`. That accept saves
what was agreed follows from the last one: between its question and the
answer only boxes of the check are above, and those change no field. The menu
may have toggled the settings in that time, but only once and only one that was open
before the dialog; the last part of `DialogInv` (`toggled` only while accept waits and
no such menu is left) is what makes the settings that accept compared with the saved
ones with that toggle taken back. No assumption is made about menus.

`UtilitiesProofs`: every theorem about `parseAuthority` is about texts of any length, though a
run goes through those of six pieces. A division is a pair of positions, where the user
information and the host end; `DivisionIsReading` shows that these are the readings of the
grammar. `DivisionIsParsed` and `AcceptedIsDivided` are the two halves of `ParsedByTheGrammar`: the
first and last marks at which the code cuts are those of every division, because neither a
plain host nor a port has a colon and no address has a closing bracket, and what the code
accepts is a division. Of IPv6 addresses nothing else is used, so it does not matter that
`IsIPv6` is simplified for texts of a few pieces. `UrlIsReadBack` says that a copied URL is read
as the host and the port it was made of; with it `ProxiesWork` is a comparison of hosts.
`FailuresKeepTheirNames` needs only that the report of a changed key is followed by the
refusal it leads to (`ChangedKeyIsRefused`), and holds for any number of lines.

Only model-checked:

* Liveness, which is out of the prover's reach: `TunnelRecovers`, `WatchdogBarks`,
  `ReleaseIsFound`, `StreamEnds`, `RequestIsDecided`, `MessageIsObeyed`, `ConnectionsEnd`.

## Not modelled

* The command line of ssh, the texts shown, uptime and the menu items that copy URLs; the
  format of log lines; write errors of the log file other than a failed opening;
  scrolling, searching and highlighting.
* The private key editor: it hides what it paints and keeps a timer for that. No
  other part reads that state, and a property of it would restate one of its handlers.
* Of `Utilities`: the probe of a server's key, the test of a key's passphrase and the known
  hosts file. They run `ssh` or `ssh-keygen` and parse what those print; what
  their callers depend on is the outcome, which `PreferencesDialog` chooses.
* The list of websites (data), about dialog, metrics, style and translations (no state
  that changes), packaging and the build.
* A clock that goes backwards.
* A record that is logged by a receiver of `Logs::recordAppended` while it is notified
  (the comment at `Logs.cpp` 236 allows for it). The dialog is the only receiver, and
  `LogsDialog::appendRecord` logs nothing; a warning of Qt itself in the middle of
  `insertRecord` would be such a record, and is left out.

## Plan

1. Supervisor: model, runs, proofs; status, history, liveness (done).
2. HTTP proxy with its abstract specification, logs and dialog, single instance,
   preferences and their dialog (done).
3. Abstract service of the supervisor, its refinement and its proof; update checker,
   composition of the clients of the tunnel, pure functions (done).
4. Proofs for the status, the history, the relay of `HttpProxyStream`, the logs, the
   messages of `SingleInstance` and the pure functions (done).
