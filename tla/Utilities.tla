------------------------------ MODULE Utilities ------------------------------
(***************************************************************************)
(* The pure functions of Utilities.cpp that the others rely on: what a     *)
(* request to the HTTP proxy asks for, where the local proxies listen and  *)
(* how they are reached, and what ssh died of.  The specification spells   *)
(* their inputs: an authority piece by piece, a pair of local proxies, the *)
(* lines that ssh writes.                                                  *)
(***************************************************************************)
EXTENDS Integers, Sequences, FiniteSets, SequencesExt

CONSTANTS
    AuthorityLengthMax,     \* pieces of an authority
    ErrorLinesMax           \* lines of ssh

ASSUME UtilitiesAssumption == AuthorityLengthMax \in Nat /\ ErrorLinesMax \in Nat

VARIABLES
    authority,      \* "host:port" in the request of a client
    locals,         \* the SOCKS5 and the HTTP proxy in the preferences
    errorOutput     \* what ssh wrote to stderr

utilitiesVars == <<authority, locals, errorOutput>>

-----------------------------------------------------------------------------
(* parseAuthority.  A text is a sequence of pieces: the characters it looks *)
(* at, the numbers 0, 1 and 70000, white space, and any other part of a     *)
(* name.                                                                    *)

Pieces == {":", "[", "]", "@", "+", "0", "1", "70000", "blank", "name"}
Digits == {"0", "1", "70000"}

\* indexOf and lastIndexOf, from 1 on, 0 if there is none
IndexOf(text, piece) == SelectInSeq(text, LAMBDA p : p = piece)
LastIndexOf(text, piece) == SelectLastInSeq(text, LAMBDA p : p = piece)

\* mid
From(text, first) == SubSeq(text, first, Len(text))

\* QHostAddress takes it for an IPv6 address.  With few pieces some groups are
\* left out: it has one "::" and no other colon at its ends or in a row.
IsIPv6(text) ==
    LET colons == {i \in 1..Len(text) - 1 : text[i] = ":" /\ text[i + 1] = ":"}
    IN  /\ ToSet(text) \subseteq {":", "0", "1"}
        /\ Cardinality(colons) = 1
        /\ text[1] = ":" => 1 \in colons
        /\ text[Len(text)] = ":" => Len(text) - 1 \in colons

\* QByteArray::toUShort, and not zero: a number, perhaps after a plus, with white
\* space around them
IsPort(text) ==
    /\ "1" \in ToSet(text) /\ "70000" \notin ToSet(text)
    /\ \E first, last \in DOMAIN text :
          /\ {n \in DOMAIN text : text[n] \in Digits} = first..last
          /\ \A n \in DOMAIN text \ (first..last) :
                text[n] = "blank" \/ (text[n] = "+" /\ n = first - 1)

DefaultPort == <<>>     \* the port of a text that names none
Failure == [host |-> <<>>, port |-> DefaultPort]

PortAfterText(host, portPart) ==   \* mutant
    IF host = <<>> THEN Failure
    ELSE IF portPart = <<>> THEN [host |-> host, port |-> DefaultPort]
    ELSE IF IsPort(From(portPart, 2)) THEN [host |-> host, port |-> From(portPart, 2)]
    ELSE Failure
PortAfter(host, portPart) ==
    IF host = <<>> THEN Failure
    ELSE IF portPart = <<>> THEN [host |-> host, port |-> DefaultPort]
    ELSE IF portPart[1] = ":" /\ IsPort(From(portPart, 2))
         THEN [host |-> host, port |-> From(portPart, 2)]
    ELSE Failure

ParseBracketed(text) ==
    LET end == IndexOf(text, "]")
        host == SubSeq(text, 2, end - 1)
    IN  IF end = 0 \/ ~IsIPv6(host) THEN Failure ELSE PortAfter(host, From(text, end + 1))

ParsePlain(text) ==
    LET colon == IndexOf(text, ":")
    IN  IF colon = 0 THEN PortAfter(text, <<>>)
        ELSE IF LastIndexOf(text, ":") # colon THEN Failure
        ELSE PortAfter(SubSeq(text, 1, colon - 1), From(text, colon))

ParseAuthority(text) ==
    LET hostAndPort == From(text, LastIndexOf(text, "@") + 1)
    IN  IF hostAndPort # <<>> /\ hostAndPort[1] = "["
        THEN ParseBracketed(hostAndPort) ELSE ParsePlain(hostAndPort)

-----------------------------------------------------------------------------
(* The local proxies.  A host of the preferences is an address or a name;  *)
(* IPv6 addresses are written in brackets there.                           *)

Hosts == {"", "localhost", "127.0.0.1", "127.0.0.2", "::1", "0.0.0.0", "::",
          "192.168.1.5", "fd00::5", "proxy.local"}
IPv6Hosts == {"::1", "::", "fd00::5"}
LoopbackHosts == {"127.0.0.1", "127.0.0.2", "::1"}
AnyHosts == {"0.0.0.0", "::"}

LocalAddresses == [host : Hosts, port : {<<"1">>, <<"1", "0">>}]

HostNormalized(host) ==
    IF host = "" \/ host \in LoopbackHosts THEN "localhost"
    ELSE IF host \in AnyHosts THEN "any" ELSE host

ConflictBySpelling(first, second) ==   \* mutant
    first.port = second.port /\ HostNormalized(first.host) = HostNormalized(second.host)
ProxyAddressesConflict(first, second) ==
    /\ first.port = second.port
    /\ LET hosts == {HostNormalized(first.host), HostNormalized(second.host)}
       IN  Cardinality(hosts) = 1 \/ "any" \in hosts

ProxyConnectionHost(host) == IF host \in {""} \cup AnyHosts THEN "localhost" ELSE host

\* A host as it is written in an authority
Written(host) ==
    CASE host = "::1" -> <<":", ":", "1">>
      [] host = "::" -> <<":", ":">>
      [] host = "fd00::5" -> <<"0", ":", ":", "1">>
      [] OTHER -> <<"name">>

\* formatProxyUrl, after the scheme
ProxyUrl(local) ==
    LET host == ProxyConnectionHost(local.host)
        text == Written(host)
    IN  (IF host \in IPv6Hosts THEN <<"[">> \o text \o <<"]">> ELSE text)
            \o <<":">> \o local.port

\* What the system listens on for a host: 127.0.0.1, 127.0.0.2, ::1, the other
\* addresses of this computer, and what a name stands for.
Interfaces(host) ==
    CASE host = "0.0.0.0" -> {"127.0.0.1", "127.0.0.2", "192.168.1.5"}
      [] host = "::" -> {"::1", "fd00::5"}
      [] OTHER -> {host}

\* ssh -D listens on both loopback addresses, HttpProxyServer on the first.
ListenedBySsh(host) ==
    IF host \in {"", "localhost"} THEN {"127.0.0.1", "::1"} ELSE Interfaces(host)
ListenedByHttp(host) ==
    IF host \in {"", "localhost"} THEN {"127.0.0.1"} ELSE Interfaces(host)

\* Where a client of this computer tries to connect
Resolved(host) == IF host = "localhost" THEN {"127.0.0.1", "::1"} ELSE {host}

-----------------------------------------------------------------------------
(* describeSshError.  A line of ssh is the known phrase it contains; lines *)
(* without one are "unknown".                                              *)

KnownErrors == <<
    [patterns |-> {"Permission denied (", "Too many authentication failures"},
     reason |-> "authentication"],
    [patterns |-> {"Host key verification failed", "REMOTE HOST IDENTIFICATION HAS CHANGED"},
     reason |-> "identity"],
    [patterns |-> {"Could not resolve hostname"}, reason |-> "address"],
    [patterns |-> {"Connection refused"}, reason |-> "refused"],
    [patterns |-> {"timed out"}, reason |-> "timeout"],
    [patterns |-> {"unreachable"}, reason |-> "unreachable"],
    [patterns |-> {"Address already in use", "cannot listen to port"}, reason |-> "busy"],
    [patterns |-> {"Timeout, server"}, reason |-> "silent"],
    [patterns |-> {"closed"}, reason |-> "closed"]>>

ErrorLines ==
    (UNION {KnownErrors[i].patterns : i \in DOMAIN KnownErrors}) \cup {"unknown"}

\* findKnownSshError: the first of the list, wherever its line is
LatestKnownSshError(lines) ==   \* mutant
    SelectLastInSeq(KnownErrors, LAMBDA error : error.patterns \cap ToSet(lines) # {})
FindKnownSshError(lines) ==
    SelectInSeq(KnownErrors, LAMBDA error : error.patterns \cap ToSet(lines) # {})

DescribeSshError(lines) ==
    LET known == FindKnownSshError(lines)
    IN  IF known # 0 THEN KnownErrors[known].reason
        ELSE IF lines = <<>> THEN "" ELSE lines[Len(lines)]

SummarizeSshError(lines) ==
    LET known == FindKnownSshError(lines)
    IN  IF known # 0 THEN KnownErrors[known].reason
        ELSE IF lines = <<>> THEN "" ELSE "unknown"

\* handleTunnelProcessFinish
AuthenticationFailed(lines) ==
    ToSet(lines) \cap {"Permission denied (", "Too many authentication failures",
                       "Host key verification failed"} # {}

\* What ssh writes before it ends, at most once
LastWords == {"Permission denied (", "Too many authentication failures",
              "Host key verification failed", "Could not resolve hostname",
              "cannot listen to port", "Timeout, server", "closed"}

Ended(lines) == lines # <<>> /\ lines[Len(lines)] \in LastWords

\* A changed key is reported before the refusal that it leads to; the other
\* lines are of addresses tried in vain and of connections that clients asked
\* for.
MayFollow(lines, line) ==
    /\ ~Ended(lines)
    /\ (lines # <<>> /\ lines[Len(lines)] = "REMOTE HOST IDENTIFICATION HAS CHANGED") =>
           line = "Host key verification failed"

-----------------------------------------------------------------------------
NoLocals == <<>>
Unused == authority = <<>> /\ locals = NoLocals /\ errorOutput = <<>>

Init == Unused

SpellAuthority(piece) ==
    /\ locals = NoLocals /\ errorOutput = <<>>
    /\ Len(authority) < AuthorityLengthMax
    /\ authority' = Append(authority, piece)
    /\ UNCHANGED <<locals, errorOutput>>

EnterLocals(socks, http) ==
    /\ Unused
    /\ locals' = <<socks, http>>
    /\ UNCHANGED <<authority, errorOutput>>

SshWrites(line) ==
    /\ authority = <<>> /\ locals = NoLocals
    /\ Len(errorOutput) < ErrorLinesMax
    /\ MayFollow(errorOutput, line)
    /\ errorOutput' = Append(errorOutput, line)
    /\ UNCHANGED <<authority, locals>>

Next ==
    \/ \E piece \in Pieces : SpellAuthority(piece)
    \/ \E socks, http \in LocalAddresses : EnterLocals(socks, http)
    \/ \E line \in ErrorLines : SshWrites(line)

Spec == Init /\ [][Next]_utilitiesVars

-----------------------------------------------------------------------------
\* The grammar of an authority: user information up to the last "@", a plain
\* host without colons or an IPv6 address in brackets, perhaps a port.
IsUserInfo(text) == text = <<>> \/ text[Len(text)] = "@"
IsPlainHost(text) == text # <<>> /\ text[1] # "[" /\ ":" \notin ToSet(text)
Inside(text) == SubSeq(text, 2, Len(text) - 1)
IsBracketedHost(text) ==
    Len(text) > 2 /\ text[1] = "[" /\ text[Len(text)] = "]" /\ IsIPv6(Inside(text))
IsPortSuffix(text) == text = <<>> \/ (text[1] = ":" /\ IsPort(Tail(text)))

\* The ways to divide a text into these three
IsReading(text, user, host, port) ==
    /\ text = user \o host \o port
    /\ IsUserInfo(user) /\ "@" \notin ToSet(host \o port)
    /\ IsPlainHost(host) \/ IsBracketedHost(host)
    /\ IsPortSuffix(port)

Readings(text) ==
    {reading \in {<<SubSeq(text, 1, i), SubSeq(text, i + 1, j), From(text, j + 1)>> :
                      i, j \in 0..Len(text)} :
        IsReading(text, reading[1], reading[2], reading[3])}

Meaning(reading) ==
    [host |-> IF IsPlainHost(reading[2]) THEN reading[2] ELSE Inside(reading[2]),
     port |-> IF reading[3] = <<>> THEN DefaultPort ELSE Tail(reading[3])]

\* parseAuthority accepts what the grammar does and nothing else, and no text
\* has two meanings: a client is connected to the host and the port it named.
AuthoritiesAreParsed ==
    {ParseAuthority(authority)} =
        IF Readings(authority) = {} THEN {Failure}
        ELSE {Meaning(reading) : reading \in Readings(authority)}

\* The URL that is copied for a local proxy names its port and a host where it
\* listens, on whatever address it was asked to listen (formatProxyUrl,
\* getProxyConnectionHost).
UrlLeadsTo(local, listened) ==
    LET host == ProxyConnectionHost(local.host)
    IN  /\ ParseAuthority(ProxyUrl(local)) = [host |-> Written(host), port |-> local.port]
        /\ Resolved(host) \cap listened # {}

\* Two local proxies that validate accepts do not want the same port of the
\* same interface, and both can be reached by the URLs in the menu.
LocalProxiesWork ==
    locals # NoLocals =>
        LET socks == locals[1]
            http == locals[2]
        IN  /\ UrlLeadsTo(socks, ListenedBySsh(socks.host))
            /\ UrlLeadsTo(http, ListenedByHttp(http.host))
            /\ socks.port # http.port \/ ProxyAddressesConflict(socks, http)
                   \/ ListenedBySsh(socks.host) \cap ListenedByHttp(http.host) = {}

\* The long delay after a refusal and the reason shown come from two readings
\* of the same lines and agree, however many addresses and connections failed
\* before; the menu shows a reason exactly when the notification does.
FailuresAreNamed ==
    /\ Ended(errorOutput) =>
           (AuthenticationFailed(errorOutput) <=>
                DescribeSshError(errorOutput) \in {"authentication", "identity"})
    /\ DescribeSshError(errorOutput) = "" <=> SummarizeSshError(errorOutput) = ""
=============================================================================
