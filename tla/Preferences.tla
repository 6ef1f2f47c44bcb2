---------------------------- MODULE Preferences ----------------------------
(***************************************************************************)
(* The settings: class Preferences keeps them in memory, the settings of   *)
(* the tunnel and the rest, and saves all of them in one file at each      *)
(* change.  QSaveFile replaces the file whole or not at all.               *)
(***************************************************************************)
EXTENDS FiniteSets

CONSTANTS
    Servers,        \* addresses of ssh servers
    NoServer,       \* no destination
    BadServer,      \* a destination that is none
    Hosts           \* addresses that a local proxy listens on

ASSUME PreferencesAssumption ==
    /\ {NoServer, BadServer} \cap Servers = {} /\ NoServer # BadServer
    /\ {"loopback", "any"} \subseteq Hosts

VARIABLES
    values,         \* m_values: its "sshProxyTunnel"
    file            \* the same in Preferences.json

store == <<values, file>>

TunnelSettings ==
    [enabled : BOOLEAN,
     server : Servers \cup {NoServer, BadServer},
     key : {"none", "encrypted", "valid"},
     socksHost : Hosts,
     httpEnabled : BOOLEAN,
     httpHost : Hosts,
     samePort : BOOLEAN]

\* What value() returns for settings that were never saved
Defaults ==
    [enabled |-> FALSE, server |-> NoServer, key |-> "none", socksHost |-> "loopback",
     httpEnabled |-> FALSE, httpHost |-> "loopback", samePort |-> FALSE]

\* A file that can't be read, or makes no sense, counts as none.
Load == values' \in {file, Defaults} /\ UNCHANGED file

\* Each failure of save() is logged, and leaves the file as it was.
SaveOrFail == file' \in {file, values'}

SetTunnelSettings(settings) == values' = settings /\ SaveOrFail

\* Another value: the geometry of a window, a switch in the menu, a version.
SetOther == UNCHANGED values /\ SaveOrFail

-----------------------------------------------------------------------------
(* What the code asks about settings *)

HostIsExposed(host) == host # "loopback"

ProxyAddressesConflict(settings) ==
    /\ settings.samePort
    /\ \/ settings.socksHost = settings.httpHost
       \/ "any" \in {settings.socksHost, settings.httpHost}

IsValid(settings) ==
    settings.enabled =>
        /\ settings.server \in Servers
        /\ settings.key = "valid"
        /\ ~(settings.httpEnabled /\ ProxyAddressesConflict(settings))

\* A proxy that is enabled, at a host where it was not accessible before
HostBecomesExposed(enabled, host, savedEnabled, savedHost) ==
    enabled /\ HostIsExposed(host) /\ ~(savedEnabled /\ host = savedHost)

BecomesExposed(saved, settings) ==
    \/ HostBecomesExposed(settings.enabled, settings.socksHost,
                          saved.enabled, saved.socksHost)
    \/ HostBecomesExposed(settings.enabled /\ settings.httpEnabled, settings.httpHost,
                          saved.enabled /\ saved.httpEnabled, saved.httpHost)

\* The menu enables what has a destination and a key, valid or not.
IsConfigured(settings) == settings.server # NoServer /\ settings.key # "none"
=============================================================================
