---------------------------- MODULE UpdateChecker ----------------------------
(***************************************************************************)
(* Class UpdateChecker asks for the latest release, now and then, through  *)
(* the proxy it was given last, and keeps the answer for the menu and for  *)
(* the next start.  A version is its place in the order of versions.       *)
(***************************************************************************)
EXTENDS Integers

CONSTANTS
    Routes,         \* proxies of requests, Direct among them
    Direct,         \* QNetworkProxy::NoProxy
    Releases        \* versions that may be the latest release, from 1 on

VARIABLES
    checkTimer,     \* m_checkTimer->isActive()
    request,        \* m_reply: the proxy it was sent through and the answer
    checkerProxy,   \* m_proxy
    latest,         \* m_latestVersion
    saved,          \* "latestVersion" in the file of the preferences
    offered,        \* the version in the menu
    own,            \* PROJECT_VERSION
    published       \* the latest release there is

checkerVars == <<checkTimer, request, checkerProxy, latest, saved, offered>>
releaseVars == <<own, published>>

NoVersion == 0
Pending == 0                                \* the answer is not there yet
NoRequest == [route |-> Direct, answer |-> -1]
Requests == {NoRequest} \cup [route : Routes, answer : {Pending} \cup Releases]

\* newVersion
NewVersion(version) == IF version > own THEN version ELSE NoVersion

CheckerInit ==
    /\ checkTimer = FALSE /\ request = NoRequest
    /\ checkerProxy = Direct
    /\ latest = NoVersion /\ saved = NoVersion /\ offered = NoVersion
    /\ own \in Releases /\ published \in Releases

\* The constructor, updateNewVersionAction and start
StartChecker ==
    /\ latest' = saved /\ offered' = NewVersion(saved)
    /\ checkTimer' = TRUE
    /\ request' = NoRequest /\ checkerProxy' = Direct
    /\ UNCHANGED <<saved, releaseVars>>

\* The application ends; its objects are gone with it.
EndChecker ==
    /\ latest' = NoVersion /\ offered' = NoVersion
    /\ checkTimer' = FALSE
    /\ request' = NoRequest /\ checkerProxy' = Direct
    /\ UNCHANGED <<saved, releaseVars>>

\* setProxy: "Used starting from the next check"
SetProxy(route) ==
    /\ checkerProxy' = route
    /\ UNCHANGED <<checkTimer, request, latest, saved, offered, releaseVars>>

\* check, while the system is online or not; it does nothing if the previous
\* check is still in progress.
CheckOnlineOnly(online) ==   \* mutant
    /\ checkTimer
    /\ checkTimer' = FALSE
    /\ request' = IF request = NoRequest /\ online
                  THEN [route |-> checkerProxy, answer |-> Pending] ELSE request
    /\ UNCHANGED <<checkerProxy, latest, saved, offered, releaseVars>>
Check(online) ==
    /\ checkTimer
    /\ checkTimer' = (request = NoRequest /\ ~online)
    /\ request' = IF request = NoRequest /\ online
                  THEN [route |-> checkerProxy, answer |-> Pending] ELSE request
    /\ UNCHANGED <<checkerProxy, latest, saved, offered, releaseVars>>

\* The server reads the request; the answer is on its way.
ServerAnswers ==
    /\ request.answer = Pending
    /\ request' = [request EXCEPT !.answer = published]
    /\ UNCHANGED <<checkTimer, checkerProxy, latest, saved, offered, releaseVars>>

(***************************************************************************)
(* handleReplyFinish, by the way it returns                                *)
(***************************************************************************)
\* An error, a timeout after 30 seconds, or a reply that names no version
ReplyFails ==
    /\ request # NoRequest
    /\ request' = NoRequest /\ checkTimer' = TRUE
    /\ UNCHANGED <<checkerProxy, latest, saved, offered, releaseVars>>

\* A version, known or not.  setValue may fail to write the file.
OfferNewerOnly(version) ==   \* mutant
    /\ latest' = version
    /\ IF version = latest THEN UNCHANGED saved ELSE saved' \in {saved, version}
    /\ offered' = IF version > own THEN version ELSE offered
Learn(version) ==
    /\ latest' = version
    /\ IF version = latest THEN UNCHANGED <<saved, offered>>
       ELSE saved' \in {saved, version} /\ offered' = NewVersion(version)

ReplyArrives ==
    /\ request.answer \in Releases
    /\ request' = NoRequest /\ checkTimer' = TRUE
    /\ Learn(request.answer)
    /\ UNCHANGED <<checkerProxy, releaseVars>>

\* Another preference is saved, and the whole file with it.
SaveOther ==
    /\ saved' = latest
    /\ UNCHANGED <<checkTimer, request, checkerProxy, latest, offered, releaseVars>>

\* A release is published or withdrawn.
Publish(version) ==
    /\ published' = version
    /\ UNCHANGED <<checkerVars, own>>

\* The application is replaced by another version while it is not running.
Upgrade(version) ==
    /\ own' = version
    /\ UNCHANGED <<checkerVars, published>>

=============================================================================
