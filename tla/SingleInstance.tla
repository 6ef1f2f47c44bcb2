--------------------------- MODULE SingleInstance ---------------------------
(***************************************************************************)
(* How main keeps one instance of the application per user: an instance    *)
(* that is started asks the one behind the local socket to activate, or    *)
(* becomes the one itself.  "--shutdown" sends "quit" to the same socket.  *)
(* The socket is a file in a directory, as on Linux: it is left behind by  *)
(* an instance that crashed, and removed or replaced by anybody.           *)
(***************************************************************************)
EXTENDS Integers, FiniteSets

CONSTANTS
    Instances,          \* processes that are started without arguments
    Others,             \* other processes that connect to the socket
    NoInstance,
    MessageSizeMax      \* SingleInstanceMessageSizeMax, in parts of a message

ASSUME InstanceAssumption ==
    /\ Instances \cap Others = {} /\ NoInstance \notin Instances
    /\ MessageSizeMax \in Nat \ {0}

VARIABLES
    stage,          \* how far main of each instance got
    socketFile,     \* the instance that created it, NoInstance if there is none
    connection,     \* what each process wrote to the socket it connected to
    dialogShown,    \* instances that show their preferences
    raced           \* history: two instances found nobody at once, and some still run

vars == <<stage, socketFile, connection, dialogShown, raced>>

Senders == Instances \cup Others
Stages == {"off", "started", "sending", "alone", "cleared", "running", "quitting"}

\* Messages come in parts; a message of another program never ends.
Texts == {"activate", "quit", "other"}
Size(text) == IF text = "other" THEN MessageSizeMax + 1 ELSE MessageSizeMax

NoConnection == [to |-> NoInstance, text |-> "other", written |-> 0, closed |-> FALSE,
                 accepted |-> FALSE, read |-> 0]

TypeOK ==
    /\ stage \in [Instances -> Stages]
    /\ socketFile \in Instances \cup {NoInstance}
    /\ connection \in [Senders -> [to : Instances \cup {NoInstance}, text : Texts,
                                   written : 0..MessageSizeMax + 1, closed : BOOLEAN,
                                   accepted : BOOLEAN, read : 0..MessageSizeMax + 1]]
    /\ dialogShown \subseteq Instances
    /\ raced \in BOOLEAN

\* Between connectToServer, which found nobody, and listen()
IsAlone(instance) == stage[instance] \in {"alone", "cleared"}
IsListening(instance) == stage[instance] \in {"running", "quitting"}
CanConnect == socketFile # NoInstance /\ IsListening(socketFile)

\* raced is read by no action: nothing in main keeps starts from overlapping.
SomeRace == \E instance, other \in Instances :
                instance # other /\ IsAlone(instance) /\ IsAlone(other)
NoteRace == raced' = (SomeRace' \/ (raced /\ \E instance \in Instances : IsListening(instance)'))

-----------------------------------------------------------------------------
Init ==
    /\ stage = [instance \in Instances |-> "off"]
    /\ socketFile = NoInstance
    /\ connection = [sender \in Senders |-> NoConnection]
    /\ dialogShown = {}
    /\ raced = FALSE

Launch(instance) ==
    /\ stage[instance] = "off" /\ connection[instance] = NoConnection
    /\ stage' = [stage EXCEPT ![instance] = "started"]
    /\ UNCHANGED <<socketFile, connection, dialogShown, raced>>

Connected(text) == [NoConnection EXCEPT !.to = socketFile, !.text = text]

\* connectToServer of main: somebody listens, or not
RemoveAndListen(instance) ==   \* mutant
    /\ stage[instance] = "started"
    /\ stage' = [stage EXCEPT ![instance] = "alone"]
    /\ socketFile' = NoInstance
    /\ NoteRace
    /\ UNCHANGED <<connection, dialogShown>>
FindInstance(instance) ==
    /\ stage[instance] = "started"
    /\ IF CanConnect
       THEN /\ stage' = [stage EXCEPT ![instance] = "sending"]
            /\ connection' = [connection EXCEPT ![instance] = Connected("activate")]
       ELSE /\ stage' = [stage EXCEPT ![instance] = "alone"]
            /\ UNCHANGED connection
    /\ NoteRace
    /\ UNCHANGED <<socketFile, dialogShown>>

RemoveServer(instance) ==
    /\ stage[instance] = "alone"
    /\ stage' = [stage EXCEPT ![instance] = "cleared"]
    /\ socketFile' = NoInstance
    /\ UNCHANGED <<connection, dialogShown, raced>>

\* listen() replaces the file, which may have been created again.
Listen(instance) ==
    /\ stage[instance] = "cleared"
    /\ stage' = [stage EXCEPT ![instance] = "running"]
    /\ socketFile' = instance
    /\ NoteRace
    /\ UNCHANGED <<connection, dialogShown>>

ListenFails(instance) ==
    /\ stage[instance] = "cleared"
    /\ stage' = [stage EXCEPT ![instance] = "off"]
    /\ NoteRace
    /\ UNCHANGED <<socketFile, connection, dialogShown>>

-----------------------------------------------------------------------------
(* The sender *)

\* "--shutdown", or a process that is not an instance at all
ConnectOther(sender, text) ==
    /\ connection[sender] = NoConnection
    /\ CanConnect
    /\ connection' = [connection EXCEPT ![sender] = Connected(text)]
    /\ UNCHANGED <<stage, socketFile, dialogShown, raced>>

Write(sender) ==
    /\ connection[sender] # NoConnection /\ ~connection[sender].closed
    /\ connection[sender].written < Size(connection[sender].text)
    /\ connection' = [connection EXCEPT ![sender].written = @ + 1]
    /\ UNCHANGED <<stage, socketFile, dialogShown, raced>>

\* The sender closes when it has written its message, or ends before.
CloseConnection(sender) ==
    /\ connection[sender] # NoConnection /\ ~connection[sender].closed
    /\ connection' = [connection EXCEPT ![sender].closed = TRUE]
    /\ stage' = IF sender \in Instances THEN [stage EXCEPT ![sender] = "off"] ELSE stage
    /\ UNCHANGED <<socketFile, dialogShown, raced>>

\* A sender whose connection was closed by the other side ends all the same.
ConnectionIsLost(instance) ==
    /\ stage[instance] = "sending" /\ connection[instance] = NoConnection
    /\ stage' = [stage EXCEPT ![instance] = "off"]
    /\ UNCHANGED <<socketFile, connection, dialogShown, raced>>

-----------------------------------------------------------------------------
(* The running instance *)

\* handleMessage of a connection c; the socket is deleted.
IsComplete(c) == c.read = Size(c.text)

Obey(c, text) ==
    /\ dialogShown' = IF text = "activate" THEN dialogShown \cup {c.to} ELSE dialogShown
    /\ stage' = [stage EXCEPT ![c.to] = IF text = "quit" THEN "quitting" ELSE @]

HandleBeginning(sender, c) ==   \* mutant
    /\ connection' = [connection EXCEPT ![sender] = NoConnection]
    /\ Obey(c, IF c.read > 0 THEN c.text ELSE "other")
HandleMessage(sender, c) ==
    /\ connection' = [connection EXCEPT ![sender] = NoConnection]
    /\ Obey(c, IF IsComplete(c) THEN c.text ELSE "other")

\* readMessage aborts a message that is too long, which handles it as an empty one.
ReadOnce(c) ==   \* mutant
    IF c.written > MessageSizeMax THEN [c EXCEPT !.read = 0, !.closed = TRUE]
    ELSE [c EXCEPT !.read = IF @ = 0 THEN c.written ELSE @]
ReadMessage(c) ==
    IF c.written > MessageSizeMax THEN [c EXCEPT !.read = 0, !.closed = TRUE]
    ELSE [c EXCEPT !.read = c.written]

Serves(sender) ==
    /\ connection[sender].to # NoInstance
    /\ stage[connection[sender].to] = "running"

\* newConnection, readyRead and disconnected: what was written is read, and
\* handled once the sender disconnected.
ReadReady(sender) ==
    /\ Serves(sender)
    /\ LET c == ReadMessage([connection[sender] EXCEPT !.accepted = TRUE])
       IN  /\ c # connection[sender] \/ c.closed
           /\ IF c.closed THEN HandleMessage(sender, c)
              ELSE /\ connection' = [connection EXCEPT ![sender] = c]
                   /\ UNCHANGED <<stage, dialogShown>>
    /\ UNCHANGED <<socketFile, raced>>

\* "Sender did not disconnect in time": the event loop is not blocked for as
\* long as that after the sender did.
TimeoutOfWriters(sender) ==   \* mutant
    /\ Serves(sender) /\ connection[sender].read > 0 /\ ~connection[sender].closed
    /\ HandleMessage(sender, connection[sender])
    /\ UNCHANGED <<socketFile, raced>>
ReadTimeout(sender) ==
    /\ Serves(sender) /\ connection[sender].accepted /\ ~connection[sender].closed
    /\ HandleMessage(sender, connection[sender])
    /\ UNCHANGED <<socketFile, raced>>

WithoutConnectionsTo(instance) ==
    [sender \in Senders |->
        IF connection[sender].to = instance THEN NoConnection ELSE connection[sender]]

Ends(instance) ==
    /\ stage' = [stage EXCEPT ![instance] = "off"]
    /\ connection' = WithoutConnectionsTo(instance)
    /\ dialogShown' = dialogShown \ {instance}
    /\ NoteRace

\* Quit in the menu
Quit(instance) ==
    /\ stage[instance] = "running"
    /\ stage' = [stage EXCEPT ![instance] = "quitting"]
    /\ UNCHANGED <<socketFile, connection, dialogShown, raced>>

HideDialog(instance) ==
    /\ instance \in dialogShown
    /\ dialogShown' = dialogShown \ {instance}
    /\ UNCHANGED <<stage, socketFile, connection, raced>>

\* ~Shprot comes first, so the socket is open until ssh was stopped; then the
\* server removes its file, whoever created the one there is now.
Exit(instance) ==
    /\ stage[instance] = "quitting"
    /\ Ends(instance)
    /\ socketFile' = NoInstance

Crash(instance) ==
    /\ stage[instance] = "running"
    /\ Ends(instance)
    /\ UNCHANGED socketFile

-----------------------------------------------------------------------------
Next ==
    \/ \E instance \in Instances :
          \/ Launch(instance)
          \/ FindInstance(instance)
          \/ RemoveServer(instance)
          \/ Listen(instance)
          \/ ListenFails(instance)
          \/ ConnectionIsLost(instance)
          \/ HideDialog(instance)
          \/ Quit(instance)
          \/ Exit(instance)
          \/ Crash(instance)
    \/ \E sender \in Others, text \in {"quit", "other"} : ConnectOther(sender, text)
    \/ \E sender \in Senders :
          \/ Write(sender)
          \/ CloseConnection(sender)
          \/ ReadReady(sender)
          \/ ReadTimeout(sender)

Spec == Init /\ [][Next]_vars

\* The event loop of a running instance, its timer and the exit that was asked for
Fairness ==
    /\ \A sender \in Senders : WF_vars(ReadReady(sender)) /\ WF_vars(ReadTimeout(sender))
    /\ \A instance \in Instances : WF_vars(Exit(instance))

FairSpec == Spec /\ Fairness

-----------------------------------------------------------------------------
\* "Initialize single instance server to prevent other instances to start"
OneInstance == Cardinality({instance \in Instances : IsListening(instance)}) <= 1

\* The running instance is the one behind the socket, so that another start
\* and "--shutdown" find it, also after crashes that left the file behind;
\* unless two instances were between connectToServer and listen() at once, and
\* then until those that run have ended.
IsReachable ==
    ~raced => \A instance \in Instances : IsListening(instance) => socketFile = instance

\* An instance that runs is only asked to quit by a message received whole,
\* or by its user.
QuitsOnRequest ==
    [][\A sender \in Senders :
          (connection[sender] # NoConnection /\ connection'[sender] = NoConnection) =>
              LET to == connection[sender].to
              IN  (stage[to] = "running" /\ stage'[to] = "quitting") =>
                      /\ connection[sender].text = "quit"
                      /\ connection[sender].written = Size("quit")]_vars

\* A message that was written whole is obeyed by an instance that stays:
\* the preferences are shown, or the application quits.
MessageIsObeyed ==
    \A sender \in Senders, instance \in Instances :
        (/\ connection[sender].to = instance /\ connection[sender].text # "other"
         /\ connection[sender].closed /\ connection[sender].written = MessageSizeMax)
            ~> (instance \in dialogShown \/ ~IsListening(instance))

\* No connection stays open for ever, whatever its sender does.
ConnectionsEnd ==
    \A sender \in Others : connection[sender].accepted ~> ~connection[sender].accepted
=============================================================================
