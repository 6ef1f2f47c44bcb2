------------------------ MODULE SingleInstanceProofs ------------------------
(***************************************************************************)
(* Unless two instances found nobody at the same moment, an instance that  *)
(* runs owns the socket, so there is only one; and however starts overlap, *)
(* only a whole request or its user makes it quit; for any number of       *)
(* instances and of processes that connect, and messages of any size.      *)
(***************************************************************************)
EXTENDS SingleInstance, FiniteSetTheorems, TLAPS

-----------------------------------------------------------------------------
(* Types *)

ConnectionType == [to : Instances \cup {NoInstance}, text : Texts,
                   written : 0..MessageSizeMax + 1, closed : BOOLEAN,
                   accepted : BOOLEAN, read : 0..MessageSizeMax + 1]

LEMMA NothingIsConnected == NoConnection \in ConnectionType
  BY InstanceAssumption DEF NoConnection, ConnectionType, Texts

LEMMA ReadType ==
    ASSUME NEW c \in ConnectionType
    PROVE  ReadMessage(c) \in ConnectionType /\ ReadMessage(c).to = c.to
  <1>1. CASE c.written > MessageSizeMax
    <2>1. ReadMessage(c) = [c EXCEPT !.read = 0, !.closed = TRUE]
      BY <1>1 DEF ReadMessage
    <2>2. 0 \in 0..MessageSizeMax + 1
      BY InstanceAssumption
    <2>. QED  BY <2>1, <2>2 DEF ConnectionType
  <1>2. CASE ~(c.written > MessageSizeMax)
    <2>1. ReadMessage(c) = [c EXCEPT !.read = c.written]
      BY <1>2 DEF ReadMessage
    <2>. QED  BY <2>1 DEF ConnectionType
  <1>. QED  BY <1>1, <1>2

LEMMA InitType == Init => TypeOK
  BY NothingIsConnected DEF Init, TypeOK, ConnectionType, Stages

LEMMA HandleType ==
    ASSUME TypeOK, NEW sender \in Senders, NEW c \in ConnectionType,
           HandleMessage(sender, c), UNCHANGED <<socketFile, raced>>, c.to # NoInstance
    PROVE  TypeOK'
  <1>1. c.to \in Instances
    BY DEF ConnectionType
  <1>2. connection' \in [Senders -> ConnectionType]
    BY NothingIsConnected DEF HandleMessage, TypeOK, ConnectionType
  <1>3. stage' \in [Instances -> Stages] /\ dialogShown' \subseteq Instances
    BY <1>1 DEF HandleMessage, Obey, TypeOK, Stages
  <1>. QED  BY <1>2, <1>3 DEF TypeOK, ConnectionType

LEMMA StepType == TypeOK /\ [Next]_vars => TypeOK'
  <1>. SUFFICES ASSUME TypeOK, [Next]_vars PROVE TypeOK'
    OBVIOUS
  <1>0. connection \in [Senders -> ConnectionType]
    BY DEF TypeOK, ConnectionType
  <1>. USE DEF TypeOK
  <1>1. ASSUME NEW instance \in Instances, Launch(instance) PROVE TypeOK'
    BY <1>1 DEF Launch, Stages
  <1>2. ASSUME NEW instance \in Instances, FindInstance(instance) PROVE TypeOK'
    <2>1. Connected("activate") \in ConnectionType
      BY NothingIsConnected DEF Connected, ConnectionType, Texts
    <2>2. connection' \in [Senders -> ConnectionType]
      BY <1>0, <1>2, <2>1 DEF FindInstance, Senders
    <2>3. stage' \in [Instances -> Stages]
      BY <1>2 DEF FindInstance, Stages
    <2>. QED  BY <1>2, <2>2, <2>3 DEF FindInstance, NoteRace, ConnectionType
  <1>3. ASSUME NEW instance \in Instances, RemoveServer(instance) PROVE TypeOK'
    BY <1>3 DEF RemoveServer, Stages
  <1>4. ASSUME NEW instance \in Instances, Listen(instance) PROVE TypeOK'
    BY <1>4 DEF Listen, NoteRace, Stages
  <1>5. ASSUME NEW instance \in Instances,
               ListenFails(instance) \/ ConnectionIsLost(instance) PROVE TypeOK'
    BY <1>5 DEF ListenFails, ConnectionIsLost, NoteRace, Stages
  <1>6. ASSUME NEW instance \in Instances, HideDialog(instance) \/ Quit(instance)
        PROVE  TypeOK'
    BY <1>6 DEF HideDialog, Quit, Stages
  <1>7. ASSUME NEW instance \in Instances, Exit(instance) \/ Crash(instance) PROVE TypeOK'
    <2>1. Ends(instance) /\ socketFile' \in Instances \cup {NoInstance}
      BY <1>7 DEF Exit, Crash
    <2>2. connection' \in [Senders -> ConnectionType]
      BY <2>1, <1>0, NothingIsConnected DEF Ends, WithoutConnectionsTo
    <2>. QED  BY <2>1, <2>2 DEF Ends, NoteRace, Stages, ConnectionType
  <1>8. ASSUME NEW sender \in Others, NEW text \in {"quit", "other"},
               ConnectOther(sender, text) PROVE TypeOK'
    <2>1. Connected(text) \in ConnectionType
      BY NothingIsConnected DEF Connected, ConnectionType, Texts
    <2>2. connection' \in [Senders -> ConnectionType]
      BY <1>0, <1>8, <2>1 DEF ConnectOther, Senders
    <2>. QED  BY <1>8, <2>2 DEF ConnectOther, ConnectionType
  <1>9. ASSUME NEW sender \in Senders, Write(sender) PROVE TypeOK'
    BY <1>9, InstanceAssumption DEF Write, Size
  <1>10. ASSUME NEW sender \in Senders, CloseConnection(sender) PROVE TypeOK'
    BY <1>10 DEF CloseConnection, Stages
  <1>11. ASSUME NEW sender \in Senders, ReadReady(sender) PROVE TypeOK'
    <2>. DEFINE c == ReadMessage([connection[sender] EXCEPT !.accepted = TRUE])
    <2>1. c \in ConnectionType
      <3>1. [connection[sender] EXCEPT !.accepted = TRUE] \in ConnectionType
        BY <1>0 DEF ConnectionType
      <3>. QED  BY <3>1, ReadType
    <2>4. c.to # NoInstance
      <3>1. [connection[sender] EXCEPT !.accepted = TRUE].to = connection[sender].to
        BY <1>0 DEF ConnectionType
      <3>2. [connection[sender] EXCEPT !.accepted = TRUE] \in ConnectionType
        BY <1>0 DEF ConnectionType
      <3>. QED  BY <1>11, <3>1, <3>2, ReadType DEF ReadReady, Serves
    <2>2. CASE c.closed
      <3>1. HandleMessage(sender, c) /\ UNCHANGED <<socketFile, raced>>
        BY <1>11, <2>2 DEF ReadReady
      <3>. HIDE DEF c
      <3>. QED  BY <2>1, <2>4, <3>1, HandleType
    <2>3. CASE ~c.closed
      BY <1>11, <2>1, <2>3 DEF ReadReady, ConnectionType
    <2>. QED  BY <2>2, <2>3
  <1>12. ASSUME NEW sender \in Senders, ReadTimeout(sender) PROVE TypeOK'
    <2>1. connection[sender] \in ConnectionType /\ connection[sender].to # NoInstance
      BY <1>0, <1>12 DEF ReadTimeout, Serves
    <2>2. HandleMessage(sender, connection[sender]) /\ UNCHANGED <<socketFile, raced>>
      BY <1>12 DEF ReadTimeout
    <2>. QED  BY <2>1, <2>2, HandleType
  <1>13. CASE UNCHANGED vars
    BY <1>13 DEF vars
  <1>. QED
    BY <1>1, <1>2, <1>3, <1>4, <1>5, <1>6, <1>7, <1>8, <1>9, <1>10, <1>11, <1>12, <1>13
       DEF Next

-----------------------------------------------------------------------------
(* The socket *)

\* Without a race there is one instance between connectToServer and listen(),
\* and it found nobody: nobody listens.
StartsAlone ==
    ~raced =>
        \A instance, other \in Instances :
            IsAlone(instance) => ~IsListening(other) /\ (IsAlone(other) => instance = other)

SocketInv == TypeOK /\ StartsAlone /\ IsReachable

LEMMA InitSocket == Init => SocketInv
  BY InitType DEF Init, SocketInv, StartsAlone, IsReachable, IsAlone, IsListening

\* A race is noted when it occurs, and forgotten when nobody listens any more.
LEMMA NotedStep ==
    ASSUME TypeOK, TypeOK', NoteRace,
           ~raced => \A instance, other \in Instances :
                        /\ IsListening(instance)' => socketFile' = instance
                        /\ IsAlone(instance)' => ~IsListening(other)'
    PROVE  SocketInv'
  <1>1. CASE raced'
    BY <1>1 DEF SocketInv, StartsAlone, IsReachable
  <1>2. CASE ~raced'
    <2>1. \A instance, other \in Instances :
             IsAlone(instance)' /\ IsAlone(other)' => instance = other
      BY <1>2 DEF NoteRace, SomeRace
    <2>2. ~raced \/ \A instance \in Instances : ~IsListening(instance)'
      BY <1>2 DEF NoteRace
    <2>. QED  BY <2>1, <2>2 DEF SocketInv, StartsAlone, IsReachable
  <1>. QED  BY <1>1, <1>2

\* No instance begins to listen, or finds that nobody does.
CalmStages ==
    \A instance \in Instances :
        \/ stage'[instance] = stage[instance]
        \/ stage'[instance] \in {"off", "started", "sending"}
        \/ IsListening(instance) /\ stage'[instance] = "quitting"

LEMMA CalmStep ==
    ASSUME SocketInv, TypeOK', CalmStages, UNCHANGED socketFile,
           UNCHANGED raced \/ NoteRace
    PROVE  SocketInv'
  <1>1. \A instance \in Instances :
            /\ IsListening(instance)' => IsListening(instance)
            /\ IsAlone(instance)' => IsAlone(instance)
    BY DEF CalmStages, IsAlone, IsListening
  <1>2. CASE UNCHANGED raced
    BY <1>1, <1>2 DEF SocketInv, StartsAlone, IsReachable
  <1>3. CASE NoteRace
    <2>1. ~raced => \A instance, other \in Instances :
                       /\ IsListening(instance)' => socketFile' = instance
                       /\ IsAlone(instance)' => ~IsListening(other)'
      BY <1>1 DEF SocketInv, StartsAlone, IsReachable
    <2>. QED  BY <1>3, <2>1, NotedStep DEF SocketInv
  <1>. QED  BY <1>2, <1>3

LEMMA HandleIsCalm ==
    ASSUME TypeOK, NEW sender \in Senders, NEW c, HandleMessage(sender, c),
           c.to \in Instances, stage[c.to] = "running"
    PROVE  CalmStages
  BY DEF HandleMessage, Obey, TypeOK, IsListening, CalmStages

LEMMA StepSocket == SocketInv /\ [Next]_vars => SocketInv'
  <1>. SUFFICES ASSUME SocketInv, [Next]_vars PROVE SocketInv'
    OBVIOUS
  <1>0. TypeOK /\ TypeOK'
    BY StepType DEF SocketInv
  <1>1. ASSUME NEW instance \in Instances,
               \/ Launch(instance) \/ ListenFails(instance) \/ ConnectionIsLost(instance)
               \/ HideDialog(instance) \/ Quit(instance) \/ Crash(instance)
        PROVE  SocketInv'
    <2>1. UNCHANGED socketFile /\ (UNCHANGED raced \/ NoteRace)
      BY <1>1 DEF Launch, ListenFails, ConnectionIsLost, HideDialog, Quit, Crash, Ends
    <2>2. CalmStages
      BY <1>0, <1>1 DEF Launch, ListenFails, ConnectionIsLost, HideDialog, Quit, Crash, Ends,
                        TypeOK, IsListening, CalmStages
    <2>. QED  BY <1>0, <2>1, <2>2, CalmStep
  <1>2. ASSUME NEW instance \in Instances, FindInstance(instance) PROVE SocketInv'
    <2>1. CASE CanConnect
      <3>1. CalmStages
        BY <1>0, <1>2, <2>1 DEF FindInstance, TypeOK, CalmStages
      <3>. QED  BY <1>0, <1>2, <3>1, CalmStep DEF FindInstance
    <2>2. CASE ~CanConnect
      <3>1. ~raced => \A other \in Instances : ~IsListening(other)
        BY <2>2, InstanceAssumption DEF CanConnect, SocketInv, IsReachable
      <3>2. \A other \in Instances : IsListening(other)' => IsListening(other)
        BY <1>0, <1>2, <2>2 DEF FindInstance, TypeOK, IsListening
      <3>. QED  BY <1>0, <1>2, <3>1, <3>2, NotedStep DEF FindInstance
    <2>. QED  BY <2>1, <2>2
  <1>3. ASSUME NEW instance \in Instances, RemoveServer(instance) PROVE SocketInv'
    <2>1. \A other \in Instances :
             (IsListening(other)' <=> IsListening(other)) /\ (IsAlone(other)' <=> IsAlone(other))
      BY <1>0, <1>3 DEF RemoveServer, TypeOK, IsListening, IsAlone
    <2>2. IsAlone(instance) /\ UNCHANGED raced
      BY <1>3 DEF RemoveServer, IsAlone
    <2>. QED  BY <1>0, <2>1, <2>2 DEF SocketInv, StartsAlone, IsReachable
  <1>4. ASSUME NEW instance \in Instances, Listen(instance) PROVE SocketInv'
    <2>1. IsAlone(instance) /\ socketFile' = instance /\ NoteRace
      BY <1>4 DEF Listen, IsAlone
    <2>2. \A other \in Instances :
             /\ IsListening(other)' => other = instance \/ IsListening(other)
             /\ IsAlone(other)' => other # instance /\ IsAlone(other)
      BY <1>0, <1>4 DEF Listen, TypeOK, IsListening, IsAlone
    <2>3. ~raced => \A other \in Instances :
                       ~IsListening(other) /\ (IsAlone(other) => other = instance)
      BY <2>1 DEF SocketInv, StartsAlone
    <2>. QED  BY <1>0, <2>1, <2>2, <2>3, NotedStep
  <1>5. ASSUME NEW instance \in Instances, Exit(instance) PROVE SocketInv'
    <2>1. ~raced => \A other \in Instances : IsListening(other) => other = instance
      BY <1>5 DEF Exit, SocketInv, IsReachable, IsListening
    <2>2. \A other \in Instances : IsListening(other)' => other # instance /\ IsListening(other)
      BY <1>0, <1>5 DEF Exit, Ends, TypeOK, IsListening
    <2>. QED  BY <1>0, <1>5, <2>1, <2>2, NotedStep DEF Exit, Ends
  <1>6. ASSUME NEW sender \in Others, NEW text \in {"quit", "other"},
               ConnectOther(sender, text) PROVE SocketInv'
    BY <1>0, <1>6, CalmStep DEF ConnectOther, CalmStages
  <1>7. ASSUME NEW sender \in Senders, Write(sender) PROVE SocketInv'
    BY <1>0, <1>7, CalmStep DEF Write, CalmStages
  <1>8. ASSUME NEW sender \in Senders, CloseConnection(sender) PROVE SocketInv'
    <2>1. CalmStages
      BY <1>0, <1>8 DEF CloseConnection, TypeOK, CalmStages
    <2>. QED  BY <1>0, <1>8, <2>1, CalmStep DEF CloseConnection
  <1>9. ASSUME NEW sender \in Senders, ReadReady(sender) PROVE SocketInv'
    <2>1. PICK c : /\ c = ReadMessage([connection[sender] EXCEPT !.accepted = TRUE])
                   /\ UNCHANGED stage \/ HandleMessage(sender, c)
      BY <1>9 DEF ReadReady
    <2>2. c.to = connection[sender].to
      <3>. DEFINE d == [connection[sender] EXCEPT !.accepted = TRUE]
      <3>1. d \in ConnectionType /\ d.to = connection[sender].to
        BY <1>0 DEF TypeOK, ConnectionType
      <3>. HIDE DEF d
      <3>. QED  BY <2>1, <3>1, ReadType DEF d
    <2>3. c.to \in Instances /\ stage[c.to] = "running"
      BY <1>0, <1>9, <2>2 DEF ReadReady, Serves, TypeOK
    <2>4. CalmStages
      BY <1>0, <2>1, <2>3, HandleIsCalm DEF CalmStages
    <2>. QED  BY <1>0, <1>9, <2>4, CalmStep DEF ReadReady
  <1>10. ASSUME NEW sender \in Senders, ReadTimeout(sender) PROVE SocketInv'
    <2>1. connection[sender].to \in Instances /\ stage[connection[sender].to] = "running"
      BY <1>0, <1>10 DEF ReadTimeout, Serves, TypeOK
    <2>2. CalmStages
      BY <1>0, <1>10, <2>1, HandleIsCalm DEF ReadTimeout
    <2>. QED  BY <1>0, <1>10, <2>2, CalmStep DEF ReadTimeout
  <1>11. CASE UNCHANGED vars
    BY <1>0, <1>11, CalmStep DEF vars, CalmStages
  <1>. QED
    BY <1>1, <1>2, <1>3, <1>4, <1>5, <1>6, <1>7, <1>8, <1>9, <1>10, <1>11 DEF Next

-----------------------------------------------------------------------------
LEMMA SocketInvariance == Spec => []SocketInv
  BY InitSocket, StepSocket, PTL DEF Spec

\* A running instance is the one that is reached through the socket, whatever
\* crashes left behind and however starts overlap, unless two instances were
\* between connectToServer and listen() at once and one of those that followed
\* still runs.
THEOREM RunningIsReachable == Spec => []IsReachable
  BY SocketInvariance, PTL DEF SocketInv

\* One that is reachable is the only one.
LEMMA ReachableIsOne == IsReachable => (~raced => OneInstance)
  <1>. SUFFICES ASSUME IsReachable, ~raced PROVE OneInstance
    OBVIOUS
  <1>. DEFINE L == {instance \in Instances : IsListening(instance)}
  <1>1. L \subseteq {socketFile}
    BY DEF IsReachable
  <1>2. IsFiniteSet({socketFile}) /\ Cardinality({socketFile}) = 1
    BY FS_Singleton
  <1>3. Cardinality(L) <= Cardinality({socketFile})
    BY <1>1, <1>2, FS_Subset
  <1>. QED  BY <1>2, <1>3 DEF OneInstance

\* "Initialize single instance server to prevent other instances to start":
\* two instances only run after both found nobody before either listened.
THEOREM OnlyOneRuns == Spec => [](~raced => OneInstance)
  BY RunningIsReachable, ReachableIsOne, PTL

-----------------------------------------------------------------------------
(* Messages *)

\* Nothing is read before it is written, and nothing follows a message.
InParts(c) == c.read <= c.written /\ c.written <= Size(c.text)

PartsInv == TypeOK /\ \A sender \in Senders : InParts(connection[sender])

LEMMA NothingIsWritten ==
    ASSUME NEW text \in Texts PROVE InParts(NoConnection) /\ InParts(Connected(text))
  <1>1. Size(text) \in Nat /\ Size("other") \in Nat
    BY InstanceAssumption DEF Size
  <1>. QED  BY <1>1 DEF InParts, NoConnection, Connected

LEMMA ReadInParts ==
    ASSUME NEW c \in ConnectionType, InParts(c) PROVE InParts(ReadMessage(c))
  <1>1. c.written \in Nat /\ MessageSizeMax \in Nat
    BY InstanceAssumption DEF ConnectionType
  <1>2. CASE c.written > MessageSizeMax
    <2>. DEFINE d == [c EXCEPT !.read = 0, !.closed = TRUE]
    <2>1. d.read = 0 /\ d.written = c.written /\ d.text = c.text
      BY DEF ConnectionType
    <2>. QED  BY <1>1, <1>2, <2>1 DEF InParts, ReadMessage
  <1>3. CASE ~(c.written > MessageSizeMax)
    <2>. DEFINE d == [c EXCEPT !.read = c.written]
    <2>1. d.read = c.written /\ d.written = c.written /\ d.text = c.text
      BY DEF ConnectionType
    <2>. QED  BY <1>1, <1>3, <2>1 DEF InParts, ReadMessage
  <1>. QED  BY <1>2, <1>3

LEMMA StepParts == PartsInv /\ [Next]_vars => PartsInv'
  <1>. SUFFICES ASSUME PartsInv, [Next]_vars PROVE PartsInv'
    OBVIOUS
  <1>1. connection \in [Senders -> ConnectionType] /\ TypeOK'
    BY StepType DEF PartsInv, TypeOK, ConnectionType
  <1>2. \A sender \in Senders : InParts(connection[sender])
    BY DEF PartsInv
  <1>. SUFFICES \A sender \in Senders : InParts(connection'[sender])
    BY <1>1 DEF PartsInv, InParts
  <1>3. ASSUME UNCHANGED connection PROVE \A sender \in Senders : InParts(connection'[sender])
    BY <1>2, <1>3
  <1>4. ASSUME NEW sender \in Senders, NEW c, InParts(c),
               connection' = [connection EXCEPT ![sender] = c]
        PROVE  \A other \in Senders : InParts(connection'[other])
    <2>1. /\ connection'[sender] = c
          /\ \A other \in Senders \ {sender} : connection'[other] = connection[other]
      BY <1>1, <1>4
    <2>. QED  BY <1>2, <1>4, <2>1
  <1>5. ASSUME NEW instance \in Instances, FindInstance(instance)
        PROVE  \A sender \in Senders : InParts(connection'[sender])
    <2>1. instance \in Senders /\ InParts(Connected("activate"))
      BY NothingIsWritten DEF Senders, Texts
    <2>. QED  BY <1>3, <1>4, <1>5, <2>1 DEF FindInstance
  <1>6. ASSUME NEW instance \in Instances, Exit(instance) \/ Crash(instance)
        PROVE  \A sender \in Senders : InParts(connection'[sender])
    <2>1. connection' = WithoutConnectionsTo(instance)
      BY <1>6 DEF Exit, Crash, Ends
    <2>2. \A sender \in Senders :
              connection'[sender] = NoConnection \/ connection'[sender] = connection[sender]
      BY <2>1 DEF WithoutConnectionsTo
    <2>3. InParts(NoConnection)
      BY NothingIsWritten DEF Texts
    <2>. QED  BY <1>2, <2>2, <2>3
  <1>7. ASSUME NEW sender \in Others, NEW text \in {"quit", "other"}, ConnectOther(sender, text)
        PROVE  \A other \in Senders : InParts(connection'[other])
    <2>1. sender \in Senders /\ InParts(Connected(text))
      BY NothingIsWritten DEF Senders, Texts
    <2>. QED  BY <1>4, <1>7, <2>1 DEF ConnectOther
  <1>8. ASSUME NEW sender \in Senders, Write(sender)
        PROVE  \A other \in Senders : InParts(connection'[other])
    <2>. DEFINE c == connection[sender]
                d == [c EXCEPT !.written = @ + 1]
    <2>1. c \in ConnectionType /\ InParts(c) /\ c.written < Size(c.text)
      BY <1>1, <1>2, <1>8 DEF Write
    <2>2. d.read = c.read /\ d.written = c.written + 1 /\ d.text = c.text
      BY <2>1 DEF ConnectionType
    <2>3. c.read \in Nat /\ c.written \in Nat /\ Size(c.text) \in Nat
      BY <2>1, InstanceAssumption DEF ConnectionType, Size
    <2>4. InParts(d)
      BY <2>1, <2>2, <2>3 DEF InParts
    <2>. QED  BY <1>4, <1>8, <2>4 DEF Write
  <1>9. ASSUME NEW sender \in Senders, CloseConnection(sender)
        PROVE  \A other \in Senders : InParts(connection'[other])
    <2>. DEFINE c == connection[sender]
                d == [c EXCEPT !.closed = TRUE]
    <2>1. d.read = c.read /\ d.written = c.written /\ d.text = c.text
      BY <1>1 DEF ConnectionType
    <2>2. InParts(d)
      BY <1>2, <2>1 DEF InParts
    <2>. QED  BY <1>4, <1>9, <2>2 DEF CloseConnection
  <1>10. ASSUME NEW sender \in Senders, ReadReady(sender)
         PROVE  \A other \in Senders : InParts(connection'[other])
    <2>. DEFINE c == connection[sender]
                d == [c EXCEPT !.accepted = TRUE]
    <2>1. d \in ConnectionType /\ d.read = c.read /\ d.written = c.written /\ d.text = c.text
      BY <1>1 DEF ConnectionType
    <2>2. InParts(d)
      BY <1>2, <2>1 DEF InParts
    <2>3. InParts(ReadMessage(d)) /\ InParts(NoConnection)
      BY <2>1, <2>2, ReadInParts, NothingIsWritten DEF Texts
    <2>4. \/ connection' = [connection EXCEPT ![sender] = NoConnection]
          \/ connection' = [connection EXCEPT ![sender] = ReadMessage(d)]
      BY <1>10 DEF ReadReady, HandleMessage
    <2>. QED  BY <1>4, <2>3, <2>4
  <1>11. ASSUME NEW sender \in Senders, ReadTimeout(sender)
         PROVE  \A other \in Senders : InParts(connection'[other])
    <2>1. InParts(NoConnection)
      BY NothingIsWritten DEF Texts
    <2>. QED  BY <1>4, <1>11, <2>1 DEF ReadTimeout, HandleMessage
  <1>12. CASE UNCHANGED vars
    BY <1>3, <1>12 DEF vars
  <1>13. ASSUME NEW instance \in Instances,
                \/ Launch(instance) \/ RemoveServer(instance) \/ Listen(instance)
                \/ ListenFails(instance) \/ ConnectionIsLost(instance)
                \/ HideDialog(instance) \/ Quit(instance)
         PROVE  \A sender \in Senders : InParts(connection'[sender])
    BY <1>3, <1>13 DEF Launch, RemoveServer, Listen, ListenFails, ConnectionIsLost, HideDialog, Quit
  <1>. QED
    BY <1>5, <1>6, <1>7, <1>8, <1>9, <1>10, <1>11, <1>12, <1>13 DEF Next

\* What handleMessage quits for was read, so it was written, and is whole.
LEMMA HandledWhole ==
    ASSUME TypeOK, NEW sender \in Senders, NEW c \in ConnectionType, InParts(c),
           HandleMessage(sender, c), c.to = connection[sender].to,
           c.text = connection[sender].text, c.written = connection[sender].written,
           NEW other \in Senders,
           connection[other] # NoConnection, connection'[other] = NoConnection,
           stage[connection[other].to] = "running", stage'[connection[other].to] = "quitting"
    PROVE  connection[other].text = "quit" /\ connection[other].written = Size("quit")
  <1>1. other = sender
    BY DEF HandleMessage, TypeOK
  <1>2. IsComplete(c) /\ c.text = "quit"
    <2>1. stage' = [stage EXCEPT ![c.to] =
                        IF (IF IsComplete(c) THEN c.text ELSE "other") = "quit" THEN "quitting"
                        ELSE @]
      BY DEF HandleMessage, Obey
    <2>. QED  BY <1>1, <2>1 DEF TypeOK
  <1>3. c.read = Size("quit") /\ c.written <= Size("quit") /\ c.read <= c.written
    BY <1>2 DEF IsComplete, InParts
  <1>4. c.written \in Nat /\ Size("quit") \in Nat
    BY InstanceAssumption DEF ConnectionType, Size
  <1>. QED  BY <1>1, <1>2, <1>3, <1>4

\* An instance that runs is only asked to quit by a message received whole, or
\* by its user, however messages are cut, delayed or too long (readMessage,
\* handleMessage, the timer of newConnection).
THEOREM OnlyRequestsEnd == Spec => QuitsOnRequest
  <1>1. Init => PartsInv
    BY InitType, NothingIsWritten DEF Init, PartsInv, Texts
  <1>2. ASSUME PartsInv, Next, NEW other \in Senders,
               connection[other] # NoConnection, connection'[other] = NoConnection,
               stage[connection[other].to] = "running", stage'[connection[other].to] = "quitting"
        PROVE  connection[other].text = "quit" /\ connection[other].written = Size("quit")
    <2>1. TypeOK /\ connection \in [Senders -> ConnectionType]
      BY <1>2 DEF PartsInv, TypeOK, ConnectionType
    <2>2. connection' # connection /\ stage' # stage
      BY <1>2
    <2>3. PICK sender \in Senders : ReadReady(sender) \/ ReadTimeout(sender)
      <3>1. ASSUME NEW instance \in Instances, FindInstance(instance) PROVE FALSE
        <4>1. instance \in Senders /\ Connected("activate") # NoConnection
          BY DEF Senders, Connected, NoConnection
        <4>2. connection' = [connection EXCEPT ![instance] = Connected("activate")]
          BY <2>2, <3>1 DEF FindInstance
        <4>. QED  BY <1>2, <2>1, <4>1, <4>2
      <3>2. ASSUME NEW instance \in Instances, Exit(instance) \/ Crash(instance) PROVE FALSE
        <4>1. /\ connection' = WithoutConnectionsTo(instance)
              /\ stage' = [stage EXCEPT ![instance] = "off"]
          BY <3>2 DEF Exit, Crash, Ends
        <4>2. connection[other].to = instance
          BY <1>2, <4>1 DEF WithoutConnectionsTo
        <4>. QED  BY <1>2, <2>1, <4>1, <4>2 DEF TypeOK
      <3>3. ASSUME NEW sender \in Senders, CloseConnection(sender) PROVE FALSE
        BY <1>2, <2>1, <3>3 DEF CloseConnection, TypeOK
      <3>4. ASSUME NEW sender \in Senders, Write(sender) PROVE FALSE
        BY <2>2, <3>4 DEF Write
      <3>5. ASSUME NEW sender \in Others, NEW text \in {"quit", "other"}, ConnectOther(sender, text)
            PROVE  FALSE
        BY <2>2, <3>5 DEF ConnectOther
      <3>6. ASSUME NEW instance \in Instances,
                   \/ Launch(instance) \/ RemoveServer(instance) \/ Listen(instance)
                   \/ ListenFails(instance) \/ ConnectionIsLost(instance)
                   \/ HideDialog(instance) \/ Quit(instance)
            PROVE  FALSE
        BY <2>2, <3>6
           DEF Launch, RemoveServer, Listen, ListenFails, ConnectionIsLost, HideDialog, Quit
      <3>. QED  BY <1>2, <3>1, <3>2, <3>3, <3>4, <3>5, <3>6 DEF Next
    <2>4. CASE ReadTimeout(sender)
      <3>1. HandleMessage(sender, connection[sender]) /\ InParts(connection[sender])
        BY <1>2, <2>4 DEF ReadTimeout, PartsInv
      <3>. QED  BY <1>2, <2>1, <3>1, HandledWhole
    <2>5. CASE ReadReady(sender)
      <3>. DEFINE c == connection[sender]
                  d == [c EXCEPT !.accepted = TRUE]
                  e == ReadMessage(d)
      <3>1. /\ d \in ConnectionType /\ d.to = c.to /\ d.read = c.read
            /\ d.written = c.written /\ d.text = c.text
        BY <2>1 DEF ConnectionType
      <3>2. InParts(d)
        BY <1>2, <3>1 DEF InParts, PartsInv
      <3>. HIDE DEF d
      <3>3. e \in ConnectionType /\ e.to = c.to /\ InParts(e)
        BY <3>1, <3>2, ReadType, ReadInParts
      <3>4. e.written = c.written /\ e.text = c.text
        BY <3>1 DEF ReadMessage, ConnectionType
      <3>5. HandleMessage(sender, e)
        BY <2>2, <2>5 DEF ReadReady, d
      <3>. HIDE DEF e
      <3>. QED  BY <1>2, <2>1, <3>3, <3>4, <3>5, HandledWhole
    <2>. QED  BY <2>3, <2>4, <2>5
  <1>3. PartsInv /\ [Next]_vars => [\A sender \in Senders :
          (connection[sender] # NoConnection /\ connection'[sender] = NoConnection) =>
              LET to == connection[sender].to
              IN  (stage[to] = "running" /\ stage'[to] = "quitting") =>
                      /\ connection[sender].text = "quit"
                      /\ connection[sender].written = Size("quit")]_vars
    BY <1>2 DEF vars
  <1>. QED  BY <1>1, <1>3, StepParts, PTL DEF Spec, QuitsOnRequest
=============================================================================
