----------------------- MODULE HttpProxyStreamProofs -----------------------
(***************************************************************************)
(* A connection of the HTTP proxy never stalls, buffers a limited amount   *)
(* and implements ProxiedExchange, for all requests, numbers of units and  *)
(* sizes.                                                                  *)
(***************************************************************************)
EXTENDS HttpProxyStream, SequenceTheorems, TLAPS

-----------------------------------------------------------------------------
(* Sequences of units *)

LEMMA UnitsType ==
    ASSUME NEW first \in Nat, NEW last \in Nat, first <= last + 1
    PROVE  Units(first, last) \in Seq(Nat) /\ Len(Units(first, last)) = last - first + 1
  BY DEF Units

LEMMA NoUnits ==
    ASSUME NEW first \in Nat, NEW last \in Nat, last < first
    PROVE  Units(first, last) = <<>>
  BY DEF Units

\* What is sent later continues what was sent before.
LEMMA UnitsJoin ==
    ASSUME NEW a \in Nat, NEW b \in Nat, NEW c \in Nat, a <= b + 1, b <= c
    PROVE  Units(a, b) \o Units(b + 1, c) = Units(a, c)
  <1>. DEFINE s == Units(a, b)
              t == Units(b + 1, c)
              u == Units(a, c)
  <1>1. /\ s \in Seq(Nat) /\ Len(s) = b - a + 1
        /\ t \in Seq(Nat) /\ Len(t) = c - b
        /\ u \in Seq(Nat) /\ Len(u) = c - a + 1
    <2>1. s \in Seq(Nat) /\ Len(s) = b - a + 1
      BY UnitsType
    <2>2. b + 1 \in Nat /\ b + 1 <= c + 1 /\ c - (b + 1) + 1 = c - b
      OBVIOUS
    <2>3. t \in Seq(Nat) /\ Len(t) = c - (b + 1) + 1
      BY <2>2, UnitsType
    <2>4. u \in Seq(Nat) /\ Len(u) = c - a + 1
      BY UnitsType
    <2>. QED  BY <2>1, <2>2, <2>3, <2>4
  <1>2. /\ s \o t \in Seq(Nat) /\ Len(s \o t) = Len(u)
        /\ \A i \in 1..Len(u) : (s \o t)[i] = IF i <= Len(s) THEN s[i] ELSE t[i - Len(s)]
    <2>. HIDE DEF s, t, u
    <2>. QED  BY <1>1, ConcatProperties
  <1>3. \A i \in 1..Len(u) : (s \o t)[i] = u[i]
    BY <1>1, <1>2 DEF Units
  <1>. HIDE DEF s, t, u
  <1>4. s \o t = u
    BY <1>1, <1>2, <1>3, SeqEqual
  <1>. QED  BY <1>4 DEF s, t, u

LEMMA Joined ==
    ASSUME NEW x \in Seq(Nat), NEW y \in Seq(Nat)
    PROVE  x \o y \in Seq(Nat)
  OBVIOUS

LEMMA Associated ==
    ASSUME NEW x \in Seq(Nat), NEW y \in Seq(Nat), NEW z \in Seq(Nat)
    PROVE  x \o (y \o z) = (x \o y) \o z
  BY ConcatAssociative

LEMMA UnitsAppended ==
    ASSUME NEW m \in Nat, NEW n \in Nat, m <= n
    PROVE  /\ Units(1, m) \in Seq(Nat) /\ Len(Units(1, m)) = m
           /\ Units(m + 1, n) \in Seq(Nat) /\ Len(Units(m + 1, n)) = n - m
           /\ Units(1, m) \o Units(m + 1, n) = Units(1, n)
  <1>1. /\ 1 \in Nat /\ 1 <= m + 1 /\ m - 1 + 1 = m
        /\ m + 1 \in Nat /\ m + 1 <= n + 1 /\ n - (m + 1) + 1 = n - m
    OBVIOUS
  <1>2. Units(1, m) \in Seq(Nat) /\ Len(Units(1, m)) = m
    BY <1>1, UnitsType
  <1>3. Units(m + 1, n) \in Seq(Nat) /\ Len(Units(m + 1, n)) = n - m
    BY <1>1, UnitsType
  <1>4. Units(1, m) \o Units(m + 1, n) = Units(1, n)
    BY <1>1, UnitsJoin
  <1>. QED  BY <1>2, <1>3, <1>4

\* Cutting a sequence loses nothing of it.
LEMMA Cut ==
    ASSUME NEW s \in Seq(Nat), NEW n \in 0..Len(s)
    PROVE  /\ First(n, s) \in Seq(Nat) /\ Len(First(n, s)) = n
           /\ Rest(n, s) \in Seq(Nat) /\ Len(Rest(n, s)) = Len(s) - n
           /\ First(n, s) \o Rest(n, s) = s
  <1>1. Len(s) \in Nat /\ SubSeq(s, 1, Len(s)) = s
    BY LenProperties, SubSeqFull
  <1>2. SubSeq(s, 1, n) \o SubSeq(s, n + 1, Len(s)) = SubSeq(s, 1, Len(s))
    <2>1. 1 \in 1..Len(s) + 1 /\ n \in 1 - 1..Len(s) /\ Len(s) \in n..Len(s)
      BY <1>1
    <2>. QED  BY <2>1, ConcatAdjacentSubSeq
  <1>3. First(n, s) \in Seq(Nat) /\ Len(First(n, s)) = n
    BY <1>1 DEF First
  <1>4. Rest(n, s) \in Seq(Nat) /\ Len(Rest(n, s)) = Len(s) - n
    <2>1. \A i \in n + 1..Len(s) : s[i] \in Nat
      BY <1>1, ElementOfSeq
    <2>2. n + 1 \in Int /\ Len(s) \in Int
      BY <1>1
    <2>. HIDE DEF Rest
    <2>3. /\ SubSeq(s, n + 1, Len(s)) \in Seq(Nat)
          /\ Len(SubSeq(s, n + 1, Len(s))) = IF n + 1 <= Len(s) THEN Len(s) - (n + 1) + 1 ELSE 0
      BY <2>1, <2>2, SubSeqProperties
    <2>. DEFINE t == SubSeq(s, n + 1, Len(s))
                len == Len(s)
    <2>4. t \in Seq(Nat) /\ Len(t) = IF n + 1 <= len THEN len - (n + 1) + 1 ELSE 0
      BY <2>3
    <2>5. Rest(n, s) = t /\ len \in Nat /\ n \in 0..len
      BY <1>1 DEF Rest
    <2>. HIDE DEF t, len
    <2>6. Len(t) = len - n
      BY <2>4, <2>5
    <2>. QED  BY <2>4, <2>5, <2>6 DEF len
  <1>. QED  BY <1>1, <1>2, <1>3, <1>4 DEF First, Rest

LEMMA CutNothing ==
    ASSUME NEW s \in Seq(Nat), NEW t \in Seq(Nat)
    PROVE  Rest(0, s) = s /\ t \o First(0, s) = t
  BY DEF Rest, First

LEMMA RestOfUnits ==
    ASSUME NEW n \in Nat, NEW h \in 0..n
    PROVE  Rest(h, Units(1, n)) = Units(h + 1, n)
  <1>1. Units(1, n) \in Seq(Nat) /\ Len(Units(1, n)) = n
    BY UnitsType
  <1>2. Rest(h, Units(1, n)) \in Seq(Nat) /\ Len(Rest(h, Units(1, n))) = n - h
    BY <1>1, Cut
  <1>3. Units(h + 1, n) \in Seq(Nat) /\ Len(Units(h + 1, n)) = n - h
    <2>1. h + 1 \in Nat /\ h + 1 <= n + 1 /\ n - (h + 1) + 1 = n - h
      OBVIOUS
    <2>. QED  BY <2>1, UnitsType
  <1>4. \A i \in 1..n - h : Rest(h, Units(1, n))[i] = Units(h + 1, n)[i]
    BY <1>1 DEF Rest, Units
  <1>. QED  BY <1>2, <1>3, <1>4, SeqEqual

\* A part that was forwarded is followed by the rest as before.
LEMMA MoveOn ==
    ASSUME NEW written \in Seq(Nat), NEW read \in Seq(Nat), NEW n \in 0..Len(read)
    PROVE  (written \o First(n, read)) \o Rest(n, read) = written \o read
  <1>. DEFINE f == First(n, read)
              r == Rest(n, read)
  <1>1. f \in Seq(Nat) /\ r \in Seq(Nat)
    BY Cut
  <1>2. f \o r = read
    BY Cut
  <1>. HIDE DEF f, r
  <1>3. (written \o f) \o r = written \o (f \o r)
    BY <1>1, ConcatAssociative
  <1>. QED  BY <1>2, <1>3 DEF f, r

\* An initial part is found at the start of the whole.
LEMMA InitialPart ==
    ASSUME NEW s \in Seq(Nat), NEW t \in Seq(Nat)
    PROVE  /\ s \o t \in Seq(Nat)
           /\ Len(s) \in 0..Len(s \o t)
           /\ SubSeq(s \o t, 1, Len(s)) = s
  OBVIOUS

LEMMA Short ==
    /\ <<>> \in Seq(Nat) /\ Len(<<>>) = 0
    /\ \A x \in Nat : <<x>> \in Seq(Nat) /\ <<x>> # <<>> /\ Len(<<x>>) = 1
    /\ \A s \in Seq(Nat) : <<>> \o s = s /\ s \o <<>> = s
  OBVIOUS

-----------------------------------------------------------------------------
(* Streams *)

Sockets == [state : {"Unconnected", "Connecting", "Connected", "Closing"},
            in : Seq(Nat), out : Seq(Nat)]
Streams == [state : {"ReadingRequest", "Connecting", "Tunneling", "Closing"},
            timer : BOOLEAN, buffer : Seq(Nat), client : Sockets, target : Sockets,
            deleteScheduled : BOOLEAN]

OutMax == MaxPendingBytes + (IF MaxRequestHeadersSize >= ChunkSize
                             THEN MaxRequestHeadersSize ELSE ChunkSize - 1)

LEMMA OutMaxType == OutMax \in Nat /\ OutMax >= MaxPendingBytes + ChunkSize - 1
                       /\ OutMax >= MaxPendingBytes + MaxRequestHeadersSize
  BY StreamAssumption DEF OutMax

\* The loop of forwardData stops when there is nothing left to read or enough
\* to be written, and exceeds the limit by less than a chunk.
LEMMA ForwardedBounds ==
    ASSUME NEW from \in Sockets, NEW to \in Sockets
    PROVE  /\ Forwarded(from, to) \in 0..Len(from.in)
           /\ Len(to.out) <= OutMax => Len(to.out) + Forwarded(from, to) <= OutMax
           /\ Forwarded(from, to) < Len(from.in) =>
                  Len(to.out) + Forwarded(from, to) >= MaxPendingBytes
  <1>1. Len(from.in) \in Nat /\ Len(to.out) \in Nat
    BY DEF Sockets
  <1>2. CASE Len(to.out) >= MaxPendingBytes
    <2>1. Forwarded(from, to) = 0
      BY <1>2 DEF Forwarded
    <2>. QED  BY <1>1, <1>2, <2>1, StreamAssumption
  <1>3. CASE Len(to.out) < MaxPendingBytes
    <2>. DEFINE x == MaxPendingBytes - Len(to.out)
                amount == ChunkSize * ((x + ChunkSize - 1) \div ChunkSize)
    <2>1. x \in Nat
      BY <1>1, <1>3, StreamAssumption
    <2>2. amount \in Nat /\ amount >= x /\ amount <= x + ChunkSize - 1
      <3>. HIDE DEF x
      <3>. QED  BY <2>1, StreamAssumption
    <2>3. Forwarded(from, to) = Least(Len(from.in), amount)
      <3>1. ~(Len(to.out) >= MaxPendingBytes)
        BY <1>1, <1>3, StreamAssumption
      <3>. QED  BY <3>1, Zenon DEF Forwarded
    <2>. HIDE DEF amount
    <2>4. OutMax \in Nat /\ OutMax >= MaxPendingBytes + ChunkSize - 1
      BY OutMaxType
    <2>5. Len(to.out) + x = MaxPendingBytes
      BY <1>1, StreamAssumption
    <2>. HIDE DEF x
    <2>. DEFINE len == Len(from.in)
                busy == Len(to.out)
                n == Forwarded(from, to)
    <2>. HIDE DEF len, busy, n
    <2>6. n = IF len <= amount THEN len ELSE amount
      BY <2>3 DEF Least, n, len
    <2>7. len \in Nat /\ busy \in Nat /\ busy + x = MaxPendingBytes
      BY <1>1, <2>5 DEF len, busy
    <2>8. n \in 0..len /\ busy + n <= OutMax /\ (n < len => busy + n >= MaxPendingBytes)
      BY <2>1, <2>2, <2>4, <2>6, <2>7, StreamAssumption
    <2>. QED  BY <2>8 DEF n, len, busy
  <1>. QED  BY <1>1, <1>2, <1>3, StreamAssumption

\* Fields that neither forwarding nor hanging up changes
Unmoved(s, r) ==
    /\ r.state = s.state /\ r.timer = s.timer /\ r.buffer = s.buffer
    /\ r.deleteScheduled = s.deleteScheduled

\* What forwardData does to both sockets
LEMMA ForwardStep ==
    ASSUME NEW s \in Streams, NEW from \in {"client", "target"}, NEW to \in {"client", "target"},
           from # to
    PROVE  LET r == ForwardData(s, from, to)
               n == IF s[to].state = "Connected" THEN Forwarded(s[from], s[to]) ELSE 0
           IN  /\ r \in Streams /\ Unmoved(s, r)
               /\ r[from].in = Rest(n, s[from].in) /\ r[from].out = s[from].out
               /\ r[to].out = s[to].out \o First(n, s[from].in) /\ r[to].in = s[to].in
               /\ r[from].state = s[from].state /\ r[to].state = s[to].state
  <1>. DEFINE n == Forwarded(s[from], s[to])
              i == Rest(n, s[from].in)
              o == s[to].out \o First(n, s[from].in)
  <1>1. s[from] \in Sockets /\ s[to] \in Sockets
    BY DEF Streams
  <1>2. n \in 0..Len(s[from].in)
    BY <1>1, ForwardedBounds
  <1>3. /\ s[from].in \in Seq(Nat) /\ s[to].out \in Seq(Nat)
    BY <1>1 DEF Sockets
  <1>4. i \in Seq(Nat) /\ o \in Seq(Nat)
    BY <1>2, <1>3, Cut
  <1>5. CASE s[to].state = "Connected"
    <2>1. ForwardData(s, from, to) = [s EXCEPT ![from].in = i, ![to].out = o]
      BY <1>5 DEF ForwardData
    <2>. HIDE DEF n, i, o
    <2>. DEFINE r == [s EXCEPT ![from].in = i, ![to].out = o]
    <2>2. r[from] = [s[from] EXCEPT !.in = i] /\ r[to] = [s[to] EXCEPT !.out = o]
      BY <1>1 DEF Streams
    <2>3. r \in Streams
      BY <1>4, <1>1 DEF Streams, Sockets
    <2>4. Unmoved(s, r)
      BY DEF Streams, Unmoved
    <2>5. /\ r[from].in = i /\ r[from].out = s[from].out /\ r[from].state = s[from].state
          /\ r[to].out = o /\ r[to].in = s[to].in /\ r[to].state = s[to].state
      BY <1>1, <2>2 DEF Sockets
    <2>. HIDE DEF r
    <2>6. ForwardData(s, from, to) = r
      BY <2>1 DEF r
    <2>. QED  BY <1>5, <2>3, <2>4, <2>5, <2>6, Zenon DEF n, i, o
  <1>6. CASE s[to].state # "Connected"
    <2>1. ForwardData(s, from, to) = s
      BY <1>6 DEF ForwardData
    <2>2. Rest(0, s[from].in) = s[from].in /\ s[to].out \o First(0, s[from].in) = s[to].out
      BY <1>3, CutNothing
    <2>. QED  BY <1>6, <2>1, <2>2 DEF Unmoved
  <1>. QED  BY <1>5, <1>6

LEMMA HangUpStep ==
    ASSUME NEW before \in Streams, NEW s \in Streams,
           NEW from \in {"client", "target"}, NEW to \in {"client", "target"}, from # to
    PROVE  LET r == HangUp(before, s, from, to)
           IN  /\ r \in Streams /\ Unmoved(s, r)
               /\ r[from] = s[from] /\ r[to].in = s[to].in /\ r[to].out = s[to].out
               /\ r[to].state =
                      IF /\ before[from].state = "Unconnected" /\ s[from].in = <<>>
                         /\ before[to].state = "Connected"
                      THEN IF s[to].out = <<>> THEN "Unconnected" ELSE "Closing"
                      ELSE s[to].state
  <1>. DEFINE left == /\ before[from].state = "Unconnected" /\ s[from].in = <<>>
                      /\ before[to].state = "Connected"
              r == [s EXCEPT ![to] = Disconnect(@)]
  <1>1. s[from] \in Sockets /\ s[to] \in Sockets
    BY DEF Streams
  <1>2. CASE left
    <2>1. HangUp(before, s, from, to) = r
      BY <1>2 DEF HangUp
    <2>2. /\ Disconnect(s[to]) \in Sockets
          /\ Disconnect(s[to]).in = s[to].in /\ Disconnect(s[to]).out = s[to].out
          /\ Disconnect(s[to]).state = IF s[to].out = <<>> THEN "Unconnected" ELSE "Closing"
      BY <1>1 DEF Disconnect, Sockets
    <2>3. r \in Streams /\ r[from] = s[from] /\ r[to] = Disconnect(s[to]) /\ Unmoved(s, r)
      <3>. HIDE DEF Disconnect
      <3>. QED  BY <2>2 DEF Streams, Unmoved
    <2>. HIDE DEF r
    <2>. QED  BY <1>2, <2>1, <2>2, <2>3
  <1>3. CASE ~left
    <2>1. HangUp(before, s, from, to) = s
      BY <1>3, Zenon DEF HangUp
    <2>. QED  BY <1>3, <2>1 DEF Unmoved
  <1>. QED  BY <1>2, <1>3

(***************************************************************************)
(* What pump does to one direction of a tunnel: data moves on, as much as  *)
(* may be written, and the receiving side is closed once the sending side  *)
(* is disconnected and everything it sent was written.                     *)
(***************************************************************************)
Transfer(s, r, from, to) ==
    /\ r[to].out \o r[from].in = s[to].out \o s[from].in
    /\ s[to].state # "Connected" => r[to].out = s[to].out /\ r[from].in = s[from].in
    /\ Len(r[from].in) <= Len(s[from].in)
    /\ Len(s[to].out) <= OutMax => Len(r[to].out) <= OutMax
    /\ s[to].state = "Connected" /\ r[from].in # <<>> => Len(r[to].out) >= MaxPendingBytes
    /\ r[to].state = IF /\ s[from].state = "Unconnected" /\ r[from].in = <<>>
                        /\ s[to].state = "Connected"
                     THEN IF r[to].out = <<>> THEN "Unconnected" ELSE "Closing"
                     ELSE s[to].state

LEMMA TransferOfForward ==
    ASSUME NEW s \in Streams, NEW r \in Streams,
           NEW from \in {"client", "target"}, NEW to \in {"client", "target"}, from # to,
           NEW n, n = IF s[to].state = "Connected" THEN Forwarded(s[from], s[to]) ELSE 0,
           r[from].in = Rest(n, s[from].in),
           r[to].out = s[to].out \o First(n, s[from].in),
           r[to].state = IF /\ s[from].state = "Unconnected" /\ r[from].in = <<>>
                            /\ s[to].state = "Connected"
                         THEN IF r[to].out = <<>> THEN "Unconnected" ELSE "Closing"
                         ELSE s[to].state
    PROVE  Transfer(s, r, from, to)
  <1>. DEFINE read == s[from].in
              written == s[to].out
  <1>1. s[from] \in Sockets /\ s[to] \in Sockets /\ read \in Seq(Nat) /\ written \in Seq(Nat)
    BY DEF Streams, Sockets
  <1>2. /\ n \in 0..Len(read)
        /\ Len(written) <= OutMax => Len(written) + n <= OutMax
        /\ s[to].state = "Connected" /\ n < Len(read) => Len(written) + n >= MaxPendingBytes
    <2>1. CASE s[to].state = "Connected"
      BY <1>1, <2>1, ForwardedBounds
    <2>2. CASE s[to].state # "Connected"
      BY <1>1, <2>2
    <2>. QED  BY <2>1, <2>2
  <1>3. /\ First(n, read) \in Seq(Nat) /\ Len(First(n, read)) = n
        /\ Rest(n, read) \in Seq(Nat) /\ Len(Rest(n, read)) = Len(read) - n
    BY <1>1, <1>2, Cut
  <1>4. r[to].out \o r[from].in = written \o read
    BY <1>1, <1>2, MoveOn
  <1>5. Len(r[to].out) = Len(written) + n /\ Len(r[from].in) = Len(read) - n
    <2>. DEFINE first == First(n, read)
    <2>1. first \in Seq(Nat) /\ Len(first) = n
      BY <1>3
    <2>. HIDE DEF first, written
    <2>2. Len(written \o first) = Len(written) + Len(first)
      BY <1>1, <2>1, ConcatProperties
    <2>3. r[to].out = written \o first
      BY DEF first, written
    <2>. QED  BY <1>3, <2>1, <2>2, <2>3
  <1>6. s[to].state # "Connected" => r[to].out = written /\ r[from].in = read
    <2>1. Rest(0, read) = read /\ written \o First(0, read) = written
      BY <1>1, CutNothing
    <2>. QED  BY <2>1
  <1>7. r[from].in # <<>> => n < Len(read)
    <2>1. r[from].in \in Seq(Nat) /\ (r[from].in # <<>> => Len(r[from].in) > 0)
      BY <1>3, EmptySeq
    <2>2. Len(read) \in Nat
      BY <1>1
    <2>. QED  BY <1>2, <1>5, <2>1, <2>2
  <1>8. Len(r[from].in) <= Len(read)
    BY <1>1, <1>2, <1>5
  <1>9. Len(s[to].out) <= OutMax => Len(r[to].out) <= OutMax
    BY <1>2, <1>5
  <1>10. s[to].state = "Connected" /\ r[from].in # <<>> => Len(r[to].out) >= MaxPendingBytes
    BY <1>2, <1>5, <1>7
  <1>. QED  BY <1>4, <1>6, <1>8, <1>9, <1>10 DEF Transfer

\* pump of a tunnel moves both directions and schedules the deletion of a
\* stream whose sockets are both closed.
LEMMA PumpStep ==
    ASSUME NEW s \in Streams, s.state = "Tunneling"
    PROVE  LET r == Pump(s)
           IN  /\ r \in Streams
               /\ r.state = "Tunneling" /\ r.buffer = s.buffer
               /\ Transfer(s, r, "client", "target") /\ Transfer(s, r, "target", "client")
               /\ r.deleteScheduled = (s.deleteScheduled \/ BothUnconnected(r))
  <1>. DEFINE f == ForwardData(s, "client", "target")
              g == ForwardData(f, "target", "client")
              h == HangUp(s, g, "client", "target")
              k == HangUp(s, h, "target", "client")
              r == Pump(s)
              m == IF s.target.state = "Connected" THEN Forwarded(s.client, s.target) ELSE 0
              n == IF s.client.state = "Connected" THEN Forwarded(s.target, s.client) ELSE 0
  <1>1. /\ f \in Streams /\ Unmoved(s, f)
        /\ f.client.in = Rest(m, s.client.in) /\ f.client.out = s.client.out
        /\ f.target.out = s.target.out \o First(m, s.client.in) /\ f.target.in = s.target.in
        /\ f.client.state = s.client.state /\ f.target.state = s.target.state
    BY ForwardStep
  <1>2. n = IF f.client.state = "Connected" THEN Forwarded(f.target, f.client) ELSE 0
    BY <1>1 DEF Forwarded
  <1>. HIDE DEF f, n
  <1>3. /\ g \in Streams /\ Unmoved(f, g)
        /\ g.target.in = Rest(n, f.target.in) /\ g.target.out = f.target.out
        /\ g.client.out = f.client.out \o First(n, f.target.in) /\ g.client.in = f.client.in
        /\ g.client.state = f.client.state /\ g.target.state = f.target.state
    BY <1>1, <1>2, ForwardStep
  <1>. HIDE DEF g
  <1>4. /\ h \in Streams /\ Unmoved(g, h)
        /\ h.client = g.client /\ h.target.in = g.target.in /\ h.target.out = g.target.out
        /\ h.target.state = IF /\ s.client.state = "Unconnected" /\ g.client.in = <<>>
                               /\ s.target.state = "Connected"
                            THEN IF g.target.out = <<>> THEN "Unconnected" ELSE "Closing"
                            ELSE g.target.state
    BY <1>3, HangUpStep
  <1>. HIDE DEF h
  <1>5. /\ k \in Streams /\ Unmoved(h, k)
        /\ k.target = h.target /\ k.client.in = h.client.in /\ k.client.out = h.client.out
        /\ k.client.state = IF /\ s.target.state = "Unconnected" /\ h.target.in = <<>>
                               /\ s.client.state = "Connected"
                            THEN IF h.client.out = <<>> THEN "Unconnected" ELSE "Closing"
                            ELSE h.client.state
    BY <1>4, HangUpStep
  <1>6. r = DeleteIfDone(k)
    BY DEF Pump, Relay, f, g, h
  <1>. HIDE DEF k, r
  <1>7. /\ r \in Streams /\ r.state = k.state /\ r.buffer = k.buffer
        /\ r.client = k.client /\ r.target = k.target
        /\ r.deleteScheduled = (k.deleteScheduled \/ BothUnconnected(k))
    BY <1>5, <1>6 DEF DeleteIfDone, BothUnconnected, Streams
  <1>8. BothUnconnected(k) = BothUnconnected(r)
    BY <1>7 DEF BothUnconnected
  <1>9. r.state = s.state /\ r.buffer = s.buffer /\ k.deleteScheduled = s.deleteScheduled
    BY <1>1, <1>3, <1>4, <1>5, <1>7 DEF Unmoved
  <1>10. /\ r.client.in = Rest(m, s.client.in)
         /\ r.target.out = s.target.out \o First(m, s.client.in)
         /\ r.target.state = IF /\ s.client.state = "Unconnected" /\ r.client.in = <<>>
                                /\ s.target.state = "Connected"
                             THEN IF r.target.out = <<>> THEN "Unconnected" ELSE "Closing"
                             ELSE s.target.state
    BY <1>1, <1>3, <1>4, <1>5, <1>7
  <1>11. /\ r.target.in = Rest(n, s.target.in)
         /\ r.client.out = s.client.out \o First(n, s.target.in)
         /\ r.client.state = IF /\ s.target.state = "Unconnected" /\ r.target.in = <<>>
                                /\ s.client.state = "Connected"
                             THEN IF r.client.out = <<>> THEN "Unconnected" ELSE "Closing"
                             ELSE s.client.state
    BY <1>1, <1>3, <1>4, <1>5, <1>7
  <1>12. Transfer(s, r, "client", "target")
    BY <1>7, <1>10, TransferOfForward
  <1>13. Transfer(s, r, "target", "client")
    BY <1>7, <1>11, TransferOfForward DEF n
  <1>. QED  BY <1>7, <1>8, <1>9, <1>12, <1>13 DEF r

-----------------------------------------------------------------------------
(* The inductive invariant *)

EnvironmentType ==
    /\ request \in Requests
    /\ clientSent \in Nat /\ targetSent \in Nat
    /\ clientGot \in Seq(Nat) /\ targetGot \in Seq(Nat)
    /\ clientLeft \in BOOLEAN /\ targetLeft \in BOOLEAN /\ stopped \in BOOLEAN

NothingHappened ==
    /\ clientGot = <<>> /\ targetGot = <<>> /\ targetSent = 0
    /\ ~clientLeft /\ ~targetLeft /\ ~stopped

\* One direction of a tunnel: what one peer received, what waits to be written
\* and what waits to be read are together all that is meant for it, as long as
\* its socket is open; it was closed because it left, or after the end.
Delivery(s, from, to, got, all, toLeft, someoneLeft) ==
    /\ s[to].state \in {"Connected", "Closing", "Unconnected"}
    /\ s[to].state # "Unconnected" =>
           ~toLeft /\ got \o (s[to].out \o s[from].in) = all
    /\ s[to].state = "Closing" => s[from].state = "Unconnected" /\ s[from].in = <<>>
    /\ s[to].state = "Unconnected" =>
           /\ s[to].out = <<>>
           /\ toLeft \/ (got = all /\ s[from].in = <<>> /\ s[from].state = "Unconnected")
    /\ s[to].state # "Connected" => someoneLeft
    /\ Len(s[from].in) <= MaxPendingBytes /\ Len(s[to].out) <= OutMax

NoStall(s, from, to) ==
    s[to].state = "Connected" /\ s[from].in # <<>> => Len(s[to].out) >= MaxPendingBytes

Reading(s) ==
    /\ NothingHappened /\ ~s.deleteScheduled
    /\ s.buffer = Units(1, clientSent)
    /\ clientSent <= MaxRequestHeadersSize /\ clientSent < request.headersEnd
    /\ s.client = [Idle EXCEPT !.state = "Connected"] /\ s.target = Idle

Connecting(s) ==
    /\ NothingHappened /\ ~s.deleteScheduled
    /\ request.valid /\ request.headersEnd <= clientSent
    /\ s.buffer \o s.client.in = Exchange!ForTarget
    /\ Len(s.buffer) <= OutMax /\ Len(s.client.in) <= MaxPendingBytes
    /\ s.client.state = "Connected" /\ s.client.out = <<>>
    /\ s.target = [Idle EXCEPT !.state = "Connecting"]

Tunneling(s) ==
    /\ ~stopped
    /\ request.valid /\ request.headersEnd <= clientSent
    /\ s.deleteScheduled => BothUnconnected(s)
    /\ Delivery(s, "client", "target", targetGot, Exchange!ForTarget, targetLeft,
                clientLeft \/ targetLeft)
    /\ Delivery(s, "target", "client", clientGot, Exchange!ForClient, clientLeft,
                clientLeft \/ targetLeft)

Closed(s) ==
    /\ s.target = Idle
    /\ Len(s.client.in) <= MaxPendingBytes /\ Len(s.buffer) <= OutMax
    /\ \/ /\ s.client.state = "Closing" /\ ~s.deleteScheduled
          /\ ~stopped /\ ~clientLeft /\ clientGot = <<>>
          /\ \E status \in Failures : s.client.out = <<status>>
       \/ /\ s.client.state = "Unconnected" /\ s.client.out = <<>>
          /\ s.deleteScheduled
          /\ stopped \/ clientLeft \/ Exchange!Refused

StreamInv ==
    /\ EnvironmentType
    /\ stream \in Streams
    /\ stream.state = "ReadingRequest" => Reading(stream)
    /\ stream.state = "Connecting" => Connecting(stream)
    /\ stream.state = "Tunneling" =>
           /\ Tunneling(stream)
           /\ stream.buffer = <<>>
           /\ NoStall(stream, "client", "target") /\ NoStall(stream, "target", "client")
    /\ stream.state = "Closing" => Closed(stream)

\* Moving data on keeps what was promised of a direction.
LEMMA DeliveryKept ==
    ASSUME NEW s \in Streams, NEW r \in Streams,
           NEW from \in {"client", "target"}, NEW to \in {"client", "target"}, from # to,
           Transfer(s, r, from, to), Transfer(s, r, to, from),
           NEW got \in Seq(Nat), NEW all, NEW toLeft \in BOOLEAN, NEW someoneLeft \in BOOLEAN,
           Delivery(s, from, to, got, all, toLeft, someoneLeft),
           s[from].state # "Connected" => someoneLeft
    PROVE  /\ Delivery(r, from, to, got, all, toLeft, someoneLeft)
           /\ NoStall(r, from, to)
  <1>1. /\ s[from] \in Sockets /\ s[to] \in Sockets /\ r[from] \in Sockets /\ r[to] \in Sockets
    BY DEF Streams
  <1>2. s[from].state = "Unconnected" => r[from].state = "Unconnected"
    BY DEF Transfer
  <1>3. Len(r[from].in) <= MaxPendingBytes /\ Len(r[to].out) <= OutMax
    <2>1. /\ Len(s[from].in) \in Nat /\ Len(r[from].in) \in Nat
      BY <1>1 DEF Sockets
    <2>. QED  BY <2>1, StreamAssumption DEF Delivery, Transfer
  <1>4. NoStall(r, from, to)
    BY DEF NoStall, Transfer
  <1>5. CASE s[to].state # "Connected"
    <2>1. r[to].state = s[to].state /\ r[to].out = s[to].out /\ r[from].in = s[from].in
      BY <1>5 DEF Transfer
    <2>. QED  BY <1>2, <1>3, <1>4, <1>5, <2>1 DEF Delivery
  <1>6. CASE s[to].state = "Connected"
    <2>1. ~toLeft /\ got \o (r[to].out \o r[from].in) = all
      BY <1>6 DEF Delivery, Transfer
    <2>2. CASE s[from].state = "Unconnected" /\ r[from].in = <<>>
      <3>1. r[to].state = IF r[to].out = <<>> THEN "Unconnected" ELSE "Closing"
        BY <1>6, <2>2 DEF Transfer
      <3>2. r[to].out = <<>> => got = all
        <4>. SUFFICES ASSUME r[to].out = <<>> PROVE got = all
          OBVIOUS
        <4>1. got \o (<<>> \o <<>>) = all
          BY <2>1, <2>2
        <4>2. got \o (<<>> \o <<>>) = got
          OBVIOUS
        <4>. QED  BY <4>1, <4>2
      <3>. QED  BY <1>2, <1>3, <1>4, <1>6, <2>1, <2>2, <3>1, <3>2 DEF Delivery
    <2>3. CASE ~(s[from].state = "Unconnected" /\ r[from].in = <<>>)
      <3>1. r[to].state = "Connected"
        BY <1>6, <2>3 DEF Transfer
      <3>. QED  BY <1>3, <1>4, <2>1, <3>1 DEF Delivery
    <2>. QED  BY <2>2, <2>3
  <1>. QED  BY <1>5, <1>6

\* A handler that leaves a tunnel with its promises kept, and then pumps, keeps
\* the invariant.
LEMMA TunnelStep ==
    ASSUME NEW s \in Streams, s.state = "Tunneling", s.buffer = <<>>,
           s.deleteScheduled => BothUnconnected(s),
           stream' = Pump(s),
           EnvironmentType', ~stopped', request'.valid, request'.headersEnd <= clientSent',
           Delivery(s, "client", "target", targetGot', Exchange!ForTarget', targetLeft',
                    clientLeft' \/ targetLeft'),
           Delivery(s, "target", "client", clientGot', Exchange!ForClient', clientLeft',
                    clientLeft' \/ targetLeft')
    PROVE  StreamInv' /\ stream'.state = "Tunneling"
  <1>. DEFINE r == Pump(s)
  <1>1. /\ r \in Streams
        /\ r.state = "Tunneling" /\ r.buffer = s.buffer
        /\ Transfer(s, r, "client", "target") /\ Transfer(s, r, "target", "client")
        /\ r.deleteScheduled = (s.deleteScheduled \/ BothUnconnected(r))
    BY PumpStep
  <1>. HIDE DEF r
  <1>2. BothUnconnected(s) => BothUnconnected(r)
    <2>1. s.client.state = "Unconnected" => r.client.state = "Unconnected"
      BY <1>1 DEF Transfer
    <2>2. s.target.state = "Unconnected" => r.target.state = "Unconnected"
      BY <1>1 DEF Transfer
    <2>. QED  BY <2>1, <2>2 DEF BothUnconnected
  <1>3. /\ clientGot' \in Seq(Nat) /\ targetGot' \in Seq(Nat)
        /\ clientLeft' \in BOOLEAN /\ targetLeft' \in BOOLEAN
        /\ (clientLeft' \/ targetLeft') \in BOOLEAN
    BY DEF EnvironmentType
  <1>4. /\ s.client.state # "Connected" => clientLeft' \/ targetLeft'
        /\ s.target.state # "Connected" => clientLeft' \/ targetLeft'
    BY DEF Delivery
  <1>5. /\ Delivery(r, "client", "target", targetGot', Exchange!ForTarget', targetLeft',
                    clientLeft' \/ targetLeft')
        /\ NoStall(r, "client", "target")
    BY <1>1, <1>3, <1>4, DeliveryKept
  <1>6. /\ Delivery(r, "target", "client", clientGot', Exchange!ForClient', clientLeft',
                    clientLeft' \/ targetLeft')
        /\ NoStall(r, "target", "client")
    BY <1>1, <1>3, <1>4, DeliveryKept
  <1>7. r.deleteScheduled => BothUnconnected(r)
    BY <1>1, <1>2
  <1>8. stream' = r
    BY DEF r
  <1>9. Tunneling(stream)'
    BY <1>5, <1>6, <1>7, <1>8 DEF Tunneling
  <1>. QED  BY <1>1, <1>5, <1>6, <1>8, <1>9 DEF StreamInv

-----------------------------------------------------------------------------
(* The steps keep the invariant *)

LEMMA ParameterTypes ==
    /\ Established \in Nat
    /\ \A status \in Failures : status \in Nat
    /\ ClientUnits \in Nat /\ TargetUnits \in Nat
    /\ MaxRequestHeadersSize \in Nat \ {0} /\ MaxPendingBytes \in Nat \ {0}
    /\ OutMax \in Nat /\ OutMax >= 1
    /\ OutMax >= MaxPendingBytes + MaxRequestHeadersSize
  BY OutMaxType, StreamAssumption DEF Established, Failures

LEMMA StreamInit == Init => StreamInv
  <1>. SUFFICES ASSUME Init PROVE StreamInv
    OBVIOUS
  <1>1. EnvironmentType
    BY Short DEF Init, EnvironmentType
  <1>2. stream \in Streams /\ stream.state = "ReadingRequest"
    <2>1. Idle \in Sockets /\ [Idle EXCEPT !.state = "Connected"] \in Sockets
      BY Short DEF Idle, Sockets
    <2>. QED  BY <2>1, Short DEF Init, Streams
  <1>3. request.headersEnd \in 1..MaxRequestHeadersSize + 1
    BY DEF Init, Requests
  <1>4. Units(1, 0) = <<>>
    BY NoUnits
  <1>5. Reading(stream)
    BY <1>3, <1>4, StreamAssumption DEF Init, Reading, NothingHappened, Idle
  <1>. QED  BY <1>1, <1>2, <1>5 DEF StreamInv

\* What is buffered in each state is limited.
LEMMA InvBounds ==
    ASSUME StreamInv
    PROVE  /\ Len(stream.client.in) <= MaxPendingBytes /\ Len(stream.target.in) <= MaxPendingBytes
           /\ Len(stream.client.out) <= OutMax /\ Len(stream.target.out) <= OutMax
           /\ Len(stream.buffer) <= OutMax
  <1>1. Len(<<>>) <= MaxPendingBytes /\ Len(<<>>) <= OutMax
    BY Short, ParameterTypes
  <1>2. CASE stream.state = "ReadingRequest"
    <2>1. clientSent \in Nat /\ clientSent <= clientSent /\ clientSent <= MaxRequestHeadersSize
      BY <1>2 DEF StreamInv, Reading, EnvironmentType
    <2>2. Len(Units(1, clientSent)) = clientSent
      BY <2>1, UnitsAppended
    <2>3. Len(stream.buffer) <= OutMax
      <3>1. stream.buffer = Units(1, clientSent)
        BY <1>2 DEF StreamInv, Reading
      <3>. QED  BY <2>1, <2>2, <3>1, ParameterTypes
    <2>. QED  BY <1>1, <1>2, <2>3 DEF StreamInv, Reading, Idle
  <1>3. CASE stream.state = "Connecting"
    BY <1>1, <1>3 DEF StreamInv, Connecting, Idle
  <1>4. CASE stream.state = "Tunneling"
    BY <1>1, <1>4 DEF StreamInv, Tunneling, Delivery
  <1>5. CASE stream.state = "Closing"
    <2>1. Len(stream.client.out) <= OutMax
      <3>1. \A status \in Failures : Len(<<status>>) = 1
        BY ParameterTypes, Short
      <3>2. Closed(stream)
        BY <1>5 DEF StreamInv
      <3>3. CASE stream.client.out = <<>>
        BY <1>1, <3>3
      <3>4. CASE \E status \in Failures : stream.client.out = <<status>>
        BY <3>1, <3>4, ParameterTypes
      <3>. QED  BY <3>2, <3>3, <3>4 DEF Closed
    <2>. QED  BY <1>1, <1>5, <2>1 DEF StreamInv, Closed, Idle
  <1>. QED  BY <1>2, <1>3, <1>4, <1>5 DEF StreamInv, Streams

\* Whatever refuses a request leaves the status to be written, and nothing else.
LEMMA Refusal ==
    ASSUME NEW s \in Streams, NEW status \in Failures,
           s.client.state = "Connected", s.client.out = <<>>, ~s.deleteScheduled
    PROVE  LET r == RespondAndClose(s, status)
           IN  /\ r \in Streams
               /\ r.state = "Closing" /\ r.target = Idle /\ ~r.deleteScheduled
               /\ r.client.state = "Closing" /\ r.client.out = <<status>>
               /\ r.client.in = s.client.in /\ r.buffer = s.buffer
  <1>. DEFINE c == Disconnect(Write(s.client, <<status>>))
              t == [GiveUp(s) EXCEPT !.client = c]
              r == RespondAndClose(s, status)
  <1>1. s.client \in Sockets /\ status \in Nat
    BY ParameterTypes DEF Streams
  <1>2. c = [state |-> "Closing", in |-> s.client.in, out |-> <<status>>]
    <2>1. s.client.out \o <<status>> = <<status>> /\ <<status>> # <<>>
      BY <1>1, Short
    <2>2. Write(s.client, <<status>>) = [s.client EXCEPT !.out = <<status>>]
      BY <2>1 DEF Write
    <2>. DEFINE w == [s.client EXCEPT !.out = <<status>>]
    <2>3. w \in [state : {"Connected"}, in : {s.client.in}, out : {<<status>>}]
      BY <1>1 DEF Sockets
    <2>. HIDE DEF w
    <2>4. Disconnect(w) = [w EXCEPT !.state = "Closing"]
      BY <2>1, <2>3 DEF Disconnect
    <2>. QED  BY <2>2, <2>3, <2>4 DEF w
  <1>3. Idle \in Sockets /\ c \in Sockets
    <2>1. Idle \in Sockets
      BY Short DEF Idle, Sockets
    <2>2. s.client.in \in Seq(Nat) /\ <<status>> \in Seq(Nat)
      BY <1>1, Short DEF Sockets
    <2>. HIDE DEF c
    <2>3. c \in Sockets
      BY <1>2, <2>2 DEF Sockets
    <2>. QED  BY <2>1, <2>3
  <1>. HIDE DEF c
  <1>4. /\ t \in Streams
        /\ t.state = "Closing" /\ t.target = Idle /\ t.deleteScheduled = s.deleteScheduled
        /\ t.client = c /\ t.buffer = s.buffer
    BY <1>3 DEF GiveUp, Aborted, Streams
  <1>5. r = Pump(t)
    <2>1. GiveUp(s).client = s.client
      BY DEF GiveUp, Streams
    <2>2. t = [GiveUp(s) EXCEPT !.client = Disconnect(Write(@, <<status>>))]
      BY <2>1, Zenon DEF c
    <2>. QED  BY <2>2, Zenon DEF RespondAndClose
  <1>. HIDE DEF t
  <1>6. Pump(t) = [t EXCEPT !.deleteScheduled = @ \/ BothUnconnected(t)]
    BY <1>4 DEF Pump, DeleteIfDone
  <1>7. ~BothUnconnected(t)
    BY <1>2, <1>4 DEF BothUnconnected
  <1>. HIDE DEF r
  <1>8. /\ r \in Streams /\ r.state = t.state /\ r.target = t.target /\ r.client = t.client
        /\ r.buffer = t.buffer /\ ~r.deleteScheduled
    BY <1>4, <1>5, <1>6, <1>7 DEF Streams
  <1>. QED  BY <1>2, <1>4, <1>8 DEF r

\* A request that is refused before anything else happened keeps the invariant.
LEMMA RefusalStep ==
    ASSUME NEW s \in Streams, NEW status \in Failures,
           s.client.state = "Connected", s.client.out = <<>>, ~s.deleteScheduled,
           Len(s.client.in) <= MaxPendingBytes, Len(s.buffer) <= OutMax,
           EnvironmentType', ~stopped', ~clientLeft', clientGot' = <<>>,
           stream' = RespondAndClose(s, status)
                \/ stream' = [RespondAndClose(s, status) EXCEPT !.timer = FALSE]
    PROVE  StreamInv' /\ stream'.state = "Closing" /\ ~stream'.deleteScheduled
  <1>. DEFINE r == RespondAndClose(s, status)
  <1>1. /\ r \in Streams
        /\ r.state = "Closing" /\ r.target = Idle /\ ~r.deleteScheduled
        /\ r.client.state = "Closing" /\ r.client.out = <<status>>
        /\ r.client.in = s.client.in /\ r.buffer = s.buffer
    BY Refusal
  <1>. HIDE DEF r
  <1>2. stream' = r \/ stream' = [r EXCEPT !.timer = FALSE]
    BY DEF r
  <1>3. /\ stream' \in Streams /\ stream'.state = r.state /\ stream'.target = r.target
        /\ stream'.deleteScheduled = r.deleteScheduled /\ stream'.client = r.client
        /\ stream'.buffer = r.buffer
    BY <1>1, <1>2 DEF Streams
  <1>4. Closed(stream)'
    BY <1>1, <1>3 DEF Closed
  <1>. QED  BY <1>1, <1>3, <1>4 DEF StreamInv

\* What is sent later is appended to what is meant for the other side.
LEMMA ForTargetGrows ==
    ASSUME EnvironmentType, EnvironmentType', UNCHANGED request,
           request.headersEnd <= clientSent, clientSent <= clientSent'
    PROVE  Exchange!ForTarget' = Exchange!ForTarget \o Units(clientSent + 1, clientSent')
  <1>. DEFINE start == IF request.connect THEN request.headersEnd + 1 ELSE request.headersEnd
  <1>1. start \in Nat /\ start <= clientSent + 1 /\ clientSent \in Nat /\ clientSent' \in Nat
    BY StreamAssumption DEF EnvironmentType, Requests
  <1>. HIDE DEF start
  <1>2. Units(start, clientSent) \o Units(clientSent + 1, clientSent') = Units(start, clientSent')
    BY <1>1, UnitsJoin
  <1>3. Exchange!ForTarget = Units(start, clientSent) /\ Exchange!ForTarget' = Units(start, clientSent')
    BY DEF Exchange!ForTarget, Exchange!Units, Units, start
  <1>. QED  BY <1>2, <1>3

LEMMA ForClientGrows ==
    ASSUME EnvironmentType, EnvironmentType', UNCHANGED request, targetSent <= targetSent'
    PROVE  Exchange!ForClient' = Exchange!ForClient \o Units(targetSent + 1, targetSent')
  <1>. DEFINE answer == IF request.connect THEN <<Established>> ELSE <<>>
              t == Units(1, targetSent)
              u == Units(targetSent + 1, targetSent')
  <1>1. targetSent \in Nat /\ targetSent' \in Nat
    BY DEF EnvironmentType
  <1>2. answer \in Seq(Nat)
    BY Short, ParameterTypes
  <1>3. t \in Seq(Nat) /\ u \in Seq(Nat) /\ t \o u = Units(1, targetSent')
    BY <1>1, UnitsAppended
  <1>4. Exchange!ForClient = answer \o t /\ Exchange!ForClient' = answer \o Units(1, targetSent')
    BY DEF Exchange!ForClient, Exchange!Units, Units
  <1>. HIDE DEF answer, t, u
  <1>5. (answer \o t) \o u = answer \o (t \o u)
    <2>1. t \in Seq(Nat) /\ u \in Seq(Nat)
      BY <1>3
    <2>. QED  BY <1>2, <2>1, Associated
  <1>. QED  BY <1>3, <1>4, <1>5 DEF u

Parts(a, b, c, all) == a \o (b \o c) = all

LEMMA Extend ==
    ASSUME NEW a \in Seq(Nat), NEW b \in Seq(Nat), NEW c \in Seq(Nat), NEW d \in Seq(Nat),
           NEW all, Parts(a, b, c, all)
    PROVE  Parts(a, b, c \o d, all \o d)
  <1>. DEFINE e == b \o c
  <1>1. e \in Seq(Nat)
    BY Joined
  <1>2. b \o (c \o d) = e \o d
    BY Associated
  <1>. HIDE DEF e
  <1>3. a \o (e \o d) = (a \o e) \o d
    BY <1>1, Associated
  <1>4. a \o e = all
    BY Zenon DEF e, Parts
  <1>. QED  BY <1>2, <1>3, <1>4, Zenon DEF Parts

\* The parts of a direction, as long as it is open, with more of it sent
LEMMA DeliveryGrows ==
    ASSUME NEW s \in Streams, NEW from \in {"client", "target"}, NEW to \in {"client", "target"},
           from # to,
           NEW u \in Seq(Nat), NEW got \in Seq(Nat), NEW all,
           NEW toLeft \in BOOLEAN, NEW someoneLeft \in BOOLEAN,
           Delivery(s, from, to, got, all, toLeft, someoneLeft),
           s[from].state # "Unconnected",
           Len(s[from].in \o u) <= MaxPendingBytes
    PROVE  Delivery([s EXCEPT ![from].in = @ \o u], from, to, got, all \o u, toLeft, someoneLeft)
  <1>. DEFINE read == s[from].in
              written == s[to].out
              r == [s EXCEPT ![from].in = @ \o u]
  <1>1. s[from] \in Sockets /\ s[to] \in Sockets /\ read \in Seq(Nat) /\ written \in Seq(Nat)
    BY DEF Streams, Sockets
  <1>2. r[to] = s[to] /\ r[from] = [s[from] EXCEPT !.in = read \o u]
    BY DEF Streams
  <1>3. r[from].in = read \o u /\ r[from].state = s[from].state
    BY <1>1, <1>2 DEF Sockets
  <1>. HIDE DEF r, read, written
  <1>4. s[to].state # "Unconnected" => got \o (written \o (read \o u)) = all \o u
    <2>. SUFFICES ASSUME s[to].state # "Unconnected"
                  PROVE  got \o (written \o (read \o u)) = all \o u
      OBVIOUS
    <2>1. read \in Seq(Nat) /\ written \in Seq(Nat)
      BY <1>1
    <2>2. Parts(got, written, read, all)
      BY DEF Delivery, Parts, read, written
    <2>3. Parts(got, written, read \o u, all \o u)
      BY <2>1, <2>2, Extend, Zenon
    <2>. QED  BY <2>3, Zenon DEF Parts
  <1>5. s[to].state # "Unconnected" => got \o (r[to].out \o r[from].in) = all \o u
    BY <1>2, <1>3, <1>4, Zenon DEF read, written
  <1>6. Len(r[from].in) <= MaxPendingBytes
    BY <1>3 DEF read
  <1>7. Delivery(r, from, to, got, all \o u, toLeft, someoneLeft)
    BY <1>2, <1>3, <1>5, <1>6 DEF Delivery
  <1>. QED  BY <1>7 DEF r

\* What else happens to the sending side does not matter to the receiving one.
LEMMA SameDelivery ==
    ASSUME NEW s, NEW r, NEW from, NEW to,
           r[from].in = s[from].in,
           r[from].state = s[from].state \/ s[from].state # "Unconnected",
           r[to].out = s[to].out, r[to].state = s[to].state,
           NEW got, NEW all, NEW toLeft, NEW someoneLeft, NEW nowLeft, someoneLeft => nowLeft,
           Delivery(s, from, to, got, all, toLeft, someoneLeft)
    PROVE  Delivery(r, from, to, got, all, toLeft, nowLeft)
  BY DEF Delivery

\* What the target is sent first is what was read after the headers, with the
\* rewritten headers before it, or without any.
LEMMA ForTargetOfUnits ==
    ASSUME NEW n \in Nat, request.headersEnd \in 1..n
    PROVE  LET first == IF request.connect THEN request.headersEnd + 1 ELSE request.headersEnd
           IN  /\ ForTarget(Units(1, n)) = Units(first, n)
               /\ Units(first, n) \in Seq(Nat) /\ Len(Units(first, n)) <= n
  <1>. DEFINE h == request.headersEnd
              rest == Units(h + 1, n)
  <1>1. h \in Nat /\ h \in 0..n /\ 1 <= h /\ h <= n /\ h + 1 \in Nat /\ h + 1 <= n + 1 /\ h <= n + 1
        /\ n - (h + 1) + 1 = n - h /\ n - h + 1 <= n /\ n - h <= n
    OBVIOUS
  <1>2. Rest(h, Units(1, n)) = rest
    BY <1>1, RestOfUnits
  <1>3. rest \in Seq(Nat) /\ Len(rest) = n - h
    BY <1>1, UnitsType
  <1>4. Units(h, n) \in Seq(Nat) /\ Len(Units(h, n)) = n - h + 1
    BY <1>1, UnitsType
  <1>5. <<h>> \o rest = Units(h, n)
    <2>1. Units(h, h) \o rest = Units(h, n)
      <3>1. h <= h + 1
        BY <1>1
      <3>. QED  BY <1>1, <3>1, UnitsJoin
    <2>2. Units(h, h) = <<h>>
      <3>1. h - h + 1 = 1 /\ h + 1 - 1 = h
        BY <1>1
      <3>2. Units(h, h) = [i \in 1..1 |-> h + i - 1]
        BY <3>1 DEF Units
      <3>3. Units(h, h) \in Seq(Nat) /\ Len(Units(h, h)) = 1 /\ Units(h, h)[1] = h
        BY <1>1, <3>1, <3>2
      <3>. QED  BY <1>1, <3>3, SeqEqual
    <2>. QED  BY <2>1, <2>2
  <1>6. <<>> \o rest = rest
    BY <1>3, Short
  <1>7. ForTarget(Units(1, n)) = (IF request.connect THEN <<>> ELSE <<h>>) \o rest
    BY <1>2 DEF ForTarget
  <1>8. CASE request.connect
    <2>1. ForTarget(Units(1, n)) = Units(h + 1, n)
      BY <1>6, <1>7, <1>8, Zenon
    <2>2. Len(rest) <= n
      BY <1>1, <1>3
    <2>. QED  BY <1>3, <1>8, <2>1, <2>2
  <1>9. CASE ~request.connect
    <2>1. ForTarget(Units(1, n)) = Units(h, n)
      BY <1>5, <1>7, <1>9, Zenon
    <2>2. Len(Units(h, n)) <= n
      BY <1>1, <1>4
    <2>. QED  BY <1>4, <1>9, <2>1, <2>2
  <1>. QED  BY <1>8, <1>9

\* What a handler finds when units were received
LEMMA Received ==
    ASSUME NEW s \in Streams, NEW from \in {"client", "target"}, NEW to \in {"client", "target"},
           from # to, NEW u \in Seq(Nat)
    PROVE  LET r == [s EXCEPT ![from].in = s[from].in \o u]
           IN  /\ r \in Streams /\ Unmoved(s, r)
               /\ r[from].in = s[from].in \o u /\ r[from].out = s[from].out
               /\ r[from].state = s[from].state /\ r[to] = s[to]
  <1>. DEFINE i == s[from].in \o u
              r == [s EXCEPT ![from].in = i]
  <1>1. s[from] \in Sockets /\ s[to] \in Sockets /\ s[from].in \in Seq(Nat)
    BY DEF Streams, Sockets
  <1>2. i \in Seq(Nat)
    BY <1>1
  <1>. HIDE DEF i
  <1>3. r[from] = [s[from] EXCEPT !.in = i] /\ r[to] = s[to] /\ Unmoved(s, r)
    BY DEF Streams, Unmoved
  <1>4. r[from].in = i /\ r[from].out = s[from].out /\ r[from].state = s[from].state
    BY <1>1, <1>3 DEF Sockets
  <1>5. r \in Streams
    BY <1>1, <1>2 DEF Streams, Sockets
  <1>. HIDE DEF r
  <1>. QED  BY <1>3, <1>4, <1>5 DEF r, i

LEMMA ClientSendsTyped ==
    ASSUME StreamInv, ClientSends
    PROVE  LET u == Units(clientSent + 1, clientSent')
               r == [stream EXCEPT !["client"].in = stream["client"].in \o u]
           IN  /\ EnvironmentType' /\ clientSent \in Nat /\ clientSent' \in Nat
               /\ clientSent < clientSent' /\ clientSent' <= ClientUnits
               /\ u \in Seq(Nat)
               /\ Units(1, clientSent) \in Seq(Nat) /\ Len(Units(1, clientSent)) = clientSent
               /\ Len(u) = clientSent' - clientSent
               /\ Units(1, clientSent) \o u = Units(1, clientSent')
               /\ r \in Streams /\ Unmoved(stream, r)
               /\ r.client.in = stream.client.in \o u /\ r.client.out = stream.client.out
               /\ r.client.state = stream.client.state /\ r.target = stream.target
               /\ Len(stream.client.in \o u) <= MaxPendingBytes
               /\ IsUp(stream.client)
               /\ stream' = IF stream.state = "Tunneling" THEN Pump(r) ELSE ReadRequest(r)
  <1>. DEFINE u == Units(clientSent + 1, clientSent')
              r == [stream EXCEPT !["client"].in = stream["client"].in \o u]
  <1>1. stream \in Streams /\ EnvironmentType
    BY DEF StreamInv
  <1>2. clientSent \in Nat /\ clientSent' \in Nat /\ clientSent < clientSent' /\ clientSent' <= ClientUnits
    BY <1>1, ParameterTypes DEF ClientSends, EnvironmentType
  <1>3. EnvironmentType'
    BY <1>1, <1>2 DEF ClientSends, EnvironmentType
  <1>4. /\ u \in Seq(Nat)
        /\ Units(1, clientSent) \in Seq(Nat) /\ Len(Units(1, clientSent)) = clientSent
        /\ Len(u) = clientSent' - clientSent
        /\ Units(1, clientSent) \o u = Units(1, clientSent')
    <2>1. clientSent <= clientSent'
      BY <1>2
    <2>. QED  BY <1>2, <2>1, UnitsAppended
  <1>5. /\ IsUp(stream.client) /\ Len(stream.client.in \o u) <= MaxPendingBytes
        /\ stream' = IF stream.state = "Tunneling" THEN Pump(r) ELSE ReadRequest(r)
    BY DEF ClientSends
  <1>. HIDE DEF u
  <1>6. /\ r \in Streams /\ Unmoved(stream, r)
        /\ r.client.in = stream.client.in \o u /\ r.client.out = stream.client.out
        /\ r.client.state = stream.client.state /\ r.target = stream.target
    BY <1>1, <1>4, Received
  <1>. HIDE DEF r
  <1>. QED  BY <1>2, <1>3, <1>4, <1>5, <1>6 DEF u, r

LEMMA ClientSendsInTunnel ==
    ASSUME StreamInv, ClientSends, stream.state = "Tunneling"
    PROVE  StreamInv' /\ stream'.state = "Tunneling"
  <1>. DEFINE u == Units(clientSent + 1, clientSent')
              r == [stream EXCEPT !["client"].in = stream["client"].in \o u]
              someoneLeft == clientLeft \/ targetLeft
  <1>1. /\ EnvironmentType' /\ clientSent \in Nat /\ clientSent' \in Nat /\ clientSent < clientSent'
        /\ u \in Seq(Nat) /\ r \in Streams /\ Unmoved(stream, r)
        /\ r.client.in = stream.client.in \o u /\ r.client.out = stream.client.out
        /\ r.client.state = stream.client.state /\ r.target = stream.target
        /\ Len(stream.client.in \o u) <= MaxPendingBytes
        /\ IsUp(stream.client)
        /\ stream' = IF stream.state = "Tunneling" THEN Pump(r) ELSE ReadRequest(r)
    BY ClientSendsTyped, Zenon
  <1>2. EnvironmentType /\ stream \in Streams /\ Tunneling(stream) /\ stream.buffer = <<>>
    BY DEF StreamInv
  <1>3. UNCHANGED <<request, targetSent, clientGot, targetGot, clientLeft, targetLeft, stopped>>
    BY DEF ClientSends
  <1>. HIDE DEF u
  <1>4. Exchange!ForTarget' = Exchange!ForTarget \o u
    BY <1>1, <1>2, <1>3, ForTargetGrows DEF Tunneling, u
  <1>5. Exchange!ForClient' = Exchange!ForClient
    BY <1>3 DEF Exchange!ForClient, Exchange!Units
  <1>6. /\ targetGot \in Seq(Nat) /\ targetLeft \in BOOLEAN /\ someoneLeft \in BOOLEAN
        /\ stream["client"].state # "Unconnected"
    BY <1>1, <1>2 DEF EnvironmentType, IsUp
  <1>7. Delivery(stream, "client", "target", targetGot, Exchange!ForTarget, targetLeft, someoneLeft)
    BY <1>2 DEF Tunneling
  <1>8. Delivery(r, "client", "target", targetGot, Exchange!ForTarget \o u, targetLeft, someoneLeft)
    <2>1. "client" \in {"client", "target"} /\ "target" \in {"client", "target"} /\ "client" # "target"
      OBVIOUS
    <2>2. u \in Seq(Nat) /\ Len(stream["client"].in \o u) <= MaxPendingBytes
      BY <1>1
    <2>. QED  BY <1>2, <1>6, <1>7, <2>1, <2>2, DeliveryGrows, ZenonT(60)
  <1>9. Delivery(stream, "target", "client", clientGot, Exchange!ForClient, clientLeft, someoneLeft)
    BY <1>2 DEF Tunneling
  <1>10. Delivery(r, "target", "client", clientGot, Exchange!ForClient, clientLeft, someoneLeft)
    BY <1>1, <1>9, SameDelivery
  <1>. HIDE DEF r
  <1>11. r.state = "Tunneling" /\ r.buffer = <<>> /\ (r.deleteScheduled => BothUnconnected(r))
    BY <1>1, <1>2 DEF Unmoved, Tunneling, BothUnconnected
  <1>12. ~stopped' /\ request'.valid /\ request'.headersEnd <= clientSent'
    BY <1>1, <1>2, <1>3, StreamAssumption DEF Tunneling, EnvironmentType, Requests
  <1>13. Delivery(r, "client", "target", targetGot', Exchange!ForTarget', targetLeft',
                  clientLeft' \/ targetLeft')
    BY <1>3, <1>4, <1>8, Zenon
  <1>14. Delivery(r, "target", "client", clientGot', Exchange!ForClient', clientLeft',
                  clientLeft' \/ targetLeft')
    BY <1>3, <1>5, <1>10, Zenon
  <1>15. stream' = Pump(r)
    BY <1>1
  <1>. QED  BY <1>1, <1>11, <1>12, <1>13, <1>14, <1>15, TunnelStep

LEMMA ClientSendsRequest ==
    ASSUME StreamInv, ClientSends, stream.state = "ReadingRequest"
    PROVE  StreamInv'
  <1>. DEFINE u == Units(clientSent + 1, clientSent')
              r == [stream EXCEPT !["client"].in = stream["client"].in \o u]
              data == Units(1, clientSent')
              read == [r EXCEPT !.buffer = data, !.client.in = <<>>]
              seen == Least(clientSent', request.headersEnd)
              open == [Idle EXCEPT !.state = "Connected"]
  <1>1. /\ EnvironmentType' /\ clientSent \in Nat /\ clientSent' \in Nat /\ clientSent < clientSent'
        /\ u \in Seq(Nat) /\ r \in Streams /\ Unmoved(stream, r)
        /\ Units(1, clientSent) \in Seq(Nat) /\ Len(Units(1, clientSent)) = clientSent
        /\ Len(u) = clientSent' - clientSent
        /\ Units(1, clientSent) \o u = data
        /\ r.client.in = stream.client.in \o u /\ r.client.out = stream.client.out
        /\ r.client.state = stream.client.state /\ r.target = stream.target
        /\ Len(stream.client.in \o u) <= MaxPendingBytes
        /\ stream' = IF stream.state = "Tunneling" THEN Pump(r) ELSE ReadRequest(r)
    BY ClientSendsTyped, Zenon
  <1>2. EnvironmentType /\ stream \in Streams /\ Reading(stream)
    BY DEF StreamInv
  <1>3. UNCHANGED <<request, targetSent, clientGot, targetGot, clientLeft, targetLeft, stopped>>
    BY DEF ClientSends
  <1>4. stream.client.in = <<>> /\ <<>> \o u = u
    BY <1>1, <1>2, Short DEF Reading, Idle
  <1>5. r.client.in = u /\ Len(u) <= MaxPendingBytes
    BY <1>1, <1>4
  <1>6. r.buffer \o r.client.in = data
    BY <1>1, <1>2, <1>5 DEF Reading, Unmoved
  <1>7. /\ data \in Seq(Nat) /\ Len(data) = clientSent' /\ clientSent' <= OutMax
    <2>1. 0 \in Nat /\ 1 \in Nat /\ 1 <= clientSent' + 1 /\ clientSent' - 1 + 1 = clientSent'
      BY <1>1
    <2>2. data \in Seq(Nat) /\ Len(data) = clientSent'
      BY <1>1, <2>1, UnitsType
    <2>3. clientSent' <= MaxPendingBytes + MaxRequestHeadersSize
      BY <1>1, <1>2, <1>5, StreamAssumption DEF Reading
    <2>. QED  BY <1>1, <2>2, <2>3, ParameterTypes
  <1>8. /\ r.client.state = "Connected" /\ r.client.out = <<>> /\ r.target = Idle
        /\ r.state = "ReadingRequest" /\ ~r.deleteScheduled
    BY <1>1, <1>2 DEF Reading, Idle, Unmoved
  <1>9. stream' = ReadRequest(r)
    BY <1>1
  <1>. HIDE DEF data, u, r
  <1>10. /\ read \in Streams
         /\ read.client = open /\ read.target = Idle /\ read.buffer = data
         /\ read.state = "ReadingRequest" /\ ~read.deleteScheduled
    <2>1. r.client = [state |-> "Connected", in |-> u, out |-> <<>>]
      BY <1>1, <1>5, <1>8 DEF Streams, Sockets
    <2>2. read.client = [state |-> "Connected", in |-> <<>>, out |-> <<>>]
      <3>1. read.client = [r.client EXCEPT !.in = <<>>]
        BY <1>1 DEF Streams
      <3>. HIDE DEF read
      <3>. QED  BY <2>1, <3>1
    <2>3. open = [state |-> "Connected", in |-> <<>>, out |-> <<>>]
      BY DEF Idle
    <2>4. read \in Streams /\ read.target = r.target /\ read.buffer = data
          /\ read.state = r.state /\ read.deleteScheduled = r.deleteScheduled
      BY <1>1, <1>7, Short DEF Streams, Sockets
    <2>. QED  BY <1>8, <2>2, <2>3, <2>4
  <1>11. open.state = "Connected" /\ open.out = <<>> /\ open.in = <<>>
    BY DEF Idle
  <1>. HIDE DEF read, open
  <1>12. stream' = IF seen > MaxRequestHeadersSize THEN RespondAndClose(read, 431)
                   ELSE IF seen < request.headersEnd THEN read
                   ELSE IF ~request.valid THEN RespondAndClose([read EXCEPT !.buffer = <<>>], 400)
                   ELSE StartConnecting(read, data)
    <2>1. ReadRequest(r) =
            LET all == r.buffer \o r.client.in
                rd == [r EXCEPT !.buffer = all, !.client.in = <<>>]
                sn == Least(Len(all), request.headersEnd)
            IN  IF sn > MaxRequestHeadersSize THEN RespondAndClose(rd, 431)
                ELSE IF sn < request.headersEnd THEN rd
                ELSE IF ~request.valid THEN RespondAndClose([rd EXCEPT !.buffer = <<>>], 400)
                ELSE StartConnecting(rd, all)
      BY <1>8 DEF ReadRequest
    <2>. QED  BY <1>6, <1>7, <1>9, <2>1, Zenon DEF read
  <1>13. NothingHappened' /\ ~stopped' /\ ~clientLeft' /\ clientGot' = <<>> /\ request' = request
    BY <1>2, <1>3 DEF Reading, NothingHappened
  <1>14. request.headersEnd \in Nat \ {0} /\ seen \in Nat
         /\ (seen = clientSent' \/ seen = request.headersEnd)
         /\ seen <= clientSent' /\ seen <= request.headersEnd
    BY <1>1, <1>2, StreamAssumption DEF Least, EnvironmentType, Requests
  <1>. HIDE DEF seen
  <1>15. CASE seen > MaxRequestHeadersSize
    <2>1. stream' = RespondAndClose(read, 431) /\ 431 \in Failures
      BY <1>12, <1>15, Zenon DEF Failures
    <2>2. Len(<<>>) <= MaxPendingBytes /\ Len(read.buffer) <= OutMax
      BY <1>7, <1>10, StreamAssumption
    <2>. QED  BY <1>1, <1>10, <1>11, <1>13, <2>1, <2>2, RefusalStep
  <1>16. CASE seen <= MaxRequestHeadersSize /\ seen < request.headersEnd
    <2>1. ~(seen > MaxRequestHeadersSize)
      BY <1>14, <1>16, StreamAssumption
    <2>2. stream' = read
      BY <1>12, <1>16, <2>1, Zenon
    <2>3. clientSent' <= MaxRequestHeadersSize /\ clientSent' < request'.headersEnd
      BY <1>13, <1>14, <1>16
    <2>4. Reading(stream)'
      BY <1>10, <1>13, <2>2, <2>3 DEF Reading, data, open
    <2>. QED  BY <1>1, <1>10, <2>2, <2>4 DEF StreamInv
  <1>17. CASE seen <= MaxRequestHeadersSize /\ ~(seen < request.headersEnd)
    <2>1. ~(seen > MaxRequestHeadersSize)
      BY <1>14, <1>17, StreamAssumption
    <2>2. request.headersEnd \in 1..clientSent'
      BY <1>1, <1>14, <1>17
    <2>3. CASE ~request.valid
      <3>. DEFINE empty == [read EXCEPT !.buffer = <<>>]
      <3>1. stream' = RespondAndClose(empty, 400) /\ 400 \in Failures
        BY <1>12, <1>17, <2>1, <2>3, Zenon DEF Failures
      <3>2. /\ empty \in Streams /\ empty.client = open /\ ~empty.deleteScheduled
            /\ empty.buffer = <<>>
        BY <1>10, Short DEF Streams
      <3>3. Len(<<>>) <= MaxPendingBytes /\ Len(<<>>) <= OutMax
        BY ParameterTypes, StreamAssumption
      <3>. HIDE DEF empty
      <3>. QED  BY <1>1, <1>11, <1>13, <3>1, <3>2, <3>3, RefusalStep
    <2>4. CASE request.valid
      <3>. DEFINE start == IF request.connect THEN request.headersEnd + 1 ELSE request.headersEnd
                  first == Units(start, clientSent')
                  asked == StartConnecting(read, data)
      <3>1. stream' = asked
        BY <1>12, <1>17, <2>1, <2>4, Zenon
      <3>2. ForTarget(data) = first /\ first \in Seq(Nat) /\ Len(first) <= clientSent'
        BY <1>1, <2>2, ForTargetOfUnits DEF data
      <3>3. Exchange!ForTarget' = first
        BY <1>13 DEF Exchange!ForTarget, Exchange!Units, Units
      <3>. HIDE DEF first
      <3>4. /\ asked \in Streams /\ asked.state = "Connecting" /\ asked.buffer = first
            /\ asked.client = open /\ ~asked.deleteScheduled
            /\ asked.target = [Idle EXCEPT !.state = "Connecting"]
        BY <1>10, <3>2 DEF StartConnecting, Streams, Sockets
      <3>. HIDE DEF asked
      <3>5. asked.buffer \o asked.client.in = Exchange!ForTarget'
        BY <1>11, <3>2, <3>3, <3>4, Short
      <3>6. Len(asked.buffer) <= OutMax /\ Len(asked.client.in) <= MaxPendingBytes
        <4>1. Len(first) \in Nat /\ OutMax \in Nat
          BY <3>2, ParameterTypes
        <4>2. Len(first) <= OutMax
          BY <1>1, <1>7, <3>2, <4>1
        <4>. QED  BY <1>11, <3>4, <4>2, StreamAssumption
      <3>7. request'.valid /\ request'.headersEnd <= clientSent'
        BY <1>1, <1>13, <2>2, <2>4
      <3>8. Connecting(stream)'
        BY <1>11, <1>13, <3>1, <3>4, <3>5, <3>6, <3>7 DEF Connecting
      <3>. QED  BY <1>1, <3>1, <3>4, <3>8 DEF StreamInv
    <2>. QED  BY <2>3, <2>4
  <1>. QED  BY <1>14, <1>15, <1>16, <1>17, StreamAssumption

LEMMA ClientSendsEarly ==
    ASSUME StreamInv, ClientSends, stream.state = "Connecting"
    PROVE  StreamInv'
  <1>. DEFINE u == Units(clientSent + 1, clientSent')
              r == [stream EXCEPT !["client"].in = stream["client"].in \o u]
              read == stream.client.in
  <1>1. /\ EnvironmentType' /\ clientSent \in Nat /\ clientSent' \in Nat /\ clientSent < clientSent'
        /\ u \in Seq(Nat) /\ r \in Streams /\ Unmoved(stream, r)
        /\ r.client.in = stream.client.in \o u /\ r.client.out = stream.client.out
        /\ r.client.state = stream.client.state /\ r.target = stream.target
        /\ Len(stream.client.in \o u) <= MaxPendingBytes
        /\ stream' = IF stream.state = "Tunneling" THEN Pump(r) ELSE ReadRequest(r)
    BY ClientSendsTyped, Zenon
  <1>2. EnvironmentType /\ stream \in Streams /\ Connecting(stream)
    BY DEF StreamInv
  <1>3. UNCHANGED <<request, targetSent, clientGot, targetGot, clientLeft, targetLeft, stopped>>
    BY DEF ClientSends
  <1>. HIDE DEF u
  <1>4. Exchange!ForTarget' = Exchange!ForTarget \o u
    <2>1. request.headersEnd <= clientSent
      BY <1>2 DEF Connecting
    <2>2. clientSent <= clientSent'
      BY <1>1
    <2>. QED  BY <1>1, <1>2, <1>3, <2>1, <2>2, ForTargetGrows DEF u
  <1>5. stream.buffer \in Seq(Nat) /\ read \in Seq(Nat)
    BY <1>2 DEF Streams, Sockets
  <1>6. stream.buffer \o (read \o u) = (stream.buffer \o read) \o u
    BY <1>1, <1>5, Associated
  <1>. HIDE DEF r
  <1>7. stream' = r
    BY <1>1 DEF ReadRequest, Unmoved
  <1>8. r.buffer \o r.client.in = Exchange!ForTarget'
    BY <1>1, <1>2, <1>4, <1>6, Zenon DEF Connecting, Unmoved, read
  <1>9. NothingHappened' /\ request'.valid /\ request'.headersEnd <= clientSent'
    BY <1>1, <1>2, <1>3, StreamAssumption DEF Connecting, NothingHappened, EnvironmentType, Requests
  <1>10. /\ r.state = "Connecting" /\ ~r.deleteScheduled /\ Len(r.buffer) <= OutMax
         /\ Len(r.client.in) <= MaxPendingBytes
         /\ r.client.state = "Connected" /\ r.client.out = <<>>
         /\ r.target = [Idle EXCEPT !.state = "Connecting"]
    BY <1>1, <1>2 DEF Connecting, Unmoved
  <1>11. Connecting(stream)'
    BY <1>7, <1>8, <1>9, <1>10 DEF Connecting
  <1>. QED  BY <1>1, <1>7, <1>10, <1>11 DEF StreamInv

LEMMA ClientSendsLate ==
    ASSUME StreamInv, ClientSends, stream.state = "Closing"
    PROVE  StreamInv' /\ stream'.state = "Closing"
  <1>. DEFINE u == Units(clientSent + 1, clientSent')
              r == [stream EXCEPT !["client"].in = stream["client"].in \o u]
  <1>1. /\ EnvironmentType' /\ IsUp(stream.client)
        /\ r \in Streams /\ Unmoved(stream, r)
        /\ r.client.in = stream.client.in \o u /\ r.client.out = stream.client.out
        /\ r.client.state = stream.client.state /\ r.target = stream.target
        /\ Len(stream.client.in \o u) <= MaxPendingBytes
        /\ stream' = IF stream.state = "Tunneling" THEN Pump(r) ELSE ReadRequest(r)
    BY ClientSendsTyped, Zenon
  <1>2. Closed(stream)
    BY DEF StreamInv
  <1>3. UNCHANGED <<request, targetSent, clientGot, targetGot, clientLeft, targetLeft, stopped>>
    BY DEF ClientSends
  <1>. HIDE DEF u, r
  <1>4. stream' = r /\ r.state = "Closing"
    BY <1>1 DEF ReadRequest, Unmoved
  <1>5. Closed(stream)'
    BY <1>1, <1>2, <1>3, <1>4 DEF Closed, IsUp, Unmoved
  <1>. QED  BY <1>1, <1>4, <1>5 DEF StreamInv

LEMMA ClientSendsStep == StreamInv /\ ClientSends => StreamInv'
  <1>1. StreamInv => stream.state \in {"ReadingRequest", "Connecting", "Tunneling", "Closing"}
    BY DEF StreamInv, Streams
  <1>. QED  BY <1>1, ClientSendsInTunnel, ClientSendsRequest, ClientSendsEarly, ClientSendsLate

LEMMA TargetSendsStep ==
    ASSUME StreamInv, TargetSends
    PROVE  StreamInv' /\ stream'.state = "Tunneling"
  <1>. DEFINE u == Units(targetSent + 1, targetSent')
              r == [stream EXCEPT !["target"].in = stream["target"].in \o u]
              someoneLeft == clientLeft \/ targetLeft
  <1>1. stream \in Streams /\ EnvironmentType
    BY DEF StreamInv
  <1>2. targetSent \in Nat /\ targetSent' \in Nat /\ targetSent <= targetSent'
    BY <1>1, ParameterTypes DEF TargetSends, EnvironmentType
  <1>3. UNCHANGED <<request, clientSent, clientGot, targetGot, clientLeft, targetLeft, stopped>>
    BY DEF TargetSends
  <1>4. EnvironmentType'
    BY <1>1, <1>2, <1>3 DEF EnvironmentType
  <1>5. u \in Seq(Nat)
    BY <1>2, UnitsAppended
  <1>6. /\ IsUp(stream.target) /\ Len(stream.target.in \o u) <= MaxPendingBytes
        /\ stream' = Pump(r)
    BY DEF TargetSends
  <1>7. stream.state = "Tunneling"
    BY <1>1, <1>6 DEF StreamInv, Streams, Reading, Connecting, Closed, IsUp, Idle
  <1>8. Tunneling(stream) /\ stream.buffer = <<>>
    BY <1>7 DEF StreamInv
  <1>. HIDE DEF u
  <1>9. /\ r \in Streams /\ Unmoved(stream, r)
        /\ r.target.in = stream.target.in \o u /\ r.target.out = stream.target.out
        /\ r.target.state = stream.target.state /\ r.client = stream.client
    BY <1>1, <1>5, Received
  <1>10. Exchange!ForClient' = Exchange!ForClient \o u
    BY <1>1, <1>2, <1>3, <1>4, ForClientGrows DEF u
  <1>11. Exchange!ForTarget' = Exchange!ForTarget
    BY <1>3 DEF Exchange!ForTarget, Exchange!Units
  <1>12. /\ clientGot \in Seq(Nat) /\ clientLeft \in BOOLEAN /\ someoneLeft \in BOOLEAN
         /\ stream["target"].state # "Unconnected"
    BY <1>1, <1>6 DEF EnvironmentType, IsUp
  <1>13. Delivery(stream, "target", "client", clientGot, Exchange!ForClient, clientLeft, someoneLeft)
    BY <1>8 DEF Tunneling
  <1>14. Delivery(r, "target", "client", clientGot, Exchange!ForClient \o u, clientLeft, someoneLeft)
    BY <1>1, <1>5, <1>6, <1>12, <1>13, DeliveryGrows
  <1>15. Delivery(stream, "client", "target", targetGot, Exchange!ForTarget, targetLeft, someoneLeft)
    BY <1>8 DEF Tunneling
  <1>16. Delivery(r, "client", "target", targetGot, Exchange!ForTarget, targetLeft, someoneLeft)
    <2>. HIDE DEF r
    <2>1. /\ r["client"].in = stream["client"].in /\ r["client"].state = stream["client"].state
          /\ r["target"].out = stream["target"].out /\ r["target"].state = stream["target"].state
      BY <1>9
    <2>2. someoneLeft => someoneLeft
      OBVIOUS
    <2>. QED  BY <1>15, <2>1, <2>2, SameDelivery, ZenonT(60)
  <1>. HIDE DEF r
  <1>17. r.state = "Tunneling" /\ r.buffer = <<>> /\ (r.deleteScheduled => BothUnconnected(r))
    BY <1>7, <1>8, <1>9 DEF Unmoved, Tunneling, BothUnconnected
  <1>18. ~stopped' /\ request'.valid /\ request'.headersEnd <= clientSent'
    BY <1>3, <1>8 DEF Tunneling
  <1>19. Delivery(r, "client", "target", targetGot', Exchange!ForTarget', targetLeft',
                  clientLeft' \/ targetLeft')
    BY <1>3, <1>11, <1>16, Zenon
  <1>20. Delivery(r, "target", "client", clientGot', Exchange!ForClient', clientLeft',
                  clientLeft' \/ targetLeft')
    BY <1>3, <1>10, <1>14, Zenon
  <1>. QED  BY <1>4, <1>6, <1>9, <1>17, <1>18, <1>19, <1>20, TunnelStep

\* The stream when n units of what waits to be sent were sent
Sent(s, side, n) ==
    LET rest == [s[side] EXCEPT !.out = Rest(n, @)]
    IN  [s EXCEPT ![side] = IF rest.state = "Closing" THEN Disconnect(rest) ELSE rest]

LEMMA SentStep ==
    ASSUME NEW s \in Streams, NEW side \in {"client", "target"}, NEW other \in {"client", "target"},
           side # other, NEW n \in 1..Len(s[side].out)
    PROVE  LET r == Sent(s, side, n)
               out == Rest(n, s[side].out)
           IN  /\ r \in Streams /\ Unmoved(s, r) /\ r[other] = s[other]
               /\ r[side].in = s[side].in /\ r[side].out = out
               /\ out \in Seq(Nat) /\ Len(out) = Len(s[side].out) - n
               /\ r[side].state = IF s[side].state = "Closing" /\ out = <<>> THEN "Unconnected"
                                  ELSE s[side].state
               /\ Written(s, side, n) = Pump(r)
  <1>. DEFINE out == Rest(n, s[side].out)
              rest == [s[side] EXCEPT !.out = out]
              c == IF rest.state = "Closing" THEN Disconnect(rest) ELSE rest
              r == Sent(s, side, n)
  <1>1. s[side] \in Sockets /\ s[side].out \in Seq(Nat) /\ n \in 0..Len(s[side].out)
    BY DEF Streams, Sockets
  <1>2. out \in Seq(Nat) /\ Len(out) = Len(s[side].out) - n
    BY <1>1, Cut
  <1>3. r = [s EXCEPT ![side] = c]
    BY DEF Sent
  <1>4. Written(s, side, n) = Pump(r)
    BY DEF Written, Sent
  <1>. HIDE DEF out
  <1>5. /\ rest \in Sockets /\ rest.in = s[side].in /\ rest.out = out
        /\ rest.state = s[side].state
    BY <1>1, <1>2 DEF Sockets
  <1>. HIDE DEF rest
  <1>6. /\ c \in Sockets /\ c.in = s[side].in /\ c.out = out
        /\ c.state = IF s[side].state = "Closing" /\ out = <<>> THEN "Unconnected"
                     ELSE s[side].state
    BY <1>5 DEF Disconnect, Sockets
  <1>. HIDE DEF c
  <1>7. r \in Streams /\ Unmoved(s, r) /\ r[other] = s[other] /\ r[side] = c
    BY <1>3, <1>6 DEF Streams, Unmoved
  <1>. HIDE DEF r
  <1>. QED  BY <1>2, <1>4, <1>6, <1>7 DEF out, r

LEMMA PartsReceived ==
    ASSUME NEW got \in Seq(Nat), NEW out \in Seq(Nat), NEW read \in Seq(Nat), NEW all,
           NEW n \in 0..Len(out), Parts(got, out, read, all)
    PROVE  Parts(got \o First(n, out), Rest(n, out), read, all)
  <1>. DEFINE f == First(n, out)
              t == Rest(n, out)
  <1>1. f \in Seq(Nat) /\ t \in Seq(Nat)
    BY Cut
  <1>2. f \o t = out
    BY Cut
  <1>. HIDE DEF f, t
  <1>. DEFINE e == t \o read
  <1>3. e \in Seq(Nat)
    BY <1>1, Joined
  <1>4. f \o e = (f \o t) \o read
    BY <1>1, Associated
  <1>. HIDE DEF e
  <1>5. got \o (f \o e) = (got \o f) \o e
    BY <1>1, <1>3, Associated
  <1>6. got \o (out \o read) = all
    BY DEF Parts
  <1>7. (got \o f) \o e = all
    BY <1>2, <1>4, <1>5, <1>6, Zenon
  <1>. QED  BY <1>7, Zenon DEF Parts, e, f, t

\* A peer that receives some of what waits for it: the rest still follows.
LEMMA DeliveryReceived ==
    ASSUME NEW s \in Streams, NEW from \in {"client", "target"}, NEW to \in {"client", "target"},
           from # to, NEW n \in 1..Len(s[to].out), NEW got \in Seq(Nat), NEW all,
           NEW toLeft \in BOOLEAN, NEW someoneLeft \in BOOLEAN,
           Delivery(s, from, to, got, all, toLeft, someoneLeft),
           s[to].state # "Unconnected"
    PROVE  Delivery(Sent(s, to, n), from, to, got \o First(n, s[to].out), all, toLeft, someoneLeft)
  <1>. DEFINE r == Sent(s, to, n)
              out == Rest(n, s[to].out)
              now == got \o First(n, s[to].out)
              read == s[from].in
  <1>1. /\ r \in Streams /\ r[from] = s[from] /\ r[to].out = out
        /\ out \in Seq(Nat) /\ Len(out) = Len(s[to].out) - n
        /\ r[to].state = IF s[to].state = "Closing" /\ out = <<>> THEN "Unconnected"
                         ELSE s[to].state
    BY SentStep
  <1>2. s[to].out \in Seq(Nat) /\ read \in Seq(Nat) /\ n \in 0..Len(s[to].out)
    BY DEF Streams, Sockets
  <1>3. Parts(got, s[to].out, read, all) /\ ~toLeft
    BY DEF Delivery, Parts
  <1>4. Parts(now, out, read, all)
    BY <1>2, <1>3, PartsReceived
  <1>5. now \in Seq(Nat)
    BY <1>2, Cut, Joined
  <1>. HIDE DEF out, now, r
  <1>6. out = <<>> /\ read = <<>> => now = all
    <2>. SUFFICES ASSUME out = <<>>, read = <<>> PROVE now = all
      OBVIOUS
    <2>1. now \o (<<>> \o <<>>) = all
      BY <1>4 DEF Parts
    <2>2. now \o (<<>> \o <<>>) = now
      BY <1>5
    <2>. QED  BY <2>1, <2>2
  <1>7. Len(out) <= OutMax /\ Len(read) <= MaxPendingBytes
    BY <1>1, <1>2, ParameterTypes DEF Delivery
  <1>8. now \o (r[to].out \o r[from].in) = all
    BY <1>1, <1>4, Zenon DEF Parts
  <1>9. Delivery(r, from, to, now, all, toLeft, someoneLeft)
    BY <1>1, <1>3, <1>6, <1>7, <1>8 DEF Delivery
  <1>. QED  BY <1>9 DEF r, now

LEMMA ClientReceivesInTunnel ==
    ASSUME StreamInv, ClientReceives, stream.state = "Tunneling"
    PROVE  StreamInv' /\ stream'.state = "Tunneling"
  <1>. DEFINE someoneLeft == clientLeft \/ targetLeft
  <1>1. stream \in Streams /\ EnvironmentType /\ Tunneling(stream) /\ stream.buffer = <<>>
    BY DEF StreamInv
  <1>2. PICK n \in 1..Len(stream.client.out) :
           clientGot' = clientGot \o First(n, stream.client.out) /\ stream' = Written(stream, "client", n)
    BY DEF ClientReceives
  <1>3. /\ IsUp(stream.client)
        /\ UNCHANGED <<request, clientSent, targetSent, targetGot, clientLeft, targetLeft, stopped>>
    BY DEF ClientReceives
  <1>. DEFINE r == Sent(stream, "client", n)
  <1>4. /\ r \in Streams /\ Unmoved(stream, r) /\ r.target = stream.target /\ r.client.in = stream.client.in
        /\ Written(stream, "client", n) = Pump(r)
    BY <1>1, SentStep
  <1>5. clientGot \in Seq(Nat) /\ clientGot' \in Seq(Nat)
    <2>1. stream.client.out \in Seq(Nat) /\ n \in 0..Len(stream.client.out)
      BY <1>1 DEF Streams, Sockets
    <2>2. First(n, stream.client.out) \in Seq(Nat) /\ clientGot \in Seq(Nat)
      BY <1>1, <2>1, Cut DEF EnvironmentType
    <2>. QED  BY <1>2, <2>2, Joined
  <1>6. EnvironmentType'
    BY <1>1, <1>3, <1>5 DEF EnvironmentType
  <1>7. Exchange!ForTarget' = Exchange!ForTarget /\ Exchange!ForClient' = Exchange!ForClient
    BY <1>3 DEF Exchange!ForTarget, Exchange!ForClient, Exchange!Units
  <1>8. /\ clientLeft \in BOOLEAN /\ someoneLeft \in BOOLEAN
        /\ stream["client"].state # "Unconnected"
    BY <1>1, <1>3 DEF EnvironmentType, IsUp
  <1>9. Delivery(stream, "target", "client", clientGot, Exchange!ForClient, clientLeft, someoneLeft)
    BY <1>1 DEF Tunneling
  <1>10. Delivery(r, "target", "client", clientGot \o First(n, stream.client.out), Exchange!ForClient, clientLeft,
                  someoneLeft)
    BY <1>1, <1>5, <1>8, <1>9, DeliveryReceived
  <1>11. Delivery(stream, "client", "target", targetGot, Exchange!ForTarget, targetLeft, someoneLeft)
    BY <1>1 DEF Tunneling
  <1>12. Delivery(r, "client", "target", targetGot, Exchange!ForTarget, targetLeft, someoneLeft)
    BY <1>4, <1>8, <1>11, SameDelivery
  <1>. HIDE DEF r
  <1>13. r.state = "Tunneling" /\ r.buffer = <<>> /\ ~r.deleteScheduled
    BY <1>1, <1>4, <1>8 DEF Unmoved, Tunneling, BothUnconnected
  <1>14. ~stopped' /\ request'.valid /\ request'.headersEnd <= clientSent'
    BY <1>1, <1>3 DEF Tunneling
  <1>15. Delivery(r, "target", "client", clientGot', Exchange!ForClient', clientLeft', clientLeft' \/ targetLeft')
    BY <1>2, <1>3, <1>7, <1>10, Zenon
  <1>16. Delivery(r, "client", "target", targetGot', Exchange!ForTarget', targetLeft', clientLeft' \/ targetLeft')
    BY <1>3, <1>7, <1>12, Zenon
  <1>17. stream' = Pump(r)
    BY <1>2, <1>4, Zenon
  <1>. QED  BY <1>4, <1>6, <1>13, <1>14, <1>15, <1>16, <1>17, TunnelStep

\* The client that received the status of its refusal is disconnected from.
LEMMA ClientReceivesStatus ==
    ASSUME StreamInv, ClientReceives, stream.state = "Closing"
    PROVE  /\ StreamInv' /\ stream'.state = "Closing"
           /\ clientGot = <<>> /\ Exchange!Refused'
  <1>1. stream \in Streams /\ EnvironmentType /\ Closed(stream)
    BY DEF StreamInv
  <1>2. PICK n \in 1..Len(stream.client.out) :
           /\ clientGot' = clientGot \o First(n, stream.client.out)
           /\ stream' = Written(stream, "client", n)
    BY DEF ClientReceives
  <1>3. /\ IsUp(stream.client)
        /\ UNCHANGED <<request, clientSent, targetSent, targetGot, clientLeft, targetLeft, stopped>>
    BY DEF ClientReceives
  <1>4. PICK status \in Failures : stream.client.out = <<status>>
    BY <1>1, <1>3 DEF Closed, IsUp
  <1>5. stream.client.state = "Closing" /\ clientGot = <<>>
    BY <1>1, <1>3 DEF Closed, IsUp
  <1>6. status \in Nat /\ n = 1
    BY <1>2, <1>4, ParameterTypes
  <1>7. First(1, <<status>>) = <<status>> /\ Rest(1, <<status>>) = <<>>
    <2>. DEFINE only == <<status>>
    <2>1. only \in Seq(Nat) /\ Len(only) = 1
      BY <1>6, Short
    <2>. HIDE DEF only
    <2>2. 1 \in 0..Len(only)
      BY <2>1
    <2>3. First(1, only) \in Seq(Nat) /\ First(1, only) \o Rest(1, only) = only
      BY <2>1, <2>2, Cut, Zenon
    <2>4. Rest(1, only) = <<>>
      <3>1. Rest(1, only) \in Seq(Nat) /\ Len(Rest(1, only)) = Len(only) - 1
        BY <2>1, <2>2, Cut, Zenon
      <3>. QED  BY <2>1, <3>1, EmptySeq
    <2>5. First(1, only) \o <<>> = First(1, only)
      BY <2>3, Short, Zenon
    <2>. QED  BY <2>3, <2>4, <2>5, Zenon DEF only
  <1>8. clientGot' = <<status>>
    BY <1>2, <1>4, <1>5, <1>6, <1>7, Short
  <1>. DEFINE r == Sent(stream, "client", n)
  <1>9. /\ r \in Streams /\ Unmoved(stream, r) /\ r.target = stream.target
        /\ r.client.in = stream.client.in /\ r.client.out = Rest(n, stream.client.out)
        /\ r.client.state = IF stream.client.state = "Closing" /\ Rest(n, stream.client.out) = <<>>
                            THEN "Unconnected" ELSE stream.client.state
        /\ Written(stream, "client", n) = Pump(r)
    BY <1>1, SentStep
  <1>. HIDE DEF r
  <1>10. r.client.state = "Unconnected" /\ r.client.out = <<>> /\ r.target = Idle
    BY <1>1, <1>4, <1>5, <1>6, <1>7, <1>9 DEF Closed
  <1>11. BothUnconnected(r) /\ r.state = "Closing"
    BY <1>9, <1>10 DEF BothUnconnected, Idle, Unmoved
  <1>12. stream' = [r EXCEPT !.deleteScheduled = @ \/ BothUnconnected(r)]
    BY <1>2, <1>9, <1>11 DEF Pump, DeleteIfDone
  <1>13. /\ stream' \in Streams /\ stream'.deleteScheduled /\ stream'.state = "Closing"
         /\ stream'.client = r.client /\ stream'.target = r.target /\ stream'.buffer = r.buffer
    BY <1>9, <1>11, <1>12 DEF Streams
  <1>14. EnvironmentType'
    BY <1>1, <1>3, <1>6, <1>8, Short DEF EnvironmentType
  <1>15. Exchange!Refused'
    BY <1>8 DEF Exchange!Refused
  <1>16. Len(stream'.client.in) <= MaxPendingBytes /\ Len(stream'.buffer) <= OutMax
    BY <1>1, <1>9, <1>13 DEF Closed, Unmoved
  <1>17. Closed(stream)'
    BY <1>10, <1>13, <1>15, <1>16 DEF Closed
  <1>. QED  BY <1>5, <1>13, <1>14, <1>15, <1>17 DEF StreamInv

\* Only a client that waits for a tunnel's data or for a refusal has something to receive.
LEMMA ClientReceivesWhen ==
    StreamInv /\ ClientReceives => stream.state \in {"Tunneling", "Closing"}
  <1>. SUFFICES ASSUME StreamInv, ClientReceives PROVE stream.state \in {"Tunneling", "Closing"}
    OBVIOUS
  <1>1. stream.client.out # <<>>
    BY DEF ClientReceives
  <1>. QED  BY <1>1 DEF StreamInv, Streams, Reading, Connecting, Idle

LEMMA ClientReceivesStep == StreamInv /\ ClientReceives => StreamInv'
  BY ClientReceivesInTunnel, ClientReceivesStatus, ClientReceivesWhen

LEMMA TargetUpInTunnel == StreamInv /\ IsUp(stream.target) => stream.state = "Tunneling"
  BY DEF StreamInv, Streams, Reading, Connecting, Closed, IsUp, Idle

LEMMA TargetReceivesInTunnel ==
    ASSUME StreamInv, TargetReceives, stream.state = "Tunneling"
    PROVE  StreamInv' /\ stream'.state = "Tunneling"
  <1>. DEFINE someoneLeft == clientLeft \/ targetLeft
  <1>1. stream \in Streams /\ EnvironmentType /\ Tunneling(stream) /\ stream.buffer = <<>>
    BY DEF StreamInv
  <1>2. PICK n \in 1..Len(stream.target.out) :
           targetGot' = targetGot \o First(n, stream.target.out) /\ stream' = Written(stream, "target", n)
    BY DEF TargetReceives
  <1>3. /\ IsUp(stream.target)
        /\ UNCHANGED <<request, clientSent, targetSent, clientGot, clientLeft, targetLeft, stopped>>
    BY DEF TargetReceives
  <1>. DEFINE r == Sent(stream, "target", n)
  <1>4. /\ r \in Streams /\ Unmoved(stream, r) /\ r.client = stream.client /\ r.target.in = stream.target.in
        /\ Written(stream, "target", n) = Pump(r)
    BY <1>1, SentStep
  <1>5. targetGot \in Seq(Nat) /\ targetGot' \in Seq(Nat)
    <2>1. stream.target.out \in Seq(Nat) /\ n \in 0..Len(stream.target.out)
      BY <1>1 DEF Streams, Sockets
    <2>2. First(n, stream.target.out) \in Seq(Nat) /\ targetGot \in Seq(Nat)
      BY <1>1, <2>1, Cut DEF EnvironmentType
    <2>. QED  BY <1>2, <2>2, Joined
  <1>6. EnvironmentType'
    BY <1>1, <1>3, <1>5 DEF EnvironmentType
  <1>7. Exchange!ForTarget' = Exchange!ForTarget /\ Exchange!ForClient' = Exchange!ForClient
    BY <1>3 DEF Exchange!ForTarget, Exchange!ForClient, Exchange!Units
  <1>8. /\ targetLeft \in BOOLEAN /\ someoneLeft \in BOOLEAN
        /\ stream["target"].state # "Unconnected"
    BY <1>1, <1>3 DEF EnvironmentType, IsUp
  <1>9. Delivery(stream, "client", "target", targetGot, Exchange!ForTarget, targetLeft, someoneLeft)
    BY <1>1 DEF Tunneling
  <1>10. Delivery(r, "client", "target", targetGot \o First(n, stream.target.out), Exchange!ForTarget, targetLeft,
                  someoneLeft)
    BY <1>1, <1>5, <1>8, <1>9, DeliveryReceived
  <1>11. Delivery(stream, "target", "client", clientGot, Exchange!ForClient, clientLeft, someoneLeft)
    BY <1>1 DEF Tunneling
  <1>12. Delivery(r, "target", "client", clientGot, Exchange!ForClient, clientLeft, someoneLeft)
    BY <1>4, <1>8, <1>11, SameDelivery
  <1>. HIDE DEF r
  <1>13. r.state = "Tunneling" /\ r.buffer = <<>> /\ ~r.deleteScheduled
    BY <1>1, <1>4, <1>8 DEF Unmoved, Tunneling, BothUnconnected
  <1>14. ~stopped' /\ request'.valid /\ request'.headersEnd <= clientSent'
    BY <1>1, <1>3 DEF Tunneling
  <1>15. Delivery(r, "client", "target", targetGot', Exchange!ForTarget', targetLeft', clientLeft' \/ targetLeft')
    BY <1>2, <1>3, <1>7, <1>10, Zenon
  <1>16. Delivery(r, "target", "client", clientGot', Exchange!ForClient', clientLeft', clientLeft' \/ targetLeft')
    BY <1>3, <1>7, <1>12, Zenon
  <1>17. stream' = Pump(r)
    BY <1>2, <1>4, Zenon
  <1>. QED  BY <1>4, <1>6, <1>13, <1>14, <1>15, <1>16, <1>17, TunnelStep

LEMMA TargetReceivesStep == StreamInv /\ TargetReceives => StreamInv'
  BY TargetReceivesInTunnel, TargetUpInTunnel DEF TargetReceives

LEMMA ClientLeavesTunnel ==
    ASSUME StreamInv, ClientLeaves, stream.state = "Tunneling"
    PROVE  StreamInv' /\ stream'.state = "Tunneling"
  <1>. DEFINE r == [stream EXCEPT !["client"] = [stream["client"] EXCEPT !.state = "Unconnected", !.out = <<>>]]
              someoneLeft == clientLeft \/ targetLeft
  <1>1. stream \in Streams /\ EnvironmentType /\ Tunneling(stream) /\ stream.buffer = <<>>
    BY DEF StreamInv
  <1>2. /\ IsUp(stream.client) /\ clientLeft' = TRUE /\ stream' = Pump(r)
        /\ UNCHANGED <<request, clientSent, targetSent, clientGot, targetGot, targetLeft, stopped>>
    BY DEF ClientLeaves, PeerLeft
  <1>3. EnvironmentType'
    BY <1>1, <1>2 DEF EnvironmentType
  <1>4. Exchange!ForTarget' = Exchange!ForTarget /\ Exchange!ForClient' = Exchange!ForClient
    BY <1>2 DEF Exchange!ForTarget, Exchange!ForClient, Exchange!Units
  <1>5. /\ r \in Streams /\ Unmoved(stream, r) /\ r.target = stream.target
        /\ r.client.in = stream.client.in /\ r.client.out = <<>> /\ r.client.state = "Unconnected"
    <2>. DEFINE c == [stream["client"] EXCEPT !.state = "Unconnected", !.out = <<>>]
    <2>1. /\ c \in Sockets /\ c.in = stream.client.in /\ c.out = <<>> /\ c.state = "Unconnected"
      BY <1>1, Short DEF Streams, Sockets
    <2>2. r = [stream EXCEPT !["client"] = c]
      OBVIOUS
    <2>. HIDE DEF c, r
    <2>3. r \in Streams /\ Unmoved(stream, r) /\ r.target = stream.target /\ r.client = c
      BY <1>1, <2>1, <2>2 DEF Streams, Unmoved
    <2>. QED  BY <2>1, <2>3
  <1>. HIDE DEF r
  <1>6. stream["client"].state # "Unconnected"
    BY <1>2 DEF IsUp
  <1>7. Delivery(stream, "client", "target", targetGot, Exchange!ForTarget, targetLeft, someoneLeft)
    BY <1>1 DEF Tunneling
  <1>8. Delivery(r, "client", "target", targetGot, Exchange!ForTarget, targetLeft, TRUE)
    BY <1>5, <1>6, <1>7, SameDelivery
  <1>9. Delivery(stream, "target", "client", clientGot, Exchange!ForClient, clientLeft, someoneLeft)
    BY <1>1 DEF Tunneling
  <1>10. Delivery(r, "target", "client", clientGot, Exchange!ForClient, TRUE, TRUE)
    <2>1. Len(<<>>) <= OutMax
      BY ParameterTypes
    <2>. QED  BY <1>5, <1>9, <2>1 DEF Delivery
  <1>11. r.state = "Tunneling" /\ r.buffer = <<>> /\ ~r.deleteScheduled
    BY <1>1, <1>5, <1>6 DEF Unmoved, Tunneling, BothUnconnected
  <1>12. ~stopped' /\ request'.valid /\ request'.headersEnd <= clientSent'
    BY <1>1, <1>2 DEF Tunneling
  <1>13. (clientLeft' \/ targetLeft') = TRUE
    BY <1>2
  <1>14. Delivery(r, "client", "target", targetGot', Exchange!ForTarget', targetLeft', clientLeft' \/ targetLeft')
    BY <1>2, <1>4, <1>8, <1>13, Zenon
  <1>15. Delivery(r, "target", "client", clientGot', Exchange!ForClient', clientLeft', clientLeft' \/ targetLeft')
    BY <1>2, <1>4, <1>10, <1>13, Zenon
  <1>. QED  BY <1>2, <1>3, <1>5, <1>11, <1>12, <1>14, <1>15, TunnelStep

\* A stream whose client is gone is of no use before it is a tunnel.
LEMMA ClientLeavesEarly ==
    ASSUME StreamInv, ClientLeaves, stream.state # "Tunneling"
    PROVE  StreamInv' /\ stream'.state = "Closing"
  <1>. DEFINE c == [stream["client"] EXCEPT !.state = "Unconnected", !.out = <<>>]
              r == [stream EXCEPT !["client"] = c]
              g == IF r.state # "Closing" THEN GiveUp(r) ELSE r
  <1>1. stream \in Streams /\ EnvironmentType
    BY DEF StreamInv
  <1>2. /\ IsUp(stream.client) /\ clientLeft' = TRUE /\ stream' = Pump(r)
        /\ UNCHANGED <<request, clientSent, targetSent, clientGot, targetGot, targetLeft, stopped>>
    BY DEF ClientLeaves, PeerLeft
  <1>3. EnvironmentType'
    BY <1>1, <1>2 DEF EnvironmentType
  <1>4. c \in Sockets /\ c.in = stream.client.in /\ c.out = <<>> /\ c.state = "Unconnected"
    BY <1>1, Short DEF Streams, Sockets
  <1>. HIDE DEF c
  <1>5. r \in Streams /\ Unmoved(stream, r) /\ r.client = c /\ r.target = stream.target
    BY <1>1, <1>4 DEF Streams, Unmoved
  <1>. HIDE DEF r
  <1>6. /\ stream' = DeleteIfDone(g)
        /\ r.state = stream.state /\ r.state # "Tunneling"
    BY <1>2, <1>4, <1>5 DEF Pump, Unmoved
  <1>7. /\ g \in Streams /\ g.state = "Closing" /\ g.client = c /\ g.buffer = stream.buffer
        /\ g.target = Idle
    <2>1. Idle \in Sockets
      BY Short DEF Idle, Sockets
    <2>2. CASE r.state = "Closing"
      <3>1. stream.target = Idle
        BY <1>6, <2>2 DEF StreamInv, Closed
      <3>. QED  BY <1>5, <2>2, <3>1 DEF Unmoved
    <2>3. CASE r.state # "Closing"
      <3>1. g = [r EXCEPT !.state = "Closing", !.timer = FALSE, !.target = Idle]
        BY <2>3 DEF GiveUp, Aborted
      <3>. QED  BY <1>5, <2>1, <3>1 DEF Streams, Unmoved
    <2>. QED  BY <2>2, <2>3
  <1>. HIDE DEF g
  <1>8. BothUnconnected(g)
    BY <1>4, <1>7 DEF BothUnconnected, Idle
  <1>9. /\ stream' \in Streams /\ stream'.deleteScheduled /\ stream'.state = "Closing"
        /\ stream'.client = c /\ stream'.target = Idle /\ stream'.buffer = stream.buffer
    BY <1>6, <1>7, <1>8 DEF DeleteIfDone, Streams
  <1>10. Len(stream.client.in) <= MaxPendingBytes /\ Len(stream.buffer) <= OutMax
    BY InvBounds
  <1>11. Closed(stream)'
    BY <1>2, <1>4, <1>9, <1>10 DEF Closed
  <1>. QED  BY <1>3, <1>9, <1>11 DEF StreamInv

LEMMA ClientLeavesStep == StreamInv /\ ClientLeaves => StreamInv'
  BY ClientLeavesTunnel, ClientLeavesEarly

LEMMA TargetLeavesTunnel ==
    ASSUME StreamInv, TargetLeaves, stream.state = "Tunneling"
    PROVE  StreamInv' /\ stream'.state = "Tunneling"
  <1>. DEFINE r == [stream EXCEPT !["target"] = [stream["target"] EXCEPT !.state = "Unconnected", !.out = <<>>]]
              someoneLeft == clientLeft \/ targetLeft
  <1>1. stream \in Streams /\ EnvironmentType /\ Tunneling(stream) /\ stream.buffer = <<>>
    BY DEF StreamInv
  <1>2. /\ IsUp(stream.target) /\ targetLeft' = TRUE /\ stream' = Pump(r)
        /\ UNCHANGED <<request, clientSent, targetSent, clientGot, targetGot, clientLeft, stopped>>
    BY DEF TargetLeaves, PeerLeft
  <1>3. EnvironmentType'
    BY <1>1, <1>2 DEF EnvironmentType
  <1>4. Exchange!ForTarget' = Exchange!ForTarget /\ Exchange!ForClient' = Exchange!ForClient
    BY <1>2 DEF Exchange!ForTarget, Exchange!ForClient, Exchange!Units
  <1>5. /\ r \in Streams /\ Unmoved(stream, r) /\ r.client = stream.client
        /\ r.target.in = stream.target.in /\ r.target.out = <<>> /\ r.target.state = "Unconnected"
    <2>. DEFINE c == [stream["target"] EXCEPT !.state = "Unconnected", !.out = <<>>]
    <2>1. /\ c \in Sockets /\ c.in = stream.target.in /\ c.out = <<>> /\ c.state = "Unconnected"
      BY <1>1, Short DEF Streams, Sockets
    <2>2. r = [stream EXCEPT !["target"] = c]
      OBVIOUS
    <2>. HIDE DEF c, r
    <2>3. r \in Streams /\ Unmoved(stream, r) /\ r.client = stream.client /\ r.target = c
      BY <1>1, <2>1, <2>2 DEF Streams, Unmoved
    <2>. QED  BY <2>1, <2>3
  <1>. HIDE DEF r
  <1>6. stream["target"].state # "Unconnected"
    BY <1>2 DEF IsUp
  <1>7. Delivery(stream, "target", "client", clientGot, Exchange!ForClient, clientLeft, someoneLeft)
    BY <1>1 DEF Tunneling
  <1>8. Delivery(r, "target", "client", clientGot, Exchange!ForClient, clientLeft, TRUE)
    BY <1>5, <1>6, <1>7, SameDelivery
  <1>9. Delivery(stream, "client", "target", targetGot, Exchange!ForTarget, targetLeft, someoneLeft)
    BY <1>1 DEF Tunneling
  <1>10. Delivery(r, "client", "target", targetGot, Exchange!ForTarget, TRUE, TRUE)
    <2>1. Len(<<>>) <= OutMax
      BY ParameterTypes
    <2>. QED  BY <1>5, <1>9, <2>1 DEF Delivery
  <1>11. r.state = "Tunneling" /\ r.buffer = <<>> /\ ~r.deleteScheduled
    BY <1>1, <1>5, <1>6 DEF Unmoved, Tunneling, BothUnconnected
  <1>12. ~stopped' /\ request'.valid /\ request'.headersEnd <= clientSent'
    BY <1>1, <1>2 DEF Tunneling
  <1>13. (clientLeft' \/ targetLeft') = TRUE
    BY <1>2
  <1>14. Delivery(r, "target", "client", clientGot', Exchange!ForClient', clientLeft', clientLeft' \/ targetLeft')
    BY <1>2, <1>4, <1>8, <1>13, Zenon
  <1>15. Delivery(r, "client", "target", targetGot', Exchange!ForTarget', targetLeft', clientLeft' \/ targetLeft')
    BY <1>2, <1>4, <1>10, <1>13, Zenon
  <1>. QED  BY <1>2, <1>3, <1>5, <1>11, <1>12, <1>14, <1>15, TunnelStep

LEMMA TargetLeavesStep == StreamInv /\ TargetLeaves => StreamInv'
  BY TargetLeavesTunnel, TargetUpInTunnel DEF TargetLeaves

LEMMA TargetConnectingWhen ==
    StreamInv /\ stream.target.state = "Connecting" => stream.state = "Connecting"
  <1>1. Idle.state = "Unconnected"
    BY DEF Idle
  <1>2. StreamInv /\ stream.state = "ReadingRequest" => stream.target.state = "Unconnected"
    BY <1>1 DEF StreamInv, Reading
  <1>3. StreamInv /\ stream.state = "Tunneling" => stream.target.state # "Connecting"
    BY DEF StreamInv, Tunneling, Delivery
  <1>4. StreamInv /\ stream.state = "Closing" => stream.target.state = "Unconnected"
    BY <1>1 DEF StreamInv, Closed
  <1>5. StreamInv => stream.state \in {"ReadingRequest", "Connecting", "Tunneling", "Closing"}
    BY DEF StreamInv, Streams
  <1>. QED  BY <1>2, <1>3, <1>4, <1>5

LEMMA TargetConnectsStep ==
    ASSUME StreamInv, TargetConnects
    PROVE  StreamInv'
  <1>. DEFINE answer == IF request.connect THEN <<Established>> ELSE <<>>
              c == Write(stream.client, answer)
              t == [Write(stream.target, stream.buffer) EXCEPT !.state = "Connected"]
              r == [stream EXCEPT !.state = "Tunneling", !.timer = FALSE, !.target = t,
                                  !.client = c, !.buffer = <<>>]
  <1>1. stream.state = "Connecting"
    BY TargetConnectingWhen DEF TargetConnects
  <1>2. stream \in Streams /\ EnvironmentType /\ Connecting(stream)
    BY <1>1 DEF StreamInv
  <1>3. UNCHANGED <<request, clientSent, targetSent, clientGot, targetGot, clientLeft, targetLeft, stopped>>
    BY DEF TargetConnects, peerVars
  <1>4. stream' = Pump(r)
    BY <1>2 DEF TargetConnects, HandleTargetConnect, Streams
  <1>5. EnvironmentType'
    BY <1>2, <1>3 DEF EnvironmentType
  <1>6. Exchange!ForTarget' = Exchange!ForTarget /\ Exchange!ForClient' = Exchange!ForClient
    BY <1>3 DEF Exchange!ForTarget, Exchange!ForClient, Exchange!Units
  <1>7. answer \in Seq(Nat) /\ Len(answer) <= OutMax /\ Len(<<>>) <= MaxPendingBytes
    BY ParameterTypes, Short
  <1>8. Exchange!ForClient = answer \o <<>>
    <2>1. Units(1, 0) = <<>>
      BY NoUnits
    <2>2. targetSent = 0
      BY <1>2 DEF Connecting, NothingHappened
    <2>. QED  BY <2>1, <2>2 DEF Exchange!ForClient, Exchange!Units, Units
  <1>. HIDE DEF answer
  <1>9. stream.client.out = <<>> /\ <<>> \o answer = answer /\ answer \o <<>> = answer
    BY <1>2, <1>7, Short DEF Connecting
  <1>10. /\ c \in Sockets /\ c.in = stream.client.in /\ c.out = answer /\ c.state = "Connected"
    <2>1. c = [stream.client EXCEPT !.out = answer]
      BY <1>9 DEF Write
    <2>. HIDE DEF c
    <2>2. stream.client \in Sockets /\ stream.client.state = "Connected"
      BY <1>2 DEF Streams, Connecting
    <2>. QED  BY <1>7, <2>1, <2>2 DEF Sockets
  <1>11. /\ t \in Sockets /\ t.in = <<>> /\ t.out = stream.buffer /\ t.state = "Connected"
    <2>1. stream.buffer \in Seq(Nat) /\ <<>> \o stream.buffer = stream.buffer
      BY <1>2, Short DEF Streams
    <2>2. stream.target = [state |-> "Connecting", in |-> <<>>, out |-> <<>>]
      BY <1>2 DEF Connecting, Idle
    <2>3. t = [state |-> "Connected", in |-> <<>>, out |-> stream.buffer]
      <3>1. Write(stream.target, stream.buffer) = [stream.target EXCEPT !.out = stream.buffer]
        BY <2>1, <2>2 DEF Write
      <3>2. t = [[stream.target EXCEPT !.out = stream.buffer] EXCEPT !.state = "Connected"]
        BY <3>1, Zenon
      <3>. DEFINE w == [stream.target EXCEPT !.out = stream.buffer]
      <3>3. w = [state |-> "Connecting", in |-> <<>>, out |-> stream.buffer]
        BY <2>2
      <3>4. t = [w EXCEPT !.state = "Connected"]
        BY <3>2, Zenon
      <3>. HIDE DEF t, w
      <3>. QED  BY <3>3, <3>4
    <2>. HIDE DEF t
    <2>. QED  BY <2>1, <2>3, Short DEF Sockets
  <1>. HIDE DEF c, t
  <1>12. /\ r \in Streams /\ r.state = "Tunneling" /\ r.buffer = <<>>
         /\ r.client = c /\ r.target = t /\ r.deleteScheduled = stream.deleteScheduled
    BY <1>2, <1>10, <1>11, Short DEF Streams
  <1>. HIDE DEF r
  <1>13. /\ targetGot = <<>> /\ clientGot = <<>> /\ ~clientLeft /\ ~targetLeft /\ ~stopped
         /\ ~stream.deleteScheduled /\ request.valid /\ request.headersEnd <= clientSent
         /\ stream.buffer \o stream.client.in = Exchange!ForTarget
         /\ Len(stream.buffer) <= OutMax /\ Len(stream.client.in) <= MaxPendingBytes
    BY <1>2 DEF Connecting, NothingHappened
  <1>14. <<>> \o (stream.buffer \o stream.client.in) = Exchange!ForTarget
    <2>1. stream.buffer \in Seq(Nat) /\ stream.client.in \in Seq(Nat)
      BY <1>2 DEF Streams, Sockets
    <2>2. stream.buffer \o stream.client.in \in Seq(Nat)
      BY <2>1, Joined
    <2>. QED  BY <1>13, <2>2, Short, Zenon
  <1>15. Delivery(r, "client", "target", targetGot, Exchange!ForTarget, targetLeft,
                  clientLeft \/ targetLeft)
    <2>1. targetGot \o (r.target.out \o r.client.in) = Exchange!ForTarget
      BY <1>10, <1>11, <1>12, <1>13, <1>14, Zenon
    <2>. QED  BY <1>10, <1>11, <1>12, <1>13, <2>1 DEF Delivery
  <1>16. Delivery(r, "target", "client", clientGot, Exchange!ForClient, clientLeft,
                  clientLeft \/ targetLeft)
    <2>1. <<>> \o (answer \o <<>>) = Exchange!ForClient
      BY <1>8, <1>9, Zenon
    <2>2. clientGot \o (r.client.out \o r.target.in) = Exchange!ForClient
      BY <1>10, <1>11, <1>12, <1>13, <2>1, Zenon
    <2>. QED  BY <1>7, <1>10, <1>11, <1>12, <1>13, <2>2 DEF Delivery
  <1>17. ~stopped' /\ request'.valid /\ request'.headersEnd <= clientSent' /\ ~r.deleteScheduled
    BY <1>3, <1>12, <1>13
  <1>18. Delivery(r, "client", "target", targetGot', Exchange!ForTarget', targetLeft',
                  clientLeft' \/ targetLeft')
    BY <1>3, <1>6, <1>15, Zenon
  <1>19. Delivery(r, "target", "client", clientGot', Exchange!ForClient', clientLeft',
                  clientLeft' \/ targetLeft')
    BY <1>3, <1>6, <1>16, Zenon
  <1>. QED  BY <1>4, <1>5, <1>12, <1>17, <1>18, <1>19, TunnelStep

LEMMA TargetFailsStep ==
    ASSUME StreamInv, TargetFails
    PROVE  StreamInv'
  <1>. DEFINE r == [stream EXCEPT !.target = Idle]
  <1>1. stream \in Streams /\ EnvironmentType /\ Connecting(stream)
    BY TargetConnectingWhen DEF TargetFails, StreamInv
  <1>2. UNCHANGED <<request, clientSent, targetSent, clientGot, targetGot, clientLeft, targetLeft, stopped>>
    BY DEF TargetFails, peerVars
  <1>3. EnvironmentType' /\ ~stopped' /\ ~clientLeft' /\ clientGot' = <<>>
    BY <1>1, <1>2 DEF EnvironmentType, Connecting, NothingHappened
  <1>4. /\ r \in Streams /\ r.client = stream.client /\ r.buffer = stream.buffer
        /\ r.deleteScheduled = stream.deleteScheduled
    <2>1. Idle \in Sockets
      BY Short DEF Idle, Sockets
    <2>. QED  BY <1>1, <2>1 DEF Streams
  <1>5. stream' = RespondAndClose(r, 502) /\ 502 \in Failures
    BY DEF TargetFails, HandleTargetError, Failures
  <1>. HIDE DEF r
  <1>6. /\ r.client.state = "Connected" /\ r.client.out = <<>> /\ ~r.deleteScheduled
        /\ Len(r.client.in) <= MaxPendingBytes /\ Len(r.buffer) <= OutMax
    BY <1>1, <1>4 DEF Connecting
  <1>. QED  BY <1>3, <1>4, <1>5, <1>6, RefusalStep

\* A request that is not decided in time is refused; later the timer means nothing.
LEMMA TimeoutStep ==
    ASSUME StreamInv, Timeout
    PROVE  /\ StreamInv'
           /\ stream.state \in {"Tunneling", "Closing"} => stream'.state = stream.state
  <1>1. stream \in Streams /\ EnvironmentType
    BY DEF StreamInv
  <1>2. UNCHANGED <<request, clientSent, targetSent, clientGot, targetGot, clientLeft, targetLeft, stopped>>
    BY DEF Timeout, peerVars
  <1>3. EnvironmentType'
    BY <1>1, <1>2 DEF EnvironmentType
  <1>4. CASE stream.state \in {"ReadingRequest", "Connecting"}
    <2>1. /\ ~stopped' /\ ~clientLeft' /\ clientGot' = <<>>
          /\ stream.client.state = "Connected" /\ stream.client.out = <<>>
          /\ ~stream.deleteScheduled
      BY <1>2, <1>4 DEF StreamInv, Reading, Connecting, NothingHappened, Idle
    <2>2. Len(stream.client.in) <= MaxPendingBytes /\ Len(stream.buffer) <= OutMax
      BY InvBounds
    <2>3. PICK status \in Failures :
             stream' = [RespondAndClose(stream, status) EXCEPT !.timer = FALSE]
      <3>1. 408 \in Failures /\ 504 \in Failures
        BY DEF Failures
      <3>2. HandleTimeout(stream) = RespondAndClose(stream, 408)
            \/ HandleTimeout(stream) = RespondAndClose(stream, 504)
        BY <1>4 DEF HandleTimeout
      <3>. QED  BY <3>1, <3>2, Zenon DEF Timeout
    <2>4. StreamInv'
      BY <1>1, <1>3, <2>1, <2>2, <2>3, RefusalStep
    <2>. QED  BY <1>4, <2>4
  <1>5. CASE stream.state \in {"Tunneling", "Closing"}
    <2>1. stream' = [stream EXCEPT !.timer = FALSE]
      BY <1>5 DEF Timeout, HandleTimeout
    <2>2. /\ stream' \in Streams /\ stream'.state = stream.state /\ stream'.buffer = stream.buffer
          /\ stream'.client = stream.client /\ stream'.target = stream.target
          /\ stream'.deleteScheduled = stream.deleteScheduled
      BY <1>1, <2>1 DEF Streams
    <2>3. Exchange!ForTarget' = Exchange!ForTarget /\ Exchange!ForClient' = Exchange!ForClient
      BY <1>2 DEF Exchange!ForTarget, Exchange!ForClient, Exchange!Units
    <2>4. CASE stream.state = "Tunneling"
      <3>1. /\ Tunneling(stream) /\ stream.buffer = <<>>
            /\ NoStall(stream, "client", "target") /\ NoStall(stream, "target", "client")
        BY <2>4 DEF StreamInv
      <3>2. NoStall(stream', "client", "target") /\ NoStall(stream', "target", "client")
        BY <2>2, <3>1 DEF NoStall
      <3>3. Delivery(stream, "client", "target", targetGot, Exchange!ForTarget, targetLeft,
                     clientLeft \/ targetLeft)
        BY <3>1 DEF Tunneling
      <3>4. Delivery(stream', "client", "target", targetGot, Exchange!ForTarget, targetLeft,
                     clientLeft \/ targetLeft)
        BY <2>2, <3>3, SameDelivery
      <3>5. Delivery(stream, "target", "client", clientGot, Exchange!ForClient, clientLeft,
                     clientLeft \/ targetLeft)
        BY <3>1 DEF Tunneling
      <3>6. Delivery(stream', "target", "client", clientGot, Exchange!ForClient, clientLeft,
                     clientLeft \/ targetLeft)
        BY <2>2, <3>5, SameDelivery
      <3>7. Delivery(stream', "client", "target", targetGot', Exchange!ForTarget', targetLeft',
                     clientLeft' \/ targetLeft')
        BY <1>2, <2>3, <3>4, Zenon
      <3>8. Delivery(stream', "target", "client", clientGot', Exchange!ForClient', clientLeft',
                     clientLeft' \/ targetLeft')
        BY <1>2, <2>3, <3>6, Zenon
      <3>9. /\ ~stopped' /\ request'.valid /\ request'.headersEnd <= clientSent'
            /\ stream'.deleteScheduled => BothUnconnected(stream')
        BY <1>2, <2>2, <3>1 DEF Tunneling, BothUnconnected
      <3>10. Tunneling(stream)'
        BY <3>7, <3>8, <3>9 DEF Tunneling
      <3>. QED  BY <1>3, <2>2, <2>4, <3>1, <3>2, <3>10 DEF StreamInv
    <2>5. CASE stream.state = "Closing"
      <3>1. Closed(stream)
        BY <2>5 DEF StreamInv
      <3>2. Closed(stream)'
        BY <1>2, <2>2, <3>1 DEF Closed, Exchange!Refused
      <3>. QED  BY <1>3, <2>2, <2>5, <3>2 DEF StreamInv
    <2>. QED  BY <1>5, <2>4, <2>5
  <1>. QED  BY <1>1, <1>4, <1>5 DEF Streams

LEMMA StopStep ==
    ASSUME StreamInv, Stop
    PROVE  StreamInv' /\ stream'.state = "Closing" /\ stream'.deleteScheduled
  <1>. DEFINE r == [stream EXCEPT !.state = "Closing", !.client = Idle, !.target = Idle]
  <1>1. stream \in Streams /\ EnvironmentType
    BY DEF StreamInv
  <1>2. /\ stopped' = TRUE /\ stream' = Pump(r)
        /\ UNCHANGED <<request, clientSent, targetSent, clientGot, targetGot, clientLeft, targetLeft>>
    BY DEF Stop, CloseAndDeleteLater, Aborted, peerVars
  <1>3. EnvironmentType'
    BY <1>1, <1>2 DEF EnvironmentType
  <1>4. r \in Streams /\ r.state = "Closing" /\ r.client = Idle /\ r.target = Idle
        /\ r.buffer = stream.buffer
    <2>1. Idle \in Sockets
      BY Short DEF Idle, Sockets
    <2>. QED  BY <1>1, <2>1 DEF Streams
  <1>. HIDE DEF r
  <1>5. BothUnconnected(r)
    BY <1>4 DEF BothUnconnected, Idle
  <1>6. /\ stream' \in Streams /\ stream'.state = "Closing" /\ stream'.client = Idle
        /\ stream'.target = Idle /\ stream'.buffer = stream.buffer /\ stream'.deleteScheduled
    BY <1>2, <1>4, <1>5 DEF Pump, DeleteIfDone, Streams
  <1>7. Len(stream.buffer) <= OutMax /\ Len(<<>>) <= MaxPendingBytes
    BY InvBounds, Short, StreamAssumption
  <1>8. Closed(stream)'
    BY <1>2, <1>6, <1>7 DEF Closed, Idle
  <1>. QED  BY <1>3, <1>6, <1>8 DEF StreamInv

LEMMA StreamNext == StreamInv /\ [Next]_vars => StreamInv'
  <1>. SUFFICES ASSUME StreamInv, [Next]_vars PROVE StreamInv'
    OBVIOUS
  <1>1. CASE ClientSends     BY <1>1, ClientSendsStep
  <1>2. CASE ClientReceives  BY <1>2, ClientReceivesStep
  <1>3. CASE ClientLeaves    BY <1>3, ClientLeavesStep
  <1>4. CASE TargetConnects  BY <1>4, TargetConnectsStep
  <1>5. CASE TargetFails     BY <1>5, TargetFailsStep
  <1>6. CASE TargetSends     BY <1>6, TargetSendsStep
  <1>7. CASE TargetReceives  BY <1>7, TargetReceivesStep
  <1>8. CASE TargetLeaves    BY <1>8, TargetLeavesStep
  <1>9. CASE Timeout         BY <1>9, TimeoutStep
  <1>10. CASE Stop           BY <1>10, StopStep
  <1>11. CASE UNCHANGED vars
    <2>1. UNCHANGED <<stream, request, clientSent, targetSent, clientGot, targetGot, clientLeft,
                      targetLeft, stopped>>
      BY <1>11 DEF vars, peerVars
    <2>2. Exchange!ForTarget' = Exchange!ForTarget /\ Exchange!ForClient' = Exchange!ForClient
      BY <2>1 DEF Exchange!ForTarget, Exchange!ForClient, Exchange!Units
    <2>3. Exchange!Refused' = Exchange!Refused
      BY <2>1 DEF Exchange!Refused
    <2>4. EnvironmentType' /\ (Closed(stream) => Closed(stream)')
      BY <2>1, <2>3 DEF StreamInv, EnvironmentType, Closed
    <2>5. (Reading(stream) => Reading(stream)') /\ (Connecting(stream) => Connecting(stream)')
      BY <2>1, <2>2 DEF Reading, Connecting, NothingHappened
    <2>6. Tunneling(stream) => Tunneling(stream)'
      BY <2>1, <2>2, Zenon DEF Tunneling
    <2>. QED  BY <2>1, <2>4, <2>5, <2>6 DEF StreamInv
  <1>. QED  BY <1>1, <1>2, <1>3, <1>4, <1>5, <1>6, <1>7, <1>8, <1>9, <1>10, <1>11 DEF Next

\* In each state of a connection (ReadingRequest, Connecting, Tunneling,
\* Closing) what it holds and what its peers got are parts of one exchange.
THEOREM StreamInvariant == Spec => []StreamInv
  <1>1. Init => StreamInv
    BY StreamInit
  <1>2. StreamInv /\ [Next]_vars => StreamInv'
    BY StreamNext
  <1>. QED  BY <1>1, <1>2, PTL DEF Spec

-----------------------------------------------------------------------------
(* The theorems *)

\* Whatever the peers send, take and do, data that can be written is never left
\* unread: pump runs whenever one of its conditions may have changed.
THEOREM DataMovesOn == Spec => []NothingStalls
  <1>1. StreamInv => NothingStalls
    <2>. SUFFICES ASSUME StreamInv, stream.state = "Tunneling",
                         NEW from \in {"client", "target"}
                  PROVE  LET to == IF from = "client" THEN "target" ELSE "client"
                         IN  (stream[from].in # <<>> /\ stream[to].state = "Connected") =>
                                 Len(stream[to].out) >= MaxPendingBytes
      BY DEF NothingStalls
    <2>1. NoStall(stream, "client", "target") /\ NoStall(stream, "target", "client")
      BY DEF StreamInv
    <2>. QED  BY <2>1 DEF NoStall
  <1>. QED  BY <1>1, StreamInvariant, PTL

\* What a connection holds is limited for each direction, for all sizes of the
\* limit, of the chunks and of the headers, and however slow a peer is.
THEOREM BuffersAreBounded == Spec => []MemoryIsBounded
  <1>1. StreamInv => MemoryIsBounded
    BY InvBounds DEF MemoryIsBounded, OutMax
  <1>. QED  BY <1>1, StreamInvariant, PTL

-----------------------------------------------------------------------------
(* Refinement *)

\* Only streams whose sockets are both closed are deleted.
LEMMA DeletedIsUnconnected ==
    StreamInv /\ stream.deleteScheduled =>
        stream.client.state = "Unconnected" /\ stream.target.state = "Unconnected"
  <1>. SUFFICES ASSUME StreamInv, stream.deleteScheduled
                PROVE  stream.client.state = "Unconnected" /\ stream.target.state = "Unconnected"
    OBVIOUS
  <1>1. stream.state \in {"Tunneling", "Closing"}
    BY DEF StreamInv, Streams, Reading, Connecting
  <1>2. CASE stream.state = "Tunneling"
    BY <1>2 DEF StreamInv, Tunneling, BothUnconnected
  <1>3. CASE stream.state = "Closing"
    BY <1>3 DEF StreamInv, Closed, Idle
  <1>. QED  BY <1>1, <1>2, <1>3

\* A stream is not deleted before everybody who stayed got everything.
LEMMA MayEndWhenDeleted ==
    ASSUME StreamInv', stream'.deleteScheduled
    PROVE  Exchange!MayEnd'
  <1>1. stream'.state \in {"Tunneling", "Closing"}
    BY DEF StreamInv, Streams, Reading, Connecting
  <1>2. CASE stream'.state = "Tunneling"
    <2>1. Tunneling(stream)'
      BY <1>2 DEF StreamInv
    <2>2. stream'.client.state = "Unconnected" /\ stream'.target.state = "Unconnected"
      BY <2>1 DEF Tunneling, BothUnconnected
    <2>3. Delivery(stream', "client", "target", targetGot', Exchange!ForTarget', targetLeft',
                   clientLeft' \/ targetLeft')
      BY <2>1, Zenon DEF Tunneling
    <2>4. Delivery(stream', "target", "client", clientGot', Exchange!ForClient', clientLeft',
                   clientLeft' \/ targetLeft')
      BY <2>1, Zenon DEF Tunneling
    <2>5. /\ clientLeft' \/ targetLeft'
          /\ clientLeft' \/ clientGot' = Exchange!ForClient'
          /\ targetLeft' \/ targetGot' = Exchange!ForTarget'
      BY <2>2, <2>3, <2>4 DEF Delivery
    <2>6. Phase' = "tunneling"
      BY <1>2 DEF Phase
    <2>. QED  BY <2>5, <2>6 DEF Exchange!MayEnd
  <1>3. CASE stream'.state = "Closing"
    <2>1. stopped' \/ clientLeft' \/ Exchange!Refused'
      BY <1>3 DEF StreamInv, Closed
    <2>2. Phase' = "closing"
      BY <1>3 DEF Phase
    <2>. QED  BY <2>1, <2>2 DEF Exchange!MayEnd
  <1>. QED  BY <1>1, <1>2, <1>3

LEMMA SettleStep ==
    ASSUME StreamInv, StreamInv', UNCHANGED request,
           stream.state \in {"Tunneling", "Closing"} => stream'.state = stream.state
    PROVE  Exchange!Settle
  <1>1. stream.state \in {"ReadingRequest", "Connecting", "Tunneling", "Closing"}
        /\ stream'.state \in {"ReadingRequest", "Connecting", "Tunneling", "Closing"}
    BY DEF StreamInv, Streams
  <1>2. Phase' \in IF Phase = "requesting" THEN {"requesting", "tunneling", "closing"} ELSE {Phase}
    BY <1>1 DEF Phase
  <1>3. Phase' = "tunneling" => request.valid
    <2>1. Phase' = "tunneling" => stream'.state = "Tunneling"
      BY <1>1 DEF Phase
    <2>2. stream'.state = "Tunneling" => request'.valid
      BY DEF StreamInv, Tunneling
    <2>. QED  BY <2>1, <2>2
  <1>4. stream'.deleteScheduled => Exchange!MayEnd'
    BY MayEndWhenDeleted
  <1>. QED  BY <1>2, <1>3, <1>4 DEF Exchange!Settle

\* A peer that receives some of what waits for it receives an initial part of
\* what is meant for it, which continues what it already had.
LEMMA ReceivedPart ==
    ASSUME NEW got \in Seq(Nat), NEW out \in Seq(Nat), NEW read \in Seq(Nat), NEW all,
           NEW n \in 1..Len(out), Parts(got, out, read, all)
    PROVE  LET now == got \o First(n, out)
           IN  /\ \E m \in Len(got)..Len(all) : now = SubSeq(all, 1, m)
               /\ Exchange!IsInitialPart(got, now)
  <1>. DEFINE f == First(n, out)
              now == got \o f
              left == Rest(n, out) \o read
  <1>1. n \in 0..Len(out)
    OBVIOUS
  <1>2. f \in Seq(Nat) /\ Rest(n, out) \in Seq(Nat)
    BY <1>1, Cut, Zenon
  <1>3. left \in Seq(Nat)
    BY <1>2, Joined
  <1>4. now \o left = all
    <2>1. Parts(now, Rest(n, out), read, all)
      BY <1>1, PartsReceived, Zenon
    <2>. QED  BY <2>1, Zenon DEF Parts
  <1>. HIDE DEF f, left
  <1>5. now \in Seq(Nat) /\ Len(got) \in 0..Len(now) /\ SubSeq(now, 1, Len(got)) = got
    BY <1>2, InitialPart
  <1>. HIDE DEF now
  <1>6. Len(now) \in 0..Len(all) /\ SubSeq(all, 1, Len(now)) = now
    BY <1>3, <1>4, <1>5, InitialPart
  <1>7. Len(got) <= Len(now) /\ Len(now) \in Len(got)..Len(all)
    BY <1>5, <1>6
  <1>8. Exchange!IsInitialPart(got, now)
    BY <1>5, <1>7 DEF Exchange!IsInitialPart
  <1>9. \E m \in Len(got)..Len(all) : now = SubSeq(all, 1, m)
    BY <1>6, <1>7
  <1>. QED  BY <1>8, <1>9 DEF now, f

LEMMA ReceivesImplemented ==
    /\ StreamInv /\ StreamInv' /\ ClientReceives => Exchange!ClientReceives
    /\ StreamInv /\ StreamInv' /\ TargetReceives => Exchange!TargetReceives
  <1>1. ASSUME StreamInv, StreamInv', ClientReceives PROVE Exchange!ClientReceives
    <2>1. stream \in Streams /\ EnvironmentType
      BY <1>1 DEF StreamInv
    <2>2. UNCHANGED <<request, clientSent, targetSent, targetGot, clientLeft, targetLeft, stopped>>
      BY <1>1 DEF ClientReceives
    <2>3. CASE stream.state = "Tunneling"
      <3>1. Tunneling(stream) /\ stream["client"].state # "Unconnected"
        BY <1>1, <2>3 DEF StreamInv, ClientReceives, IsUp
      <3>2. Parts(clientGot, stream.client.out, stream.target.in, Exchange!ForClient)
        BY <3>1 DEF Tunneling, Delivery, Parts
      <3>3. PICK n \in 1..Len(stream.client.out) :
                    clientGot' = clientGot \o First(n, stream.client.out)
        BY <1>1 DEF ClientReceives
      <3>4. /\ clientGot \in Seq(Nat) /\ stream.client.out \in Seq(Nat)
            /\ stream.target.in \in Seq(Nat)
        BY <2>1 DEF EnvironmentType, Streams, Sockets
      <3>5. /\ \E m \in Len(clientGot)..Len(Exchange!ForClient) :
                    clientGot' = SubSeq(Exchange!ForClient, 1, m)
            /\ Exchange!IsInitialPart(clientGot, clientGot')
        <4>. DEFINE now == clientGot \o First(n, stream.client.out)
        <4>1. /\ \E m \in Len(clientGot)..Len(Exchange!ForClient) :
                      now = SubSeq(Exchange!ForClient, 1, m)
              /\ Exchange!IsInitialPart(clientGot, now)
          BY <3>2, <3>4, ReceivedPart, Zenon
        <4>. QED  BY <3>3, <4>1, Zenon
      <3>6. Exchange!Settle
        BY <1>1, <2>2, <2>3, ClientReceivesInTunnel, SettleStep
      <3>7. Phase = "tunneling"
        BY <2>3 DEF Phase
      <3>. QED  BY <2>2, <3>5, <3>6, <3>7 DEF Exchange!ClientReceives
    <2>4. CASE stream.state = "Closing"
      <3>1. stream'.state = "Closing" /\ clientGot = <<>> /\ Exchange!Refused'
        BY <1>1, <2>4, ClientReceivesStatus
      <3>2. Exchange!Settle
        BY <1>1, <2>2, <2>4, <3>1, SettleStep
      <3>3. Phase = "closing"
        BY <2>4 DEF Phase
      <3>. QED  BY <2>2, <3>1, <3>2, <3>3 DEF Exchange!ClientReceives, Exchange!Refused
    <2>. QED  BY <1>1, <2>3, <2>4, ClientReceivesWhen
  <1>2. ASSUME StreamInv, StreamInv', TargetReceives PROVE Exchange!TargetReceives
    <2>1. stream \in Streams /\ EnvironmentType
      BY <1>2 DEF StreamInv
    <2>2. UNCHANGED <<request, clientSent, targetSent, clientGot, clientLeft, targetLeft, stopped>>
      BY <1>2 DEF TargetReceives
    <2>3. stream.state = "Tunneling"
      BY <1>2, TargetUpInTunnel DEF TargetReceives
    <2>4. Tunneling(stream) /\ stream["target"].state # "Unconnected"
      BY <1>2, <2>3 DEF StreamInv, TargetReceives, IsUp
    <2>5. Parts(targetGot, stream.target.out, stream.client.in, Exchange!ForTarget)
      BY <2>4 DEF Tunneling, Delivery, Parts
    <2>6. PICK n \in 1..Len(stream.target.out) :
                  targetGot' = targetGot \o First(n, stream.target.out)
      BY <1>2 DEF TargetReceives
    <2>7. /\ targetGot \in Seq(Nat) /\ stream.target.out \in Seq(Nat)
          /\ stream.client.in \in Seq(Nat)
      BY <2>1 DEF EnvironmentType, Streams, Sockets
    <2>8. /\ \E m \in Len(targetGot)..Len(Exchange!ForTarget) :
                  targetGot' = SubSeq(Exchange!ForTarget, 1, m)
          /\ Exchange!IsInitialPart(targetGot, targetGot')
      <3>. DEFINE now == targetGot \o First(n, stream.target.out)
      <3>1. /\ \E m \in Len(targetGot)..Len(Exchange!ForTarget) :
                    now = SubSeq(Exchange!ForTarget, 1, m)
            /\ Exchange!IsInitialPart(targetGot, now)
        BY <2>5, <2>7, ReceivedPart, Zenon
      <3>. QED  BY <2>6, <3>1, Zenon
    <2>9. Exchange!Settle
      BY <1>2, <2>2, <2>3, TargetReceivesInTunnel, SettleStep
    <2>10. Phase = "tunneling"
      BY <2>3 DEF Phase
    <2>. QED  BY <2>2, <2>8, <2>9, <2>10 DEF Exchange!TargetReceives
  <1>. QED  BY <1>1, <1>2

LEMMA SendsImplemented ==
    /\ StreamInv /\ StreamInv' /\ ClientSends => Exchange!ClientSends
    /\ StreamInv /\ StreamInv' /\ TargetSends => Exchange!TargetSends
  <1>1. ASSUME StreamInv, StreamInv', ClientSends PROVE Exchange!ClientSends
    <2>1. clientSent' \in clientSent + 1..ClientUnits
          /\ UNCHANGED <<request, targetSent, clientGot, targetGot, clientLeft, targetLeft, stopped>>
      BY <1>1 DEF ClientSends
    <2>2. stream.state \in {"Tunneling", "Closing"} => stream'.state = stream.state
      BY <1>1, ClientSendsInTunnel, ClientSendsLate
    <2>3. Exchange!Settle
      BY <1>1, <2>1, <2>2, SettleStep
    <2>. QED  BY <2>1, <2>3 DEF Exchange!ClientSends
  <1>2. ASSUME StreamInv, StreamInv', TargetSends PROVE Exchange!TargetSends
    <2>1. targetSent' \in targetSent + 1..TargetUnits
          /\ UNCHANGED <<request, clientSent, clientGot, targetGot, clientLeft, targetLeft, stopped>>
      BY <1>2 DEF TargetSends
    <2>2. stream.state = "Tunneling" /\ stream'.state = "Tunneling"
      BY <1>2, TargetUpInTunnel, TargetSendsStep DEF TargetSends
    <2>3. Exchange!Settle
      BY <1>2, <2>1, <2>2, SettleStep
    <2>4. Phase = "tunneling"
      BY <2>2 DEF Phase
    <2>. QED  BY <2>1, <2>3, <2>4 DEF Exchange!TargetSends
  <1>. QED  BY <1>1, <1>2

LEMMA LeavesImplemented ==
    StreamInv /\ StreamInv' /\ (ClientLeaves \/ TargetLeaves) => Exchange!Leave
  <1>1. ASSUME StreamInv, StreamInv', ClientLeaves PROVE Exchange!Leave
    <2>1. /\ clientLeft' = TRUE
          /\ UNCHANGED <<request, clientSent, targetSent, clientGot, targetGot, targetLeft, stopped>>
      BY <1>1 DEF ClientLeaves
    <2>2. ~clientLeft
      <3>1. stream.client.state # "Unconnected"
        BY <1>1 DEF ClientLeaves, IsUp
      <3>. QED  BY <1>1, <3>1 DEF StreamInv, Streams, Reading, Connecting, NothingHappened,
                                  Tunneling, Delivery, Closed
    <2>3. stream.state \in {"Tunneling", "Closing"} => stream'.state = stream.state
      BY <1>1, ClientLeavesTunnel, ClientLeavesEarly
    <2>4. Exchange!Settle
      BY <1>1, <2>1, <2>3, SettleStep
    <2>. QED  BY <2>1, <2>2, <2>4 DEF Exchange!Leave
  <1>2. ASSUME StreamInv, StreamInv', TargetLeaves PROVE Exchange!Leave
    <2>1. /\ targetLeft' = TRUE
          /\ UNCHANGED <<request, clientSent, targetSent, clientGot, targetGot, clientLeft, stopped>>
      BY <1>2 DEF TargetLeaves
    <2>2. stream.state = "Tunneling" /\ stream'.state = "Tunneling"
      BY <1>2, TargetUpInTunnel, TargetLeavesTunnel DEF TargetLeaves
    <2>3. ~targetLeft
      <3>1. stream.target.state # "Unconnected"
        BY <1>2 DEF TargetLeaves, IsUp
      <3>. QED  BY <1>2, <2>2, <3>1 DEF StreamInv, Tunneling, Delivery
    <2>4. Exchange!Settle
      BY <1>2, <2>1, <2>2, SettleStep
    <2>. QED  BY <2>1, <2>3, <2>4 DEF Exchange!Leave
  <1>. QED  BY <1>1, <1>2

LEMMA DecisionsImplemented ==
    StreamInv /\ StreamInv' /\ (TargetConnects \/ TargetFails \/ Timeout) => Exchange!Decide
  <1>. SUFFICES ASSUME StreamInv, StreamInv', TargetConnects \/ TargetFails \/ Timeout
                PROVE  Exchange!Decide
    OBVIOUS
  <1>1. UNCHANGED <<request, clientSent, targetSent, clientGot, targetGot, clientLeft, targetLeft, stopped>>
    BY DEF TargetConnects, TargetFails, Timeout, peerVars
  <1>2. stream.state \in {"Tunneling", "Closing"} => stream'.state = stream.state
    <2>1. CASE TargetConnects \/ TargetFails
      BY <2>1, TargetConnectingWhen DEF TargetConnects, TargetFails
    <2>2. CASE Timeout
      BY <2>2, TimeoutStep
    <2>. QED  BY <2>1, <2>2
  <1>3. Exchange!Settle
    BY <1>1, <1>2, SettleStep
  <1>. QED  BY <1>1, <1>3 DEF Exchange!Decide

LEMMA StopImplemented == StreamInv /\ Stop => Exchange!Stop
  <1>. SUFFICES ASSUME StreamInv, Stop PROVE Exchange!Stop
    OBVIOUS
  <1>1. stream'.state = "Closing" /\ stream'.deleteScheduled
    BY StopStep
  <1>2. Phase' = "closing"
    BY <1>1 DEF Phase
  <1>3. stream'.deleteScheduled = TRUE
    <2>1. stream'.deleteScheduled \in BOOLEAN
      BY StopStep DEF StreamInv, Streams
    <2>. QED  BY <1>1, <2>1
  <1>. QED  BY <1>2, <1>3 DEF Stop, Exchange!Stop, peerVars

LEMMA NotDeletedYet == StreamInv /\ Next => ~stream.deleteScheduled
  <1>. SUFFICES ASSUME StreamInv, Next, stream.deleteScheduled PROVE FALSE
    OBVIOUS
  <1>1. stream.client.state = "Unconnected" /\ stream.target.state = "Unconnected"
    BY DeletedIsUnconnected
  <1>2. ~IsUp(stream.client) /\ ~IsUp(stream.target)
    BY <1>1 DEF IsUp
  <1>. QED  BY <1>1, <1>2 DEF Next, ClientSends, ClientReceives, ClientLeaves, TargetConnects,
                              TargetFails, TargetSends, TargetReceives, TargetLeaves, Timeout, Stop

\* What the peers see of a connection is what ProxiedExchange promises: all of
\* what is meant for them in order, unless they leave or the proxy is stopped,
\* for all requests and for all that they send, and for all sizes of the limits.
THEOREM ExchangeIsImplemented == Spec => ImplementsExchange
  <1>1. Init => Exchange!Init
    <2>. SUFFICES ASSUME Init PROVE Exchange!Init
      OBVIOUS
    <2>1. stream.state = "ReadingRequest" /\ stream.deleteScheduled = FALSE
      BY DEF Init
    <2>2. Phase = "requesting"
      BY <2>1 DEF Phase
    <2>. QED  BY <2>1, <2>2 DEF Init, Exchange!Init
  <1>2. StreamInv /\ StreamInv' /\ [Next]_vars => [Exchange!Next]_(Exchange!vars)
    <2>. SUFFICES ASSUME StreamInv, StreamInv', [Next]_vars
                  PROVE  [Exchange!Next]_(Exchange!vars)
      OBVIOUS
    <2>1. CASE UNCHANGED vars
      <3>1. UNCHANGED Exchange!vars
        BY <2>1 DEF vars, peerVars, Exchange!vars, Phase
      <3>. QED  BY <3>1
    <2>2. CASE Next
      <3>1. ~stream.deleteScheduled
        BY <2>2, NotDeletedYet
      <3>2. \/ Exchange!Decide \/ Exchange!ClientSends \/ Exchange!TargetSends
            \/ Exchange!ClientReceives \/ Exchange!TargetReceives
            \/ Exchange!Leave \/ Exchange!Stop
        BY <2>2, SendsImplemented, ReceivesImplemented, LeavesImplemented, DecisionsImplemented,
           StopImplemented, Zenon DEF Next
      <3>. QED  BY <3>1, <3>2 DEF Exchange!Next
    <2>. QED  BY <2>1, <2>2
  <1>. QED  BY <1>1, <1>2, StreamInvariant, PTL DEF Spec, ImplementsExchange, Exchange!Spec
=============================================================================
