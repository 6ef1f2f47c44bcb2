--------------------------- MODULE LogsDialogProofs ---------------------------
(***************************************************************************)
(* The log viewer shows no record twice or above an older one, an open     *)
(* viewer ends with the latest record once everything is delivered, the    *)
(* text is what the counts of records per day say, and a restart shows the *)
(* latest lines of the last days: for all threads, limits, dates, failed   *)
(* writes and restarts.                                                    *)
(***************************************************************************)
EXTENDS LogsDialog, SequenceTheorems, FiniteSetTheorems, TLAPS

-----------------------------------------------------------------------------
(* The inductive invariant *)

Recs == [serial : Nat, day : Nat, message : Nat]
Blocks == [day : Nat, message : Nat]
DayCounts == [day : Nat, count : Int]
Views == [blocks : Seq(Blocks), days : Seq(DayCounts), count : Nat, last : Nat]

\* Records whose notifications were not delivered yet, and all that matter
Pending == ({posting[thread] : thread \in Threads} \ {NoRecord})
               \cup {queue[i] : i \in 1..Len(queue)}
Known == Pending \cup {records[i] : i \in 1..Len(records)}

TypeInv ==
    /\ day \in Days /\ posted \in Nat /\ lastRecordSerial \in Nat
    /\ posting \in [Threads -> Recs] /\ queue \in Seq(Recs)
    /\ records \in Seq(Recs) /\ files \in [Days -> Seq(Nat)] /\ saved \in Seq(Blocks)
    /\ visible \in BOOLEAN /\ shown \in Views

\* The file of each day that is kept has the lines written on that day, in
\* order: those of a day follow those written before it.
FilesAreSaved(before) ==
    /\ before \in [1..DaysMax + 1 -> 0..Len(saved)]
    /\ \A date \in 1..DaysMax + 1 : \A i \in 1..Len(saved) :
           saved[i].day < date <=> i <= before[date]
    /\ \A date \in Days : day - date <= LogFilesAgeMax =>
           /\ Len(files[date]) = before[date + 1] - before[date]
           /\ \A i \in 1..Len(files[date]) :
                  files[date][i] = saved[before[date] + i].message

FilesInv ==
    /\ \A i \in 1..Len(saved) : saved[i].message \in 1..posted /\ saved[i].day \in 1..day
    /\ \A i, j \in 1..Len(saved) : i < j => saved[i].message < saved[j].message
    /\ \E before : FilesAreSaved(before)

\* Serials follow the order in which messages were posted.
SerialsInv ==
    /\ \A r \in Known : r.serial \in 1..lastRecordSerial /\ r.message \in 1..posted
    /\ \A r, q \in Known : (r.serial < q.serial => r.message < q.message)
                           /\ (r.serial = q.serial => r = q)
    /\ \A i \in 1..Len(records) : records[i].serial = lastRecordSerial - Len(records) + i
    /\ lastRecordSerial > 0 => records # <<>>

\* Each record is one block, each day another one.
Shape(d) == Len(d.blocks) = Len(d.days) + d.count /\ d.count <= RecordsCountMax

\* A day at its place: the separator, then the lines of the day
IsDay(blocks, entry, first) ==
    /\ entry.count \in Nat
    /\ blocks[first] = Separator(entry.day)
    /\ \A i \in 1..entry.count :
           blocks[first + i].day = entry.day /\ blocks[first + i].message # 0

Placed(blocks, days, start) ==
    /\ start \in [1..Len(days) + 1 -> 1..Len(blocks) + 1]
    /\ start[1] = 1 /\ start[Len(days) + 1] = Len(blocks) + 1
    /\ \A n \in 1..Len(days) :
           start[n + 1] = start[n] + 1 + days[n].count /\ IsDay(blocks, days[n], start[n])

Ascending(days) == \A m, n \in 1..Len(days) : m < n => days[m].day < days[n].day

Grouped(d) ==
    /\ \E start : Placed(d.blocks, d.days, start)
    /\ Ascending(d.days)
    /\ \A n \in 1..Len(d.days) : d.days[n].count > 0

\* What is shown is older than what follows, and whatever is missing at the end
\* of an open dialog is still to be delivered.
ShownInv ==
    /\ Shape(shown) /\ InOrder(shown.blocks) /\ shown.last <= lastRecordSerial
    /\ \A i \in 1..Len(shown.blocks) : shown.blocks[i].message <= posted
    /\ \A r \in Known : r.serial > shown.last =>
           \A i \in 1..Len(shown.blocks) : shown.blocks[i].message < r.message
    /\ \A r \in Known : r.serial = shown.last =>
           shown.blocks # <<>> /\ Last(shown.blocks) = Line(r)
    /\ visible /\ shown.last # lastRecordSerial =>
           \E r \in Pending : r.serial = lastRecordSerial

\* Records are of the days on which they were posted, so none that follows is of
\* an earlier day than those shown.
DaysInv ==
    /\ \A r \in Known : r.day <= day
    /\ \A r, q \in Known : r.serial < q.serial => r.day <= q.day
    /\ Grouped(shown) /\ \A n \in 1..Len(shown.days) : shown.days[n].day <= day
    /\ \A r \in Known : r.serial > shown.last =>
           \A n \in 1..Len(shown.days) : shown.days[n].day <= r.day

DialogInv == TypeInv /\ FilesInv /\ SerialsInv /\ ShownInv /\ DaysInv

-----------------------------------------------------------------------------
(* Sequences *)

LEMMA FunctionSeq ==
    ASSUME NEW S, NEW n \in Nat, NEW f \in [1..n -> S]
    PROVE  f \in Seq(S) /\ Len(f) = n
  <1>1. f \in Seq(S)
    BY SeqDef
  <1>2. Len(f) \in Nat /\ DOMAIN f = 1..Len(f) /\ DOMAIN f = 1..n
    BY <1>1, LenProperties
  <1>. DEFINE len == Len(f)
  <1>. HIDE DEF len
  <1>3. len \in Nat /\ 1..len = 1..n
    BY <1>2 DEF len
  <1>4. len = n
    BY <1>3
  <1>. QED  BY <1>1, <1>4 DEF len

\* The last elements of a sequence
LEMMA LatestElements ==
    ASSUME NEW S, NEW s \in Seq(S), NEW n \in Nat
    PROVE  LET t == Latest(n, s)
           IN  /\ t \in Seq(S) /\ Len(t) \in Nat /\ Len(t) <= Len(s)
               /\ Len(t) = IF Len(s) > n THEN n ELSE Len(s)
               /\ \A i \in 1..Len(t) : t[i] = s[Len(s) - Len(t) + i]
  <1>. DEFINE len == Len(s)
              first == IF len > n THEN len - n + 1 ELSE 1
              t == Latest(n, s)
  <1>1. len \in Nat
    BY LenProperties
  <1>2. \A i \in first..len : s[i] \in S
    BY <1>1, ElementOfSeq
  <1>3. t = SubSeq(s, first, len)
    BY DEF Latest
  <1>. HIDE DEF t, len
  <1>4. first \in Int /\ len \in Int
    BY <1>1
  <1>. HIDE DEF first
  <1>5. /\ t \in Seq(S) /\ Len(t) = IF first <= len THEN len - first + 1 ELSE 0
        /\ \A i \in 1..len - first + 1 : t[i] = s[first + i - 1]
    BY <1>2, <1>3, <1>4, SubSeqProperties
  <1>6. Len(t) = (IF len > n THEN n ELSE len) /\ first - 1 = len - Len(t)
    BY <1>1, <1>5 DEF first
  <1>7. \A i \in 1..Len(t) : t[i] = s[len - Len(t) + i]
    <2>. SUFFICES ASSUME NEW i \in 1..Len(t) PROVE t[i] = s[len - Len(t) + i]
      OBVIOUS
    <2>1. i \in 1..len - first + 1 /\ first + i - 1 = len - Len(t) + i
      BY <1>1, <1>4, <1>6
    <2>2. t[i] = s[first + i - 1]
      BY <1>5, <2>1
    <2>. QED  BY <2>1, <2>2
  <1>. QED  BY <1>1, <1>5, <1>6, <1>7 DEF t, len

\* The text without its second block
LEMMA WithoutSecond ==
    ASSUME NEW S, NEW s \in Seq(S), Len(s) >= 2
    PROVE  LET t == RemoveAt(s, 2)
           IN  /\ t \in Seq(S) /\ Len(t) = Len(s) - 1
               /\ \A i \in 1..Len(t) : t[i] = s[IF i = 1 THEN 1 ELSE i + 1]
  <1>. DEFINE len == Len(s)
              a == SubSeq(s, 1, 1)
              b == SubSeq(s, 3, len)
  <1>1. len \in Nat /\ len >= 2
    BY LenProperties
  <1>2. /\ a \in Seq(S) /\ Len(a) = 1 /\ a[1] = s[1]
    <2>1. \A i \in 1..1 : s[i] \in S
      BY <1>1, ElementOfSeq
    <2>2. /\ a \in Seq(S) /\ Len(a) = (IF 1 <= 1 THEN 1 - 1 + 1 ELSE 0)
          /\ \A i \in 1..1 - 1 + 1 : a[i] = s[1 + i - 1]
      BY <2>1, SubSeqProperties
    <2>. QED  BY <2>2
  <1>3. /\ b \in Seq(S) /\ Len(b) = len - 2 /\ \A i \in 1..len - 2 : b[i] = s[i + 2]
    <2>1. \A i \in 3..len : s[i] \in S
      BY <1>1, ElementOfSeq
    <2>2. /\ b \in Seq(S) /\ Len(b) = (IF 3 <= len THEN len - 3 + 1 ELSE 0)
          /\ \A i \in 1..len - 3 + 1 : b[i] = s[3 + i - 1]
      BY <1>1, <2>1, SubSeqProperties
    <2>. HIDE DEF b, len
    <2>. QED  BY <1>1, <2>2
  <1>4. RemoveAt(s, 2) = a \o b
    BY DEF RemoveAt
  <1>. HIDE DEF a, b, len
  <1>5. /\ a \o b \in Seq(S) /\ Len(a \o b) = Len(a) + Len(b)
        /\ \A i \in 1..Len(a) + Len(b) : (a \o b)[i] = IF i <= Len(a) THEN a[i] ELSE b[i - Len(a)]
    BY <1>2, <1>3, ConcatProperties
  <1>. DEFINE t == RemoveAt(s, 2)
  <1>6. /\ t \in Seq(S) /\ Len(t) = 1 + (len - 2)
        /\ \A i \in 1..1 + (len - 2) : t[i] = IF i <= 1 THEN a[i] ELSE b[i - 1]
    BY <1>2, <1>3, <1>4, <1>5
  <1>. HIDE DEF t
  <1>7. \A i \in 1..Len(t) : t[i] = s[IF i = 1 THEN 1 ELSE i + 1]
    <2>. SUFFICES ASSUME NEW i \in 1..Len(t) PROVE t[i] = s[IF i = 1 THEN 1 ELSE i + 1]
      OBVIOUS
    <2>1. CASE i = 1
      BY <1>1, <1>2, <1>6, <2>1
    <2>2. CASE i # 1
      <3>1. i - 1 \in 1..len - 2 /\ (i - 1) + 2 = i + 1
        BY <1>1, <1>6, <2>2
      <3>2. t[i] = b[i - 1]
        BY <1>1, <1>6, <2>2
      <3>3. b[i - 1] = s[(i - 1) + 2]
        BY <1>3, <3>1
      <3>. QED  BY <2>2, <3>1, <3>2, <3>3
    <2>. QED  BY <2>1, <2>2
  <1>. QED  BY <1>1, <1>6, <1>7 DEF t, len

-----------------------------------------------------------------------------
(* insertRecord *)

LEMMA Limits == RecordsCountMax \in Nat /\ RecordsCountMax >= 1 /\ DaysMax \in Nat /\ DaysMax >= 1
                /\ LogFileTailMax \in Nat
  BY LogsAssumption

LEMMA AddDayStep ==
    ASSUME NEW d \in Views, NEW date \in Nat, Shape(d), InOrder(d.blocks)
    PROVE  LET r == AddDay(d, date)
           IN  /\ r \in Views /\ Len(r.blocks) = Len(r.days) + r.count
               /\ r.count = d.count /\ r.days # <<>> /\ r.last = d.last
               /\ InOrder(r.blocks)
               /\ \A i \in 1..Len(r.blocks) :
                      r.blocks[i].message = 0
                      \/ \E j \in 1..Len(d.blocks) : r.blocks[i] = d.blocks[j]
  <1>. DEFINE r == AddDay(d, date)
              blocks == Append(d.blocks, Separator(date))
              days == Append(d.days, [day |-> date, count |-> 0])
  <1>1. /\ d.blocks \in Seq(Blocks) /\ d.days \in Seq(DayCounts)
        /\ d.count \in Nat /\ d.last \in Nat
        /\ Len(d.blocks) \in Nat /\ Len(d.days) \in Nat
    BY DEF Views
  <1>2. CASE d.days # <<>> /\ Last(d.days).day = date
    BY <1>2 DEF AddDay, Shape
  <1>3. CASE ~(d.days # <<>> /\ Last(d.days).day = date)
    <2>. DEFINE new == [day |-> date, count |-> 0]
                separator == Separator(date)
    <2>1. separator \in Blocks /\ separator.message = 0 /\ new \in DayCounts
      BY DEF Separator, Blocks, DayCounts
    <2>2. blocks = Append(d.blocks, separator) /\ days = Append(d.days, new)
      OBVIOUS
    <2>3. r = [d EXCEPT !.blocks = blocks, !.days = days]
      BY <1>3, Zenon DEF AddDay
    <2>. HIDE DEF blocks, days, separator, new, r
    <2>4. /\ blocks \in Seq(Blocks) /\ Len(blocks) = Len(d.blocks) + 1
          /\ \A i \in 1..Len(d.blocks) : blocks[i] = d.blocks[i]
          /\ blocks[Len(d.blocks) + 1] = separator
      BY <1>1, <2>1, <2>2, AppendProperties
    <2>5. days \in Seq(DayCounts) /\ Len(days) = Len(d.days) + 1 /\ days # <<>>
      BY <1>1, <2>1, <2>2, AppendProperties
    <2>6. /\ r \in Views /\ r.blocks = blocks /\ r.days = days /\ r.count = d.count
          /\ r.last = d.last
      BY <2>3, <2>4, <2>5 DEF Views
    <2>7. \A i \in 1..Len(blocks) : i \in 1..Len(d.blocks) \/ i = Len(d.blocks) + 1
      BY <1>1, <2>4
    <2>8. InOrder(blocks)
      <3>. SUFFICES ASSUME NEW i \in 1..Len(blocks), NEW j \in 1..Len(blocks), i < j,
                           blocks[i].message # 0, blocks[j].message # 0
                    PROVE  blocks[i].message < blocks[j].message
        BY DEF InOrder
      <3>1. j \in 1..Len(d.blocks)
        BY <2>1, <2>4, <2>7
      <3>2. i \in 1..Len(d.blocks)
        BY <1>1, <2>7, <3>1
      <3>3. blocks[i] = d.blocks[i] /\ blocks[j] = d.blocks[j]
        BY <2>4, <3>1, <3>2
      <3>. QED  BY <3>1, <3>2, <3>3 DEF InOrder
    <2>9. \A i \in 1..Len(blocks) :
              blocks[i].message = 0 \/ \E j \in 1..Len(d.blocks) : blocks[i] = d.blocks[j]
      BY <2>1, <2>4, <2>7
    <2>10. Len(r.blocks) = Len(r.days) + r.count
      <3>1. Len(r.blocks) = Len(d.blocks) + 1 /\ Len(r.days) = Len(d.days) + 1 /\ r.count = d.count
        BY <2>4, <2>5, <2>6, Zenon
      <3>2. Len(d.blocks) = Len(d.days) + d.count
        BY DEF Shape
      <3>. QED  BY <1>1, <3>1, <3>2
    <2>. QED  BY <2>5, <2>6, <2>8, <2>9, <2>10 DEF r
  <1>. QED  BY <1>2, <1>3

LEMMA AddLineStep ==
    ASSUME NEW d \in Views, NEW record \in Recs, d.days # <<>>, InOrder(d.blocks),
           Len(d.blocks) = Len(d.days) + d.count,
           \A i \in 1..Len(d.blocks) : d.blocks[i].message < record.message
    PROVE  LET r == AddLine(d, record)
           IN  /\ r \in Views /\ Len(r.blocks) = Len(r.days) + r.count
               /\ r.count = d.count + 1 /\ r.days # <<>> /\ r.last = record.serial
               /\ InOrder(r.blocks)
               /\ r.blocks[Len(r.blocks)] = Line(record)
               /\ \A i \in 1..Len(r.blocks) : r.blocks[i].message <= record.message
  <1>. DEFINE r == AddLine(d, record)
              line == Line(record)
              blocks == Append(d.blocks, line)
              n == Len(d.days)
              counts == [d.days[n] EXCEPT !.count = @ + 1]
              days == [d.days EXCEPT ![n] = counts]
  <1>1. /\ d.blocks \in Seq(Blocks) /\ d.days \in Seq(DayCounts)
        /\ d.count \in Nat /\ d.last \in Nat
        /\ Len(d.blocks) \in Nat /\ n \in Nat
    BY DEF Views
  <1>2. line \in Blocks /\ line.message = record.message
        /\ record.message \in Nat /\ record.serial \in Nat
    BY DEF Line, Blocks, Recs
  <1>3. n \in 1..Len(d.days)
    BY <1>1, EmptySeq
  <1>4. counts \in DayCounts
    <2>1. d.days[n] \in DayCounts
      BY <1>1, <1>3, ElementOfSeq
    <2>. QED  BY <2>1 DEF DayCounts
  <1>5. r = [d EXCEPT !.blocks = blocks, !.days = days, !.count = d.count + 1,
                      !.last = record.serial]
    BY <1>1 DEF AddLine, Views
  <1>6. blocks = Append(d.blocks, line) /\ days = [d.days EXCEPT ![n] = counts]
    OBVIOUS
  <1>. HIDE DEF blocks, counts, days, r, line
  <1>7. /\ blocks \in Seq(Blocks) /\ Len(blocks) = Len(d.blocks) + 1
        /\ \A i \in 1..Len(d.blocks) : blocks[i] = d.blocks[i]
        /\ blocks[Len(d.blocks) + 1] = line
    BY <1>1, <1>2, <1>6, AppendProperties
  <1>8. days \in Seq(DayCounts) /\ Len(days) = n
    <2>. HIDE DEF n
    <2>1. n \in 1..Len(d.days) /\ Len(d.days) = n
      BY <1>3 DEF n
    <2>. QED  BY <1>1, <1>4, <1>6, <2>1, ExceptSeq
  <1>9. days # <<>>
    BY <1>3, <1>8, EmptySeq
  <1>. HIDE DEF n
  <1>10. /\ r \in Views /\ r.blocks = blocks /\ r.days = days /\ r.count = d.count + 1
         /\ r.last = record.serial
    <2>1. d.count + 1 \in Nat
      BY <1>1
    <2>. QED  BY <1>2, <1>5, <1>7, <1>8, <2>1 DEF Views
  <1>11. \A i \in 1..Len(blocks) : i \in 1..Len(d.blocks) \/ i = Len(d.blocks) + 1
    BY <1>1, <1>7
  <1>12. \A i \in 1..Len(blocks) : blocks[i].message <= record.message
    <2>. SUFFICES ASSUME NEW i \in 1..Len(blocks) PROVE blocks[i].message <= record.message
      OBVIOUS
    <2>1. CASE i \in 1..Len(d.blocks)
      <3>1. d.blocks[i] \in Blocks /\ blocks[i] = d.blocks[i]
        BY <1>1, <1>7, <2>1, ElementOfSeq
      <3>2. d.blocks[i].message \in Nat /\ d.blocks[i].message < record.message
        BY <2>1, <3>1 DEF Blocks
      <3>. QED  BY <1>2, <3>1, <3>2
    <2>2. CASE i = Len(d.blocks) + 1
      BY <1>2, <1>7, <2>2
    <2>. QED  BY <1>11, <2>1, <2>2
  <1>13. InOrder(blocks)
    <2>. SUFFICES ASSUME NEW i \in 1..Len(blocks), NEW j \in 1..Len(blocks), i < j,
                         blocks[i].message # 0, blocks[j].message # 0
                  PROVE  blocks[i].message < blocks[j].message
      BY DEF InOrder
    <2>1. i \in 1..Len(d.blocks) /\ blocks[i] = d.blocks[i]
      BY <1>1, <1>7, <1>11
    <2>2. CASE j \in 1..Len(d.blocks)
      BY <1>7, <2>1, <2>2 DEF InOrder
    <2>3. CASE j = Len(d.blocks) + 1
      BY <1>2, <1>7, <2>1, <2>3
    <2>. QED  BY <1>11, <2>2, <2>3
  <1>14. Len(r.blocks) = Len(r.days) + r.count
    <2>1. Len(r.blocks) = Len(d.blocks) + 1 /\ Len(r.days) = n /\ r.count = d.count + 1
      BY <1>7, <1>8, <1>10, Zenon
    <2>2. Len(d.blocks) = n + d.count
      BY DEF n
    <2>. QED  BY <1>1, <2>1, <2>2
  <1>15. r.blocks[Len(r.blocks)] = line
    BY <1>7, <1>10
  <1>. QED  BY <1>9, <1>10, <1>12, <1>13, <1>14, <1>15 DEF r, line

\* Blocks are removed from a text without changing the order of the others.
LEMMA OthersInOrder ==
    ASSUME NEW s, NEW t, NEW f \in [1..Len(t) -> 1..Len(s)],
           \A i \in 1..Len(t) : t[i] = s[f[i]],
           \A i, j \in 1..Len(t) : i < j => f[i] < f[j],
           InOrder(s)
    PROVE  InOrder(t) /\ \A i \in 1..Len(t) : \E j \in 1..Len(s) : t[i] = s[j]
  <1>1. \A i \in 1..Len(t) : f[i] \in 1..Len(s)
    OBVIOUS
  <1>2. InOrder(t)
    <2>. SUFFICES ASSUME NEW i \in 1..Len(t), NEW j \in 1..Len(t), i < j,
                         t[i].message # 0, t[j].message # 0
                  PROVE  t[i].message < t[j].message
      BY DEF InOrder
    <2>1. t[i] = s[f[i]] /\ t[j] = s[f[j]] /\ f[i] < f[j]
      OBVIOUS
    <2>. QED  BY <1>1, <2>1 DEF InOrder
  <1>. QED  BY <1>1, <1>2

LEMMA RemoveOldestStep ==
    ASSUME NEW d \in Views, NEW block, d.days # <<>>, d.count >= 2, InOrder(d.blocks),
           Len(d.blocks) = Len(d.days) + d.count,
           d.blocks[Len(d.blocks)] = block
    PROVE  LET r == RemoveOldest(d)
           IN  /\ r \in Views /\ Len(r.blocks) = Len(r.days) + r.count
               /\ r.count = d.count - 1 /\ r.last = d.last
               /\ InOrder(r.blocks)
               /\ r.blocks # <<>> /\ r.blocks[Len(r.blocks)] = block
               /\ \A i \in 1..Len(r.blocks) : \E j \in 1..Len(d.blocks) : r.blocks[i] = d.blocks[j]
  <1>. DEFINE blocks == RemoveAt(d.blocks, 2)
              counts == [d.days[1] EXCEPT !.count = @ - 1]
              days == [d.days EXCEPT ![1] = counts]
              e == [d EXCEPT !.blocks = blocks, !.days = days, !.count = d.count - 1]
              r == RemoveOldest(d)
              n == Len(d.blocks)
              k == Len(d.days)
  <1>1. /\ d.blocks \in Seq(Blocks) /\ d.days \in Seq(DayCounts)
        /\ d.count \in Nat /\ d.last \in Nat /\ n \in Nat /\ k \in Nat
    BY DEF Views
  <1>2. k >= 1 /\ 1 \in 1..k /\ n >= 3
    BY <1>1, EmptySeq
  <1>3. counts \in DayCounts
    <2>1. d.days[1] \in DayCounts
      BY <1>1, <1>2, ElementOfSeq
    <2>. QED  BY <2>1 DEF DayCounts
  <1>4. r = IF e.days[1].count > 0 THEN e
            ELSE [e EXCEPT !.blocks = Tail(@), !.days = Tail(@)]
    BY <1>1 DEF RemoveOldest, Views
  <1>5. days = [d.days EXCEPT ![1] = counts]
    OBVIOUS
  <1>6. /\ blocks \in Seq(Blocks) /\ Len(blocks) = n - 1
        /\ \A i \in 1..Len(blocks) : blocks[i] = d.blocks[IF i = 1 THEN 1 ELSE i + 1]
    <2>1. Len(d.blocks) >= 2
      BY <1>1, <1>2
    <2>. QED  BY <1>1, <2>1, WithoutSecond
  <1>. HIDE DEF blocks, counts, days, r
  <1>7. days \in Seq(DayCounts) /\ Len(days) = k
    BY <1>1, <1>2, <1>3, <1>5, ExceptSeq
  <1>8. /\ e \in Views /\ e.blocks = blocks /\ e.days = days /\ e.count = d.count - 1
        /\ e.last = d.last
    <2>1. d.count - 1 \in Nat
      BY <1>1
    <2>. QED  BY <1>6, <1>7, <2>1 DEF Views
  <1>. HIDE DEF e
  <1>9. InOrder(blocks) /\ \A i \in 1..Len(blocks) : \E j \in 1..n : blocks[i] = d.blocks[j]
    <2>. DEFINE f == [i \in 1..Len(blocks) |-> IF i = 1 THEN 1 ELSE i + 1]
    <2>1. f \in [1..Len(blocks) -> 1..n]
      BY <1>1, <1>2, <1>6
    <2>2. \A i \in 1..Len(blocks) : blocks[i] = d.blocks[f[i]]
      BY <1>6
    <2>3. \A i, j \in 1..Len(blocks) : i < j => f[i] < f[j]
      BY <1>1, <1>6
    <2>. HIDE DEF f
    <2>. QED  BY <2>1, <2>2, <2>3, OthersInOrder
  <1>10. blocks[Len(blocks)] = block
    <2>1. Len(blocks) \in 1..Len(blocks) /\ Len(blocks) # 1 /\ Len(blocks) + 1 = n
      BY <1>1, <1>2, <1>6
    <2>. QED  BY <1>6, <2>1
  <1>11. CASE e.days[1].count > 0
    <2>1. r = e
      BY <1>4, <1>11
    <2>2. Len(blocks) = Len(days) + (d.count - 1) /\ blocks # <<>>
      BY <1>1, <1>2, <1>6, <1>7, EmptySeq
    <2>. QED  BY <1>8, <1>9, <1>10, <2>1, <2>2 DEF r
  <1>12. CASE ~(e.days[1].count > 0)
    <2>. DEFINE tail == Tail(blocks)
                rest == Tail(days)
    <2>1. r = [e EXCEPT !.blocks = tail, !.days = rest]
      BY <1>4, <1>8, <1>12
    <2>2. blocks # <<>> /\ days # <<>>
      BY <1>1, <1>2, <1>6, <1>7, EmptySeq
    <2>3. /\ tail \in Seq(Blocks) /\ Len(tail) = n - 2
          /\ \A i \in 1..Len(tail) : tail[i] = blocks[i + 1]
      <3>1. /\ tail \in Seq(Blocks) /\ Len(tail) = Len(blocks) - 1
            /\ \A i \in 1..Len(tail) : tail[i] = blocks[i + 1]
        BY <1>6, <2>2, HeadTailProperties
      <3>. QED  BY <1>1, <1>6, <3>1
    <2>4. rest \in Seq(DayCounts) /\ Len(rest) = k - 1
      BY <1>7, <2>2, HeadTailProperties
    <2>. HIDE DEF tail, rest
    <2>5. /\ r \in Views /\ r.blocks = tail /\ r.days = rest /\ r.count = d.count - 1
          /\ r.last = d.last
      <3>1. tail \in Seq(Blocks) /\ rest \in Seq(DayCounts)
        BY <2>3, <2>4
      <3>. QED  BY <1>8, <2>1, <3>1 DEF Views
    <2>6. InOrder(tail) /\ \A i \in 1..Len(tail) : \E j \in 1..Len(blocks) : tail[i] = blocks[j]
      <3>. DEFINE f == [i \in 1..Len(tail) |-> i + 1]
      <3>1. f \in [1..Len(tail) -> 1..Len(blocks)]
        <4>1. Len(tail) \in Nat /\ Len(blocks) = Len(tail) + 1
          BY <1>1, <1>2, <1>6, <2>3
        <4>. QED  BY <4>1
      <3>2. \A i \in 1..Len(tail) : tail[i] = blocks[f[i]]
        BY <2>3
      <3>3. \A i, j \in 1..Len(tail) : i < j => f[i] < f[j]
        BY <1>1, <2>3
      <3>. HIDE DEF f
      <3>. QED  BY <1>9, <3>1, <3>2, <3>3, OthersInOrder
    <2>7. \A i \in 1..Len(tail) : \E j \in 1..n : tail[i] = d.blocks[j]
      BY <1>9, <2>6
    <2>8. tail[Len(tail)] = block /\ tail # <<>>
      <3>1. Len(tail) \in 1..Len(tail) /\ Len(tail) + 1 = Len(blocks)
        BY <1>1, <1>2, <1>6, <2>3
      <3>2. tail[Len(tail)] = block
        BY <1>10, <2>3, <3>1
      <3>. QED  BY <2>3, <3>1, <3>2, EmptySeq
    <2>9. Len(r.blocks) = Len(r.days) + r.count
      <3>1. Len(tail) = Len(rest) + (d.count - 1)
        <4>1. n \in Nat /\ k \in Nat /\ d.count \in Nat /\ n = k + d.count
          BY <1>1, Zenon
        <4>2. Len(tail) = n - 2 /\ Len(rest) = k - 1
          BY <2>3, <2>4, Zenon
        <4>. HIDE DEF n, k
        <4>. QED  BY <4>1, <4>2
      <3>2. r.blocks = tail /\ r.days = rest /\ r.count = d.count - 1
        BY <2>5
      <3>. QED  BY <3>1, <3>2, Zenon
    <2>10. InOrder(r.blocks) /\ r.blocks # <<>> /\ r.blocks[Len(r.blocks)] = block
      BY <2>5, <2>6, <2>8
    <2>11. \A i \in 1..Len(r.blocks) : \E j \in 1..n : r.blocks[i] = d.blocks[j]
      BY <2>5, <2>7
    <2>. QED  BY <2>5, <2>9, <2>10, <2>11 DEF r
  <1>. QED  BY <1>11, <1>12

\* insertRecord of a record that is newer than all that is shown
LEMMA InsertStep ==
    ASSUME NEW d \in Views, NEW record \in Recs, Shape(d), InOrder(d.blocks), record.message > 0,
           \A i \in 1..Len(d.blocks) : d.blocks[i].message < record.message
    PROVE  LET r == InsertRecord(d, record)
           IN  /\ r \in Views /\ Shape(r) /\ InOrder(r.blocks) /\ r.last = record.serial
               /\ r.blocks # <<>> /\ Last(r.blocks) = Line(record)
               /\ \A i \in 1..Len(r.blocks) : r.blocks[i].message <= record.message
  <1>. DEFINE a == AddDay(d, record.day)
              b == AddLine(a, record)
              r == InsertRecord(d, record)
  <1>1. record.day \in Nat /\ record.message \in Nat /\ record.message > 0
    BY DEF Recs
  <1>2. /\ a \in Views /\ Len(a.blocks) = Len(a.days) + a.count
        /\ a.count = d.count /\ a.days # <<>> /\ InOrder(a.blocks)
        /\ \A i \in 1..Len(a.blocks) :
               a.blocks[i].message = 0 \/ \E j \in 1..Len(d.blocks) : a.blocks[i] = d.blocks[j]
    BY <1>1, AddDayStep
  <1>. HIDE DEF a
  <1>3. \A i \in 1..Len(a.blocks) : a.blocks[i].message < record.message
    BY <1>1, <1>2
  <1>4. /\ b \in Views /\ Len(b.blocks) = Len(b.days) + b.count
        /\ b.count = a.count + 1 /\ b.days # <<>> /\ b.last = record.serial
        /\ InOrder(b.blocks)
        /\ b.blocks[Len(b.blocks)] = Line(record)
        /\ \A i \in 1..Len(b.blocks) : b.blocks[i].message <= record.message
    BY <1>2, <1>3, AddLineStep
  <1>. HIDE DEF b
  <1>5. r = IF b.count > RecordsCountMax THEN RemoveOldest(b) ELSE b
    BY Zenon DEF InsertRecord, a, b
  <1>. HIDE DEF r
  <1>6. /\ d.count \in Nat /\ b.count = d.count + 1 /\ d.count <= RecordsCountMax
        /\ Len(b.blocks) \in Nat /\ Len(b.days) \in Nat
    BY <1>2, <1>4 DEF Views, Shape
  <1>7. CASE b.count > RecordsCountMax
    <2>1. b.count >= 2
      BY <1>6, <1>7, Limits
    <2>. DEFINE c == RemoveOldest(b)
    <2>2. /\ c \in Views /\ Len(c.blocks) = Len(c.days) + c.count
          /\ c.count = b.count - 1 /\ c.last = b.last
          /\ InOrder(c.blocks)
          /\ c.blocks # <<>> /\ c.blocks[Len(c.blocks)] = Line(record)
          /\ \A i \in 1..Len(c.blocks) : \E j \in 1..Len(b.blocks) : c.blocks[i] = b.blocks[j]
      BY <1>4, <2>1, RemoveOldestStep
    <2>3. r = c
      BY <1>5, <1>7
    <2>. HIDE DEF c
    <2>4. Shape(c)
      BY <1>6, <2>2 DEF Shape
    <2>5. \A i \in 1..Len(c.blocks) : c.blocks[i].message <= record.message
      BY <1>4, <2>2
    <2>. QED  BY <1>4, <2>2, <2>3, <2>4, <2>5 DEF r, Last
  <1>8. CASE ~(b.count > RecordsCountMax)
    <2>1. r = b
      BY <1>5, <1>8
    <2>2. Shape(b)
      BY <1>4, <1>6, <1>8, Limits DEF Shape
    <2>3. b.blocks # <<>>
      <3>1. Len(b.blocks) > 0
        BY <1>4, <1>6
      <3>. QED  BY <3>1
    <2>. QED  BY <1>4, <2>1, <2>2, <2>3 DEF r, Last
  <1>. QED  BY <1>7, <1>8

-----------------------------------------------------------------------------
(* Days in the text *)

\* A day is where its blocks are.
LEMMA DayMoves ==
    ASSUME NEW blocks, NEW moved, NEW entry, NEW first \in Nat, NEW to \in Nat,
           IsDay(blocks, entry, first),
           \A i \in 0..entry.count : moved[to + i] = blocks[first + i]
    PROVE  IsDay(moved, entry, to)
  <1>1. entry.count \in Nat /\ 0 \in 0..entry.count /\ to + 0 = to /\ first + 0 = first
    BY DEF IsDay
  <1>2. moved[to] = blocks[first]
    BY <1>1
  <1>3. \A i \in 1..entry.count : moved[to + i] = blocks[first + i]
    BY <1>1
  <1>. QED  BY <1>1, <1>2, <1>3 DEF IsDay

\* Blocks are added below the days that are there.
LEMMA DaysAbove ==
    ASSUME NEW S, NEW T, NEW blocks \in Seq(S), NEW days \in Seq(T), NEW start,
           Placed(blocks, days, start), NEW moved,
           \A i \in 1..Len(blocks) : moved[i] = blocks[i]
    PROVE  \A n \in 1..Len(days) : IsDay(moved, days[n], start[n])
  <1>. SUFFICES ASSUME NEW n \in 1..Len(days) PROVE IsDay(moved, days[n], start[n])
    OBVIOUS
  <1>. DEFINE k == Len(days)
              len == Len(blocks)
              first == start[n]
              next == start[n + 1]
              count == days[n].count
  <1>1. k \in Nat /\ len \in Nat
    BY LenProperties
  <1>2. n \in 1..k + 1 /\ n + 1 \in 1..k + 1
    BY <1>1
  <1>3. first \in 1..len + 1 /\ next \in 1..len + 1
    BY <1>2 DEF Placed
  <1>4. next = first + 1 + count /\ IsDay(blocks, days[n], first)
    BY DEF Placed
  <1>5. count \in Nat
    BY <1>4 DEF IsDay
  <1>6. \A i \in 1..len : moved[i] = blocks[i]
    OBVIOUS
  <1>. HIDE DEF k, len, first, next, count
  <1>7. \A i \in 0..count : first + i \in 1..len
    BY <1>1, <1>3, <1>4, <1>5
  <1>8. \A i \in 0..count : moved[first + i] = blocks[first + i]
    BY <1>6, <1>7
  <1>9. first \in Nat
    BY <1>1, <1>3
  <1>10. IsDay(moved, days[n], first)
    BY <1>4, <1>8, <1>9, DayMoves DEF count
  <1>. QED  BY <1>10 DEF first

LEMMA AddDayGroups ==
    ASSUME NEW d \in Views, NEW date \in Nat, Grouped(d),
           \A n \in 1..Len(d.days) : d.days[n].day <= date
    PROVE  LET r == AddDay(d, date)
           IN  /\ r \in Views /\ r.days # <<>> /\ r.days[Len(r.days)].day = date
               /\ \E start : Placed(r.blocks, r.days, start)
               /\ Ascending(r.days)
               /\ \A n \in 1..Len(r.days) : n < Len(r.days) => r.days[n].count > 0
               /\ \A n \in 1..Len(r.days) : r.days[n].day <= date
  <1>. DEFINE r == AddDay(d, date)
              k == Len(d.days)
              len == Len(d.blocks)
  <1>1. /\ d.blocks \in Seq(Blocks) /\ d.days \in Seq(DayCounts)
        /\ d.count \in Nat /\ d.last \in Nat /\ len \in Nat /\ k \in Nat
    BY DEF Views
  <1>2. CASE d.days # <<>> /\ Last(d.days).day = date
    BY <1>2 DEF AddDay, Grouped, Last
  <1>3. CASE ~(d.days # <<>> /\ Last(d.days).day = date)
    <2>. DEFINE new == [day |-> date, count |-> 0]
                separator == Separator(date)
                blocks == Append(d.blocks, separator)
                days == Append(d.days, new)
    <2>1. separator \in Blocks /\ new \in DayCounts /\ new.day = date /\ new.count = 0
      BY DEF Separator, Blocks, DayCounts
    <2>2. r = [d EXCEPT !.blocks = blocks, !.days = days]
      BY <1>3, Zenon DEF AddDay
    <2>. HIDE DEF separator, new, r
    <2>3. /\ blocks \in Seq(Blocks) /\ Len(blocks) = len + 1
          /\ \A i \in 1..len : blocks[i] = d.blocks[i]
          /\ blocks[len + 1] = separator
      BY <1>1, <2>1, AppendProperties
    <2>4. /\ days \in Seq(DayCounts) /\ Len(days) = k + 1 /\ days # <<>>
          /\ \A n \in 1..k : days[n] = d.days[n]
          /\ days[k + 1] = new
      BY <1>1, <2>1, AppendProperties
    <2>. HIDE DEF blocks, days
    <2>5. r \in Views /\ r.blocks = blocks /\ r.days = days
      BY <2>2, <2>3, <2>4 DEF Views
    <2>6. PICK start : Placed(d.blocks, d.days, start)
      BY DEF Grouped
    <2>7. \A n \in 1..k : IsDay(blocks, d.days[n], start[n])
      <3>. DEFINE above == d.blocks
                  list == d.days
      <3>1. /\ above \in Seq(Blocks) /\ list \in Seq(DayCounts) /\ Placed(above, list, start)
            /\ \A i \in 1..Len(above) : blocks[i] = above[i]
        BY <1>1, <2>3, <2>6
      <3>. HIDE DEF above, list
      <3>2. \A n \in 1..Len(list) : IsDay(blocks, list[n], start[n])
        BY <3>1, DaysAbove
      <3>. QED  BY <3>2 DEF list
    <2>8. \A n \in 1..k + 1 : n \in 1..k \/ n = k + 1
      BY <1>1
    <2>9. \A n \in 1..k : d.days[n].day < date /\ d.days[n].day \in Nat
      <3>. SUFFICES ASSUME NEW n \in 1..k PROVE d.days[n].day < date /\ d.days[n].day \in Nat
        OBVIOUS
      <3>1. \A m \in 1..k : d.days[m].day \in Nat
        <4>1. \A m \in 1..k : d.days[m] \in DayCounts
          BY <1>1, ElementOfSeq
        <4>. QED  BY <4>1 DEF DayCounts
      <3>2. d.days[k].day # date /\ k \in 1..k
        BY <1>1, <1>3, EmptySeq DEF Last
      <3>3. n < k => d.days[n].day < d.days[k].day
        BY <3>2 DEF Grouped, Ascending
      <3>4. d.days[n].day <= date /\ d.days[k].day <= date
        BY <3>2
      <3>5. n = k \/ n < k
        BY <1>1
      <3>. QED  BY <3>1, <3>2, <3>3, <3>4, <3>5
    <2>10. Ascending(days)
      <3>. SUFFICES ASSUME NEW m \in 1..k + 1, NEW n \in 1..k + 1, m < n
                    PROVE  days[m].day < days[n].day
        BY <2>4 DEF Ascending
      <3>1. m \in 1..k
        BY <1>1
      <3>2. CASE n \in 1..k
        BY <2>4, <3>1, <3>2 DEF Grouped, Ascending
      <3>3. CASE n = k + 1
        BY <2>1, <2>4, <2>9, <3>1, <3>3
      <3>. QED  BY <2>8, <3>2, <3>3
    <2>11. \A n \in 1..k + 1 : (n < k + 1 => days[n].count > 0) /\ days[n].day <= date
      <3>. SUFFICES ASSUME NEW n \in 1..k + 1
                    PROVE  (n < k + 1 => days[n].count > 0) /\ days[n].day <= date
        OBVIOUS
      <3>1. CASE n \in 1..k
        BY <2>4, <3>1 DEF Grouped
      <3>2. CASE n = k + 1
        BY <1>1, <2>1, <2>4, <3>2
      <3>. QED  BY <2>8, <3>1, <3>2
    <2>. DEFINE start2 == [n \in 1..(k + 1) + 1 |-> IF n = k + 2 THEN len + 2 ELSE start[n]]
    <2>12. /\ start \in [1..k + 1 -> 1..len + 1] /\ start[1] = 1 /\ start[k + 1] = len + 1
           /\ \A n \in 1..k : start[n + 1] = start[n] + 1 + d.days[n].count
      BY <2>6 DEF Placed
    <2>. HIDE DEF k, len
    <2>13. start2 \in [1..(k + 1) + 1 -> 1..(len + 1) + 1]
      <3>. SUFFICES ASSUME NEW n \in 1..(k + 1) + 1, n # k + 2 PROVE start[n] \in 1..(len + 1) + 1
        BY <1>1
      <3>1. n \in 1..k + 1
        BY <1>1
      <3>2. start[n] \in 1..len + 1
        BY <2>12, <3>1
      <3>. QED  BY <1>1, <3>2
    <2>14. start2[1] = 1 /\ start2[(k + 1) + 1] = (len + 1) + 1
      BY <1>1, <2>12
    <2>15. \A n \in 1..k + 1 : start2[n] = start[n]
      BY <1>1
    <2>16. start2[k + 2] = len + 2
      BY <1>1
    <2>. HIDE DEF start2
    <2>17. ASSUME NEW n \in 1..k + 1
           PROVE  start2[n + 1] = start2[n] + 1 + days[n].count /\ IsDay(blocks, days[n], start2[n])
      <3>1. CASE n \in 1..k
        <4>1. n + 1 \in 1..k + 1
          BY <1>1, <3>1
        <4>2. start2[n + 1] = start[n + 1] /\ start2[n] = start[n] /\ days[n] = d.days[n]
          BY <2>4, <2>15, <3>1, <4>1
        <4>. QED  BY <2>7, <2>12, <3>1, <4>2
      <3>2. CASE n = k + 1
        <4>1. start2[n] = len + 1 /\ start2[n + 1] = len + 2 /\ days[n] = new
          BY <1>1, <2>4, <2>12, <2>15, <2>16, <3>2
        <4>2. 1..0 = {}
          OBVIOUS
        <4>3. IsDay(blocks, new, len + 1)
          BY <2>1, <2>3, <4>2 DEF IsDay, separator
        <4>. QED  BY <1>1, <2>1, <4>1, <4>3
      <3>. QED  BY <2>8, <3>1, <3>2
    <2>18. Placed(blocks, days, start2)
      BY <2>3, <2>4, <2>13, <2>14, <2>17 DEF Placed
    <2>19. days[k + 1].day = date
      BY <2>1, <2>4
    <2>. QED  BY <2>4, <2>5, <2>10, <2>11, <2>18, <2>19 DEF r
  <1>. QED  BY <1>2, <1>3
LEMMA AddLineGroups ==
    ASSUME NEW d \in Views, NEW record \in Recs, record.message # 0,
           d.days # <<>>, d.days[Len(d.days)].day = record.day,
           NEW start, Placed(d.blocks, d.days, start), Ascending(d.days),
           \A n \in 1..Len(d.days) : n < Len(d.days) => d.days[n].count > 0,
           \A n \in 1..Len(d.days) : d.days[n].day <= record.day
    PROVE  LET r == AddLine(d, record)
           IN  /\ r \in Views /\ r.days # <<>> /\ Grouped(r)
               /\ \A n \in 1..Len(r.days) : r.days[n].day <= record.day
  <1>. DEFINE r == AddLine(d, record)
              line == Line(record)
              k == Len(d.days)
              len == Len(d.blocks)
              latest == d.days[k]
              counts == [latest EXCEPT !.count = @ + 1]
              blocks == Append(d.blocks, line)
              days == [d.days EXCEPT ![k] = counts]
  <1>1. /\ d.blocks \in Seq(Blocks) /\ d.days \in Seq(DayCounts)
        /\ d.count \in Nat /\ d.last \in Nat /\ len \in Nat /\ k \in Nat
    BY DEF Views
  <1>2. line \in Blocks /\ line.message = record.message /\ line.day = record.day
        /\ record.serial \in Nat /\ record.day \in Nat
    BY DEF Line, Blocks, Recs
  <1>3. k \in 1..k
    BY <1>1, EmptySeq
  <1>4. \A n \in 1..k : d.days[n] \in DayCounts
    BY <1>1, ElementOfSeq
  <1>5. /\ counts \in DayCounts /\ counts.day = latest.day /\ counts.count = latest.count + 1
        /\ latest.count \in Int
    BY <1>3, <1>4 DEF DayCounts
  <1>6. r = [d EXCEPT !.blocks = blocks, !.days = days, !.count = d.count + 1,
                      !.last = record.serial]
    BY <1>1 DEF AddLine, Views
  <1>. HIDE DEF r, line, counts
  <1>7. /\ blocks \in Seq(Blocks) /\ Len(blocks) = len + 1
        /\ \A i \in 1..len : blocks[i] = d.blocks[i]
        /\ blocks[len + 1] = line
    BY <1>1, <1>2, AppendProperties
  <1>8. /\ days \in Seq(DayCounts) /\ Len(days) = k
        /\ days[k] = counts /\ \A n \in 1..k : n # k => days[n] = d.days[n]
    <2>. DEFINE j == k
    <2>1. j \in 1..Len(d.days) /\ days = [d.days EXCEPT ![j] = counts]
      BY <1>3
    <2>. HIDE DEF j
    <2>2. days \in Seq(DayCounts) /\ Len(days) = k
      BY <1>1, <1>5, <2>1, ExceptSeq
    <2>3. DOMAIN d.days = 1..k
      BY <1>1, LenProperties
    <2>. QED  BY <1>3, <2>1, <2>2, <2>3 DEF j
  <1>. HIDE DEF blocks, days
  <1>9. r \in Views /\ r.blocks = blocks /\ r.days = days
    <2>1. d.count + 1 \in Nat
      BY <1>1
    <2>. QED  BY <1>2, <1>6, <1>7, <1>8, <2>1 DEF Views
  <1>10. days # <<>>
    BY <1>3, <1>8, EmptySeq
  <1>11. \A n \in 1..k : days[n].day = d.days[n].day
    BY <1>5, <1>8
  <1>12. Ascending(days) /\ \A n \in 1..k : days[n].day <= record.day
    <2>1. Ascending(days)
      BY <1>8, <1>11 DEF Ascending
    <2>2. \A n \in 1..k : days[n].day <= record.day
      BY <1>11
    <2>. QED  BY <2>1, <2>2
  <1>13. \A n \in 1..k : IsDay(blocks, d.days[n], start[n])
    <2>. DEFINE above == d.blocks
                list == d.days
    <2>1. /\ above \in Seq(Blocks) /\ list \in Seq(DayCounts) /\ Placed(above, list, start)
          /\ \A i \in 1..Len(above) : blocks[i] = above[i]
      BY <1>1, <1>7
    <2>. HIDE DEF above, list
    <2>2. \A n \in 1..Len(list) : IsDay(blocks, list[n], start[n])
      BY <2>1, DaysAbove
    <2>. QED  BY <2>2 DEF list
  <1>14. latest.count \in Nat /\ counts.count > 0
    <2>1. latest.count \in Nat
      BY <1>3, <1>13 DEF IsDay
    <2>. QED  BY <1>5, <2>1
  <1>15. \A n \in 1..k : days[n].count > 0
    <2>. SUFFICES ASSUME NEW n \in 1..k PROVE days[n].count > 0
      OBVIOUS
    <2>1. CASE n = k
      BY <1>8, <1>14, <2>1
    <2>2. CASE n # k
      <3>1. n < k
        BY <1>1, <2>2
      <3>. QED  BY <1>8, <2>2, <3>1
    <2>. QED  BY <2>1, <2>2
  <1>16. /\ start \in [1..k + 1 -> 1..len + 1] /\ start[1] = 1 /\ start[k + 1] = len + 1
         /\ \A n \in 1..k : start[n + 1] = start[n] + 1 + d.days[n].count
    BY DEF Placed
  <1>17. start[k] \in Nat /\ len + 1 = start[k] + 1 + latest.count
    <2>1. k \in 1..k + 1
      BY <1>1, <1>3
    <2>2. start[k] \in 1..len + 1
      BY <1>16, <2>1
    <2>3. start[k + 1] = start[k] + 1 + latest.count
      BY <1>3, <1>16
    <2>. QED  BY <1>1, <1>16, <2>2, <2>3
  <1>. HIDE DEF k, len, latest
  <1>. DEFINE start2 == [start EXCEPT ![k + 1] = len + 2]
  <1>18. start2 \in [1..k + 1 -> 1..(len + 1) + 1]
    <2>1. \A n \in 1..k + 1 : start[n] \in 1..(len + 1) + 1
      BY <1>1, <1>16
    <2>2. len + 2 \in 1..(len + 1) + 1
      BY <1>1
    <2>. QED  BY <1>16, <2>1, <2>2
  <1>19. start2[k + 1] = len + 2 /\ \A n \in 1..k : start2[n] = start[n]
    <2>1. k + 1 \in 1..k + 1 /\ \A n \in 1..k : n \in 1..k + 1 /\ n # k + 1
      BY <1>1
    <2>. QED  BY <1>16, <2>1
  <1>20. start2[1] = 1
    <2>1. 1 \in 1..k
      BY <1>1, <1>3
    <2>. QED  BY <1>16, <1>19, <2>1
  <1>. HIDE DEF start2
  <1>21. ASSUME NEW n \in 1..k
         PROVE  start2[n + 1] = start2[n] + 1 + days[n].count /\ IsDay(blocks, days[n], start2[n])
    <2>1. CASE n # k
      <3>1. n + 1 \in 1..k
        BY <1>1, <2>1
      <3>2. start2[n + 1] = start[n + 1] /\ start2[n] = start[n] /\ days[n] = d.days[n]
        BY <1>8, <1>19, <2>1, <3>1
      <3>. QED  BY <1>13, <1>16, <3>2
    <2>2. CASE n = k
      <3>1. start2[n] = start[k] /\ start2[n + 1] = len + 2 /\ days[n] = counts
        BY <1>8, <1>19, <2>2
      <3>2. len + 2 = start[k] + 1 + counts.count
        <4>. DEFINE c == latest.count
                    f == start[k]
        <4>1. c \in Nat /\ f \in Nat /\ len \in Nat /\ len + 1 = f + 1 + c
          BY <1>1, <1>14, <1>17
        <4>. HIDE DEF c, f
        <4>2. len + 2 = f + 1 + (c + 1)
          BY <4>1
        <4>3. counts.count = c + 1
          BY <1>5 DEF c
        <4>. QED  BY <4>2, <4>3 DEF f
      <3>3. IsDay(blocks, latest, start[k])
        BY <1>3, <1>13 DEF latest
      <3>4. \A i \in 1..counts.count : i \in 1..latest.count \/ i = latest.count + 1
        BY <1>5, <1>14
      <3>5. start[k] + (latest.count + 1) = len + 1
        <4>. DEFINE c == latest.count
                    f == start[k]
        <4>1. c \in Nat /\ f \in Nat /\ len \in Nat /\ len + 1 = f + 1 + c
          BY <1>1, <1>14, <1>17
        <4>. HIDE DEF c, f
        <4>2. f + (c + 1) = len + 1
          BY <4>1
        <4>. QED  BY <4>2 DEF c, f
      <3>6. latest.day = record.day
        BY DEF latest, k
      <3>7. IsDay(blocks, counts, start[k])
        <4>1. counts.count \in Nat /\ blocks[start[k]] = Separator(counts.day)
          BY <1>5, <1>14, <3>3 DEF IsDay
        <4>2. ASSUME NEW i \in 1..counts.count
              PROVE  blocks[start[k] + i].day = counts.day /\ blocks[start[k] + i].message # 0
          <5>1. CASE i \in 1..latest.count
            BY <1>5, <3>3, <5>1 DEF IsDay
          <5>2. CASE i = latest.count + 1
            <6>1. blocks[start[k] + i] = line
              BY <1>7, <3>5, <5>2
            <6>. QED  BY <1>2, <1>5, <3>6, <6>1
          <5>. QED  BY <3>4, <5>1, <5>2
        <4>. QED  BY <4>1, <4>2 DEF IsDay
      <3>. QED  BY <3>1, <3>2, <3>7
    <2>. QED  BY <2>1, <2>2
  <1>22. Placed(blocks, days, start2)
    <2>1. start2[k + 1] = (len + 1) + 1
      BY <1>1, <1>19
    <2>. QED  BY <1>7, <1>8, <1>18, <1>20, <1>21, <2>1 DEF Placed
  <1>23. Grouped(r)
    BY <1>8, <1>9, <1>12, <1>15, <1>22 DEF Grouped
  <1>. QED  BY <1>8, <1>9, <1>10, <1>12, <1>23 DEF r

\* Where the days are
LEMMA StartBounds ==
    ASSUME NEW S, NEW T, NEW blocks \in Seq(S), NEW days \in Seq(T), NEW start,
           Placed(blocks, days, start), \A n \in 1..Len(days) : days[n].count > 0
    PROVE  \A n \in 1..Len(days) :
               /\ start[n] \in Nat /\ start[n] >= 1 /\ days[n].count \in Nat
               /\ start[n + 1] = start[n] + 1 + days[n].count
               /\ start[n + 1] \in Nat /\ start[n + 1] >= 3 /\ start[n + 1] <= Len(blocks) + 1
               /\ n > 1 => start[n] >= 3
  <1>. DEFINE k == Len(days)
              len == Len(blocks)
  <1>1. k \in Nat /\ len \in Nat
    BY LenProperties
  <1>2. /\ start \in [1..k + 1 -> 1..len + 1]
        /\ \A n \in 1..k : start[n + 1] = start[n] + 1 + days[n].count
        /\ \A n \in 1..k : days[n].count \in Nat /\ days[n].count > 0
    BY DEF Placed, IsDay
  <1>. HIDE DEF k, len
  <1>3. ASSUME NEW n \in 1..k
        PROVE  /\ start[n] \in Nat /\ start[n] >= 1 /\ days[n].count \in Nat
               /\ start[n + 1] = start[n] + 1 + days[n].count
               /\ start[n + 1] \in Nat /\ start[n + 1] >= 3 /\ start[n + 1] <= len + 1
    <2>. DEFINE first == start[n]
                next == start[n + 1]
                count == days[n].count
    <2>1. n \in 1..k + 1 /\ n + 1 \in 1..k + 1
      BY <1>1
    <2>2. first \in 1..len + 1 /\ next \in 1..len + 1
      BY <1>2, <2>1
    <2>3. next = first + 1 + count /\ count \in Nat /\ count > 0
      BY <1>2
    <2>. HIDE DEF first, next, count
    <2>4. first \in Nat /\ first >= 1 /\ next \in Nat /\ next >= 3 /\ next <= len + 1
      BY <1>1, <2>2, <2>3
    <2>. QED  BY <2>3, <2>4 DEF first, next, count
  <1>4. ASSUME NEW n \in 1..k, n > 1 PROVE start[n] >= 3
    <2>1. n - 1 \in 1..k /\ (n - 1) + 1 = n
      BY <1>1, <1>4
    <2>2. start[(n - 1) + 1] >= 3
      BY <1>3, <2>1
    <2>. QED  BY <2>1, <2>2
  <1>. QED  BY <1>3, <1>4 DEF k, len

\* A line of the first day is removed, which has others.
LEMMA LineRemoved ==
    ASSUME NEW S, NEW T, NEW blocks \in Seq(S), NEW days \in Seq(T), NEW start,
           Placed(blocks, days, start), \A n \in 1..Len(days) : days[n].count > 0,
           Len(days) >= 1,
           NEW fewer \in Seq(S), Len(fewer) = Len(blocks) - 1,
           \A i \in 1..Len(fewer) : fewer[i] = blocks[IF i = 1 THEN 1 ELSE i + 1],
           NEW counted \in Seq(T), Len(counted) = Len(days),
           counted[1].day = days[1].day, counted[1].count = days[1].count - 1,
           counted[1].count > 0,
           \A n \in 1..Len(days) : n # 1 => counted[n] = days[n]
    PROVE  \E s : Placed(fewer, counted, s)
  <1>. DEFINE k == Len(days)
              len == Len(blocks)
              s == [n \in 1..k + 1 |-> IF n = 1 THEN 1 ELSE start[n] - 1]
  <1>1. k \in Nat /\ k >= 1 /\ len \in Nat
    BY LenProperties
  <1>2. \A n \in 1..k :
            /\ start[n] \in Nat /\ start[n] >= 1 /\ days[n].count \in Nat
            /\ start[n + 1] = start[n] + 1 + days[n].count
            /\ start[n + 1] \in Nat /\ start[n + 1] >= 3 /\ start[n + 1] <= len + 1
            /\ n > 1 => start[n] >= 3
    BY StartBounds
  <1>3. /\ start[1] = 1 /\ start[k + 1] = len + 1
        /\ \A n \in 1..k : IsDay(blocks, days[n], start[n])
    BY DEF Placed
  <1>4. \A i \in 1..len - 1 : fewer[i] = blocks[IF i = 1 THEN 1 ELSE i + 1]
    OBVIOUS
  <1>5. Len(fewer) = len - 1 /\ Len(counted) = k /\ \A n \in 1..k : n # 1 => counted[n] = days[n]
    OBVIOUS
  <1>. HIDE DEF k, len
  <1>6. \A n \in 1..k : s[n + 1] = start[n + 1] - 1
    BY <1>1
  <1>7. s[1] = 1 /\ \A n \in 1..k : n # 1 => s[n] = start[n] - 1
    BY <1>1
  <1>8. s[k + 1] = (len - 1) + 1
    <2>1. k \in 1..k
      BY <1>1
    <2>2. s[k + 1] = start[k + 1] - 1
      BY <1>6, <2>1
    <2>. QED  BY <1>1, <1>3, <2>2
  <1>9. s \in [1..k + 1 -> 1..(len - 1) + 1]
    <2>. SUFFICES ASSUME NEW n \in 1..k + 1, n # 1 PROVE start[n] - 1 \in 1..(len - 1) + 1
      <3>1. len >= 2
        <4>1. k \in 1..k
          BY <1>1
        <4>2. start[k + 1] >= 3
          BY <1>2, <4>1
        <4>. QED  BY <1>1, <1>3, <4>2
      <3>. QED  BY <1>1, <3>1
    <2>1. n - 1 \in 1..k /\ (n - 1) + 1 = n
      BY <1>1
    <2>2. start[n] \in Nat /\ start[n] >= 3 /\ start[n] <= len + 1
      BY <1>2, <2>1
    <2>. QED  BY <1>1, <2>2
  <1>. HIDE DEF s
  <1>10. ASSUME NEW n \in 1..k
         PROVE  s[n + 1] = s[n] + 1 + counted[n].count /\ IsDay(fewer, counted[n], s[n])
    <2>. DEFINE first == start[n]
                next == start[n + 1]
                count == days[n].count
    <2>1. /\ first \in Nat /\ count \in Nat /\ next = first + 1 + count /\ next <= len + 1
          /\ (n > 1 => first >= 3) /\ IsDay(blocks, days[n], first)
      BY <1>2, <1>3
    <2>2. s[n + 1] = next - 1
      BY <1>6
    <2>3. CASE n # 1
      <3>1. n > 1 /\ counted[n] = days[n] /\ s[n] = first - 1
        BY <1>1, <1>5, <1>7, <2>3
      <3>. HIDE DEF first, next, count
      <3>2. first - 1 \in Nat /\ next - 1 = (first - 1) + 1 + count
        <4>1. first \in Nat /\ count \in Nat /\ next = first + 1 + count /\ first >= 3
          BY <2>1, <3>1
        <4>. QED  BY <4>1
      <3>3. ASSUME NEW i \in 0..count PROVE fewer[(first - 1) + i] = blocks[first + i]
        <4>1. (first - 1) + i \in 1..len - 1 /\ (first - 1) + i # 1
              /\ ((first - 1) + i) + 1 = first + i
          BY <1>1, <2>1, <3>1
        <4>2. fewer[(first - 1) + i] = blocks[((first - 1) + i) + 1]
          BY <1>4, <4>1
        <4>. QED  BY <4>1, <4>2
      <3>4. IsDay(fewer, days[n], first - 1)
        BY <2>1, <3>2, <3>3, DayMoves DEF count
      <3>. QED  BY <2>2, <3>1, <3>2, <3>4 DEF count
    <2>4. CASE n = 1
      <3>. DEFINE c == counted[1].count
      <3>1. /\ first = 1 /\ s[n] = 1 /\ counted[n] = counted[1] /\ c = count - 1 /\ c > 0
            /\ counted[1].day = days[1].day
        BY <1>3, <1>7, <2>4
      <3>2. blocks[1] = Separator(days[1].day)
            /\ \A i \in 1..count : blocks[1 + i].day = days[1].day /\ blocks[1 + i].message # 0
        BY <2>1, <2>4, <3>1 DEF IsDay
      <3>. HIDE DEF first, next, count, c
      <3>3. c \in Nat /\ next - 1 = 1 + 1 + c /\ 1 \in 1..len - 1
        BY <1>1, <2>1, <3>1
      <3>4. fewer[1] = blocks[1]
        BY <1>4, <3>3
      <3>5. ASSUME NEW i \in 1..c
            PROVE  fewer[1 + i].day = days[1].day /\ fewer[1 + i].message # 0
        <4>1. 1 + i \in 1..len - 1 /\ 1 + i # 1 /\ (1 + i) + 1 = 1 + (i + 1) /\ i + 1 \in 1..count
          BY <1>1, <2>1, <3>1, <3>3
        <4>2. fewer[1 + i] = blocks[(1 + i) + 1]
          BY <1>4, <4>1
        <4>3. fewer[1 + i] = blocks[1 + (i + 1)]
          BY <4>1, <4>2
        <4>. QED  BY <3>2, <4>1, <4>3
      <3>6. IsDay(fewer, counted[1], 1)
        BY <3>1, <3>2, <3>3, <3>4, <3>5 DEF IsDay, c
      <3>. QED  BY <2>2, <2>4, <3>1, <3>3, <3>6 DEF c
    <2>. QED  BY <2>3, <2>4
  <1>11. Placed(fewer, counted, s)
    BY <1>5, <1>7, <1>8, <1>9, <1>10 DEF Placed
  <1>. QED  BY <1>11

\* The first day is removed with its only line.
LEMMA DayRemoved ==
    ASSUME NEW S, NEW T, NEW blocks \in Seq(S), NEW days \in Seq(T), NEW start,
           Placed(blocks, days, start), \A n \in 1..Len(days) : days[n].count > 0,
           Len(days) >= 1, days[1].count = 1,
           NEW fewer \in Seq(S), Len(fewer) = Len(blocks) - 2,
           \A i \in 1..Len(fewer) : fewer[i] = blocks[i + 2],
           NEW rest \in Seq(T), Len(rest) = Len(days) - 1,
           \A n \in 1..Len(rest) : rest[n] = days[n + 1]
    PROVE  \E s : Placed(fewer, rest, s)
  <1>. DEFINE k == Len(days)
              len == Len(blocks)
              s == [n \in 1..(k - 1) + 1 |-> start[n + 1] - 2]
  <1>1. k \in Nat /\ k >= 1 /\ len \in Nat
    BY LenProperties
  <1>2. \A n \in 1..k :
            /\ start[n] \in Nat /\ start[n] >= 1 /\ days[n].count \in Nat
            /\ start[n + 1] = start[n] + 1 + days[n].count
            /\ start[n + 1] \in Nat /\ start[n + 1] >= 3 /\ start[n + 1] <= len + 1
            /\ n > 1 => start[n] >= 3
    BY StartBounds
  <1>3. /\ start[1] = 1 /\ start[k + 1] = len + 1
        /\ \A n \in 1..k : IsDay(blocks, days[n], start[n])
    BY DEF Placed
  <1>4. /\ Len(fewer) = len - 2 /\ \A i \in 1..len - 2 : fewer[i] = blocks[i + 2]
        /\ Len(rest) = k - 1 /\ \A n \in 1..k - 1 : rest[n] = days[n + 1]
    OBVIOUS
  <1>. HIDE DEF k, len
  <1>5. \A n \in 1..k : s[n] = start[n + 1] - 2
    BY <1>1
  <1>6. s[1] = 1
    <2>1. 1 \in 1..k /\ start[1 + 1] = start[1] + 1 + days[1].count
      BY <1>1, <1>2
    <2>2. start[1 + 1] = 1 + 1 + 1
      BY <1>3, <2>1
    <2>. QED  BY <1>5, <2>1, <2>2
  <1>7. s[(k - 1) + 1] = (len - 2) + 1
    <2>1. (k - 1) + 1 = k /\ k \in 1..k
      BY <1>1
    <2>2. s[k] = start[k + 1] - 2
      BY <1>5, <2>1
    <2>. QED  BY <1>1, <1>3, <2>1, <2>2
  <1>8. s \in [1..(k - 1) + 1 -> 1..(len - 2) + 1]
    <2>. SUFFICES ASSUME NEW n \in 1..(k - 1) + 1 PROVE start[n + 1] - 2 \in 1..(len - 2) + 1
      OBVIOUS
    <2>1. n \in 1..k
      BY <1>1
    <2>. DEFINE next == start[n + 1]
    <2>2. next \in Nat /\ next >= 3 /\ next <= len + 1
      BY <1>2, <2>1
    <2>. HIDE DEF next
    <2>3. next - 2 \in 1..(len - 2) + 1
      BY <1>1, <2>2
    <2>. QED  BY <2>3 DEF next
  <1>. HIDE DEF s
  <1>9. ASSUME NEW n \in 1..k - 1
        PROVE  s[n + 1] = s[n] + 1 + rest[n].count /\ IsDay(fewer, rest[n], s[n])
    <2>. DEFINE m == n + 1
                first == start[m]
                next == start[m + 1]
                count == days[m].count
    <2>1. n \in 1..k /\ m \in 1..k /\ m > 1
      BY <1>1
    <2>2. s[n] = first - 2 /\ s[m] = next - 2 /\ rest[n] = days[m]
      BY <1>4, <1>5, <2>1
    <2>. HIDE DEF m
    <2>3. /\ first \in Nat /\ count \in Nat /\ next = first + 1 + count /\ next <= len + 1
          /\ first >= 3 /\ IsDay(blocks, days[m], first)
      <3>1. /\ first \in Nat /\ count \in Nat /\ next = first + 1 + count
            /\ next <= len + 1 /\ first >= 3
        BY <1>2, <2>1
      <3>. QED  BY <1>3, <2>1, <3>1, Zenon
    <2>. HIDE DEF first, next, count
    <2>4. first - 2 \in Nat /\ next - 2 = (first - 2) + 1 + count
      BY <2>3
    <2>5. ASSUME NEW i \in 0..count PROVE fewer[(first - 2) + i] = blocks[first + i]
      <3>1. (first - 2) + i \in 1..len - 2 /\ ((first - 2) + i) + 2 = first + i
        BY <1>1, <2>3
      <3>2. fewer[(first - 2) + i] = blocks[((first - 2) + i) + 2]
        BY <1>4, <3>1
      <3>. QED  BY <3>1, <3>2
    <2>6. IsDay(fewer, days[m], first - 2)
      <3>. DEFINE entry == days[m]
                  to == first - 2
      <3>1. /\ IsDay(blocks, entry, first) /\ first \in Nat /\ to \in Nat
            /\ \A i \in 0..entry.count : fewer[to + i] = blocks[first + i]
        BY <2>3, <2>4, <2>5 DEF count
      <3>. HIDE DEF entry, to
      <3>2. IsDay(fewer, entry, to)
        BY <3>1, DayMoves
      <3>. QED  BY <3>2 DEF entry, to
    <2>. QED  BY <2>2, <2>4, <2>6 DEF m, count
  <1>10. Placed(fewer, rest, s)
    BY <1>4, <1>6, <1>7, <1>8, <1>9 DEF Placed
  <1>. QED  BY <1>10

LEMMA RemoveOldestGroups ==
    ASSUME NEW d \in Views, Grouped(d), d.days # <<>>
    PROVE  LET r == RemoveOldest(d)
           IN  /\ Grouped(r)
               /\ \A n \in 1..Len(r.days) : \E m \in 1..Len(d.days) : r.days[n].day = d.days[m].day
  <1>. DEFINE before == d.blocks
              dates == d.days
              k == Len(dates)
              len == Len(before)
              blocks == RemoveAt(before, 2)
              counts == [dates[1] EXCEPT !.count = @ - 1]
              days == [dates EXCEPT ![1] = counts]
              e == [d EXCEPT !.blocks = blocks, !.days = days, !.count = d.count - 1]
              r == RemoveOldest(d)
  <1>1. /\ before \in Seq(Blocks) /\ dates \in Seq(DayCounts) /\ d.count \in Nat
        /\ len \in Nat /\ k \in Nat
    BY DEF Views
  <1>2. k >= 1 /\ 1 \in 1..k
    BY <1>1, EmptySeq
  <1>3. PICK start : Placed(before, dates, start)
    BY DEF Grouped
  <1>4. Ascending(dates) /\ \A n \in 1..k : dates[n].count > 0
    BY DEF Grouped
  <1>5. counts \in DayCounts /\ counts.day = dates[1].day /\ counts.count = dates[1].count - 1
    <2>1. dates[1] \in DayCounts
      BY <1>1, <1>2, ElementOfSeq
    <2>. HIDE DEF dates
    <2>. QED  BY <2>1 DEF DayCounts
  <1>6. r = IF e.days[1].count > 0 THEN e
            ELSE [e EXCEPT !.blocks = Tail(@), !.days = Tail(@)]
    BY <1>1 DEF RemoveOldest, Views
  <1>7. /\ e.blocks = blocks /\ e.days = days
        /\ [e EXCEPT !.blocks = Tail(@), !.days = Tail(@)].blocks = Tail(blocks)
        /\ [e EXCEPT !.blocks = Tail(@), !.days = Tail(@)].days = Tail(days)
    <2>. HIDE DEF blocks, days
    <2>. QED  BY DEF Views
  <1>8. /\ r.blocks = IF days[1].count > 0 THEN blocks ELSE Tail(blocks)
        /\ r.days = IF days[1].count > 0 THEN days ELSE Tail(days)
    <2>. HIDE DEF e, blocks, days, r
    <2>. QED  BY <1>6, <1>7
  <1>. HIDE DEF before, dates, e, r
  <1>9. len >= 2 /\ dates[1].count \in Nat /\ dates[1].count > 0
    <2>1. \A n \in 1..Len(dates) :
              /\ start[n] \in Nat /\ start[n] >= 1 /\ dates[n].count \in Nat
              /\ start[n + 1] = start[n] + 1 + dates[n].count
              /\ start[n + 1] \in Nat /\ start[n + 1] >= 3 /\ start[n + 1] <= Len(before) + 1
              /\ n > 1 => start[n] >= 3
      BY <1>1, <1>3, <1>4, StartBounds
    <2>2. start[1 + 1] \in Nat /\ start[1 + 1] >= 3 /\ start[1 + 1] <= len + 1
      BY <1>2, <2>1
    <2>3. dates[1].count \in Nat /\ dates[1].count > 0
      BY <1>2, <1>4, <2>1
    <2>. HIDE DEF len
    <2>4. len >= 2
      BY <1>1, <2>2
    <2>. QED  BY <2>3, <2>4
  <1>10. /\ blocks \in Seq(Blocks) /\ Len(blocks) = len - 1
         /\ \A i \in 1..Len(blocks) : blocks[i] = before[IF i = 1 THEN 1 ELSE i + 1]
    BY <1>1, <1>9, WithoutSecond
  <1>. HIDE DEF counts, blocks
  <1>11. /\ days \in Seq(DayCounts) /\ Len(days) = k
         /\ days[1] = counts /\ \A n \in 1..k : n # 1 => days[n] = dates[n]
    <2>1. days \in Seq(DayCounts) /\ Len(days) = k
      BY <1>1, <1>2, <1>5, ExceptSeq
    <2>2. DOMAIN dates = 1..k
      BY <1>1, LenProperties
    <2>. QED  BY <1>2, <2>1, <2>2
  <1>. HIDE DEF days
  <1>12. \A n \in 1..k : days[n].day = dates[n].day
    BY <1>5, <1>11
  <1>13. CASE days[1].count > 0
    <2>1. r.blocks = blocks /\ r.days = days
      BY <1>8, <1>13
    <2>2. \E s : Placed(blocks, days, s)
      <3>1. days[1].day = dates[1].day /\ days[1].count = dates[1].count - 1
        BY <1>5, <1>11
      <3>2. Len(blocks) = Len(before) - 1 /\ Len(days) = Len(dates) /\ Len(dates) >= 1
        BY <1>2, <1>10, <1>11
      <3>3. \A n \in 1..Len(dates) : dates[n].count > 0
        BY <1>4
      <3>4. \A n \in 1..Len(dates) : n # 1 => days[n] = dates[n]
        BY <1>11
      <3>. QED  BY <1>1, <1>3, <1>10, <1>11, <1>13, <3>1, <3>2, <3>3, <3>4, LineRemoved
    <2>3. Ascending(days)
      BY <1>4, <1>11, <1>12 DEF Ascending
    <2>4. \A n \in 1..k : days[n].count > 0
      BY <1>4, <1>11, <1>13
    <2>5. Grouped(r)
      BY <1>11, <2>1, <2>2, <2>3, <2>4 DEF Grouped
    <2>. QED  BY <1>11, <1>12, <2>1, <2>5 DEF r, dates
  <1>14. CASE ~(days[1].count > 0)
    <2>. DEFINE fewer == Tail(blocks)
                rest == Tail(days)
    <2>1. r.blocks = fewer /\ r.days = rest
      BY <1>8, <1>14
    <2>2. blocks # <<>> /\ days # <<>>
      <3>1. Len(blocks) # 0 /\ Len(days) # 0
        BY <1>1, <1>2, <1>9, <1>10, <1>11
      <3>. QED  BY <3>1, EmptySeq
    <2>3. /\ fewer \in Seq(Blocks) /\ Len(fewer) = Len(blocks) - 1
          /\ \A i \in 1..Len(fewer) : fewer[i] = blocks[i + 1]
      BY <1>10, <2>2, HeadTailProperties
    <2>4. /\ rest \in Seq(DayCounts) /\ Len(rest) = k - 1
          /\ \A n \in 1..k - 1 : rest[n] = days[n + 1]
      <3>1. /\ rest \in Seq(DayCounts) /\ Len(rest) = Len(days) - 1
            /\ \A n \in 1..Len(rest) : rest[n] = days[n + 1]
        BY <1>11, <2>2, HeadTailProperties
      <3>. QED  BY <1>11, <3>1
    <2>. HIDE DEF fewer, rest, k, len
    <2>5. Len(fewer) = len - 2
      BY <1>1, <1>10, <2>3
    <2>6. \A i \in 1..Len(fewer) : fewer[i] = before[i + 2]
      <3>. SUFFICES ASSUME NEW i \in 1..Len(fewer) PROVE fewer[i] = before[i + 2]
        OBVIOUS
      <3>1. i + 1 \in 1..Len(blocks) /\ i + 1 # 1 /\ (i + 1) + 1 = i + 2
        BY <1>1, <1>9, <1>10, <2>5
      <3>2. blocks[i + 1] = before[(i + 1) + 1]
        BY <1>10, <3>1
      <3>. QED  BY <2>3, <3>1, <3>2
    <2>7. \A n \in 1..k - 1 : n + 1 \in 1..k /\ n + 1 # 1 /\ rest[n] = dates[n + 1]
      <3>. SUFFICES ASSUME NEW n \in 1..k - 1
                    PROVE  n + 1 \in 1..k /\ n + 1 # 1 /\ rest[n] = dates[n + 1]
        OBVIOUS
      <3>1. n + 1 \in 1..k /\ n + 1 # 1
        BY <1>1
      <3>. QED  BY <1>11, <2>4, <3>1
    <2>8. dates[1].count = 1
      BY <1>5, <1>9, <1>11, <1>14
    <2>9. \E s : Placed(fewer, rest, s)
      <3>1. Len(fewer) = Len(before) - 2 /\ Len(rest) = Len(dates) - 1 /\ Len(dates) >= 1
        BY <1>2, <2>4, <2>5 DEF k, len
      <3>2. \A n \in 1..Len(dates) : dates[n].count > 0
        BY <1>4 DEF k
      <3>3. \A n \in 1..Len(rest) : rest[n] = dates[n + 1]
        BY <2>4, <2>7
      <3>. QED  BY <1>1, <1>3, <2>3, <2>4, <2>6, <2>8, <3>1, <3>2, <3>3, DayRemoved
    <2>10. Ascending(rest)
      <3>. SUFFICES ASSUME NEW m \in 1..k - 1, NEW n \in 1..k - 1, m < n
                    PROVE  rest[m].day < rest[n].day
        BY <2>4 DEF Ascending
      <3>1. m + 1 < n + 1
        BY <1>1
      <3>2. dates[m + 1].day < dates[n + 1].day
        BY <1>4, <2>7, <3>1 DEF Ascending, k
      <3>. QED  BY <2>7, <3>2
    <2>11. \A n \in 1..k - 1 : rest[n].count > 0
      BY <1>4, <2>7
    <2>12. Grouped(r)
      BY <2>1, <2>4, <2>9, <2>10, <2>11 DEF Grouped
    <2>13. \A n \in 1..Len(r.days) : \E m \in 1..k : r.days[n].day = dates[m].day
      BY <2>1, <2>4, <2>7
    <2>. QED  BY <2>12, <2>13 DEF r, dates, k
  <1>. QED  BY <1>13, <1>14

\* insertRecord of a record that is not of an earlier day than those shown
LEMMA InsertGroups ==
    ASSUME NEW d \in Views, NEW record \in Recs, record.message > 0, Grouped(d),
           \A n \in 1..Len(d.days) : d.days[n].day <= record.day
    PROVE  LET r == InsertRecord(d, record)
           IN  Grouped(r) /\ \A n \in 1..Len(r.days) : r.days[n].day <= record.day
  <1>. DEFINE a == AddDay(d, record.day)
              b == AddLine(a, record)
              r == InsertRecord(d, record)
  <1>1. record.day \in Nat /\ record.message # 0
    BY DEF Recs
  <1>2. /\ a \in Views /\ a.days # <<>> /\ a.days[Len(a.days)].day = record.day
        /\ \E start : Placed(a.blocks, a.days, start)
        /\ Ascending(a.days)
        /\ \A n \in 1..Len(a.days) : n < Len(a.days) => a.days[n].count > 0
        /\ \A n \in 1..Len(a.days) : a.days[n].day <= record.day
    BY <1>1, AddDayGroups
  <1>. HIDE DEF a
  <1>3. PICK start : Placed(a.blocks, a.days, start)
    BY <1>2
  <1>4. /\ b \in Views /\ b.days # <<>> /\ Grouped(b)
        /\ \A n \in 1..Len(b.days) : b.days[n].day <= record.day
    BY <1>1, <1>2, <1>3, AddLineGroups
  <1>. HIDE DEF b
  <1>5. r = IF b.count > RecordsCountMax THEN RemoveOldest(b) ELSE b
    BY Zenon DEF InsertRecord, a, b
  <1>. HIDE DEF r
  <1>6. CASE b.count > RecordsCountMax
    <2>. DEFINE c == RemoveOldest(b)
    <2>1. /\ Grouped(c)
          /\ \A n \in 1..Len(c.days) : \E m \in 1..Len(b.days) : c.days[n].day = b.days[m].day
      BY <1>4, RemoveOldestGroups
    <2>. HIDE DEF c
    <2>2. r = c
      BY <1>5, <1>6 DEF c
    <2>. QED  BY <1>4, <2>1, <2>2 DEF r
  <1>7. CASE ~(b.count > RecordsCountMax)
    <2>1. r = b
      BY <1>5, <1>7
    <2>. QED  BY <1>4, <2>1 DEF r
  <1>. QED  BY <1>6, <1>7

LEMMA EmptyGroups == Grouped(Empty) /\ Empty.days = <<>> /\ 1..Len(Empty.days) = {}
  <1>1. Empty.blocks = <<>> /\ Empty.days = <<>> /\ Len(<<>>) = 0 /\ 1..0 = {}
    BY EmptySeq DEF Empty
  <1>. DEFINE start == [n \in 1..0 + 1 |-> 1]
  <1>2. start \in [1..0 + 1 -> 1..0 + 1] /\ start[1] = 1 /\ start[0 + 1] = 0 + 1
    OBVIOUS
  <1>. HIDE DEF start
  <1>3. Placed(<<>>, <<>>, start)
    BY <1>1, <1>2 DEF Placed
  <1>. QED  BY <1>1, <1>3 DEF Grouped, Ascending

LEMMA ShownDays ==
    ASSUME NEW d \in Views PROVE \A n \in 1..Len(d.days) : d.days[n].day \in Nat
  <1>1. d.days \in Seq(DayCounts)
    BY DEF Views
  <1>2. \A n \in 1..Len(d.days) : d.days[n] \in DayCounts
    BY <1>1, ElementOfSeq
  <1>. QED  BY <1>2 DEF DayCounts

-----------------------------------------------------------------------------
(* reload *)

\* Induction for a set of numbers: if some x were missing, adding one would map
\* the numbers up to x that are not into those that are not 0, too few.
LEMMA SetInduction ==
    ASSUME NEW S, 0 \in S, \A n \in Nat : n \in S => n + 1 \in S
    PROVE  Nat \subseteq S
  <1>. SUFFICES ASSUME NEW x \in Nat, x \notin S PROVE FALSE
    OBVIOUS
  <1>. DEFINE A == {y \in 0..x : y \in S}
  <1>. DEFINE B == A \ {0}
  <1>. DEFINE next == [y \in A |-> y + 1]
  <1>1. A \in SUBSET (0..x) /\ 0 \in A
    OBVIOUS
  <1>2. IsFiniteSet(0..x)
    BY FS_Interval
  <1>3. next \in [A -> B]
    OBVIOUS
  <1>4. \A y, z \in A : next[y] = next[z] => y = z
    OBVIOUS
  <1>. HIDE DEF next, A
  <1>5. IsFiniteSet(A)
    BY <1>1, <1>2, FS_Subset
  <1>6. IsFiniteSet(B) /\ Cardinality(B) = Cardinality(A) - 1
    BY <1>1, <1>5, FS_RemoveElement
  <1>7. Cardinality(A) \in Nat /\ Cardinality(B) < Cardinality(A)
    BY <1>5, <1>6, FS_CardinalityType
  <1>. HIDE DEF B
  <1>8. \E y, z \in A : y # z /\ next[y] = next[z]
    BY <1>5, <1>6, <1>3, <1>7, FS_PigeonHole
  <1>. QED BY <1>4, <1>8

\* What the loop of reload shows after n records
Loop(g, n) ==
    g = [i \in 0..n |-> IF i = 0 THEN Empty ELSE InsertRecord(g[i - 1], records[i])]

LEMMA LoopExists == \A n \in Nat : \E g : Loop(g, n)
  <1>. DEFINE S == {n \in Nat : \E g : Loop(g, n)}
  <1>1. 0 \in S
    <2>. DEFINE g == [i \in 0..0 |-> Empty]
    <2>1. Loop(g, 0)
      BY DEF Loop
    <2>. QED  BY <2>1
  <1>2. ASSUME NEW n \in Nat, n \in S PROVE n + 1 \in S
    <2>1. PICK g : Loop(g, n)
      BY <1>2
    <2>. DEFINE h == [i \in 0..n + 1 |->
                        IF i <= n THEN g[i] ELSE InsertRecord(g[n], records[n + 1])]
                k == [i \in 0..n + 1 |->
                        IF i = 0 THEN Empty ELSE InsertRecord(h[i - 1], records[i])]
    <2>2. ASSUME NEW i \in 0..n + 1 PROVE h[i] = k[i]
      <3>1. CASE i = 0
        <4>1. h[i] = g[0] /\ k[i] = Empty
          BY <3>1
        <4>2. g[0] = Empty
          BY <2>1 DEF Loop
        <4>. QED  BY <4>1, <4>2
      <3>2. CASE i \in 1..n
        <4>1. h[i] = g[i] /\ h[i - 1] = g[i - 1]
          BY <3>2
        <4>2. k[i] = InsertRecord(h[i - 1], records[i])
          BY <3>2
        <4>3. g[i] = InsertRecord(g[i - 1], records[i])
          BY <2>1, <3>2 DEF Loop
        <4>. QED  BY <4>1, <4>2, <4>3
      <3>3. CASE i = n + 1
        <4>1. h[i] = InsertRecord(g[n], records[n + 1]) /\ h[n] = g[n] /\ i - 1 = n
          BY <3>3
        <4>2. k[i] = InsertRecord(h[i - 1], records[i])
          BY <3>3
        <4>. QED  BY <3>3, <4>1, <4>2
      <3>. QED  BY <3>1, <3>2, <3>3
    <2>3. h = k
      <3>1. h = [i \in 0..n + 1 |-> h[i]] /\ k = [i \in 0..n + 1 |-> k[i]]
        OBVIOUS
      <3>. HIDE DEF h, k
      <3>. QED  BY <2>2, <3>1
    <2>4. Loop(h, n + 1)
      BY <2>3, Zenon DEF Loop
    <2>. QED  BY <2>4
  <1>. HIDE DEF S
  <1>3. Nat \subseteq S
    BY <1>1, <1>2, SetInduction
  <1>. QED  BY <1>3 DEF S

LEMMA ReloadStep ==
    ASSUME records \in Seq(Recs),
           \A i \in 1..Len(records) : records[i].message > 0,
           \A i, j \in 1..Len(records) : i < j =>
               records[i].message < records[j].message /\ records[i].day <= records[j].day
    PROVE  /\ Reload \in Views /\ Shape(Reload) /\ InOrder(Reload.blocks) /\ Grouped(Reload)
           /\ records = <<>> => Reload = Empty
           /\ records # <<>> =>
                  LET newest == records[Len(records)]
                  IN  /\ Reload.last = newest.serial
                      /\ Reload.blocks # <<>> /\ Last(Reload.blocks) = Line(newest)
                      /\ \A i \in 1..Len(Reload.blocks) : Reload.blocks[i].message <= newest.message
                      /\ \A m \in 1..Len(Reload.days) : Reload.days[m].day <= newest.day
  <1>. DEFINE N == Len(records)
              g == CHOOSE f : Loop(f, N)
              Good(n) == /\ g[n] \in Views /\ Shape(g[n]) /\ InOrder(g[n].blocks)
                         /\ Grouped(g[n])
                         /\ n = 0 => g[n] = Empty
                         /\ n # 0 =>
                              /\ g[n].last = records[n].serial
                              /\ g[n].blocks # <<>> /\ Last(g[n].blocks) = Line(records[n])
                              /\ \A i \in 1..Len(g[n].blocks) :
                                     g[n].blocks[i].message <= records[n].message
                              /\ \A m \in 1..Len(g[n].days) : g[n].days[m].day <= records[n].day
  <1>1. N \in Nat
    BY LenProperties
  <1>2. Loop(g, N)
    BY <1>1, LoopExists
  <1>3. Reload = g[N]
    BY Zenon DEF Reload, Loop
  <1>. HIDE DEF g
  <1>4. g[0] = Empty
    BY <1>1, <1>2 DEF Loop
  <1>5. \A n \in 1..N : g[n] = InsertRecord(g[n - 1], records[n])
    BY <1>1, <1>2 DEF Loop
  <1>6. Good(0)
    <2>1. Empty.blocks = <<>> /\ Empty.days = <<>> /\ Empty.count = 0
      BY DEF Empty
    <2>2. Empty \in Views
      BY EmptySeq DEF Empty, Views
    <2>3. Shape(Empty) /\ InOrder(Empty.blocks)
      BY <2>1, EmptySeq, Limits DEF Shape, InOrder
    <2>. QED  BY <1>4, <2>2, <2>3, EmptyGroups
  <1>7. ASSUME NEW n \in Nat, n + 1 <= N, Good(n) PROVE Good(n + 1)
    <2>. DEFINE record == records[n + 1]
    <2>1. n + 1 \in 1..N /\ (n + 1) - 1 = n
      BY <1>1, <1>7
    <2>2. g[n + 1] = InsertRecord(g[n], record)
      BY <1>5, <2>1
    <2>3. record \in Recs /\ record.message > 0
      BY <2>1, ElementOfSeq
    <2>4. \A i \in 1..Len(g[n].blocks) : g[n].blocks[i].message < record.message
      <3>1. CASE n = 0
        <4>1. Len(g[n].blocks) = 0
          BY <1>4, <3>1, EmptySeq DEF Empty
        <4>. QED  BY <4>1
      <3>2. CASE n # 0
        <4>1. n \in 1..N /\ records[n].message < record.message
          BY <1>1, <2>1, <3>2
        <4>2. records[n].message \in Nat /\ record.message \in Nat
          <5>1. records[n] \in Recs
            BY <4>1, ElementOfSeq
          <5>. QED  BY <2>3, <5>1 DEF Recs
        <4>3. \A i \in 1..Len(g[n].blocks) : g[n].blocks[i].message \in Nat
          <5>1. g[n].blocks \in Seq(Blocks)
            BY <1>7 DEF Views
          <5>2. \A i \in 1..Len(g[n].blocks) : g[n].blocks[i] \in Blocks
            BY <5>1, ElementOfSeq
          <5>. QED  BY <5>2 DEF Blocks
        <4>. QED  BY <1>7, <3>2, <4>1, <4>2, <4>3
      <3>. QED  BY <3>1, <3>2
    <2>5. \A m \in 1..Len(g[n].days) : g[n].days[m].day <= record.day
      <3>1. CASE n = 0
        BY <1>4, <3>1, EmptyGroups
      <3>2. CASE n # 0
        <4>1. n \in 1..N /\ n < n + 1
          BY <1>1, <2>1, <3>2
        <4>2. records[n].day <= record.day
          BY <2>1, <4>1
        <4>3. records[n].day \in Nat /\ record.day \in Nat
          <5>1. records[n] \in Recs
            BY <4>1, ElementOfSeq
          <5>. QED  BY <2>3, <5>1 DEF Recs
        <4>4. \A m \in 1..Len(g[n].days) : g[n].days[m].day \in Nat
          BY <1>7, ShownDays
        <4>. QED  BY <1>7, <3>2, <4>2, <4>3, <4>4
      <3>. QED  BY <3>1, <3>2
    <2>6. g[n] \in Views /\ Shape(g[n]) /\ InOrder(g[n].blocks) /\ Grouped(g[n])
      BY <1>7
    <2>. HIDE DEF record
    <2>. DEFINE next == InsertRecord(g[n], record)
    <2>7. /\ next \in Views /\ Shape(next) /\ InOrder(next.blocks) /\ next.last = record.serial
          /\ next.blocks # <<>> /\ Last(next.blocks) = Line(record)
          /\ \A i \in 1..Len(next.blocks) : next.blocks[i].message <= record.message
      BY <2>3, <2>4, <2>6, InsertStep
    <2>8. Grouped(next) /\ \A m \in 1..Len(next.days) : next.days[m].day <= record.day
      BY <2>3, <2>6, <2>5, InsertGroups
    <2>. HIDE DEF next
    <2>9. g[n + 1] = next
      BY <2>2 DEF next
    <2>. QED  BY <2>7, <2>9, <2>8 DEF record
  <1>. HIDE DEF Good
  <1>8. Good(N)
    <2>. DEFINE S == {n \in Nat : n <= N => Good(n)}
    <2>1. 0 \in S
      BY <1>6
    <2>2. \A n \in Nat : n \in S => n + 1 \in S
      BY <1>1, <1>7
    <2>. HIDE DEF S
    <2>3. N \in S
      BY <1>1, <2>1, <2>2, SetInduction
    <2>. QED  BY <1>1, <2>3 DEF S
  <1>9. records = <<>> <=> N = 0
    BY EmptySeq
  <1>. QED  BY <1>3, <1>8, <1>9 DEF Good

-----------------------------------------------------------------------------
(* restoreRecentRecords *)

RestoredFrom(lines, date, later) ==
    LatestOfFile(RecordsCountMax - Len(later), ReadLogFile(lines, date)) \o later

\* The loop over the files from the day `first` on
Back(R, lines, first) ==
    R = [date \in first..DaysMax + 1 |->
            IF date > DaysMax THEN <<>> ELSE RestoredFrom(lines, date, R[date + 1])]

LEMMA BackExists == ASSUME NEW lines PROVE \E R : Back(R, lines, 1)
  <1>. DEFINE Exists(first) == \E R : Back(R, lines, first)
              S == {k \in Nat : k <= DaysMax => Exists(DaysMax + 1 - k)}
  <1>1. DaysMax \in Nat
    BY Limits
  <1>2. 0 \in S
    <2>. DEFINE R == [date \in DaysMax + 1..DaysMax + 1 |-> <<>>]
    <2>1. Back(R, lines, DaysMax + 1)
      BY <1>1 DEF Back
    <2>2. DaysMax + 1 - 0 = DaysMax + 1
      BY <1>1
    <2>. QED  BY <2>1, <2>2
  <1>3. ASSUME NEW first \in Nat, first <= DaysMax, Exists(first + 1)
        PROVE  Exists(first)
    <2>1. PICK R : Back(R, lines, first + 1)
      BY <1>3
    <2>. DEFINE Q == [date \in first..DaysMax + 1 |->
                        IF date > first THEN R[date] ELSE RestoredFrom(lines, date, R[date + 1])]
                P == [date \in first..DaysMax + 1 |->
                        IF date > DaysMax THEN <<>> ELSE RestoredFrom(lines, date, Q[date + 1])]
    <2>2. ASSUME NEW date \in first..DaysMax + 1 PROVE Q[date] = P[date]
      <3>1. CASE date = first
        <4>1. /\ date + 1 \in first..DaysMax + 1 /\ date + 1 > first
              /\ ~(date > DaysMax) /\ ~(date > first)
          BY <1>1, <1>3, <3>1
        <4>2. Q[date + 1] = R[date + 1]
          BY <4>1
        <4>3. Q[date] = RestoredFrom(lines, date, R[date + 1])
          BY <4>1
        <4>4. P[date] = RestoredFrom(lines, date, Q[date + 1])
          BY <4>1
        <4>. QED  BY <4>2, <4>3, <4>4
      <3>2. CASE date # first /\ date > DaysMax
        <4>1. Q[date] = R[date] /\ P[date] = <<>> /\ date \in first + 1..DaysMax + 1
          BY <1>1, <1>3, <3>2
        <4>2. R[date] = <<>>
          BY <2>1, <3>2, <4>1 DEF Back
        <4>. QED  BY <4>1, <4>2
      <3>3. CASE date # first /\ ~(date > DaysMax)
        <4>1. /\ date \in first + 1..DaysMax + 1 /\ date + 1 \in first..DaysMax + 1
              /\ date + 1 > first /\ date > first
          BY <1>1, <1>3, <3>3
        <4>2. Q[date] = R[date] /\ Q[date + 1] = R[date + 1]
          BY <4>1
        <4>3. P[date] = RestoredFrom(lines, date, Q[date + 1])
          BY <3>3
        <4>4. R[date] = RestoredFrom(lines, date, R[date + 1])
          BY <2>1, <3>3, <4>1 DEF Back
        <4>. QED  BY <4>2, <4>3, <4>4
      <3>. QED  BY <3>1, <3>2, <3>3
    <2>3. Q = P
      <3>1. /\ Q = [date \in first..DaysMax + 1 |-> Q[date]]
            /\ P = [date \in first..DaysMax + 1 |-> P[date]]
        OBVIOUS
      <3>. HIDE DEF Q, P
      <3>. QED  BY <2>2, <3>1
    <2>4. Back(Q, lines, first)
      BY <2>3, Zenon DEF Back
    <2>. QED  BY <2>4
  <1>. HIDE DEF Exists
  <1>4. \A k \in Nat : k \in S => k + 1 \in S
    <2>. SUFFICES ASSUME NEW k \in Nat, k \in S, k + 1 <= DaysMax
                  PROVE  Exists(DaysMax + 1 - (k + 1))
      OBVIOUS
    <2>. DEFINE first == DaysMax + 1 - (k + 1)
    <2>1. first \in Nat /\ first <= DaysMax /\ first + 1 = DaysMax + 1 - k /\ k <= DaysMax
      BY <1>1
    <2>2. Exists(first + 1)
      BY <2>1
    <2>. HIDE DEF first
    <2>3. Exists(first)
      BY <1>3, <2>1, <2>2
    <2>. QED  BY <2>3 DEF first
  <1>. HIDE DEF S
  <1>5. DaysMax \in S
    BY <1>1, <1>2, <1>4, SetInduction
  <1>6. Exists(DaysMax + 1 - DaysMax)
    BY <1>1, <1>5 DEF S
  <1>7. DaysMax + 1 - DaysMax = 1
    BY <1>1
  <1>. QED  BY <1>6, <1>7 DEF Exists

\* The last lines of those written from position n + 1 on, as far as there is
\* room for them
IsEnd(t, n) ==
    /\ t \in Seq(Blocks) /\ Len(t) \in Nat
    /\ Len(t) = IF Len(saved) - n > RecordsCountMax THEN RecordsCountMax ELSE Len(saved) - n
    /\ \A i \in 1..Len(t) : t[i] = saved[Len(saved) - Len(t) + i]

FirstKept == IF day - LogFilesAgeMax > 1 THEN day - LogFilesAgeMax ELSE 1

LEMMA KeptDays ==
    ASSUME day \in Days
    PROVE  /\ FirstKept \in Days /\ FirstKept <= day /\ LogFilesAgeMax \in Nat
           /\ \A date \in Days : day - date <= LogFilesAgeMax <=> date >= FirstKept
  BY Limits, LogsAssumption DEF FirstKept, Days

LEMMA KeptFiles ==
    ASSUME TypeInv
    PROVE  LET lines == RemoveOldLogs(files)
           IN  /\ lines \in [Days -> Seq(Nat)]
               /\ \A date \in Days :
                      lines[date] = IF date >= FirstKept THEN files[date] ELSE <<>>
  <1>. DEFINE lines == RemoveOldLogs(files)
  <1>1. day \in Days /\ files \in [Days -> Seq(Nat)]
    BY DEF TypeInv
  <1>2. /\ day \in Nat /\ LogFilesAgeMax \in Nat /\ FirstKept \in Nat
        /\ \A date \in Days : date \in Nat
    BY <1>1, KeptDays DEF Days
  <1>3. lines = [date \in Days |-> IF day - date > LogFilesAgeMax THEN <<>> ELSE files[date]]
    BY DEF RemoveOldLogs
  <1>. HIDE DEF lines
  <1>4. \A date \in Days : lines[date] = IF date >= FirstKept THEN files[date] ELSE <<>>
    <2>. SUFFICES ASSUME NEW date \in Days
                  PROVE  lines[date] = IF date >= FirstKept THEN files[date] ELSE <<>>
      OBVIOUS
    <2>1. lines[date] = IF day - date > LogFilesAgeMax THEN <<>> ELSE files[date]
      BY <1>3
    <2>2. day - date > LogFilesAgeMax <=> ~(date >= FirstKept)
      <3>1. day - date <= LogFilesAgeMax <=> date >= FirstKept
        BY <1>1, KeptDays
      <3>. QED  BY <1>2, <3>1
    <2>. QED  BY <2>1, <2>2
  <1>5. lines \in [Days -> Seq(Nat)]
    <2>1. <<>> \in Seq(Nat)
      BY EmptySeq
    <2>. QED  BY <1>1, <1>3, <2>1
  <1>. QED  BY <1>4, <1>5 DEF lines

\* Nothing is read from a file that was removed.
LEMMA OneFileLess ==
    ASSUME TypeInv, NEW date \in Days, date < FirstKept,
           NEW later \in Seq(Blocks), Len(later) <= RecordsCountMax
    PROVE  RestoredFrom(RemoveOldLogs(files), date, later) = later
  <1>. DEFINE lines == RemoveOldLogs(files)
              tail == Latest(LogFileTailMax, lines[date])
              read == ReadLogFile(lines, date)
              room == RecordsCountMax - Len(later)
              part == Latest(room, read)
  <1>1. room \in Nat /\ LogFileTailMax \in Nat
    BY Limits, LenProperties
  <1>2. day \in Days
    BY DEF TypeInv
  <1>3. lines[date] = <<>>
    <2>1. ~(date >= FirstKept)
      BY <1>2, KeptDays DEF Days
    <2>. QED  BY <2>1, KeptFiles
  <1>. HIDE DEF lines, room
  <1>4. <<>> \in Seq(Blocks) /\ <<>> \in Seq(Nat) /\ Len(<<>>) = 0 /\ 1..0 = {}
    BY EmptySeq
  <1>5. \A n \in Nat : Latest(n, <<>>) = <<>>
    BY <1>4, SubSeqEmpty DEF Latest
  <1>6. tail = <<>>
    BY <1>1, <1>3, <1>5
  <1>7. read = <<>>
    <2>1. read = [i \in 1..Len(tail) |-> [day |-> date, message |-> tail[i]]]
      BY DEF ReadLogFile
    <2>. HIDE DEF tail, read
    <2>2. read \in [1..0 -> Blocks]
      BY <1>4, <1>6, <2>1
    <2>3. read \in Seq(Blocks) /\ Len(read) = 0
      BY <2>2, FunctionSeq
    <2>. QED  BY <2>3, EmptySeq
  <1>8. part = <<>>
    BY <1>1, <1>5, <1>7
  <1>9. RestoredFrom(RemoveOldLogs(files), date, later) = part \o later
    BY DEF RestoredFrom, LatestOfFile, lines, room
  <1>. HIDE DEF part
  <1>10. <<>> \o later = later
    BY ConcatEmptySeq
  <1>. QED  BY <1>8, <1>9, <1>10

\* One file more, of the day before
LEMMA OneFileMore ==
    ASSUME TypeInv, NEW before, FilesAreSaved(before), NEW date \in Days, date >= FirstKept,
           NEW later, IsEnd(later, before[date + 1])
    PROVE  IsEnd(RestoredFrom(RemoveOldLogs(files), date, later), before[date])
  <1>. DEFINE lines == RemoveOldLogs(files)
              file == files[date]
              tail == Latest(LogFileTailMax, lines[date])
              read == ReadLogFile(lines, date)
              room == RecordsCountMax - Len(later)
              part == Latest(room, read)
              all == RestoredFrom(lines, date, later)
              from == before[date]
              to == before[date + 1]
              len == Len(saved)
              F == Len(file)
              T == Len(tail)
              P == Len(part)
              L == Len(later)
  <1>1. /\ saved \in Seq(Blocks) /\ len \in Nat /\ file \in Seq(Nat) /\ F \in Nat
        /\ day \in Days /\ date \in Nat
    BY DEF TypeInv, Days
  <1>2. date \in 1..DaysMax + 1 /\ date + 1 \in 1..DaysMax + 1 /\ date + 1 \in Nat
    BY Limits DEF Days
  <1>3. from \in 0..len /\ to \in 0..len
    BY <1>2 DEF FilesAreSaved
  <1>4. F = to - from /\ \A i \in 1..F : file[i] = saved[from + i].message
    <2>1. day - date <= LogFilesAgeMax
      BY <1>1, KeptDays
    <2>. QED  BY <2>1 DEF FilesAreSaved
  <1>5. lines[date] = file
    BY KeptFiles
  <1>. HIDE DEF lines, from, to, len, F, file
  <1>6. \A i \in 1..F : saved[from + i] = [day |-> date, message |-> file[i]]
    <2>. SUFFICES ASSUME NEW i \in 1..F PROVE saved[from + i] = [day |-> date, message |-> file[i]]
      OBVIOUS
    <2>1. from + i \in 1..len /\ from + i <= to /\ ~(from + i <= from)
      BY <1>1, <1>3, <1>4
    <2>2. saved[from + i] \in Blocks
      BY <1>1, <2>1, ElementOfSeq DEF len
    <2>3. (saved[from + i].day < date <=> from + i <= from)
          /\ (saved[from + i].day < date + 1 <=> from + i <= to)
      BY <1>2, <2>1 DEF FilesAreSaved, len, from, to
    <2>4. saved[from + i].day = date
      BY <1>1, <2>1, <2>2, <2>3 DEF Blocks
    <2>5. saved[from + i].message = file[i]
      BY <1>4
    <2>. QED  BY <2>2, <2>4, <2>5 DEF Blocks
  <1>7. /\ L \in Nat /\ later \in Seq(Blocks) /\ room \in Nat /\ LogFileTailMax \in Nat
        /\ L = IF len - to > RecordsCountMax THEN RecordsCountMax ELSE len - to
        /\ \A i \in 1..L : later[i] = saved[len - L + i]
    <2>1. /\ L \in Nat /\ later \in Seq(Blocks)
          /\ L = IF len - to > RecordsCountMax THEN RecordsCountMax ELSE len - to
          /\ \A i \in 1..L : later[i] = saved[len - L + i]
      BY Zenon DEF IsEnd, to, len
    <2>2. L <= RecordsCountMax
      <3>. HIDE DEF L
      <3>1. len \in Nat /\ to \in 0..len /\ RecordsCountMax \in Nat
        BY <1>1, <1>3, Limits
      <3>2. L = IF len - to > RecordsCountMax THEN RecordsCountMax ELSE len - to
        BY <2>1
      <3>. QED  BY <3>1, <3>2
    <2>3. room \in Nat
      <3>. HIDE DEF L
      <3>1. L \in Nat /\ RecordsCountMax \in Nat
        BY <2>1, Limits
      <3>. QED  BY <2>2, <3>1 DEF L
    <2>. QED  BY <2>1, <2>3, Limits, Zenon
  <1>8. /\ tail \in Seq(Nat) /\ T \in Nat
        /\ T = IF F > LogFileTailMax THEN LogFileTailMax ELSE F
        /\ \A i \in 1..T : tail[i] = file[F - T + i]
    BY <1>1, <1>5, <1>7, LatestElements DEF F
  <1>9. read = [i \in 1..T |-> [day |-> date, message |-> tail[i]]]
    BY DEF ReadLogFile
  <1>. HIDE DEF tail, read, T
  <1>10. \A i \in 1..T : read[i] = saved[to - T + i]
    <2>. SUFFICES ASSUME NEW i \in 1..T PROVE read[i] = saved[to - T + i]
      OBVIOUS
    <2>1. F - T + i \in 1..F /\ from + (F - T + i) = to - T + i
      <3>1. F \in Nat /\ T \in Nat /\ T <= F /\ F = to - from /\ from \in Int /\ to \in Int
        <4>1. LogFileTailMax \in Nat /\ T = IF F > LogFileTailMax THEN LogFileTailMax ELSE F
          BY <1>7, <1>8
        <4>2. T <= F
          BY <1>1, <4>1
        <4>. QED  BY <1>1, <1>3, <1>4, <1>8, <4>2
      <3>. QED  BY <3>1
    <2>2. read[i] = [day |-> date, message |-> file[F - T + i]]
      BY <1>8, <1>9
    <2>3. saved[from + (F - T + i)] = [day |-> date, message |-> file[F - T + i]]
      BY <1>6, <2>1
    <2>. QED  BY <2>1, <2>2, <2>3
  <1>11. read \in Seq(Blocks) /\ Len(read) = T
    <2>1. \A i \in 1..T : tail[i] \in Nat
      BY <1>8, ElementOfSeq DEF T
    <2>2. \A i \in 1..T : [day |-> date, message |-> tail[i]] \in Blocks
      BY <1>1, <2>1 DEF Blocks
    <2>3. read \in [1..T -> Blocks]
      BY <1>9, <2>2
    <2>4. T \in Nat
      BY <1>8
    <2>. QED  BY <2>3, <2>4, FunctionSeq
  <1>12. /\ part \in Seq(Blocks) /\ P \in Nat
         /\ P = IF T > room THEN room ELSE T
         /\ \A i \in 1..P : part[i] = read[T - P + i]
    BY <1>7, <1>11, LatestElements
  <1>13. all = part \o later
    BY DEF RestoredFrom, LatestOfFile, read
  <1>. HIDE DEF part, all, P
  <1>. HIDE DEF L, room
  <1>14. /\ len \in Nat /\ from \in Nat /\ to \in Nat /\ to <= len /\ F \in Nat /\ F = to - from
         /\ L \in Nat /\ T \in Nat /\ P \in Nat /\ RecordsCountMax \in Nat
         /\ LogFileTailMax \in Nat /\ LogFileTailMax >= RecordsCountMax
         /\ room = RecordsCountMax - L /\ room \in Nat
    <2>1. from \in Nat /\ to \in Nat /\ to <= len
      BY <1>1, <1>3
    <2>2. room = RecordsCountMax - L
      BY DEF room, L
    <2>. QED  BY <1>1, <1>4, <1>7, <1>8, <1>12, <2>1, <2>2, LogsAssumption
  <1>15. /\ L = IF len - to > RecordsCountMax THEN RecordsCountMax ELSE len - to
         /\ T = IF F > LogFileTailMax THEN LogFileTailMax ELSE F
         /\ P = IF T > room THEN room ELSE T
    BY <1>7, <1>8, <1>12, Zenon
  <1>16. \A i \in 1..P : part[i] = saved[to - P + i]
    <2>. SUFFICES ASSUME NEW i \in 1..P PROVE part[i] = saved[to - P + i]
      OBVIOUS
    <2>1. P <= T
      BY <1>14, <1>15
    <2>2. T - P + i \in 1..T /\ to - T + (T - P + i) = to - P + i
      BY <1>14, <2>1
    <2>3. part[i] = read[T - P + i]
      BY <1>12
    <2>. QED  BY <1>10, <2>2, <2>3
  <1>17. /\ all \in Seq(Blocks) /\ Len(all) = P + L
         /\ \A i \in 1..P + L : all[i] = IF i <= P THEN part[i] ELSE later[i - P]
    BY <1>7, <1>12, <1>13, ConcatProperties DEF P, L
  <1>18. P + L = IF len - from > RecordsCountMax THEN RecordsCountMax ELSE len - from
    <2>1. P = IF F > room THEN room ELSE F
      BY <1>14, <1>15
    <2>. QED  BY <1>14, <1>15, <2>1
  <1>19. P > 0 => L = len - to
    BY <1>14, <1>15
  <1>20. ASSUME NEW i \in 1..P + L PROVE all[i] = saved[len - (P + L) + i]
    <2>1. CASE i <= P
      <3>1. i \in 1..P /\ to - P + i = len - (P + L) + i
        BY <1>14, <1>19, <2>1
      <3>2. all[i] = part[i]
        BY <1>17, <2>1
      <3>. QED  BY <1>16, <3>1, <3>2
    <2>2. CASE ~(i <= P)
      <3>1. i - P \in 1..L /\ len - L + (i - P) = len - (P + L) + i
        BY <1>14, <2>2
      <3>2. all[i] = later[i - P]
        BY <1>17, <2>2
      <3>3. later[i - P] = saved[len - L + (i - P)]
        BY <1>7, <3>1
      <3>. QED  BY <3>1, <3>2, <3>3
    <2>. QED  BY <2>1, <2>2
  <1>21. Len(all) \in Nat
    <2>1. P + L \in Nat
      BY <1>14
    <2>. QED  BY <1>17, <2>1
  <1>22. IsEnd(all, from)
    BY <1>17, <1>18, <1>20, <1>21, Zenon DEF IsEnd, len
  <1>. QED  BY <1>22 DEF all, from, lines

LEMMA RestoreStep ==
    ASSUME TypeInv, FilesInv, NEW before, FilesAreSaved(before)
    PROVE  IsEnd(RestoreRecentRecords(RemoveOldLogs(files)), before[FirstKept])
  <1>. DEFINE lines == RemoveOldLogs(files)
              R == CHOOSE Q : Back(Q, lines, 1)
              Good(date) == IsEnd(R[date], before[IF date >= FirstKept THEN date ELSE FirstKept])
              S == {k \in Nat : k <= DaysMax => Good(DaysMax + 1 - k)}
  <1>1. DaysMax \in Nat /\ DaysMax >= 1
    BY Limits
  <1>2. Back(R, lines, 1)
    BY BackExists
  <1>3. RestoreRecentRecords(lines) = R[1]
    BY Zenon DEF RestoreRecentRecords, Back, RestoredFrom
  <1>. HIDE DEF R, lines
  <1>4. R[DaysMax + 1] = <<>>
    BY <1>1, <1>2 DEF Back
  <1>5. \A date \in Days : R[date] = RestoredFrom(lines, date, R[date + 1])
    BY <1>1, <1>2 DEF Back, Days
  <1>6. day \in Days /\ FirstKept \in Days /\ FirstKept \in 1..DaysMax
    BY KeptDays DEF TypeInv, Days
  <1>7. Good(DaysMax + 1)
    <2>. DEFINE last == DaysMax + 1
    <2>1. last \in 1..DaysMax + 1 /\ last >= FirstKept
      BY <1>1, <1>6
    <2>2. Len(saved) \in Nat /\ before[last] \in 0..Len(saved)
      BY <2>1 DEF TypeInv, FilesAreSaved
    <2>3. \A i \in 1..Len(saved) : i <= before[last]
      <3>. SUFFICES ASSUME NEW i \in 1..Len(saved) PROVE i <= before[last]
        OBVIOUS
      <3>1. saved[i].day \in 1..day
        BY DEF FilesInv
      <3>2. saved[i].day < last
        BY <1>1, <1>6, <3>1 DEF Days
      <3>. QED  BY <2>1, <3>2 DEF FilesAreSaved
    <2>4. before[last] = Len(saved)
      <3>. HIDE DEF last
      <3>1. CASE Len(saved) = 0
        BY <2>2, <3>1
      <3>2. CASE Len(saved) > 0
        <4>1. Len(saved) \in 1..Len(saved)
          BY <2>2, <3>2
        <4>2. Len(saved) <= before[last]
          BY <2>3, <4>1
        <4>. QED  BY <2>2, <4>2
      <3>. QED  BY <2>2, <3>1, <3>2
    <2>5. IsEnd(<<>>, Len(saved))
      BY <2>2, EmptySeq, Limits DEF IsEnd
    <2>. QED  BY <1>4, <2>1, <2>4, <2>5
  <1>8. ASSUME NEW date \in Days, Good(date + 1) PROVE Good(date)
    <2>1. R[date] = RestoredFrom(lines, date, R[date + 1]) /\ date \in Nat /\ FirstKept \in Nat
      BY <1>5, <1>6 DEF Days
    <2>2. CASE date >= FirstKept
      <3>1. IsEnd(R[date + 1], before[date + 1])
        BY <1>8, <2>1, <2>2
      <3>2. IsEnd(RestoredFrom(lines, date, R[date + 1]), before[date])
        BY <2>2, <3>1, OneFileMore DEF lines
      <3>. QED  BY <2>1, <2>2, <3>2
    <2>3. CASE ~(date >= FirstKept)
      <3>1. IsEnd(R[date + 1], before[FirstKept])
        <4>1. CASE date + 1 >= FirstKept
          <5>1. date + 1 = FirstKept
            BY <2>1, <2>3, <4>1
          <5>. QED  BY <1>8, <4>1, <5>1
        <4>2. CASE ~(date + 1 >= FirstKept)
          BY <1>8, <4>2
        <4>. QED  BY <4>1, <4>2
      <3>2. R[date + 1] \in Seq(Blocks) /\ Len(R[date + 1]) <= RecordsCountMax
        <4>1. Len(saved) \in Nat /\ before[FirstKept] \in 0..Len(saved)
          <5>1. FirstKept \in 1..DaysMax + 1
            BY <1>1, <1>6
          <5>2. before \in [1..DaysMax + 1 -> 0..Len(saved)] /\ Len(saved) \in Nat
            BY LenProperties DEF TypeInv, FilesAreSaved
          <5>. QED  BY <5>1, <5>2
        <4>. QED  BY <3>1, <4>1, Limits DEF IsEnd
      <3>3. RestoredFrom(lines, date, R[date + 1]) = R[date + 1]
        <4>1. date < FirstKept
          BY <2>1, <2>3
        <4>. QED  BY <3>2, <4>1, OneFileLess DEF lines
      <3>. QED  BY <2>1, <2>3, <3>1, <3>3
    <2>. QED  BY <2>2, <2>3
  <1>. HIDE DEF Good
  <1>9. 0 \in S
    <2>1. DaysMax + 1 - 0 = DaysMax + 1
      BY <1>1
    <2>. QED  BY <1>7, <2>1
  <1>10. \A k \in Nat : k \in S => k + 1 \in S
    <2>. SUFFICES ASSUME NEW k \in Nat, k \in S, k + 1 <= DaysMax
                  PROVE  Good(DaysMax + 1 - (k + 1))
      OBVIOUS
    <2>. DEFINE first == DaysMax + 1 - (k + 1)
    <2>1. first \in Days /\ first + 1 = DaysMax + 1 - k /\ k <= DaysMax
      BY <1>1 DEF Days
    <2>2. Good(first + 1)
      BY <2>1
    <2>. HIDE DEF first
    <2>3. Good(first)
      BY <1>8, <2>1, <2>2
    <2>. QED  BY <2>3 DEF first
  <1>. HIDE DEF S
  <1>11. DaysMax \in S
    BY <1>1, <1>9, <1>10, SetInduction
  <1>12. Good(DaysMax + 1 - DaysMax)
    BY <1>1, <1>11 DEF S
  <1>13. DaysMax + 1 - DaysMax = 1
    BY <1>1
  <1>14. (IF 1 >= FirstKept THEN 1 ELSE FirstKept) = FirstKept
    BY <1>6
  <1>15. IsEnd(R[1], before[FirstKept])
    BY <1>12, <1>13, <1>14 DEF Good
  <1>. QED  BY <1>3, <1>15 DEF lines

-----------------------------------------------------------------------------
(* The lines of the last days *)

\* The loop of KeptLines over all lines
Keeping(K) ==
    K = [n \in 0..Len(saved) |->
            IF n = 0 THEN <<>>
            ELSE IF day - saved[n].day <= LogFilesAgeMax THEN Append(K[n - 1], saved[n])
            ELSE K[n - 1]]

\* Those after position from, up to position n
Part(from, n) == [i \in 1..(IF n > from THEN n - from ELSE 0) |-> saved[from + i]]

LEMMA PartElements ==
    ASSUME TypeInv, NEW from \in 0..Len(saved), NEW n \in 0..Len(saved)
    PROVE  /\ Part(from, n) \in Seq(Blocks)
           /\ Len(Part(from, n)) = IF n > from THEN n - from ELSE 0
           /\ \A i \in 1..Len(Part(from, n)) : Part(from, n)[i] = saved[from + i]
  <1>. DEFINE l == IF n > from THEN n - from ELSE 0
              t == Part(from, n)
  <1>1. saved \in Seq(Blocks) /\ Len(saved) \in Nat
    BY DEF TypeInv
  <1>2. l \in Nat /\ \A i \in 1..l : from + i \in 1..Len(saved)
    BY <1>1
  <1>3. t = [i \in 1..l |-> saved[from + i]]
    BY DEF Part
  <1>. HIDE DEF l, t
  <1>4. \A i \in 1..l : saved[from + i] \in Blocks
    BY <1>1, <1>2, ElementOfSeq
  <1>5. t \in [1..l -> Blocks]
    BY <1>3, <1>4
  <1>6. t \in Seq(Blocks) /\ Len(t) = l
    BY <1>2, <1>5, FunctionSeq
  <1>. QED  BY <1>3, <1>6 DEF t, l

LEMMA PartSteps ==
    ASSUME TypeInv, NEW from \in 0..Len(saved), NEW n \in 1..Len(saved)
    PROVE  Part(from, n) = IF n <= from THEN Part(from, n - 1)
                           ELSE Append(Part(from, n - 1), saved[n])
  <1>. DEFINE s == Part(from, n - 1)
              t == Part(from, n)
  <1>1. saved \in Seq(Blocks) /\ Len(saved) \in Nat /\ saved[n] \in Blocks
    BY ElementOfSeq DEF TypeInv
  <1>2. n - 1 \in 0..Len(saved) /\ n \in 0..Len(saved)
    BY <1>1
  <1>3. CASE n <= from
    <2>1. ~(n > from) /\ ~(n - 1 > from)
      BY <1>1, <1>3
    <2>. QED  BY <1>3, <2>1 DEF Part
  <1>4. CASE n > from
    <2>1. /\ s \in Seq(Blocks) /\ Len(s) = (IF n - 1 > from THEN (n - 1) - from ELSE 0)
          /\ \A i \in 1..Len(s) : s[i] = saved[from + i]
      BY <1>2, PartElements
    <2>2. /\ t \in Seq(Blocks) /\ Len(t) = (IF n > from THEN n - from ELSE 0)
          /\ \A i \in 1..Len(t) : t[i] = saved[from + i]
      BY <1>2, PartElements
    <2>. DEFINE more == Append(s, saved[n])
    <2>. HIDE DEF s, t
    <2>3. /\ more \in Seq(Blocks) /\ Len(more) = Len(s) + 1
          /\ \A i \in 1..Len(s) : more[i] = s[i]
          /\ more[Len(s) + 1] = saved[n]
      BY <1>1, <2>1, AppendProperties
    <2>. HIDE DEF more
    <2>4. Len(s) \in Nat /\ Len(s) + 1 = Len(t) /\ from + (Len(s) + 1) = n
      BY <1>1, <1>4, <2>1, <2>2
    <2>5. ASSUME NEW i \in 1..Len(t) PROVE t[i] = more[i]
      <3>1. i \in 1..Len(s) \/ i = Len(s) + 1
        BY <2>4
      <3>2. CASE i \in 1..Len(s)
        BY <2>1, <2>2, <2>3, <3>2
      <3>3. CASE i = Len(s) + 1
        BY <2>2, <2>3, <2>4, <3>3
      <3>. QED  BY <3>1, <3>2, <3>3
    <2>6. Len(t) = Len(more)
      BY <2>3, <2>4
    <2>7. t = more
      BY <2>2, <2>3, <2>5, <2>6, SeqEqual
    <2>8. ~(n <= from)
      BY <1>1, <1>4
    <2>. QED  BY <2>7, <2>8 DEF t, s, more
  <1>. QED  BY <1>1, <1>3, <1>4

LEMMA PartEmpty ==
    ASSUME TypeInv, NEW from \in 0..Len(saved) PROVE Part(from, 0) = <<>>
  <1>1. Len(saved) \in Nat /\ 0 \in 0..Len(saved) /\ ~(0 > from)
    BY DEF TypeInv
  <1>2. Part(from, 0) \in Seq(Blocks) /\ Len(Part(from, 0)) = 0
    BY <1>1, PartElements
  <1>. QED  BY <1>2, EmptySeq

\* As the days of lines only grow, those of the last days are the last ones.
LEMMA KeptIsEnd ==
    ASSUME TypeInv, FilesInv, NEW before, FilesAreSaved(before)
    PROVE  KeptLines = Part(before[FirstKept], Len(saved))
  <1>. DEFINE len == Len(saved)
              from == before[FirstKept]
              K == CHOOSE Q : Keeping(Q)
              S == {n \in Nat : n <= len => K[n] = Part(from, n)}
  <1>1. saved \in Seq(Blocks) /\ len \in Nat /\ day \in Days /\ day \in Nat
    BY DEF TypeInv, Days
  <1>2. FirstKept \in Days /\ FirstKept \in 1..DaysMax + 1 /\ FirstKept \in Nat
    BY <1>1, KeptDays, Limits DEF Days
  <1>3. from \in 0..len
    BY <1>2 DEF FilesAreSaved
  <1>4. ASSUME NEW n \in 1..len PROVE day - saved[n].day <= LogFilesAgeMax <=> ~(n <= from)
    <2>1. saved[n].day \in 1..day
      BY DEF FilesInv
    <2>2. saved[n].day \in Days /\ saved[n].day \in Nat
      BY <1>1, <2>1, Limits DEF Days
    <2>3. day - saved[n].day <= LogFilesAgeMax <=> saved[n].day >= FirstKept
      BY <1>1, <2>2, KeptDays
    <2>4. saved[n].day < FirstKept <=> n <= from
      BY <1>2 DEF FilesAreSaved
    <2>. QED  BY <1>2, <2>2, <2>3, <2>4
  <1>5. KeptLines = K[len]
    BY Zenon DEF KeptLines, Keeping
  <1>. HIDE DEF from
  <1>6. ASSUME NEW n \in 1..len
        PROVE  Part(from, n) = IF day - saved[n].day <= LogFilesAgeMax
                               THEN Append(Part(from, n - 1), saved[n]) ELSE Part(from, n - 1)
    BY <1>3, <1>4, PartSteps
  <1>7. Keeping(K)
    <2>. DEFINE Q == [n \in 0..len |-> Part(from, n)]
                P == [n \in 0..len |->
                        IF n = 0 THEN <<>>
                        ELSE IF day - saved[n].day <= LogFilesAgeMax THEN Append(Q[n - 1], saved[n])
                        ELSE Q[n - 1]]
    <2>1. ASSUME NEW n \in 0..len PROVE Q[n] = P[n]
      <3>1. CASE n = 0
        BY <1>3, <3>1, PartEmpty
      <3>2. CASE n \in 1..len
        <4>1. n - 1 \in 0..len /\ n # 0
          BY <1>1, <3>2
        <4>2. Q[n - 1] = Part(from, n - 1) /\ Q[n] = Part(from, n)
          BY <4>1
        <4>3. P[n] = IF day - saved[n].day <= LogFilesAgeMax THEN Append(Q[n - 1], saved[n])
                     ELSE Q[n - 1]
          BY <4>1
        <4>. HIDE DEF Q, P
        <4>. QED  BY <1>6, <3>2, <4>2, <4>3
      <3>3. n = 0 \/ n \in 1..len
        BY <1>1
      <3>. QED  BY <3>1, <3>2, <3>3, Zenon
    <2>2. Q = P
      <3>1. Q = [n \in 0..len |-> Q[n]] /\ P = [n \in 0..len |-> P[n]]
        OBVIOUS
      <3>. HIDE DEF Q, P
      <3>. QED  BY <2>1, <3>1
    <2>3. Keeping(Q)
      BY <2>2, Zenon DEF Keeping
    <2>. HIDE DEF Q
    <2>. QED  BY <2>3
  <1>. HIDE DEF K
  <1>8. 0 \in S
    <2>1. K[0] = <<>>
      BY <1>1, <1>7 DEF Keeping
    <2>. QED  BY <1>3, <2>1, PartEmpty
  <1>9. ASSUME NEW n \in Nat, n \in S PROVE n + 1 \in S
    <2>. SUFFICES ASSUME n + 1 <= len PROVE K[n + 1] = Part(from, n + 1)
      OBVIOUS
    <2>. DEFINE m == n + 1
    <2>1. m \in 1..len /\ m \in 0..len /\ m # 0 /\ m - 1 = n /\ n <= len
      BY <1>1
    <2>2. K[n] = Part(from, n)
      BY <1>9, <2>1
    <2>. HIDE DEF m
    <2>3. K[m] = IF day - saved[m].day <= LogFilesAgeMax THEN Append(K[m - 1], saved[m])
                 ELSE K[m - 1]
      BY <1>7, <2>1 DEF Keeping
    <2>4. K[m] = Part(from, m)
      BY <1>6, <2>1, <2>2, <2>3
    <2>. QED  BY <2>4 DEF m
  <1>. HIDE DEF S
  <1>10. len \in S
    BY <1>1, <1>8, <1>9, SetInduction
  <1>. QED  BY <1>1, <1>5, <1>10 DEF S, from

\* What a restart restores are the latest of those.
LEMMA RestoredIsLatest ==
    ASSUME TypeInv, FilesInv
    PROVE  RestoreRecentRecords(RemoveOldLogs(files)) = Latest(RecordsCountMax, KeptLines)
  <1>1. PICK before : FilesAreSaved(before)
    BY DEF FilesInv
  <1>. DEFINE len == Len(saved)
              from == before[FirstKept]
              kept == Part(from, len)
              restored == RestoreRecentRecords(RemoveOldLogs(files))
              latest == Latest(RecordsCountMax, kept)
  <1>2. saved \in Seq(Blocks) /\ len \in Nat /\ day \in Days
    BY DEF TypeInv
  <1>3. from \in 0..len
    <2>1. FirstKept \in 1..DaysMax + 1
      BY <1>2, KeptDays, Limits DEF Days
    <2>. QED  BY <1>1, <2>1 DEF FilesAreSaved
  <1>4. KeptLines = kept
    BY <1>1, KeptIsEnd
  <1>5. IsEnd(restored, from)
    BY <1>1, RestoreStep
  <1>. HIDE DEF from, restored
  <1>6. /\ restored \in Seq(Blocks) /\ Len(restored) \in Nat
        /\ Len(restored) = IF len - from > RecordsCountMax THEN RecordsCountMax ELSE len - from
        /\ \A i \in 1..Len(restored) : restored[i] = saved[len - Len(restored) + i]
    BY <1>5, Zenon DEF IsEnd, len
  <1>7. /\ kept \in Seq(Blocks) /\ Len(kept) = (IF len > from THEN len - from ELSE 0)
        /\ \A i \in 1..Len(kept) : kept[i] = saved[from + i]
    <2>1. len \in 0..len
      BY <1>2
    <2>. QED  BY <1>3, <2>1, PartElements
  <1>. HIDE DEF kept
  <1>8. /\ latest \in Seq(Blocks) /\ Len(latest) \in Nat
        /\ Len(latest) = IF Len(kept) > RecordsCountMax THEN RecordsCountMax ELSE Len(kept)
        /\ \A i \in 1..Len(latest) : latest[i] = kept[Len(kept) - Len(latest) + i]
    BY <1>7, Limits, LatestElements
  <1>. HIDE DEF latest, len
  <1>. DEFINE l == Len(latest)
              k == Len(kept)
  <1>9. k = len - from /\ k \in Nat
    BY <1>2, <1>3, <1>7
  <1>10. Len(restored) = l /\ l \in Nat /\ l <= k
    BY <1>2, <1>3, <1>6, <1>8, <1>9, Limits
  <1>. HIDE DEF k
  <1>11. ASSUME NEW i \in 1..l PROVE restored[i] = latest[i]
    <2>. HIDE DEF l
    <2>1. k - l + i \in 1..k /\ from + (k - l + i) = len - l + i
      BY <1>2, <1>3, <1>9, <1>10
    <2>2. latest[i] = kept[k - l + i]
      BY <1>8 DEF k, l
    <2>3. kept[k - l + i] = saved[from + (k - l + i)]
      BY <1>7, <2>1 DEF k
    <2>4. restored[i] = saved[len - l + i]
      BY <1>6, <1>10
    <2>. QED  BY <2>1, <2>2, <2>3, <2>4
  <1>12. restored = latest
    BY <1>6, <1>8, <1>10, <1>11, SeqEqual
  <1>. QED  BY <1>4, <1>12 DEF restored, latest

-----------------------------------------------------------------------------
(* The files *)

\* A line goes to the file of the day, that no line of a later day follows.
LEMMA LineSaved ==
    ASSUME TypeInv, FilesInv, NEW before, FilesAreSaved(before), NEW m, m = posted + 1,
           NEW lines \in [Days -> Seq(Nat)],
           \A date \in Days : date >= FirstKept => lines[date] = files[date],
           files' = [lines EXCEPT ![day] = Append(@, m)],
           saved' = Append(saved, [day |-> day, message |-> m]),
           posted' = m, UNCHANGED day
    PROVE  files' \in [Days -> Seq(Nat)] /\ saved' \in Seq(Blocks) /\ FilesInv'
  <1>. DEFINE file == lines[day]
              longer == Append(file, m)
              line == [day |-> day, message |-> m]
              more == Append(saved, line)
              len == Len(saved)
  <1>1. /\ day \in Days /\ day \in Nat /\ day \in 1..DaysMax + 1 /\ m \in Nat /\ posted \in Nat
        /\ saved \in Seq(Blocks) /\ len \in Nat
        /\ file \in Seq(Nat) /\ Len(file) \in Nat /\ line \in Blocks
        /\ FirstKept <= day /\ DaysMax \in Nat
    <2>1. day \in Days /\ posted \in Nat /\ saved \in Seq(Blocks)
      BY DEF TypeInv
    <2>2. day \in Nat /\ day \in 1..DaysMax + 1 /\ m \in Nat /\ DaysMax \in Nat
      BY <2>1, Limits DEF Days
    <2>3. len \in Nat /\ file \in Seq(Nat) /\ Len(file) \in Nat
      BY <2>1, LenProperties
    <2>4. FirstKept <= day
      BY <2>1, KeptDays
    <2>. QED  BY <2>1, <2>2, <2>3, <2>4 DEF Blocks
  <1>2. /\ longer \in Seq(Nat) /\ Len(longer) = Len(file) + 1
        /\ \A i \in 1..Len(file) : longer[i] = file[i]
        /\ longer[Len(file) + 1] = m
    BY <1>1, AppendProperties
  <1>3. /\ more \in Seq(Blocks) /\ Len(more) = len + 1
        /\ \A i \in 1..len : more[i] = saved[i]
        /\ more[len + 1] = line
    BY <1>1, AppendProperties
  <1>4. line.day = day /\ line.message = m
    OBVIOUS
  <1>5. files' = [lines EXCEPT ![day] = longer] /\ saved' = more /\ day' = day
    OBVIOUS
  <1>. HIDE DEF longer, line, more
  <1>6. /\ files' \in [Days -> Seq(Nat)] /\ files'[day] = longer
        /\ \A date \in Days \ {day} : files'[date] = lines[date]
    BY <1>1, <1>2, <1>5
  <1>. HIDE DEF len, file
  <1>7. \A i \in 1..len + 1 : i \in 1..len \/ i = len + 1
    BY <1>1
  <1>8. /\ \A i \in 1..len : saved[i].message \in 1..posted /\ saved[i].day \in 1..day
        /\ \A i, j \in 1..len : i < j => saved[i].message < saved[j].message
    BY DEF FilesInv, len
  <1>9. \A i \in 1..len + 1 : more[i].message \in 1..m /\ more[i].day \in 1..day
    <2>1. \A n : n \in 1..posted => n \in 1..m
      BY <1>1
    <2>2. m \in 1..m /\ day \in 1..day
      BY <1>1 DEF Days
    <2>. QED  BY <1>3, <1>4, <1>7, <1>8, <2>1, <2>2
  <1>10. ASSUME NEW i \in 1..len + 1, NEW j \in 1..len + 1, i < j
         PROVE  more[i].message < more[j].message
    <2>1. i \in 1..len /\ more[i] = saved[i] /\ saved[i].message \in 1..posted
      BY <1>1, <1>3, <1>7, <1>8, <1>10
    <2>2. CASE j \in 1..len
      BY <1>3, <1>8, <1>10, <2>1, <2>2
    <2>3. CASE j = len + 1
      BY <1>1, <1>3, <1>4, <2>1, <2>3
    <2>. QED  BY <1>7, <2>2, <2>3
  <1>11. before \in [1..DaysMax + 1 -> 0..len]
    BY DEF FilesAreSaved, len
  <1>12. PICK after \in [1..DaysMax + 1 -> 0..len + 1] :
             \A date \in 1..DaysMax + 1 :
                 after[date] = IF date > day THEN len + 1 ELSE before[date]
    <2>. DEFINE f == [date \in 1..DaysMax + 1 |-> IF date > day THEN len + 1 ELSE before[date]]
    <2>1. len + 1 \in 0..len + 1 /\ \A n : n \in 0..len => n \in 0..len + 1
      BY <1>1
    <2>2. f \in [1..DaysMax + 1 -> 0..len + 1]
      BY <1>11, <2>1
    <2>3. \A date \in 1..DaysMax + 1 : f[date] = IF date > day THEN len + 1 ELSE before[date]
      OBVIOUS
    <2>. HIDE DEF f
    <2>. QED  BY <2>2, <2>3
  <1>13. ASSUME NEW date \in 1..DaysMax + 1 PROVE date > day => before[date] = len
    <2>. SUFFICES ASSUME date > day PROVE before[date] = len
      OBVIOUS
    <2>1. before[date] \in 0..len
      BY <1>11
    <2>2. CASE len = 0
      BY <2>1, <2>2
    <2>3. CASE len > 0
      <3>1. len \in 1..len
        BY <1>1, <2>3
      <3>2. saved[len].day < date
        <4>1. saved[len].day \in 1..day
          BY <1>8, <3>1
        <4>2. day \in Int /\ date \in Int /\ day < date
          BY <1>1
        <4>. DEFINE d == saved[len].day
        <4>. HIDE DEF d
        <4>3. d \in 1..day
          BY <4>1 DEF d
        <4>4. d < date
          BY <4>2, <4>3
        <4>. QED  BY <4>4 DEF d
      <3>3. len <= before[date]
        BY <3>1, <3>2 DEF FilesAreSaved, len
      <3>. QED  BY <1>1, <2>1, <3>3
    <2>. QED  BY <1>1, <2>2, <2>3
  <1>14. ASSUME NEW date \in 1..DaysMax + 1, NEW i \in 1..len + 1
         PROVE  more[i].day < date <=> i <= after[date]
    <2>1. CASE i \in 1..len
      <3>1. more[i] = saved[i] /\ (saved[i].day < date <=> i <= before[date])
        BY <1>3, <2>1 DEF FilesAreSaved, len
      <3>2. before[date] <= len
        BY <1>11
      <3>3. CASE date > day
        <4>1. i <= before[date] /\ i <= len + 1
          BY <1>1, <1>13, <2>1, <3>3
        <4>. QED  BY <1>12, <3>1, <3>3, <4>1
      <3>4. CASE ~(date > day)
        BY <1>12, <3>1, <3>4
      <3>. QED  BY <3>3, <3>4
    <2>2. CASE i = len + 1
      <3>1. more[i].day = day
        BY <1>3, <1>4, <2>2
      <3>2. before[date] \in 0..len
        BY <1>11
      <3>3. CASE date > day
        BY <1>1, <1>12, <2>2, <3>1, <3>3
      <3>4. CASE ~(date > day)
        <4>1. after[date] = before[date] /\ ~(i <= before[date]) /\ ~(day < date)
          BY <1>1, <1>12, <2>2, <3>2, <3>4
        <4>. QED  BY <3>1, <4>1
      <3>. QED  BY <3>3, <3>4
    <2>. QED  BY <1>7, <2>1, <2>2
  <1>15. ASSUME NEW date \in Days, day - date <= LogFilesAgeMax
         PROVE  /\ Len(files'[date]) = after[date + 1] - after[date]
                /\ \A i \in 1..Len(files'[date]) :
                       files'[date][i] = more[after[date] + i].message
    <2>1. date \in 1..DaysMax + 1 /\ date + 1 \in 1..DaysMax + 1 /\ date \in Nat
      BY <1>1 DEF Days
    <2>2. lines[date] = files[date]
      BY <1>1, <1>15, KeptDays
    <2>3. /\ Len(lines[date]) = before[date + 1] - before[date]
          /\ \A i \in 1..Len(lines[date]) :
                 lines[date][i] = saved[before[date] + i].message
      BY <1>15, <2>2 DEF FilesAreSaved
    <2>4. before[date] \in 0..len /\ before[date + 1] \in 0..len
      BY <1>11, <2>1
    <2>5. CASE date = day
      <3>1. before[date + 1] = len /\ after[date + 1] = len + 1 /\ after[date] = before[date]
        BY <1>1, <1>13, <1>12, <2>1, <2>5
      <3>2. Len(file) = len - before[date] /\ file = lines[date] /\ files'[date] = longer
        BY <1>6, <2>3, <2>5, <3>1 DEF file
      <3>3. Len(files'[date]) = after[date + 1] - after[date]
        <4>. DEFINE b == before[date]
                    l == Len(file)
        <4>1. b \in 0..len /\ l = len - b /\ len \in Nat
          BY <1>1, <2>4, <3>2, Zenon
        <4>2. Len(longer) = l + 1
          BY <1>2
        <4>. HIDE DEF b, l
        <4>3. Len(longer) = (len + 1) - b
          BY <4>1, <4>2
        <4>4. b = after[date]
          BY <3>1 DEF b
        <4>. QED  BY <3>1, <3>2, <4>3, <4>4, Zenon
      <3>. DEFINE b == before[date]
                  l == Len(file)
      <3>4. b \in Nat /\ l \in Nat /\ len \in Nat /\ b + l = len
        <4>1. b \in Nat /\ l \in Nat /\ len \in Nat /\ l = len - b
          BY <1>1, <2>4, <3>2
        <4>. HIDE DEF b, l
        <4>. QED  BY <4>1
      <3>. HIDE DEF b, l
      <3>5. ASSUME NEW i \in 1..Len(longer) PROVE longer[i] = more[before[date] + i].message
        <4>1. CASE i \in 1..Len(file)
          <5>1. longer[i] = saved[before[date] + i].message
            BY <1>2, <2>3, <3>2, <4>1
          <5>2. before[date] + i \in 1..len
            BY <3>4, <4>1 DEF b, l
          <5>. QED  BY <1>3, <5>1, <5>2
        <4>2. CASE i = Len(file) + 1
          <5>1. longer[i] = m
            BY <1>2, <4>2
          <5>2. b + i = len + 1
            <6>1. i = l + 1
              BY <4>2 DEF l
            <6>. QED  BY <3>4, <6>1
          <5>. QED  BY <1>3, <1>4, <5>1, <5>2 DEF b
        <4>3. i \in 1..Len(file) \/ i = Len(file) + 1
          BY <1>1, <1>2
        <4>. QED  BY <4>1, <4>2, <4>3
      <3>. QED  BY <3>1, <3>2, <3>3, <3>5
    <2>6. CASE date # day
      <3>1. files'[date] = lines[date]
        BY <1>6, <2>6
      <3>2. /\ after[date + 1] - after[date] = before[date + 1] - before[date]
            /\ after[date] = before[date] \/ before[date + 1] = before[date]
        <4>1. CASE date > day
          <5>1. date + 1 > day
            BY <1>1, <2>1, <4>1
          <5>2. before[date] = len /\ before[date + 1] = len
            BY <1>13, <2>1, <4>1, <5>1
          <5>3. after[date] = len + 1 /\ after[date + 1] = len + 1
            BY <1>12, <2>1, <4>1, <5>1
          <5>. QED  BY <1>1, <5>2, <5>3
        <4>2. CASE date < day
          <5>1. ~(date > day) /\ ~(date + 1 > day)
            BY <1>1, <2>1, <4>2
          <5>. QED  BY <1>12, <2>1, <5>1
        <4>. QED  BY <1>1, <2>1, <2>6, <4>1, <4>2
      <3>3. ASSUME NEW i \in 1..Len(lines[date])
            PROVE  lines[date][i] = more[after[date] + i].message
        <4>1. before[date] + i \in 1..len /\ before[date + 1] # before[date]
          <5>. DEFINE b == before[date]
                      c == before[date + 1]
                      l == Len(lines[date])
          <5>1. b \in 0..len /\ c \in 0..len /\ l = c - b /\ i \in 1..l
            BY <2>3, <2>4
          <5>. HIDE DEF b, c, l
          <5>2. b + i \in 1..len /\ c # b
            BY <1>1, <5>1
          <5>. QED  BY <5>2 DEF b, c
        <4>2. lines[date][i] = saved[before[date] + i].message
          BY <2>3
        <4>. QED  BY <1>3, <3>2, <4>1, <4>2
      <3>. QED  BY <2>3, <3>1, <3>2, <3>3
    <2>. QED  BY <2>5, <2>6
  <1>16. FilesAreSaved(after)'
    <2>1. Len(saved') = len + 1
      BY <1>3, <1>5
    <2>2. after \in [1..DaysMax + 1 -> 0..Len(saved')]
      BY <1>12, <2>1
    <2>3. \A date \in 1..DaysMax + 1 : \A i \in 1..Len(saved') :
              saved'[i].day < date <=> i <= after[date]
      BY <1>5, <1>14, <2>1
    <2>4. \A date \in Days : day' - date <= LogFilesAgeMax =>
              /\ Len(files'[date]) = after[date + 1] - after[date]
              /\ \A i \in 1..Len(files'[date]) :
                     files'[date][i] = saved'[after[date] + i].message
      BY <1>5, <1>15, Zenon
    <2>. QED  BY <2>2, <2>3, <2>4, Zenon DEF FilesAreSaved
  <1>17. FilesInv'
    <2>1. Len(saved') = len + 1
      BY <1>3, <1>5
    <2>. QED  BY <1>5, <1>9, <1>10, <1>16, <2>1 DEF FilesInv
  <1>. QED  BY <1>3, <1>5, <1>6, <1>17

LEMMA SaveStep ==
    ASSUME TypeInv, FilesInv, NEW save \in BOOLEAN, posted' = posted + 1, UNCHANGED day,
           IF save THEN Save(posted + 1) ELSE UNCHANGED <<files, openedFile, saved>>
    PROVE  files' \in [Days -> Seq(Nat)] /\ saved' \in Seq(Blocks) /\ FilesInv'
  <1>1. /\ files \in [Days -> Seq(Nat)] /\ saved \in Seq(Blocks) /\ posted \in Nat
        /\ day \in Days
    BY DEF TypeInv
  <1>2. CASE UNCHANGED <<files, saved>>
    <2>1. \A m : m \in 1..posted => m \in 1..posted + 1
      BY <1>1
    <2>2. \A before : FilesAreSaved(before) => FilesAreSaved(before)'
      BY <1>2 DEF FilesAreSaved
    <2>. QED  BY <1>1, <1>2, <2>1, <2>2 DEF FilesInv
  <1>3. CASE /\ files' = [(IF openedFile = day THEN files ELSE RemoveOldLogs(files))
                             EXCEPT ![day] = Append(@, posted + 1)]
             /\ saved' = Append(saved, [day |-> day, message |-> posted + 1])
    <2>. DEFINE lines == IF openedFile = day THEN files ELSE RemoveOldLogs(files)
    <2>1. lines \in [Days -> Seq(Nat)]
      BY <1>1, KeptFiles
    <2>2. \A date \in Days : date >= FirstKept => lines[date] = files[date]
      BY KeptFiles
    <2>3. files' = [lines EXCEPT ![day] = Append(@, posted + 1)]
      BY <1>3
    <2>. HIDE DEF lines
    <2>4. PICK before : FilesAreSaved(before)
      BY DEF FilesInv
    <2>. QED  BY <1>3, <2>1, <2>2, <2>3, <2>4, LineSaved
  <1>. QED  BY <1>2, <1>3 DEF Save

\* Restarting keeps the files that are read.
LEMMA RemoveStep ==
    ASSUME TypeInv, FilesInv, files' = RemoveOldLogs(files), UNCHANGED <<day, posted, saved>>
    PROVE  files' \in [Days -> Seq(Nat)] /\ FilesInv'
  <1>1. PICK before : FilesAreSaved(before)
    BY DEF FilesInv
  <1>2. files' \in [Days -> Seq(Nat)]
    BY KeptFiles
  <1>3. \A date \in Days : day - date <= LogFilesAgeMax => files'[date] = files[date]
    BY KeptFiles, KeptDays DEF TypeInv
  <1>4. FilesAreSaved(before)'
    BY <1>1, <1>3 DEF FilesAreSaved
  <1>. QED  BY <1>2, <1>4 DEF FilesInv

\* As days pass, fewer files matter.
LEMMA FilesStay ==
    ASSUME day \in Days, FilesInv, UNCHANGED <<files, saved, posted>>, day' \in Days, day <= day'
    PROVE  FilesInv'
  <1>1. \A n : n \in 1..day => n \in 1..day'
    BY DEF Days
  <1>2. \A date \in Days : day' - date <= LogFilesAgeMax => day - date <= LogFilesAgeMax
    <2>1. /\ day \in Int /\ day' \in Int /\ day <= day' /\ LogFilesAgeMax \in Int
          /\ \A date \in Days : date \in Int
      BY LogsAssumption DEF Days
    <2>. DEFINE later == day'
    <2>. HIDE DEF later
    <2>2. later \in Int /\ day <= later
      BY <2>1 DEF later
    <2>3. \A date \in Days : later - date <= LogFilesAgeMax => day - date <= LogFilesAgeMax
      BY <2>1, <2>2
    <2>. QED  BY <2>3 DEF later
  <1>3. \A before : FilesAreSaved(before) => FilesAreSaved(before)'
    BY <1>2 DEF FilesAreSaved
  <1>. QED  BY <1>1, <1>3 DEF FilesInv

LEMMA FilesUnchanged ==
    ASSUME FilesInv, UNCHANGED <<files, saved, posted, day>>
    PROVE  FilesInv'
  <1>1. \A before : FilesAreSaved(before) => FilesAreSaved(before)'
    BY DEF FilesAreSaved
  <1>. QED  BY <1>1 DEF FilesInv

-----------------------------------------------------------------------------
(* Posting *)

LEMMA RecentRecords ==
    ASSUME NEW s \in Seq(Recs), NEW record \in Recs, NEW last \in Nat,
           \A i \in 1..Len(s) : s[i].serial = last - Len(s) + i,
           record.serial = last + 1
    PROVE  LET t == Latest(RecordsCountMax, Append(s, record))
           IN  /\ t \in Seq(Recs) /\ t # <<>>
               /\ \A i \in 1..Len(t) : /\ t[i].serial = last + 1 - Len(t) + i
                                       /\ t[i] = record \/ \E j \in 1..Len(s) : t[i] = s[j]
  <1>. DEFINE all == Append(s, record)
              t == Latest(RecordsCountMax, all)
              n == Len(s)
  <1>1. /\ all \in Seq(Recs) /\ n \in Nat /\ Len(all) = n + 1
        /\ \A i \in 1..n : all[i] = s[i]
        /\ all[n + 1] = record
    BY AppendProperties
  <1>. HIDE DEF all, n
  <1>2. /\ t \in Seq(Recs) /\ Len(t) \in Nat
        /\ Len(t) = IF Len(all) > RecordsCountMax THEN RecordsCountMax ELSE Len(all)
        /\ \A i \in 1..Len(t) : t[i] = all[Len(all) - Len(t) + i]
    BY <1>1, Limits, LatestElements
  <1>. HIDE DEF t
  <1>3. Len(t) \in Nat /\ Len(t) >= 1 /\ Len(t) <= n + 1
    BY <1>1, <1>2, Limits
  <1>4. t # <<>>
    BY <1>3, EmptySeq
  <1>5. ASSUME NEW i \in 1..Len(t)
        PROVE  /\ t[i].serial = last + 1 - Len(t) + i
               /\ t[i] = record \/ \E j \in 1..n : t[i] = s[j]
    <2>. DEFINE k == n + 1 - Len(t) + i
    <2>1. k \in 1..n + 1 /\ t[i] = all[k]
      <3>1. k \in 1..n + 1 /\ Len(all) - Len(t) + i = k
        BY <1>1, <1>3
      <3>. QED  BY <1>2, <3>1
    <2>2. CASE k = n + 1
      <3>1. t[i] = record
        BY <1>1, <2>1, <2>2
      <3>2. i = Len(t)
        BY <1>1, <1>3, <2>2
      <3>3. last + 1 = last + 1 - Len(t) + i
        BY <1>3, <3>2
      <3>. QED  BY <3>1, <3>3
    <2>3. CASE k \in 1..n
      <3>1. t[i] = s[k]
        BY <1>1, <2>1, <2>3
      <3>2. s[k].serial = last - n + k
        BY <2>3 DEF n
      <3>3. last - n + k = last + 1 - Len(t) + i
        BY <1>1, <1>3
      <3>. QED  BY <2>3, <3>1, <3>2, <3>3
    <2>. QED  BY <1>1, <2>1, <2>2, <2>3
  <1>. QED  BY <1>2, <1>4, <1>5 DEF t, all, n

LEMMA KnownRecords == TypeInv => \A r \in Known : r \in Recs
  <1>. SUFFICES ASSUME TypeInv PROVE \A r \in Known : r \in Recs
    OBVIOUS
  <1>1. /\ posting \in [Threads -> Recs] /\ queue \in Seq(Recs) /\ records \in Seq(Recs)
    BY DEF TypeInv
  <1>2. \A i \in 1..Len(queue) : queue[i] \in Recs
    BY <1>1, ElementOfSeq
  <1>3. \A i \in 1..Len(records) : records[i] \in Recs
    BY <1>1, ElementOfSeq
  <1>. QED  BY <1>1, <1>2, <1>3 DEF Known, Pending

\* Days pass, and records are delivered.
LEMMA DaysStay ==
    ASSUME DialogInv, Known' \subseteq Known, shown' = shown, day' \in Nat, day <= day'
    PROVE  DaysInv'
  <1>1. /\ \A r \in Known : r.day <= day
        /\ \A r, q \in Known : r.serial < q.serial => r.day <= q.day
        /\ Grouped(shown) /\ \A n \in 1..Len(shown.days) : shown.days[n].day <= day
        /\ \A r \in Known : r.serial > shown.last =>
               \A n \in 1..Len(shown.days) : shown.days[n].day <= r.day
    BY DEF DialogInv, DaysInv
  <1>2. day \in Nat /\ shown \in Views /\ \A r \in Known : r \in Recs
    BY KnownRecords DEF DialogInv, TypeInv, Days
  <1>3. \A r \in Known' : r.day <= day'
    <2>1. \A r \in Known : r.day \in Nat
      BY <1>2 DEF Recs
    <2>. QED  BY <1>1, <1>2, <2>1
  <1>4. \A n \in 1..Len(shown.days) : shown.days[n].day <= day'
    <2>1. \A n \in 1..Len(shown.days) : shown.days[n].day \in Nat
      BY <1>2, ShownDays
    <2>. QED  BY <1>1, <1>2, <2>1
  <1>5. Grouped(shown')
    BY <1>1
  <1>. QED  BY <1>1, <1>3, <1>4, <1>5 DEF DaysInv

LEMMA PostStep ==
    ASSUME DialogInv, NEW thread \in Threads, DPost(thread)
    PROVE  DialogInv'
  <1>. DEFINE record == [serial |-> lastRecordSerial + 1, day |-> day, message |-> posted + 1]
              none == NoRecord
  <1>1. PICK save \in BOOLEAN : Post(thread, save)
    BY DEF DPost
  <1>2. /\ posting[thread] = none /\ posted' = posted + 1 /\ day' = day
        /\ lastRecordSerial' = lastRecordSerial + 1
        /\ records' = Latest(RecordsCountMax, Append(records, record))
        /\ posting' = [posting EXCEPT ![thread] = record]
        /\ visible' = visible /\ queue' = queue /\ shown' = shown
    BY <1>1, Zenon DEF Post, DPost, dialogVars, AppendRecord
  <1>3. files' \in [Days -> Seq(Nat)] /\ saved' \in Seq(Blocks) /\ FilesInv'
    BY <1>1, SaveStep DEF DialogInv, Post
  <1>4. /\ day \in Days /\ day \in Nat /\ posted \in Nat /\ lastRecordSerial \in Nat
        /\ posting \in [Threads -> Recs] /\ queue \in Seq(Recs)
        /\ records \in Seq(Recs) /\ visible \in BOOLEAN /\ shown \in Views
    BY DEF DialogInv, TypeInv, Days
  <1>5. /\ record \in Recs /\ record.serial = lastRecordSerial + 1 /\ record.message = posted + 1
        /\ none.serial = 0
    BY <1>4 DEF Recs, NoRecord
  <1>6. record # none
    BY <1>4, <1>5
  <1>. HIDE DEF record, none
  <1>7. /\ \A r \in Known : r.serial \in 1..lastRecordSerial /\ r.message \in 1..posted
        /\ \A r, q \in Known : (r.serial < q.serial => r.message < q.message)
                               /\ (r.serial = q.serial => r = q)
        /\ \A i \in 1..Len(records) : records[i].serial = lastRecordSerial - Len(records) + i
    BY DEF DialogInv, SerialsInv
  <1>8. /\ records' \in Seq(Recs) /\ records' # <<>>
        /\ \A i \in 1..Len(records') :
               /\ records'[i].serial = lastRecordSerial + 1 - Len(records') + i
               /\ records'[i] = record \/ \E j \in 1..Len(records) : records'[i] = records[j]
    <2>. DEFINE t == Latest(RecordsCountMax, Append(records, record))
    <2>1. /\ t \in Seq(Recs) /\ t # <<>>
          /\ \A i \in 1..Len(t) :
               /\ t[i].serial = lastRecordSerial + 1 - Len(t) + i
               /\ t[i] = record \/ \E j \in 1..Len(records) : t[i] = records[j]
      BY <1>4, <1>5, <1>7, RecentRecords
    <2>2. records' = t
      BY <1>2
    <2>. HIDE DEF t
    <2>. QED  BY <2>1, <2>2
  <1>9. posting' \in [Threads -> Recs]
    BY <1>2, <1>4, <1>5
  <1>10. Pending' = Pending \cup {record}
    <2>1. {posting'[u] : u \in Threads} \ {none} =
              ({posting[u] : u \in Threads} \ {none}) \cup {record}
      <3>1. posting'[thread] = record /\ \A u \in Threads \ {thread} : posting'[u] = posting[u]
        BY <1>2, <1>4
      <3>. QED  BY <1>2, <1>6, <3>1
    <2>. QED  BY <1>2, <2>1 DEF Pending, none
  <1>11. Known' \subseteq Known \cup {record}
    BY <1>8, <1>10 DEF Known
  <1>12. TypeInv'
    BY <1>2, <1>3, <1>4, <1>8, <1>9 DEF TypeInv
  <1>13. ASSUME NEW r \in Known
         PROVE  /\ r.serial \in Nat /\ r.message \in Nat /\ r.serial < record.serial
                /\ r.message < record.message
                /\ r.serial \in 1..lastRecordSerial + 1 /\ r.message \in 1..posted + 1
    <2>1. r.serial \in 1..lastRecordSerial /\ r.message \in 1..posted
      BY <1>7
    <2>. QED  BY <1>4, <1>5, <2>1
  <1>14. SerialsInv'
    <2>1. \A r \in Known' : r.serial \in 1..lastRecordSerial' /\ r.message \in 1..posted'
      <3>. SUFFICES ASSUME NEW r \in Known'
                    PROVE  r.serial \in 1..lastRecordSerial + 1 /\ r.message \in 1..posted + 1
        BY <1>2
      <3>1. CASE r \in Known
        BY <1>13, <3>1
      <3>2. CASE r = record
        BY <1>4, <1>5, <3>2
      <3>. QED  BY <1>11, <3>1, <3>2
    <2>2. ASSUME NEW r \in Known', NEW q \in Known'
          PROVE  (r.serial < q.serial => r.message < q.message) /\ (r.serial = q.serial => r = q)
      <3>1. CASE r \in Known /\ q \in Known
        BY <1>7, <3>1
      <3>2. CASE r \in Known /\ q = record
        BY <1>4, <1>5, <1>13, <3>2
      <3>3. CASE r = record /\ q \in Known
        BY <1>4, <1>5, <1>13, <3>3
      <3>4. CASE r = record /\ q = record
        BY <1>4, <1>5, <3>4
      <3>. QED  BY <1>11, <3>1, <3>2, <3>3, <3>4
    <2>3. \A i \in 1..Len(records') : records'[i].serial = lastRecordSerial' - Len(records') + i
      <3>1. lastRecordSerial' = lastRecordSerial + 1
        BY <1>2
      <3>. SUFFICES ASSUME NEW i \in 1..Len(records')
                    PROVE  records'[i].serial = lastRecordSerial' - Len(records') + i
        OBVIOUS
      <3>2. records'[i].serial = lastRecordSerial + 1 - Len(records') + i
        BY <1>8
      <3>3. Len(records') \in Nat /\ lastRecordSerial \in Nat
        BY <1>4, <1>8, LenProperties
      <3>. DEFINE n == Len(records')
                  last == lastRecordSerial'
      <3>. HIDE DEF n, last
      <3>4. /\ n \in Nat /\ last = lastRecordSerial + 1
            /\ records'[i].serial = lastRecordSerial + 1 - n + i
        BY <3>1, <3>2, <3>3 DEF n, last
      <3>5. records'[i].serial = last - n + i
        BY <3>3, <3>4
      <3>. QED  BY <3>5 DEF n, last
    <2>. QED  BY <1>8, <2>1, <2>2, <2>3 DEF SerialsInv
  <1>15. /\ Shape(shown) /\ InOrder(shown.blocks)
         /\ shown.last \in Nat /\ shown.last <= lastRecordSerial
         /\ \A i \in 1..Len(shown.blocks) : shown.blocks[i].message <= posted
         /\ \A r \in Known : r.serial > shown.last =>
                \A i \in 1..Len(shown.blocks) : shown.blocks[i].message < r.message
         /\ \A r \in Known : r.serial = shown.last =>
                shown.blocks # <<>> /\ Last(shown.blocks) = Line(r)
    BY <1>4 DEF DialogInv, ShownInv, Views
  <1>16. \A i \in 1..Len(shown.blocks) : /\ shown.blocks[i].message <= posted + 1
                                         /\ shown.blocks[i].message < record.message
    <2>1. \A i \in 1..Len(shown.blocks) : shown.blocks[i] \in Blocks
      BY <1>4, ElementOfSeq DEF Views
    <2>2. \A i \in 1..Len(shown.blocks) : shown.blocks[i].message \in Nat
      BY <2>1 DEF Blocks
    <2>. QED  BY <1>4, <1>5, <1>15, <2>2
  <1>17. ShownInv'
    <2>1. \A r \in Known' : r.serial > shown.last =>
              \A i \in 1..Len(shown.blocks) : shown.blocks[i].message < r.message
      BY <1>11, <1>15, <1>16
    <2>2. \A r \in Known' : r.serial = shown.last =>
              shown.blocks # <<>> /\ Last(shown.blocks) = Line(r)
      <3>1. record.serial # shown.last
        BY <1>4, <1>5, <1>15
      <3>. QED  BY <1>11, <1>15, <3>1
    <2>3. record \in Pending' /\ record.serial = lastRecordSerial'
      BY <1>2, <1>5, <1>10
    <2>4. shown.last <= lastRecordSerial + 1
      BY <1>4, <1>15
    <2>5. Shape(shown')
      BY <1>2, <1>15 DEF Shape
    <2>. QED  BY <1>2, <1>15, <1>16, <2>1, <2>2, <2>3, <2>4, <2>5 DEF ShownInv
  <1>18. DaysInv'
    <2>1. /\ \A r \in Known : r.day <= day
          /\ \A r, q \in Known : r.serial < q.serial => r.day <= q.day
          /\ Grouped(shown) /\ \A n \in 1..Len(shown.days) : shown.days[n].day <= day
          /\ \A r \in Known : r.serial > shown.last =>
                 \A n \in 1..Len(shown.days) : shown.days[n].day <= r.day
      BY DEF DialogInv, DaysInv
    <2>2. record.day = day
      BY DEF record
    <2>3. \A r \in Known' : r.day <= day
      BY <1>4, <1>11, <2>1, <2>2
    <2>4. ASSUME NEW r \in Known', NEW q \in Known', r.serial < q.serial
          PROVE  r.day <= q.day
      <3>1. CASE r \in Known /\ q \in Known
        BY <2>1, <2>4, <3>1
      <3>2. CASE r \in Known /\ q = record
        BY <2>1, <2>2, <3>2
      <3>3. CASE r = record
        <4>1. ~(record.serial < q.serial)
          BY <1>4, <1>5, <1>11, <1>13
        <4>. QED  BY <2>4, <3>3, <4>1
      <3>. QED  BY <1>11, <3>1, <3>2, <3>3
    <2>5. \A r \in Known' : r.serial > shown.last =>
              \A n \in 1..Len(shown.days) : shown.days[n].day <= r.day
      BY <1>11, <2>1, <2>2
    <2>6. Grouped(shown')
      BY <1>2, <2>1
    <2>. QED  BY <1>2, <2>1, <2>3, <2>4, <2>5, <2>6 DEF DaysInv
  <1>. QED  BY <1>3, <1>12, <1>14, <1>17, <1>18 DEF DialogInv

-----------------------------------------------------------------------------
(* Notifications *)

\* appendRecord of a record, whose notification is then no longer pending
LEMMA AppendStep ==
    ASSUME DialogInv, NEW record \in Known, shown' = AppendToShown(record),
           UNCHANGED <<day, posted, records, lastRecordSerial, visible>>,
           Known' \subseteq Known, Pending \ {record} \subseteq Pending'
    PROVE  shown' \in Views /\ SerialsInv' /\ ShownInv' /\ DaysInv'
  <1>1. /\ posted' = posted /\ records' = records /\ lastRecordSerial' = lastRecordSerial
        /\ visible' = visible /\ posted \in Nat /\ lastRecordSerial \in Nat /\ shown \in Views
    BY DEF DialogInv, TypeInv
  <1>2. /\ \A r \in Known : r.serial \in 1..lastRecordSerial /\ r.message \in 1..posted
        /\ \A r, q \in Known : (r.serial < q.serial => r.message < q.message)
                               /\ (r.serial = q.serial => r = q)
    BY DEF DialogInv, SerialsInv
  <1>3. SerialsInv'
    BY <1>1 DEF DialogInv, SerialsInv
  <1>4. /\ Shape(shown) /\ InOrder(shown.blocks)
        /\ shown.last \in Nat /\ shown.last <= lastRecordSerial
        /\ \A i \in 1..Len(shown.blocks) : shown.blocks[i].message <= posted
        /\ \A r \in Known : r.serial > shown.last =>
               \A i \in 1..Len(shown.blocks) : shown.blocks[i].message < r.message
        /\ \A r \in Known : r.serial = shown.last =>
               shown.blocks # <<>> /\ Last(shown.blocks) = Line(r)
        /\ visible /\ shown.last # lastRecordSerial =>
               \E r \in Pending : r.serial = lastRecordSerial
    BY <1>1 DEF DialogInv, ShownInv, Views
  <1>5. CASE ~visible \/ record.serial <= shown.last
    <2>1. shown' = shown
      BY <1>5 DEF AppendToShown
    <2>2. visible' /\ shown'.last # lastRecordSerial' =>
              \E r \in Pending' : r.serial = lastRecordSerial'
      <3>. SUFFICES ASSUME visible, shown.last # lastRecordSerial
                    PROVE  \E r \in Pending' : r.serial = lastRecordSerial
        BY <1>1, <2>1
      <3>1. PICK r \in Pending : r.serial = lastRecordSerial
        BY <1>4
      <3>2. r # record
        BY <1>1, <1>4, <1>5, <3>1
      <3>. QED  BY <3>1, <3>2
    <2>3. Shape(shown')
      BY <1>4, <2>1 DEF Shape
    <2>4. ShownInv'
      BY <1>1, <1>4, <2>1, <2>2, <2>3 DEF ShownInv
    <2>5. DaysInv'
      <3>1. day \in Nat /\ day' = day
        BY DEF DialogInv, TypeInv, Days
      <3>2. day' \in Nat /\ day <= day'
        BY <3>1
      <3>. QED  BY <2>1, <3>2, DaysStay
    <2>. QED  BY <1>1, <1>3, <2>1, <2>4, <2>5
  <1>6. CASE visible /\ record.serial > shown.last
    <2>. DEFINE next == InsertRecord(shown, record)
    <2>1. shown' = next
      <3>1. ~(~visible \/ record.serial <= shown.last)
        BY <1>1, <1>2, <1>4, <1>6
      <3>. QED  BY <3>1 DEF AppendToShown
    <2>2. record \in Recs /\ record.message > 0 /\ record.message \in Nat
      <3>1. record \in Recs
        BY KnownRecords DEF DialogInv
      <3>. QED  BY <1>2, <3>1
    <2>3. \A i \in 1..Len(shown.blocks) : shown.blocks[i].message < record.message
      BY <1>4, <1>6
    <2>4. /\ next \in Views /\ Shape(next) /\ InOrder(next.blocks) /\ next.last = record.serial
          /\ next.blocks # <<>> /\ Last(next.blocks) = Line(record)
          /\ \A i \in 1..Len(next.blocks) : next.blocks[i].message <= record.message
      BY <1>1, <1>4, <2>2, <2>3, InsertStep
    <2>. HIDE DEF next
    <2>5. \A i \in 1..Len(next.blocks) : next.blocks[i].message \in Nat
      <3>1. \A i \in 1..Len(next.blocks) : next.blocks[i] \in Blocks
        BY <2>4, ElementOfSeq DEF Views
      <3>. QED  BY <3>1 DEF Blocks
    <2>6. next.last <= lastRecordSerial /\ record.message <= posted
      BY <1>1, <1>2, <2>4
    <2>7. \A i \in 1..Len(next.blocks) : next.blocks[i].message <= posted
      BY <1>1, <2>2, <2>4, <2>5, <2>6
    <2>8. ASSUME NEW r \in Known, r.serial > next.last
          PROVE  \A i \in 1..Len(next.blocks) : next.blocks[i].message < r.message
      <3>1. record.message < r.message /\ r.message \in Nat
        BY <1>1, <1>2, <2>4, <2>8
      <3>. QED  BY <2>2, <2>4, <2>5, <3>1
    <2>9. ASSUME NEW r \in Known, r.serial = next.last
          PROVE  next.blocks # <<>> /\ Last(next.blocks) = Line(r)
      <3>1. r = record
        BY <1>2, <2>4, <2>9
      <3>. QED  BY <2>4, <3>1
    <2>10. ASSUME next.last # lastRecordSerial
           PROVE  \E r \in Pending' : r.serial = lastRecordSerial
      <3>1. shown.last # lastRecordSerial
        BY <1>1, <1>2, <1>4, <1>6
      <3>2. PICK r \in Pending : r.serial = lastRecordSerial
        BY <1>4, <1>6, <3>1
      <3>3. r # record
        BY <2>4, <2>10, <3>2
      <3>. QED  BY <3>2, <3>3
    <2>11. Shape(shown')
      BY <2>1, <2>4 DEF Shape
    <2>12. ShownInv'
      BY <1>1, <2>1, <2>4, <2>6, <2>7, <2>8, <2>9, <2>10, <2>11 DEF ShownInv
    <2>13. DaysInv'
      <3>1. /\ \A r \in Known : r.day <= day
            /\ \A r, q \in Known : r.serial < q.serial => r.day <= q.day
            /\ Grouped(shown)
            /\ \A n \in 1..Len(shown.days) : shown.days[n].day <= record.day
        BY <1>6 DEF DialogInv, DaysInv
      <3>2. Grouped(next) /\ \A n \in 1..Len(next.days) : next.days[n].day <= record.day
        BY <1>1, <2>2, <3>1, InsertGroups DEF next
      <3>3. /\ \A n \in 1..Len(next.days) : next.days[n].day \in Nat
            /\ \A r \in Known : r.day \in Nat /\ r.serial \in Nat
            /\ day \in Nat /\ day' = day
        <4>1. \A n \in 1..Len(next.days) : next.days[n].day \in Nat
          BY <2>4, ShownDays
        <4>2. \A r \in Known : r \in Recs
          BY KnownRecords DEF DialogInv
        <4>. QED  BY <4>1, <4>2 DEF DialogInv, TypeInv, Days, Recs
      <3>4. \A n \in 1..Len(next.days) : next.days[n].day <= day
        BY <3>1, <3>2, <3>3
      <3>5. ASSUME NEW r \in Known, r.serial > next.last
            PROVE  \A n \in 1..Len(next.days) : next.days[n].day <= r.day
        <4>1. record.day <= r.day
          BY <2>4, <3>1, <3>3, <3>5
        <4>. QED  BY <3>2, <3>3, <4>1
      <3>6. Grouped(shown')
        BY <2>1, <3>2
      <3>. QED  BY <2>1, <3>1, <3>3, <3>4, <3>5, <3>6 DEF DaysInv
    <2>. QED  BY <1>3, <2>1, <2>4, <2>12, <2>13
  <1>7. record.serial \in Nat
    BY <1>2
  <1>. QED  BY <1>1, <1>4, <1>5, <1>6, <1>7

LEMMA NotifyDirectlyStep ==
    ASSUME DialogInv, NotifyDirectly PROVE DialogInv'
  <1>. DEFINE record == posting[MainThread]
  <1>1. /\ posting[MainThread] # NoRecord /\ posting' = [posting EXCEPT ![MainThread] = NoRecord]
        /\ shown' = AppendToShown(record)
        /\ UNCHANGED <<day, posted, records, lastRecordSerial, files, saved, visible, queue>>
    BY Zenon DEF NotifyDirectly, Notify
  <1>2. MainThread \in Threads
    BY DialogAssumption
  <1>3. posting \in [Threads -> Recs] /\ NoRecord \in Recs
    BY DEF DialogInv, TypeInv, NoRecord, Recs
  <1>4. record \in Pending
    BY <1>1, <1>2 DEF Pending
  <1>5. /\ posting'[MainThread] = NoRecord /\ posting' \in [Threads -> Recs]
        /\ \A u \in Threads \ {MainThread} : posting'[u] = posting[u]
    BY <1>1, <1>2, <1>3
  <1>6. Pending' \subseteq Pending /\ Pending \ {record} \subseteq Pending'
    BY <1>1, <1>5 DEF Pending
  <1>7. Known' \subseteq Known /\ record \in Known
    BY <1>1, <1>4, <1>6 DEF Known
  <1>. HIDE DEF record
  <1>8. shown' \in Views /\ SerialsInv' /\ ShownInv' /\ DaysInv'
    BY <1>1, <1>6, <1>7, AppendStep
  <1>9. TypeInv' /\ FilesInv'
    <2>1. TypeInv'
      BY <1>1, <1>5, <1>8 DEF DialogInv, TypeInv
    <2>2. FilesInv'
      BY <1>1, FilesUnchanged DEF DialogInv
    <2>. QED  BY <2>1, <2>2
  <1>. QED  BY <1>8, <1>9 DEF DialogInv

LEMMA DeliverStep ==
    ASSUME DialogInv, Deliver PROVE DialogInv'
  <1>. DEFINE record == Head(queue)
              tail == Tail(queue)
  <1>1. /\ queue # <<>> /\ queue' = tail /\ shown' = AppendToShown(record)
        /\ UNCHANGED <<day, posted, posting, records, lastRecordSerial, files, saved, visible>>
    BY Zenon DEF Deliver, logsVars
  <1>2. queue \in Seq(Recs) /\ Len(queue) \in Nat /\ Len(queue) >= 1
    BY <1>1, EmptySeq DEF DialogInv, TypeInv
  <1>3. /\ record = queue[1] /\ tail \in Seq(Recs) /\ Len(tail) = Len(queue) - 1
        /\ \A i \in 1..Len(tail) : tail[i] = queue[i + 1]
    BY <1>1, <1>2, HeadTailProperties
  <1>. HIDE DEF record, tail
  <1>4. record \in Pending
    BY <1>2, <1>3 DEF Pending
  <1>5. \A i \in 1..Len(tail) : \E j \in 1..Len(queue) : tail[i] = queue[j]
    BY <1>2, <1>3
  <1>6. \A j \in 1..Len(queue) : queue[j] = record \/ \E i \in 1..Len(tail) : tail[i] = queue[j]
    <2>. SUFFICES ASSUME NEW j \in 1..Len(queue), j # 1
                  PROVE  \E i \in 1..Len(tail) : tail[i] = queue[j]
      BY <1>3
    <2>1. j - 1 \in 1..Len(tail) /\ (j - 1) + 1 = j
      BY <1>2, <1>3
    <2>. QED  BY <1>3, <2>1
  <1>7. Pending' \subseteq Pending /\ Pending \ {record} \subseteq Pending'
    BY <1>1, <1>5, <1>6 DEF Pending
  <1>8. Known' \subseteq Known /\ record \in Known
    BY <1>1, <1>4, <1>7 DEF Known
  <1>9. shown' \in Views /\ SerialsInv' /\ ShownInv' /\ DaysInv'
    BY <1>1, <1>7, <1>8, AppendStep
  <1>10. TypeInv' /\ FilesInv'
    <2>1. TypeInv'
      BY <1>1, <1>3, <1>9 DEF DialogInv, TypeInv
    <2>2. FilesInv'
      BY <1>1, FilesUnchanged DEF DialogInv
    <2>. QED  BY <2>1, <2>2
  <1>. QED  BY <1>9, <1>10 DEF DialogInv

\* A notification of another thread only moves to the queue.
LEMMA NotifyQueuedStep ==
    ASSUME DialogInv, NEW thread \in Threads, NotifyQueued(thread) PROVE DialogInv'
  <1>. DEFINE record == posting[thread]
              more == Append(queue, record)
  <1>1. /\ posting[thread] # NoRecord /\ posting' = [posting EXCEPT ![thread] = NoRecord]
        /\ queue' = more
        /\ UNCHANGED <<day, posted, records, lastRecordSerial, files, saved, visible, shown>>
    BY Zenon DEF NotifyQueued, Notify
  <1>2. posting \in [Threads -> Recs] /\ NoRecord \in Recs /\ queue \in Seq(Recs) /\ record \in Recs
    BY DEF DialogInv, TypeInv, NoRecord, Recs
  <1>3. /\ more \in Seq(Recs) /\ Len(queue) \in Nat /\ Len(more) = Len(queue) + 1
        /\ \A i \in 1..Len(queue) : more[i] = queue[i]
        /\ more[Len(queue) + 1] = record
    BY <1>2, AppendProperties
  <1>. HIDE DEF more
  <1>4. /\ posting'[thread] = NoRecord /\ posting' \in [Threads -> Recs]
        /\ \A u \in Threads \ {thread} : posting'[u] = posting[u]
    BY <1>1, <1>2
  <1>5. {more[i] : i \in 1..Len(more)} = {queue[i] : i \in 1..Len(queue)} \cup {record}
    BY <1>3
  <1>6. Pending' = Pending
    <2>1. Pending' = ({posting'[u] : u \in Threads} \ {NoRecord})
                         \cup {more[i] : i \in 1..Len(more)}
      BY <1>1 DEF Pending
    <2>2. {posting[u] : u \in Threads} \ {NoRecord} =
              ({posting'[u] : u \in Threads} \ {NoRecord}) \cup {record}
      BY <1>1, <1>4
    <2>. QED  BY <1>5, <2>1, <2>2 DEF Pending
  <1>7. Known' = Known
    BY <1>1, <1>6 DEF Known
  <1>8. SerialsInv' /\ ShownInv'
    BY <1>1, <1>6, <1>7 DEF DialogInv, SerialsInv, ShownInv, Shape
  <1>9. TypeInv' /\ FilesInv'
    <2>1. TypeInv'
      BY <1>1, <1>3, <1>4 DEF DialogInv, TypeInv
    <2>2. FilesInv'
      BY <1>1, FilesUnchanged DEF DialogInv
    <2>. QED  BY <2>1, <2>2
  <1>10. DaysInv'
    <2>1. day \in Nat /\ day' = day
      BY <1>1 DEF DialogInv, TypeInv, Days
    <2>2. day' \in Nat /\ day <= day'
      BY <2>1
    <2>. QED  BY <1>1, <1>7, <2>2, DaysStay
  <1>. QED  BY <1>8, <1>9, <1>10 DEF DialogInv

-----------------------------------------------------------------------------
(* Opening and restarting *)

LEMMA OpenStep ==
    ASSUME DialogInv, Open PROVE DialogInv'
  <1>. DEFINE new == Reload
  <1>1. /\ visible' = TRUE /\ shown' = new
        /\ UNCHANGED <<day, posted, posting, records, lastRecordSerial, files, saved, queue>>
    BY Zenon DEF Open, logsVars
  <1>2. /\ records \in Seq(Recs) /\ Len(records) \in Nat
        /\ posted \in Nat /\ lastRecordSerial \in Nat
    BY DEF DialogInv, TypeInv
  <1>3. /\ \A r \in Known : r.serial \in 1..lastRecordSerial /\ r.message \in 1..posted
        /\ \A r, q \in Known : (r.serial < q.serial => r.message < q.message)
                               /\ (r.serial = q.serial => r = q)
        /\ \A i \in 1..Len(records) : records[i].serial = lastRecordSerial - Len(records) + i
        /\ lastRecordSerial > 0 => records # <<>>
    BY DEF DialogInv, SerialsInv
  <1>4. \A i \in 1..Len(records) : records[i] \in Known
    BY DEF Known
  <1>5. \A i \in 1..Len(records) : records[i].message > 0
    BY <1>3, <1>4
  <1>6. \A i, j \in 1..Len(records) : i < j => records[i].message < records[j].message
    <2>. SUFFICES ASSUME NEW i \in 1..Len(records), NEW j \in 1..Len(records), i < j
                  PROVE  records[i].message < records[j].message
      OBVIOUS
    <2>1. /\ records[i].serial = lastRecordSerial - Len(records) + i
          /\ records[j].serial = lastRecordSerial - Len(records) + j
      BY <1>3
    <2>2. records[i].serial < records[j].serial
      BY <1>2, <2>1
    <2>. QED  BY <1>3, <1>4, <2>2
  <1>7. \A i, j \in 1..Len(records) : i < j => records[i].day <= records[j].day
    <2>. SUFFICES ASSUME NEW i \in 1..Len(records), NEW j \in 1..Len(records), i < j
                  PROVE  records[i].day <= records[j].day
      OBVIOUS
    <2>1. /\ records[i].serial = lastRecordSerial - Len(records) + i
          /\ records[j].serial = lastRecordSerial - Len(records) + j
      BY <1>3
    <2>2. records[i].serial < records[j].serial
      BY <1>2, <2>1
    <2>. QED  BY <1>4, <2>2 DEF DialogInv, DaysInv
  <1>. DEFINE newest == records[Len(records)]
  <1>8. /\ new \in Views /\ Shape(new) /\ InOrder(new.blocks) /\ Grouped(new)
        /\ records = <<>> => new = Empty
        /\ records # <<>> =>
               /\ new.last = newest.serial
               /\ new.blocks # <<>> /\ Last(new.blocks) = Line(newest)
               /\ \A i \in 1..Len(new.blocks) : new.blocks[i].message <= newest.message
               /\ \A n \in 1..Len(new.days) : new.days[n].day <= newest.day
    BY <1>2, <1>5, <1>6, <1>7, ReloadStep
  <1>. HIDE DEF new
  <1>9. Pending' = Pending /\ Known' = Known
    BY <1>1 DEF Pending, Known
  <1>10. TypeInv' /\ FilesInv' /\ SerialsInv'
    <2>1. TypeInv' /\ SerialsInv'
      BY <1>1, <1>8, <1>9 DEF DialogInv, TypeInv, SerialsInv
    <2>2. FilesInv'
      BY <1>1, FilesUnchanged DEF DialogInv
    <2>. QED  BY <2>1, <2>2
  <1>11. /\ \A r \in Known : r.day <= day
         /\ \A r, q \in Known : r.serial < q.serial => r.day <= q.day
         /\ day' = day
    BY <1>1 DEF DialogInv, DaysInv
  <1>12. Grouped(shown')
    BY <1>1, <1>8
  <1>13. CASE records = <<>>
    <2>1. new.last = 0 /\ Len(new.blocks) = 0 /\ lastRecordSerial = 0
      BY <1>2, <1>3, <1>8, <1>13, EmptySeq DEF Empty
    <2>2. \A r \in Known : r.serial # new.last
      BY <1>3, <2>1
    <2>3. Shape(shown')
      BY <1>1, <1>8 DEF Shape
    <2>4. 1..Len(new.blocks) = {}
      BY <2>1
    <2>. HIDE DEF Known
    <2>5. ShownInv'
      BY <1>1, <1>8, <1>9, <2>1, <2>2, <2>3, <2>4 DEF ShownInv
    <2>6. 1..Len(new.days) = {}
      BY <1>8, <1>13, EmptyGroups
    <2>7. DaysInv'
      BY <1>1, <1>9, <1>11, <1>12, <2>6 DEF DaysInv
    <2>. QED  BY <1>10, <2>5, <2>7 DEF DialogInv
  <1>14. CASE records # <<>>
    <2>1. Len(records) \in 1..Len(records)
      BY <1>2, <1>14, EmptySeq
    <2>2. newest \in Known /\ newest.serial = lastRecordSerial /\ newest.message \in 1..posted
      <3>1. newest \in Known /\ newest.serial = lastRecordSerial - Len(records) + Len(records)
        BY <1>3, <1>4, <2>1
      <3>2. newest.message \in 1..posted
        BY <1>3, <3>1
      <3>. HIDE DEF newest
      <3>. QED  BY <1>2, <3>1, <3>2
    <2>. HIDE DEF newest
    <2>3. \A i \in 1..Len(new.blocks) : new.blocks[i].message \in Nat
      <3>1. \A i \in 1..Len(new.blocks) : new.blocks[i] \in Blocks
        BY <1>8, ElementOfSeq DEF Views
      <3>. QED  BY <3>1 DEF Blocks
    <2>4. \A i \in 1..Len(new.blocks) : new.blocks[i].message <= posted
      BY <1>2, <1>8, <1>14, <2>2, <2>3
    <2>5. \A r \in Known : ~(r.serial > new.last)
      BY <1>2, <1>3, <1>8, <1>14, <2>2
    <2>6. \A r \in Known : r.serial = new.last => r = newest
      BY <1>3, <1>8, <1>14, <2>2
    <2>7. Shape(shown')
      BY <1>1, <1>8 DEF Shape
    <2>8. new.last <= lastRecordSerial /\ new.last = lastRecordSerial
      BY <1>2, <1>8, <1>14, <2>2
    <2>. HIDE DEF Known
    <2>9. ShownInv'
      BY <1>1, <1>8, <1>9, <1>14, <2>4, <2>5, <2>6, <2>7, <2>8 DEF ShownInv
    <2>10. \A n \in 1..Len(new.days) : new.days[n].day <= day
      <3>1. newest.day <= day /\ newest.day \in Nat /\ day \in Nat
        BY <1>11, <2>2, KnownRecords DEF DialogInv, TypeInv, Days, Recs
      <3>2. \A n \in 1..Len(new.days) : new.days[n].day \in Nat
        BY <1>8, ShownDays
      <3>. QED  BY <1>8, <1>14, <3>1, <3>2
    <2>11. DaysInv'
      BY <1>1, <1>9, <1>11, <1>12, <2>5, <2>10 DEF DaysInv
    <2>. QED  BY <1>10, <2>9, <2>11 DEF DialogInv
  <1>. QED  BY <1>13, <1>14

\* Lines are saved day by day.
LEMMA SavedInOrder ==
    ASSUME TypeInv, FilesInv, NEW before, FilesAreSaved(before)
    PROVE  \A i, j \in 1..Len(saved) : i < j => saved[i].day <= saved[j].day
  <1>. SUFFICES ASSUME NEW i \in 1..Len(saved), NEW j \in 1..Len(saved), i < j,
                       saved[j].day < saved[i].day
                PROVE  FALSE
    <2>1. \A i \in 1..Len(saved) : saved[i].day \in Nat
      BY DEF FilesInv, TypeInv, Days
    <2>. QED  BY <2>1
  <1>. DEFINE date == saved[i].day
  <1>1. date \in 1..DaysMax + 1
    <2>1. day \in 1..DaysMax /\ date \in 1..day
      BY DEF TypeInv, FilesInv, Days
    <2>. QED  BY <2>1, Limits
  <1>2. before[date] \in Nat /\ ~(date < date)
    <2>1. before[date] \in 0..Len(saved)
      BY <1>1 DEF FilesAreSaved
    <2>. QED  BY <1>1, <2>1, Limits
  <1>3. j <= before[date] /\ ~(i <= before[date])
    BY <1>1, <1>2 DEF FilesAreSaved
  <1>. QED  BY <1>2, <1>3

\* The process starts anew with the records of the files.
LEMMA RestartStep ==
    ASSUME DialogInv, DRestart PROVE DialogInv'
  <1>. DEFINE lines == RemoveOldLogs(files)
              restored == RestoreRecentRecords(lines)
              new == Numbered(restored)
  <1>1. /\ posting' = [thread \in Threads |-> NoRecord] /\ files' = lines
        /\ records' = new /\ lastRecordSerial' = Len(new)
        /\ day' = day /\ posted' = posted /\ saved' = saved
        /\ visible' = FALSE /\ queue' = <<>> /\ shown' = Empty
    BY DEF DRestart, Restart
  <1>2. /\ day \in Days /\ day \in Nat /\ posted \in Nat /\ saved \in Seq(Blocks)
        /\ Len(saved) \in Nat
        /\ \A i \in 1..Len(saved) : saved[i].message \in 1..posted
        /\ \A i, j \in 1..Len(saved) : i < j => saved[i].message < saved[j].message
    BY DEF DialogInv, TypeInv, FilesInv, Days
  <1>3. lines \in [Days -> Seq(Nat)] /\ FilesInv'
    BY <1>1, RemoveStep DEF DialogInv
  <1>4. PICK n \in 0..Len(saved) : IsEnd(restored, n)
    <2>1. PICK before : FilesAreSaved(before)
      BY DEF DialogInv, FilesInv
    <2>2. IsEnd(restored, before[FirstKept])
      BY <2>1, RestoreStep DEF DialogInv
    <2>3. FirstKept \in 1..DaysMax + 1
      BY <1>2, KeptDays, Limits DEF Days
    <2>4. before[FirstKept] \in 0..Len(saved)
      BY <2>1, <2>3 DEF FilesAreSaved
    <2>. QED  BY <2>2, <2>4
  <1>. HIDE DEF lines, restored
  <1>5. /\ restored \in Seq(Blocks) /\ Len(restored) \in Nat /\ Len(restored) <= Len(saved)
        /\ \A i \in 1..Len(restored) : restored[i] = saved[Len(saved) - Len(restored) + i]
    <2>1. /\ restored \in Seq(Blocks) /\ Len(restored) \in Nat
          /\ Len(restored) = IF Len(saved) - n > RecordsCountMax THEN RecordsCountMax
                             ELSE Len(saved) - n
          /\ \A i \in 1..Len(restored) : restored[i] = saved[Len(saved) - Len(restored) + i]
      BY <1>4, Zenon DEF IsEnd
    <2>2. Len(restored) <= Len(saved)
      BY <1>2, <2>1, Limits
    <2>. QED  BY <2>1, <2>2
  <1>6. /\ \A i \in 1..Len(restored) : restored[i].message \in 1..posted
        /\ \A i, j \in 1..Len(restored) : i < j => restored[i].message < restored[j].message
    <2>. DEFINE at(i) == Len(saved) - Len(restored) + i
    <2>1. \A i \in 1..Len(restored) : at(i) \in 1..Len(saved)
      BY <1>2, <1>5
    <2>2. \A i, j \in 1..Len(restored) : i < j => at(i) < at(j)
      BY <1>2, <1>5
    <2>3. \A i \in 1..Len(restored) : restored[i] = saved[at(i)]
      BY <1>5
    <2>. HIDE DEF at
    <2>. QED  BY <1>2, <2>1, <2>2, <2>3
  <1>7. /\ new \in Seq(Recs) /\ Len(new) = Len(restored)
        /\ \A i \in 1..Len(restored) : new[i].serial = i /\ new[i].message = restored[i].message
                                        /\ new[i].day = restored[i].day
    <2>1. \A i \in 1..Len(restored) : restored[i] \in Blocks
      BY <1>5, ElementOfSeq
    <2>2. \A i \in 1..Len(restored) :
              [serial |-> i, day |-> restored[i].day, message |-> restored[i].message] \in Recs
      BY <2>1 DEF Blocks, Recs
    <2>3. new = [i \in 1..Len(restored) |->
                    [serial |-> i, day |-> restored[i].day, message |-> restored[i].message]]
      BY DEF Numbered
    <2>. HIDE DEF new
    <2>4. new \in [1..Len(restored) -> Recs]
      BY <2>2, <2>3
    <2>5. new \in Seq(Recs)
      BY <1>5, <2>4, SeqDef
    <2>6. Len(new) \in Nat /\ DOMAIN new = 1..Len(new) /\ DOMAIN new = 1..Len(restored)
      BY <2>4, <2>5, LenProperties
    <2>7. Len(new) = Len(restored)
      BY <1>5, <2>6
    <2>. QED  BY <2>3, <2>5, <2>7
  <1>. HIDE DEF new
  <1>. DEFINE l == Len(restored)
  <1>8. l \in Nat /\ Len(new) = l
    BY <1>5, <1>7
  <1>. HIDE DEF l
  <1>9. Pending' = {}
    <2>1. queue' = <<>> /\ 1..Len(<<>>) = {}
      BY <1>1, EmptySeq
    <2>2. \A thread \in Threads : posting'[thread] = NoRecord
      BY <1>1
    <2>. QED  BY <2>1, <2>2 DEF Pending
  <1>10. Known' = {new[i] : i \in 1..l}
    BY <1>1, <1>8, <1>9 DEF Known
  <1>11. \A i \in 1..l : new[i].serial = i /\ new[i].message \in 1..posted
    BY <1>6, <1>7 DEF l
  <1>12. \A i, j \in 1..l : i < j => new[i].message < new[j].message
    BY <1>6, <1>7 DEF l
  <1>13. TypeInv'
    <2>1. posting' \in [Threads -> Recs]
      BY <1>1 DEF NoRecord, Recs
    <2>2. <<>> \in Seq(Recs) /\ Empty \in Views
      BY EmptySeq DEF Empty, Views
    <2>. QED  BY <1>1, <1>2, <1>3, <1>7, <1>8, <2>1, <2>2 DEF TypeInv
  <1>15. SerialsInv'
    <2>1. \A r \in Known' : r.serial \in 1..lastRecordSerial' /\ r.message \in 1..posted'
      BY <1>1, <1>8, <1>10, <1>11
    <2>2. \A r, q \in Known' : (r.serial < q.serial => r.message < q.message)
                               /\ (r.serial = q.serial => r = q)
      BY <1>10, <1>11, <1>12
    <2>3. \A i \in 1..Len(records') : records'[i].serial = lastRecordSerial' - Len(records') + i
      BY <1>1, <1>8, <1>11
    <2>4. lastRecordSerial' > 0 => records' # <<>>
      BY <1>1, <1>8, EmptySeq
    <2>. QED  BY <2>1, <2>2, <2>3, <2>4 DEF SerialsInv
  <1>16. ShownInv'
    <2>1. Empty.last = 0 /\ 1..Len(Empty.blocks) = {} /\ Shape(Empty) /\ InOrder(Empty.blocks)
      BY EmptySeq, Limits DEF Empty, Shape, InOrder
    <2>2. \A r \in Known' : r.serial # 0
      BY <1>10, <1>11
    <2>3. 0 <= lastRecordSerial'
      BY <1>1, <1>8
    <2>4. Shape(shown')
      BY <1>1, <2>1 DEF Shape
    <2>. QED  BY <1>1, <2>1, <2>2, <2>3, <2>4 DEF ShownInv
  <1>17. DaysInv'
    <2>1. /\ \A i \in 1..l : new[i].day <= day
          /\ \A i, j \in 1..l : i < j => new[i].day <= new[j].day
      <3>1. PICK before : FilesAreSaved(before)
        BY DEF DialogInv, FilesInv
      <3>2. \A i, j \in 1..Len(saved) : i < j => saved[i].day <= saved[j].day
        BY <1>2, <3>1, SavedInOrder DEF DialogInv
      <3>3. \A i \in 1..Len(saved) : saved[i].day <= day
        BY DEF DialogInv, FilesInv
      <3>. DEFINE at(i) == Len(saved) - Len(restored) + i
      <3>4. \A i \in 1..l : at(i) \in 1..Len(saved)
        BY <1>2, <1>5 DEF l
      <3>5. \A i, j \in 1..l : i < j => at(i) < at(j)
        BY <1>2, <1>5 DEF l
      <3>6. \A i \in 1..l : new[i].day = saved[at(i)].day
        BY <1>5, <1>7 DEF l
      <3>. HIDE DEF at
      <3>. QED  BY <3>2, <3>3, <3>4, <3>5, <3>6
    <2>2. \A r \in Known' : r.day <= day
      BY <1>10, <2>1
    <2>3. \A r, q \in Known' : r.serial < q.serial => r.day <= q.day
      BY <1>10, <1>11, <2>1
    <2>4. Grouped(shown') /\ 1..Len(shown'.days) = {}
      BY <1>1, EmptyGroups
    <2>. QED  BY <1>1, <2>2, <2>3, <2>4 DEF DaysInv
  <1>. QED  BY <1>3, <1>13, <1>15, <1>16, <1>17 DEF DialogInv

-----------------------------------------------------------------------------
(* The specification *)

LEMMA DialogInitially == DialogInit => DialogInv
  <1>. SUFFICES ASSUME DialogInit PROVE DialogInv
    OBVIOUS
  <1>1. /\ day = 1 /\ posted = 0 /\ lastRecordSerial = 0 /\ records = <<>> /\ queue = <<>>
        /\ posting = [thread \in Threads |-> NoRecord] /\ files = [date \in Days |-> <<>>]
        /\ saved = <<>> /\ visible = FALSE /\ shown = Empty
    BY DEF DialogInit, LogsInit
  <1>2. Len(<<>>) = 0 /\ 1..0 = {} /\ \A S : <<>> \in Seq(S)
    BY EmptySeq
  <1>3. Known = {} /\ Pending = {}
    <2>1. \A thread \in Threads : posting[thread] = NoRecord
      BY <1>1
    <2>. QED  BY <1>1, <1>2, <2>1 DEF Known, Pending
  <1>4. TypeInv
    <2>1. 1 \in Days
      BY Limits DEF Days
    <2>2. posting \in [Threads -> Recs] /\ Empty \in Views
      BY <1>1, <1>2 DEF NoRecord, Recs, Empty, Views
    <2>3. files \in [Days -> Seq(Nat)]
      BY <1>1, <1>2
    <2>. QED  BY <1>1, <1>2, <2>1, <2>2, <2>3 DEF TypeInv
  <1>5. FilesInv
    <2>. DEFINE before == [date \in 1..DaysMax + 1 |-> 0]
    <2>1. /\ before \in [1..DaysMax + 1 -> 0..Len(saved)]
          /\ \A date \in 1..DaysMax + 1 : \A i \in 1..Len(saved) :
                 saved[i].day < date <=> i <= before[date]
      BY <1>1, <1>2
    <2>2. ASSUME NEW date \in Days
          PROVE  /\ Len(files[date]) = before[date + 1] - before[date]
                 /\ 1..Len(files[date]) = {}
      <3>1. files[date] = <<>>
        BY <1>1
      <3>2. date \in 1..DaysMax + 1 /\ date + 1 \in 1..DaysMax + 1
        BY Limits DEF Days
      <3>. QED  BY <1>2, <3>1, <3>2
    <2>. HIDE DEF before
    <2>3. FilesAreSaved(before)
      BY <2>1, <2>2 DEF FilesAreSaved
    <2>4. 1..Len(saved) = {}
      BY <1>1, <1>2
    <2>. QED  BY <2>3, <2>4 DEF FilesInv
  <1>6. SerialsInv
    BY <1>1, <1>2, <1>3 DEF SerialsInv
  <1>7. ShownInv
    <2>1. /\ Empty.last = 0 /\ 1..Len(Empty.blocks) = {} /\ Shape(Empty) /\ InOrder(Empty.blocks)
      BY EmptySeq, Limits DEF Empty, Shape, InOrder
    <2>. QED  BY <1>1, <1>3, <2>1 DEF ShownInv
  <1>8. DaysInv
    BY <1>1, <1>3, EmptyGroups DEF DaysInv
  <1>. QED  BY <1>4, <1>5, <1>6, <1>7, <1>8 DEF DialogInv

\* Neither what is shown nor what is known changes when the dialog closes or a
\* day begins.
LEMMA OthersStep ==
    ASSUME DialogInv, Close \/ DNextDay \/ UNCHANGED <<logsVars, dialogVars>>
    PROVE  DialogInv'
  <1>1. /\ UNCHANGED <<posted, posting, records, lastRecordSerial, files, saved, queue, shown>>
        /\ visible' = visible \/ visible' = FALSE
        /\ day' = day \/ (day < DaysMax /\ day' = day + 1)
    BY Zenon DEF Close, DNextDay, NextDay, logsVars, dialogVars
  <1>2. day \in Days /\ day \in Nat /\ visible \in BOOLEAN
    BY DEF DialogInv, TypeInv, Days
  <1>3. day' \in Days /\ day <= day' /\ visible' \in BOOLEAN /\ (visible' => visible)
    <2>1. day' \in Days /\ day <= day'
      BY <1>1, <1>2, Limits DEF Days
    <2>2. visible' \in BOOLEAN /\ (visible' => visible)
      <3>1. CASE visible' = visible
        BY <1>2, <3>1
      <3>2. CASE visible' = FALSE
        BY <3>2
      <3>. QED  BY <1>1, <3>1, <3>2
    <2>. QED  BY <2>1, <2>2
  <1>4. Pending' = Pending /\ Known' = Known
    BY <1>1 DEF Pending, Known
  <1>5. TypeInv'
    BY <1>1, <1>3 DEF DialogInv, TypeInv
  <1>6. FilesInv'
    BY <1>1, <1>2, <1>3, FilesStay DEF DialogInv
  <1>7. SerialsInv'
    BY <1>1, <1>4 DEF DialogInv, SerialsInv
  <1>8. ShownInv'
    BY <1>1, <1>3, <1>4 DEF DialogInv, ShownInv, Shape
  <1>9. DaysInv'
    <2>1. day' \in Nat
      BY <1>3 DEF Days
    <2>. QED  BY <1>1, <1>3, <1>4, <2>1, DaysStay
  <1>. QED  BY <1>5, <1>6, <1>7, <1>8, <1>9 DEF DialogInv

\* Every state of the viewer satisfies the invariant on which what it shows
\* rests: files in order, serials in order, and nothing missing that is not
\* still to be delivered (post, recordPosted, appendRecord, reload).
THEOREM LogsInvariant == DialogSpec => []DialogInv
  <1>1. ASSUME DialogInv, [DialogNext]_<<logsVars, dialogVars>> PROVE DialogInv'
    <2>1. ASSUME NEW thread \in Threads, DPost(thread) PROVE DialogInv'
      BY <1>1, <2>1, PostStep
    <2>2. ASSUME NEW thread \in Threads, NotifyQueued(thread) PROVE DialogInv'
      BY <1>1, <2>2, NotifyQueuedStep
    <2>3. ASSUME NotifyDirectly PROVE DialogInv'
      BY <1>1, <2>3, NotifyDirectlyStep
    <2>4. ASSUME Deliver PROVE DialogInv'
      BY <1>1, <2>4, DeliverStep
    <2>5. ASSUME Open PROVE DialogInv'
      BY <1>1, <2>5, OpenStep
    <2>6. ASSUME Close \/ DNextDay \/ UNCHANGED <<logsVars, dialogVars>> PROVE DialogInv'
      BY <1>1, <2>6, OthersStep
    <2>7. ASSUME DRestart PROVE DialogInv'
      BY <1>1, <2>7, RestartStep
    <2>. QED  BY <1>1, <2>1, <2>2, <2>3, <2>4, <2>5, <2>6, <2>7, Zenon DEF DialogNext
  <1>. QED  BY <1>1, DialogInitially, PTL DEF DialogSpec

\* No record is shown twice or above an older one, whether it was loaded when
\* the dialog opened, delivered at once or delivered late (reload, appendRecord).
THEOREM NothingShownTwice == DialogSpec => []ShownInOrder
  <1>1. DialogInv => ShownInOrder
    BY DEF DialogInv, ShownInv, ShownInOrder
  <1>. QED  BY <1>1, LogsInvariant, PTL

\* Once every notification is delivered, an open dialog ends with the latest
\* record that is kept (post, recordPosted, appendRecord, reload).
THEOREM OpenDialogIsCurrent == DialogSpec => []LatestIsShown
  <1>1. ASSUME DialogInv, visible, IsQuiet, records # <<>>
        PROVE  Last(shown.blocks) = Line(Last(records))
    <2>1. /\ records \in Seq(Recs) /\ Len(records) \in Nat /\ lastRecordSerial \in Nat
      BY <1>1 DEF DialogInv, TypeInv
    <2>2. Len(records) \in 1..Len(records)
      BY <1>1, <2>1, EmptySeq
    <2>. DEFINE newest == records[Len(records)]
    <2>3. newest \in Known
      BY <2>2 DEF Known
    <2>4. newest.serial = lastRecordSerial
      <3>1. newest.serial = lastRecordSerial - Len(records) + Len(records)
        BY <1>1, <2>2 DEF DialogInv, SerialsInv
      <3>. HIDE DEF newest
      <3>. QED  BY <2>1, <3>1
    <2>5. Pending = {}
      <3>1. 1..Len(queue) = {}
        BY <1>1, EmptySeq DEF IsQuiet
      <3>2. \A thread \in Threads : posting[thread] = NoRecord
        BY <1>1 DEF IsQuiet
      <3>. QED  BY <3>1, <3>2 DEF Pending
    <2>6. shown.last = lastRecordSerial
      BY <1>1, <2>5 DEF DialogInv, ShownInv
    <2>. HIDE DEF newest
    <2>7. Last(shown.blocks) = Line(newest)
      BY <1>1, <2>3, <2>4, <2>6 DEF DialogInv, ShownInv
    <2>. QED  BY <2>7 DEF newest, Last
  <1>2. DialogInv => LatestIsShown
    BY <1>1 DEF LatestIsShown
  <1>. QED  BY <1>2, LogsInvariant, PTL

\* A restart in any state shows the latest of the lines written during the last
\* days, in order and with none in between missing, and the records in memory
\* are numbered without a gap (restoreRecentRecords, writeToLogFile, append).
THEOREM RestartRestoresLatest == DialogSpec => []RestartShowsRecent
  <1>1. DialogInv => RestartShowsRecent
    BY RestoredIsLatest DEF DialogInv, SerialsInv, RestartShowsRecent
  <1>. QED  BY <1>1, LogsInvariant, PTL

\* Each day begins where those before it end.
Follows(f, days) ==
    f = [n \in 1..Len(days) + 1 |-> IF n = 1 THEN 1 ELSE f[n - 1] + 1 + days[n - 1].count]

LEMMA StartsAre ==
    ASSUME NEW T, NEW days \in Seq(T), NEW blocks, NEW start, Placed(blocks, days, start)
    PROVE  Starts(days) = start
  <1>. DEFINE k == Len(days)
  <1>1. k \in Nat
    BY LenProperties
  <1>2. /\ start = [n \in 1..k + 1 |-> start[n]] /\ start[1] = 1
        /\ \A n \in 1..k : start[n + 1] = start[n] + 1 + days[n].count
    BY DEF Placed
  <1>3. Follows(start, days)
    <2>. HIDE DEF k
    <2>1. ASSUME NEW n \in 1..k + 1
          PROVE  start[n] = IF n = 1 THEN 1 ELSE start[n - 1] + 1 + days[n - 1].count
      <3>1. CASE n = 1
        BY <1>2, <3>1
      <3>2. CASE n # 1
        <4>1. n - 1 \in 1..k /\ (n - 1) + 1 = n
          BY <1>1, <3>2
        <4>2. start[(n - 1) + 1] = start[n - 1] + 1 + days[n - 1].count
          BY <1>2, <4>1
        <4>. QED  BY <3>2, <4>1, <4>2
      <3>. QED  BY <3>1, <3>2
    <2>2. start = [n \in 1..k + 1 |-> IF n = 1 THEN 1 ELSE start[n - 1] + 1 + days[n - 1].count]
      BY <1>2, <2>1
    <2>. QED  BY <2>2 DEF Follows, k
  <1>4. ASSUME NEW f, Follows(f, days) PROVE f = start
    <2>. HIDE DEF k
    <2>1. f = [n \in 1..k + 1 |-> IF n = 1 THEN 1 ELSE f[n - 1] + 1 + days[n - 1].count]
      BY <1>4 DEF Follows, k
    <2>2. f[1] = 1
      <3>1. 1 \in 1..k + 1
        BY <1>1
      <3>. QED  BY <2>1, <3>1
    <2>3. \A n \in 1..k : f[n + 1] = f[n] + 1 + days[n].count
      <3>. SUFFICES ASSUME NEW n \in 1..k PROVE f[n + 1] = f[n] + 1 + days[n].count
        OBVIOUS
      <3>1. n + 1 \in 1..k + 1 /\ n + 1 # 1 /\ (n + 1) - 1 = n
        BY <1>1
      <3>2. f[n + 1] = f[(n + 1) - 1] + 1 + days[(n + 1) - 1].count
        BY <2>1, <3>1
      <3>. QED  BY <3>1, <3>2
    <2>. DEFINE S == {m \in Nat : m <= k => f[m + 1] = start[m + 1]}
    <2>4. 0 \in S
      BY <1>2, <2>2
    <2>5. ASSUME NEW m \in Nat, m \in S PROVE m + 1 \in S
      <3>. SUFFICES ASSUME m + 1 <= k PROVE f[(m + 1) + 1] = start[(m + 1) + 1]
        OBVIOUS
      <3>1. m + 1 \in 1..k /\ m <= k
        BY <1>1
      <3>2. f[m + 1] = start[m + 1]
        BY <2>5, <3>1
      <3>. DEFINE j == m + 1
      <3>. HIDE DEF j
      <3>3. j \in 1..k /\ f[j] = start[j]
        BY <3>1, <3>2 DEF j
      <3>4. f[j + 1] = start[j + 1]
        BY <1>2, <2>3, <3>3
      <3>. QED  BY <3>4 DEF j
    <2>. HIDE DEF S
    <2>6. Nat \subseteq S
      BY <2>4, <2>5, SetInduction
    <2>7. ASSUME NEW n \in 1..k + 1 PROVE f[n] = start[n]
      <3>1. n - 1 \in Nat /\ n - 1 <= k /\ (n - 1) + 1 = n
        BY <1>1
      <3>2. n - 1 \in S
        BY <2>6, <3>1
      <3>3. f[(n - 1) + 1] = start[(n - 1) + 1]
        BY <3>1, <3>2 DEF S
      <3>. QED  BY <3>1, <3>3
    <2>8. f = [n \in 1..k + 1 |-> f[n]]
      BY <2>1
    <2>. QED  BY <1>2, <2>7, <2>8
  <1>5. Starts(days) = CHOOSE f : Follows(f, days)
    BY Zenon DEF Starts, Follows
  <1>6. Follows(CHOOSE f : Follows(f, days), days)
    BY <1>3, Zenon
  <1>. QED  BY <1>4, <1>5, <1>6, Zenon

\* The text is what the counts by which blocks are removed say: each day once,
\* in order, with its separator and exactly its records (insertRecord, reload).
THEOREM TextStaysGrouped == DialogSpec => []TextIsGrouped
  <1>1. ASSUME DialogInv PROVE TextIsGrouped
    <2>. DEFINE blocks == shown.blocks
                days == shown.days
    <2>1. /\ blocks \in Seq(Blocks) /\ days \in Seq(DayCounts)
          /\ Len(blocks) \in Nat /\ Len(days) \in Nat
      BY <1>1 DEF DialogInv, TypeInv, Views
    <2>2. PICK start : Placed(blocks, days, start)
      BY <1>1 DEF DialogInv, DaysInv, Grouped
    <2>3. /\ Len(blocks) = Len(days) + shown.count /\ shown.count <= RecordsCountMax
          /\ Ascending(days) /\ \A n \in 1..Len(days) : days[n].count > 0
      BY <1>1 DEF DialogInv, ShownInv, Shape, DaysInv, Grouped
    <2>. HIDE DEF blocks, days
    <2>4. Starts(days) = start
      BY <2>1, <2>2, StartsAre
    <2>5. Len(blocks) = start[Len(days) + 1] - 1
      <3>1. start[Len(days) + 1] = Len(blocks) + 1
        BY <2>2 DEF Placed
      <3>. DEFINE len == Len(blocks)
                  end == start[Len(days) + 1]
      <3>2. len \in Nat /\ end = len + 1
        BY <2>1, <3>1
      <3>. HIDE DEF len, end
      <3>3. len = end - 1
        BY <3>2
      <3>. QED  BY <3>3 DEF len, end
    <2>6. \A n \in 1..Len(days) :
              /\ blocks[start[n]] = Separator(days[n].day)
              /\ \A i \in 1..days[n].count :
                     /\ blocks[start[n] + i].day = days[n].day
                     /\ blocks[start[n] + i].message # 0
      BY <2>2 DEF Placed, IsDay
    <2>7. \A m, n \in 1..Len(days) : m < n => days[m].day < days[n].day
      BY <2>3 DEF Ascending
    <2>. QED  BY <2>3, <2>4, <2>5, <2>6, <2>7, Zenon DEF TextIsGrouped, blocks, days
  <1>. QED  BY <1>1, LogsInvariant, PTL
=============================================================================
