----------------------------- MODULE LogsDialog -----------------------------
(***************************************************************************)
(* The log viewer: class LogsDialog shows the recent records, grouped by   *)
(* day, and follows the notifications about new ones.  Those of the main   *)
(* thread are delivered at once, those of other threads are queued to its  *)
(* event loop.                                                             *)
(* Receivers may post too (Logs.cpp:236), but the dialog is the only one   *)
(* and posts nothing: a message that Qt itself posts in the middle of      *)
(* insertRecord, about the text document, is not modelled.                 *)
(***************************************************************************)
EXTENDS Logs, SequencesExt

CONSTANT MainThread

ASSUME DialogAssumption == MainThread \in Threads

VARIABLES
    visible,    \* isVisible()
    queue,      \* notifications of other threads
    shown       \* what the dialog shows, see Empty

dialogVars == <<visible, queue, shown>>

\* blocks of the text document, m_dayRecordCounts, m_recordsCount and
\* m_lastRecordSerial; a date separator is a block without a message
Empty == [blocks |-> <<>>, days |-> <<>>, count |-> 0, last |-> 0]
Separator(date) == [day |-> date, message |-> 0]
Line(record) == [day |-> record.day, message |-> record.message]

-----------------------------------------------------------------------------
(* insertRecord *)

AddDay(d, date) ==
    IF d.days # <<>> /\ Last(d.days).day = date THEN d
    ELSE [d EXCEPT !.blocks = Append(@, Separator(date)),
                   !.days = Append(@, [day |-> date, count |-> 0])]

AddLine(d, record) ==
    [d EXCEPT !.blocks = Append(@, Line(record)),
              !.days[Len(d.days)].count = @ + 1,
              !.count = @ + 1,
              !.last = record.serial]

\* The first block is a separator, the oldest record follows it.
RemoveOldestOnly(d) ==   \* mutant
    [d EXCEPT !.blocks = RemoveAt(@, 2), !.days[1].count = @ - 1, !.count = @ - 1]
RemoveOldest(d) ==
    LET removed == [d EXCEPT !.blocks = RemoveAt(@, 2), !.days[1].count = @ - 1,
                             !.count = @ - 1]
    IN  IF removed.days[1].count > 0 THEN removed
        ELSE [removed EXCEPT !.blocks = Tail(@), !.days = Tail(@)]

InsertRecord(d, record) ==
    LET added == AddLine(AddDay(d, record.day), record)
    IN  IF added.count > RecordsCountMax THEN RemoveOldest(added) ELSE added

\* appendRecord
AppendAnyRecord(record) ==   \* mutant
    IF visible THEN InsertRecord(shown, record) ELSE shown
AppendNextOnly(record) ==   \* mutant
    IF ~visible \/ record.serial # shown.last + 1 THEN shown
    ELSE InsertRecord(shown, record)
AppendToShown(record) ==
    IF ~visible \/ record.serial <= shown.last THEN shown
    ELSE InsertRecord(shown, record)

\* reload
Reload ==
    LET Shown[n \in 0..Len(records)] ==
            IF n = 0 THEN Empty ELSE InsertRecord(Shown[n - 1], records[n])
    IN  Shown[Len(records)]

-----------------------------------------------------------------------------
DialogInit ==
    /\ LogsInit
    /\ visible = FALSE /\ queue = <<>> /\ shown = Empty

\* A thread is not interrupted between releasing the lock and emitting the
\* signal by its own work, but other threads may post in between.
DPost(thread) ==
    /\ \E save \in BOOLEAN : Post(thread, save)
    /\ UNCHANGED dialogVars

NotifyDirectly ==
    /\ shown' = AppendToShown(posting[MainThread])
    /\ Notify(MainThread)
    /\ UNCHANGED <<visible, queue>>

NotifyQueued(thread) ==
    /\ thread # MainThread
    /\ queue' = Append(queue, posting[thread])
    /\ Notify(thread)
    /\ UNCHANGED <<visible, shown>>

MainIsFree == posting[MainThread] = NoRecord

Deliver ==
    /\ MainIsFree /\ queue # <<>>
    /\ shown' = AppendToShown(Head(queue))
    /\ queue' = Tail(queue)
    /\ UNCHANGED <<logsVars, visible>>

Open ==
    /\ MainIsFree /\ ~visible
    /\ visible' = TRUE
    /\ shown' = Reload
    /\ UNCHANGED <<logsVars, queue>>

Close ==
    /\ MainIsFree /\ visible
    /\ visible' = FALSE
    /\ UNCHANGED <<logsVars, queue, shown>>

DRestart ==
    /\ Restart
    /\ visible' = FALSE /\ queue' = <<>> /\ shown' = Empty

DNextDay == NextDay /\ UNCHANGED dialogVars

DialogNext ==
    \/ \E thread \in Threads : DPost(thread) \/ NotifyQueued(thread)
    \/ NotifyDirectly
    \/ Deliver
    \/ Open \/ Close
    \/ DNextDay
    \/ DRestart

DialogSpec == DialogInit /\ [][DialogNext]_<<logsVars, dialogVars>>

-----------------------------------------------------------------------------
\* Where each day begins in the text, and the text ends
Starts(days) ==
    LET Start[n \in 1..Len(days) + 1] ==
            IF n = 1 THEN 1 ELSE Start[n - 1] + 1 + days[n - 1].count
    IN  Start

\* The text is what m_dayRecordCounts and m_recordsCount say: days in order,
\* each with its separator and its records, none of them empty.  Blocks are
\* removed by position, so a count that is wrong removes a wrong line.
TextIsGrouped ==
    LET days == shown.days
        start == Starts(days)
    IN  /\ Len(shown.blocks) = Len(days) + shown.count
        /\ Len(shown.blocks) = start[Len(days) + 1] - 1
        /\ shown.count <= RecordsCountMax
        /\ \A n \in 1..Len(days) :
               /\ days[n].count > 0
               /\ shown.blocks[start[n]] = Separator(days[n].day)
               /\ \A i \in 1..days[n].count :
                      /\ shown.blocks[start[n] + i].day = days[n].day
                      /\ shown.blocks[start[n] + i].message # 0
        /\ \A m, n \in 1..Len(days) : m < n => days[m].day < days[n].day

InOrder(blocks) ==
    \A i, j \in 1..Len(blocks) :
        (i < j /\ blocks[i].message # 0 /\ blocks[j].message # 0) =>
            blocks[i].message < blocks[j].message

\* No record is shown twice or above an older one, though a record may be
\* both loaded when the dialog opens and delivered later.
ShownInOrder == InOrder(shown.blocks)

IsQuiet == queue = <<>> /\ \A thread \in Threads : posting[thread] = NoRecord

\* Once all notifications are delivered, an open dialog ends with the latest
\* record.
LatestIsShown ==
    (visible /\ IsQuiet /\ records # <<>>) =>
        Last(shown.blocks) = Line(Last(records))

Lines(blocks) == SelectSeq(blocks, LAMBDA block : block.message # 0)

\* "shows recent log records, updated live": then it shows all of them.
RecentAreShown ==
    (visible /\ IsQuiet) =>
        Lines(shown.blocks) = [i \in 1..Len(records) |-> Line(records[i])]
=============================================================================
