-------------------------------- MODULE Logs --------------------------------
(***************************************************************************)
(* Log records: namespace Logs.  Any thread posts messages; a mutex guards *)
(* the recent records in memory and the log file of the day, and the       *)
(* notification about a record is sent after the mutex was released.       *)
(* After a restart recent records are restored from the files.             *)
(***************************************************************************)
EXTENDS Integers, Sequences

CONSTANTS
    Threads,            \* threads that post messages
    RecordsCountMax,    \* recent records kept in memory
    LogFilesAgeMax,     \* days
    LogFileTailMax,     \* lines that are whole in the last LogFileTailSizeMax bytes
    PostedMax, DaysMax  \* bounds of the model: messages, days

ASSUME LogsAssumption ==
    /\ RecordsCountMax \in Nat \ {0}
    /\ LogFilesAgeMax \in Nat
    /\ LogFileTailMax \in Nat /\ LogFileTailMax >= RecordsCountMax
    /\ PostedMax \in Nat /\ DaysMax \in Nat \ {0}

VARIABLES
    day,                \* QDate::currentDate()
    posted,             \* messages posted so far; a message is its number
    posting,            \* the record a thread has to notify about, or NoRecord
    records, lastRecordSerial,
    files,              \* lines of each log file, by its day
    openedFile,         \* the day of the file being written, NoFile if none is open
    saved               \* history: lines written to the files, with their days

logsVars == <<day, posted, posting, records, lastRecordSerial, files, openedFile, saved>>

Days == 1..DaysMax
NoFile == 0
NoRecord == [serial |-> 0, day |-> 0, message |-> 0]

Latest(n, seq) == SubSeq(seq, IF Len(seq) > n THEN Len(seq) - n + 1 ELSE 1, Len(seq))

-----------------------------------------------------------------------------
(* The files *)

RemoveOldLogs(lines) ==
    [date \in Days |-> IF day - date > LogFilesAgeMax THEN <<>> ELSE lines[date]]

\* writeToLogFile: a file that is not open, or of another day, is opened
\* first, which may fail; the line is not written then.
SaveToOpenedFile(message) ==   \* mutant
    LET file == IF openedFile = NoFile THEN day ELSE openedFile
    IN  /\ openedFile' = file
        /\ files' = [files EXCEPT ![file] = Append(@, message)]
        /\ saved' = Append(saved, [day |-> day, message |-> message])
Save(message) ==
    \/ /\ openedFile' = day
       /\ files' = [(IF openedFile = day THEN files ELSE RemoveOldLogs(files))
                        EXCEPT ![day] = Append(@, message)]
       /\ saved' = Append(saved, [day |-> day, message |-> message])
    \/ /\ openedFile # day
       /\ openedFile' = NoFile
       /\ UNCHANGED <<files, saved>>

ReadLogFile(lines, date) ==
    LET tail == Latest(LogFileTailMax, lines[date])
    IN  [i \in 1..Len(tail) |-> [day |-> date, message |-> tail[i]]]

\* restoreRecentRecords: from the latest file backwards until there are enough
LatestOfFile(room, read) == Latest(room, read)

RestoreRecentRecords(lines) ==
    LET Restored[date \in 1..DaysMax + 1] ==
            IF date > DaysMax THEN <<>>
            ELSE LET later == Restored[date + 1]
                 IN  LatestOfFile(RecordsCountMax - Len(later), ReadLogFile(lines, date))
                         \o later
    IN  Restored[1]

Numbered(restored) ==
    [i \in 1..Len(restored) |->
        [serial |-> i, day |-> restored[i].day, message |-> restored[i].message]]

-----------------------------------------------------------------------------
LogsInit ==
    /\ day = 1
    /\ posted = 0
    /\ posting = [thread \in Threads |-> NoRecord]
    /\ records = <<>> /\ lastRecordSerial = 0
    /\ files = [date \in Days |-> <<>>] /\ openedFile = NoFile
    /\ saved = <<>>

AppendRecord(record) == Latest(RecordsCountMax, Append(records, record))

\* post, while it holds the lock; warnings and errors are saved
Post(thread, save) ==
    /\ posted < PostedMax
    /\ posting[thread] = NoRecord
    /\ posted' = posted + 1
    /\ lastRecordSerial' = lastRecordSerial + 1
    /\ LET record == [serial |-> lastRecordSerial + 1, day |-> day, message |-> posted + 1]
       IN  /\ records' = AppendRecord(record)
           /\ posting' = [posting EXCEPT ![thread] = record]
    /\ IF save THEN Save(posted + 1) ELSE UNCHANGED <<files, openedFile, saved>>
    /\ UNCHANGED day

\* post, after it released the lock: recordPosted is emitted
Notify(thread) ==
    /\ posting[thread] # NoRecord
    /\ posting' = [posting EXCEPT ![thread] = NoRecord]
    /\ UNCHANGED <<day, posted, records, lastRecordSerial, files, openedFile, saved>>

\* The process ends in any state, or is killed; then init runs again.
Restart ==
    /\ posting' = [thread \in Threads |-> NoRecord]
    /\ openedFile' = NoFile
    /\ files' = RemoveOldLogs(files)
    /\ records' = Numbered(RestoreRecentRecords(files'))
    /\ lastRecordSerial' = Len(records')
    /\ UNCHANGED <<day, posted, saved>>

NextDay ==
    /\ day < DaysMax
    /\ day' = day + 1
    /\ UNCHANGED <<posted, posting, records, lastRecordSerial, files, openedFile, saved>>

LogsNext ==
    \/ \E thread \in Threads, save \in BOOLEAN : Post(thread, save)
    \/ \E thread \in Threads : Notify(thread)
    \/ NextDay
    \/ Restart

LogsSpec == LogsInit /\ [][LogsNext]_logsVars

-----------------------------------------------------------------------------
\* The lines written during the last days
KeptLines ==
    LET Kept[n \in 0..Len(saved)] ==
            IF n = 0 THEN <<>>
            ELSE IF day - saved[n].day <= LogFilesAgeMax THEN Append(Kept[n - 1], saved[n])
            ELSE Kept[n - 1]
    IN  Kept[Len(saved)]

\* A restart in any state would show the latest of the lines written during
\* the last days, in order, with their dates and with no line in between
\* missing, whatever threads, dates, failed writes and restarts there were; and
\* those that were restored and those that follow them are numbered without a
\* gap, so a reader that saw serial n saw everything up to n that is still kept
\* (restoreRecentRecords, append).
RestartShowsRecent ==
    /\ RestoreRecentRecords(RemoveOldLogs(files)) = Latest(RecordsCountMax, KeptLines)
    /\ \A i \in 1..Len(records) :
           records[i].serial = lastRecordSerial - Len(records) + i
=============================================================================
