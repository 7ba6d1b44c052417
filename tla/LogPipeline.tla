----------------------------- MODULE LogPipeline -----------------------------
(***************************************************************************)
(* The log pipeline of a Switchboard (gazoo_device/switchboard/            *)
(* log_process.py, and start_new_log, set_max_log_size and add_new_filter  *)
(* of switchboard.py).  Log lines wait in the log queue; LogWriterProcess  *)
(* appends them to the current log file and rotates it by size;            *)
(* LogFilterProcess follows the file, records events, and learns from      *)
(* marker lines in the file itself where the log continues.                *)
(*                                                                         *)
(* The filter reads a file in chunks; a chunk of several lines is the same *)
(* as as many one-line chunks, since it takes commands between chunks and  *)
(* a marker is the last line of its file.                                  *)
(***************************************************************************)
EXTENDS Naturals, Sequences, FiniteSets

CONSTANTS
  Bases,        \* log paths that start_new_log may be given
  FirstBase,    \* the log path the processes are created with
  MaxSizes,     \* values of max_log_size, counted in lines; 0 is "never rotate"
  MaxSuffix,    \* largest rotation number the 5-digit suffix pattern matches
  MaxLines,     \* bound: log lines produced
  MaxCalls      \* bound: calls of start_new_log, set_max_log_size, add_new_filter

ASSUME PipelineAssumption ==
  /\ FirstBase \in Bases /\ MaxSizes \subseteq Nat /\ MaxSizes # {}
  /\ MaxSuffix \in Nat /\ MaxLines \in Nat /\ MaxCalls \in Nat

VARIABLES
  produced, logQueue,             \* lines put so far, lines not yet written
  files,                          \* file name -> sequence of lines
  wAlive, wpc, wFile, wMax,       \* LogWriterProcess
  fAlive, fpc, fFile, fPos, fNext, fEvents, \* LogFilterProcess
  wBuf, wPipe, fBuf, fPipe,       \* command queues: feeder buffer and pipe
  mpc, target, calls,             \* the call in the main process
  recorded,                       \* history: events, in the order recorded
  unseen                          \* history: the filter's queue looked empty while
                                  \* a command was in the feeder buffer

queues == <<wBuf, wPipe, fBuf, fPipe>>
writer == <<wAlive, wpc, wFile, wMax>>
filter == <<fAlive, fpc, fFile, fPos, fNext, fEvents>>
main   == <<mpc, target, calls>>
vars   == <<produced, logQueue, files, writer, filter, queues, main, recorded, unseen>>

-----------------------------------------------------------------------------
(* File names: a log path, then rotation suffixes.                         *)

Name(b) == <<b>>
LastSuffix(n) == n[Len(n)]
HasCounter(n) == Len(n) > 1 /\ LastSuffix(n) <= MaxSuffix
\* get_next_log_filename: count the suffix up, or start one if the name has
\* none that get_log_filename_and_counter recognises.
GetNextLogFilename(n) ==
  IF HasCounter(n) THEN [n EXCEPT ![Len(n)] = @ + 1] ELSE Append(n, 1)

\* What LogWriterProcess puts in a file.
LogLine(id)   == [kind |-> "log", id |-> id]
MaxSizeLine   == [kind |-> "size", id |-> 0]
RotateLine    == [kind |-> "rotate", id |-> 0]
NewLogLine    == [kind |-> "new", id |-> 0]

\* codecs.open(path, "a") creates the file or continues it.
Opened(fs, n) ==
  [x \in DOMAIN fs \cup {n} |-> IF x \in DOMAIN fs THEN fs[x] ELSE <<>>]
Written(fs, n, line) == [fs EXCEPT ![n] = Append(@, line)]

Init ==
  /\ produced = 0 /\ logQueue = <<>>
  /\ files = [n \in {Name(FirstBase)} |-> <<>>] \* the writer's _pre_run_hook
  /\ wAlive = TRUE /\ wpc = "command" /\ wFile = Name(FirstBase)
  /\ wMax \in MaxSizes
  /\ fAlive = TRUE /\ fpc = "command" /\ fFile = Name(FirstBase) /\ fPos = 0
  /\ fNext = <<>> /\ fEvents = Name(FirstBase)
  /\ wBuf = <<>> /\ wPipe = <<>> /\ fBuf = <<>> /\ fPipe = <<>>
  /\ mpc = "idle" /\ target = FirstBase /\ calls = 0
  /\ recorded = <<>> /\ unseen = FALSE

-----------------------------------------------------------------------------
(* Producers and LogWriterProcess._do_work: one command, then one line.    *)

Produce == \* log_message() by a transport process or the main process
  /\ produced < MaxLines
  /\ produced' = produced + 1
  /\ logQueue' = Append(logQueue, produced + 1)
  /\ UNCHANGED <<files, writer, filter, queues, main, recorded, unseen>>

WriterNoCommand ==
  /\ wAlive /\ wpc = "command" /\ wPipe = <<>>
  /\ logQueue # <<>> \* otherwise the iteration only sleeps
  /\ wpc' = "line"
  /\ UNCHANGED <<produced, logQueue, files, wAlive, wFile, wMax, filter, queues, main,
                 recorded, unseen>>

WriterCommand ==
  /\ wAlive /\ wpc = "command" /\ wPipe # <<>>
  /\ wPipe' = Tail(wPipe)
  /\ wpc' = "line"
  /\ \/ /\ Head(wPipe).cmd = "MAX_LOG_SIZE"
        /\ files' = Written(files, wFile, MaxSizeLine)
        /\ wMax' = Head(wPipe).arg /\ UNCHANGED wFile
     \/ /\ Head(wPipe).cmd = "NEW_LOG_FILE"
        /\ wFile' = Name(Head(wPipe).arg)
        /\ files' = Opened(Written(files, wFile, NewLogLine), wFile')
        /\ UNCHANGED wMax
  /\ UNCHANGED <<produced, logQueue, wAlive, filter, wBuf, fBuf, fPipe, main, recorded,
                 unseen>>

\* _write_log_line, then _do_log_rotation.
MustRotate(size) == wMax # 0 /\ size >= wMax

\* Mutant: the file is changed without telling the filter.
RotateSilently(fs, n) == Opened(fs, GetNextLogFilename(n))
RotateTo(fs, n) == Opened(Written(fs, n, RotateLine), GetNextLogFilename(n))

WriterLine ==
  /\ wAlive /\ wpc = "line"
  /\ wpc' = "command"
  /\ IF logQueue = <<>> THEN UNCHANGED <<logQueue, files, wFile>>
     ELSE LET written == Written(files, wFile, LogLine(Head(logQueue)))
              rotate == MustRotate(Len(written[wFile]))
          IN /\ logQueue' = Tail(logQueue)
             /\ files' = IF rotate THEN RotateTo(written, wFile) ELSE written
             /\ wFile' = IF rotate THEN GetNextLogFilename(wFile) ELSE wFile
  /\ UNCHANGED <<produced, wAlive, wMax, filter, queues, main, recorded, unseen>>

-----------------------------------------------------------------------------
(* LogFilterProcess._do_work: one command, then one chunk.                 *)

FilterHasData == fFile \in DOMAIN files /\ fPos < Len(files[fFile])

FilterNoCommand ==
  /\ fAlive /\ fpc = "command" /\ fPipe = <<>>
  /\ FilterHasData \* otherwise the iteration only sleeps
  /\ fpc' = "read"
  /\ UNCHANGED <<produced, logQueue, files, writer, fAlive, fFile, fPos, fNext, fEvents,
                 queues, main, recorded, unseen>>

\* Mutant: the newest path is opened first.
PushPathLast(next, n) == Append(next, n)
\* NEW_LOG_FILE: _next_log_path.insert(0, data)
PushPath(next, n) == <<n>> \o next

FilterCommand ==
  /\ fAlive /\ fpc = "command" /\ fPipe # <<>>
  /\ fPipe' = Tail(fPipe)
  /\ fpc' = "read"
  /\ fNext' = IF Head(fPipe).cmd = "NEW_LOG_FILE"
              THEN PushPath(fNext, Name(Head(fPipe).arg))
              ELSE fNext \* ADD_NEW_FILTER: only the parser changes
  /\ UNCHANGED <<produced, logQueue, files, writer, fAlive, fFile, fPos, fEvents,
                 wBuf, wPipe, fBuf, main, recorded, unseen>>

\* The pending paths after _is_log_swap_or_rotation has seen a rotation marker.
NextAfterRotate == Append(fNext, GetNextLogFilename(fFile))

\* _open_next_log_file: pop the last pending path and start at its beginning.
OpenNextLogFile(next) ==
  /\ fFile' = next[Len(next)]
  /\ fNext' = SubSeq(next, 1, Len(next) - 1)
  /\ fPos' = 0

EventsAfterRotate == fEvents

FilterRead ==
  /\ fAlive /\ fpc = "read"
  /\ fpc' = "command"
  /\ IF ~FilterHasData THEN UNCHANGED <<fFile, fPos, fNext, fEvents, recorded>>
     ELSE LET line == files[fFile][fPos + 1]
          IN /\ recorded' = IF line.kind = "log"
                            THEN Append(recorded, [events |-> fEvents, id |-> line.id])
                            ELSE recorded
             /\ \/ /\ line.kind = "rotate"
                   /\ OpenNextLogFile(NextAfterRotate)
                   /\ fEvents' = EventsAfterRotate
                \/ /\ line.kind = "new" /\ fNext # <<>>
                   /\ OpenNextLogFile(fNext)
                   /\ fEvents' = fNext[Len(fNext)]
                \/ /\ line.kind \in {"log", "size"} \/ (line.kind = "new" /\ fNext = <<>>)
                   /\ fPos' = fPos + 1
                   /\ UNCHANGED <<fFile, fNext, fEvents>>
  /\ UNCHANGED <<produced, logQueue, files, writer, fAlive, queues, main, unseen>>

-----------------------------------------------------------------------------
(* The main process.                                                       *)

\* put_message(): into the feeder buffer.
SendToWriter(cmd) == wBuf' = Append(wBuf, cmd) /\ UNCHANGED wPipe
SendToFilter(cmd) == fBuf' = Append(fBuf, cmd) /\ UNCHANGED fPipe

Feed == \* feeder threads
  /\ \/ /\ wBuf # <<>> /\ wPipe' = Append(wPipe, Head(wBuf)) /\ wBuf' = Tail(wBuf)
        /\ UNCHANGED <<fBuf, fPipe>>
     \/ /\ fBuf # <<>> /\ fPipe' = Append(fPipe, Head(fBuf)) /\ fBuf' = Tail(fBuf)
        /\ UNCHANGED <<wBuf, wPipe>>
  /\ UNCHANGED <<produced, logQueue, files, writer, filter, main, recorded, unseen>>

NewCall == mpc = "idle" /\ calls < MaxCalls /\ calls' = calls + 1
\* GazooDeviceBase.start_new_log waits until the name, which has the time in it,
\* differs from the current one.
Fresh(b) == Name(b) \notin DOMAIN files /\ b # target

StartNewLog(b) ==
  /\ NewCall /\ wAlive /\ Fresh(b)
  /\ SendToFilter([cmd |-> "NEW_LOG_FILE", arg |-> b])
  /\ target' = b /\ mpc' = "newFilter"
  /\ UNCHANGED <<produced, logQueue, files, writer, filter, wBuf, wPipe, recorded, unseen>>

\* is_command_consumed() of the filter, then the writer is told.
NewLogToWriter ==
  /\ mpc = "newFilter" /\ fPipe = <<>>
  /\ SendToWriter([cmd |-> "NEW_LOG_FILE", arg |-> target])
  /\ mpc' = "newWriter"
  /\ unseen' = (unseen \/ fBuf # <<>>)
  /\ UNCHANGED <<produced, logQueue, files, writer, filter, fBuf, fPipe, target, calls,
                 recorded>>

NewLogReturns ==
  /\ \/ mpc = "newWriter" /\ wPipe = <<>> /\ mpc' = "newFile"
     \/ mpc = "newFile" /\ Name(target) \in DOMAIN files /\ mpc' = "idle"
  /\ UNCHANGED <<produced, logQueue, files, writer, filter, queues, target, calls, recorded,
                 unseen>>

SetMaxLogSize(size) ==
  /\ NewCall /\ wAlive
  /\ SendToWriter([cmd |-> "MAX_LOG_SIZE", arg |-> size])
  /\ mpc' = "writer"
  /\ UNCHANGED <<produced, logQueue, files, writer, filter, fBuf, fPipe, target, recorded,
                 unseen>>

AddNewFilter ==
  /\ NewCall /\ fAlive
  /\ SendToFilter([cmd |-> "ADD_NEW_FILTER", arg |-> target])
  /\ mpc' = "filter"
  /\ UNCHANGED <<produced, logQueue, files, writer, filter, wBuf, wPipe, target, recorded,
                 unseen>>

CallReturns ==
  /\ \/ mpc = "writer" /\ wPipe = <<>>
     \/ mpc = "filter" /\ fPipe = <<>>
  /\ mpc' = "idle"
  /\ UNCHANGED <<produced, logQueue, files, writer, filter, queues, target, calls, recorded,
                 unseen>>

\* A wait for consumption times out: the process is stopped.  A wait for the
\* new file times out: both are.
CallTimesOut ==
  /\ \/ mpc \in {"newFilter", "filter"} /\ fPipe # <<>>
        /\ fAlive' = FALSE /\ UNCHANGED wAlive
     \/ mpc \in {"newWriter", "writer"} /\ wPipe # <<>>
        /\ wAlive' = FALSE /\ UNCHANGED fAlive
     \/ mpc = "newFile" /\ Name(target) \notin DOMAIN files
        /\ wAlive' = FALSE /\ fAlive' = FALSE
  /\ mpc' = "idle"
  /\ UNCHANGED <<produced, logQueue, files, wpc, wFile, wMax, fpc, fFile, fPos, fNext,
                 fEvents, queues, target, calls, recorded, unseen>>

-----------------------------------------------------------------------------
WriterStep == WriterNoCommand \/ WriterCommand \/ WriterLine
FilterStep == FilterNoCommand \/ FilterCommand \/ FilterRead
MainStep   == NewLogToWriter \/ NewLogReturns \/ CallReturns \/ CallTimesOut
Next ==
  \/ Produce \/ WriterStep \/ FilterStep \/ Feed \/ MainStep \/ AddNewFilter
  \/ \E b \in Bases : StartNewLog(b)
  \/ \E size \in MaxSizes : SetMaxLogSize(size)

Spec == Init /\ [][Next]_vars

\* Both processes poll in an endless loop and the feeder threads run.
FairSpec == Spec /\ WF_vars(WriterStep) /\ WF_vars(FilterStep) /\ WF_vars(Feed)
                 /\ WF_vars(MainStep)

-----------------------------------------------------------------------------
TypeOK ==
  /\ produced \in 0..MaxLines
  /\ \A i \in DOMAIN logQueue : logQueue[i] \in 1..produced
  /\ wFile \in DOMAIN files /\ wMax \in MaxSizes
  /\ wAlive \in BOOLEAN /\ fAlive \in BOOLEAN
  /\ wpc \in {"command", "line"} /\ fpc \in {"command", "read"}
  /\ fPos \in 0..(IF fFile \in DOMAIN files THEN Len(files[fFile]) ELSE 0)
  /\ mpc \in {"idle", "newFilter", "newWriter", "newFile", "writer", "filter"}
  /\ target \in Bases /\ calls \in 0..MaxCalls

LinesOf(fs) == UNION {{fs[n][i] : i \in DOMAIN fs[n]} : n \in DOMAIN fs}

\* What the filter has recorded is a prefix of the log: through rotations and
\* log changes no line is filtered twice, out of order, or skipped, because
\* _next_log_path is a queue for new logs and a stack for rotations.
EventsAreLogPrefix == \A i \in DOMAIN recorded : recorded[i].id = i

\* The events of a log and of all its rotations are in the log's own event file.
EventsWithTheirLog ==
  \A i \in DOMAIN recorded : \A n \in DOMAIN files :
    (\E k \in DOMAIN files[n] : files[n][k] = LogLine(recorded[i].id))
      => recorded[i].events = Name(n[1])

\* A line that was written is filtered in the end, through rotations and log
\* changes, unless the filter was stopped or a command was still unseen.
EveryLineFiltered ==
  \A id \in 1..MaxLines :
    LogLine(id) \in LinesOf(files) ~> (Len(recorded) >= id \/ ~fAlive \/ unseen)

\* "the LogWriterProcess will only allow one or the other message to be written
\* to any given log file and not both".
OneMarkerPerFile ==
  \A n \in DOMAIN files :
    Cardinality({i \in DOMAIN files[n] : files[n][i].kind \in {"rotate", "new"}}) <= 1

\* Log and events agree at every moment: the events are a prefix of the log,
\* each in the event file of its log, and each log that was left says once
\* where the next one is.
LogsAgree == TypeOK /\ EventsAreLogPrefix /\ EventsWithTheirLog /\ OneMarkerPerFile
=============================================================================
