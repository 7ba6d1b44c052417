----------------------------- MODULE EventParser -----------------------------
(***************************************************************************)
(* The event file of a device and the questions that the main process asks *)
(* of it. The log filter process appends one JSON line for every log line  *)
(* that a filter matches; the main process reads the file with tac, grep,  *)
(* tail and head while it grows, so that it may see the last line half     *)
(* written, and tac then glues that half to the line before it. LogParser  *)
(* makes the same file from an old log, a chunk at a time.                 *)
(***************************************************************************)
EXTENDS Integers, Sequences, FiniteSets, SequencesExt, TLC

CONSTANTS
  EventKinds,      \* log lines: [has |-> filters that match, says |-> labels in its text]
  Cause, Effect,   \* the labels basic.reboot_trigger and basic.bootup
  Groups,          \* label -> groups in its regular expression
  FilterPaths,     \* filter arguments of the constructor: sequences of paths
  FilterFiles,     \* filter files that may be added
  LabelLists,      \* lists of labels that are asked for
  WaitLists,       \* lists of labels that are waited for
  LogTexts,        \* old logs: sequences over {"c", "x", "n"}, "c" what the filter Cause matches
  ChunkSize,       \* what LogParser reads at a time
  MaxEvents,       \* bound: lines in the event file
  MaxClock,        \* bound: host time
  MaxQueries,      \* bound: calls in a behaviour
  MaxWork          \* bound: ticks and lines in a behaviour, and twice the filter files and
                   \* closed switchboards

ASSUME ParserAssumption ==
  /\ MaxEvents \in Nat /\ MaxClock \in Nat /\ MaxQueries \in Nat /\ MaxWork \in Nat
  /\ ChunkSize \in Nat \ {0}
  /\ \A k \in EventKinds : k.has # {}

VARIABLES
  oldLog,     \* whether a LogParser owns the parser, or a device
  events,     \* complete lines of the event file, oldest first
  half,       \* the line being written: a sequence of at most one line
  exists,     \* whether the event file exists
  clock,      \* host time
  filters,    \* [main]: _filters_dict; [stray]: names that a refused file left here
              \* after the log filter process got its copy
  child,      \* the log filter process: [state, labels, inbox]
  changes,    \* filter files added and switchboards closed
  query,      \* the call in progress
  answer,     \* what the last step returned to the caller, and the file as it was
  queries     \* calls so far

epsVars == <<oldLog, events, half, exists, clock, filters, child, changes, query, answer, queries>>

NoTime == 0
NoLabels == <<"any">>   \* event_labels = None
Idle == [op |-> "idle"]
NothingAnswered == [op |-> "none"]
NoChild == [state |-> "none", labels |-> {}, inbox |-> <<>>]

-----------------------------------------------------------------------------
(* What the commands print, and what is made of it: outcomes, since each   *)
(* command and the wait for the file before it may time out.               *)

\* grep -w: the label as a word anywhere in the line, a filter name or the text.
EventHas(line, labels) == labels = {"any"} \/ labels \cap (line.has \cup line.says) # {}

\* tac: newest first. A half line has no newline of its own.
Glued(old, new) == [old EXCEPT !.ok = FALSE, !.has = @ \cup new.has, !.says = @ \cup new.says]
Tac == IF half = <<>> THEN Reverse(events)
       ELSE IF events = <<>> THEN <<[half[1] EXCEPT !.ok = FALSE]>>
       ELSE <<Glued(Last(events), half[1])>> \o Tail(Reverse(events))
Cat == IF half = <<>> THEN events ELSE Append(events, [half[1] EXCEPT !.ok = FALSE])
Head_n(s, n) == SubSeq(s, 1, IF n < Len(s) THEN n ELSE Len(s))
Beginnings(s) == {Head_n(s, k) : k \in 0..Len(s)}
Grep(lines, labels) == SelectSeq(lines, LAMBDA line : EventHas(line, labels))

Outcome(list, timedout) == [list |-> list, timedout |-> timedout]
\* _wait_for_event_file finds no file in time; nothing is read.
NoFileInTime == Outcome(<<>>, TRUE)

\* Lines that are no JSON are skipped, a start time drops what is older, and only
\* the labels asked for are kept.
get_events_from_json_output(lines, labels, start) ==
  LET picked == SelectSeq(lines, LAMBDA line : line.ok /\ line.t >= start)
  IN  [i \in DOMAIN picked |-> IF labels = {"any"} THEN picked[i]
                               ELSE [picked[i] EXCEPT !.has = @ \cap labels]]

\* tail -n 1, or tac and grep -m 1. A grep that is killed has printed its line or nothing.
get_last_event_of(label) ==
  LET line == Head_n(IF label = "any" THEN Reverse(Cat) ELSE Grep(Tac, {label}), 1)
      found == get_events_from_json_output(line, {label}, NoTime)
  IN  {NoFileInTime} \cup
      IF ~exists THEN {}
      ELSE {Outcome(found, FALSE)} \cup IF label = "any" THEN {} ELSE {Outcome(found, TRUE)}

\* A grep that is killed has printed the beginning of its output: the oldest lines.
get_all_event_history(labels, start) ==
  LET Events(lines) == get_events_from_json_output(lines, ToSet(labels), start)
      lines == Grep(Cat, ToSet(labels))
  IN  {NoFileInTime} \cup
      IF ~exists THEN {}
      ELSE IF labels = NoLabels THEN {Outcome(Events(Tac), FALSE)}
      ELSE IF labels = <<>> THEN {Outcome(<<>>, FALSE)} \* grep takes the path for its pattern
      ELSE {Outcome(Events(Reverse(lines)), FALSE)}
           \cup {Outcome(Events(Reverse(cut)), TRUE) : cut \in Beginnings(lines)}

\* tac and grep -m, or head -n.
get_limited_event_history(labels, limit) ==
  LET Events(lines) == get_events_from_json_output(lines, ToSet(labels), NoTime)
      lines == Head_n(Grep(Tac, ToSet(labels)), limit)
  IN  {NoFileInTime} \cup
      IF ~exists THEN {}
      ELSE IF labels = <<>> THEN {Outcome(<<>>, FALSE)} \* grep without a pattern
      ELSE {Outcome(Events(lines), FALSE)}
           \cup {Outcome(Events(cut), TRUE) : cut \in Beginnings(lines)}

get_event_history_count_of(label) ==
  {[n |-> 0, timedout |-> TRUE]} \cup
  IF exists THEN {[n |-> Len(Grep(Cat, {label})), timedout |-> b] : b \in BOOLEAN} ELSE {}

-----------------------------------------------------------------------------
(* get_unmatched_events: effects, newest first, each take the nearest      *)
(* cause before them.                                                      *)

\* Mutant: takes the earliest cause, not the nearest.
earliest_datetime(times, target) ==
  LET before == SelectSeq(times, LAMBDA t : t < target)
  IN  CHOOSE t \in ToSet(before) : \A u \in ToSet(before) : t <= u
nearest_datetime(times, target) ==
  LET before == SelectSeq(times, LAMBDA t : t < target)
  IN  CHOOSE t \in ToSet(before) : \A u \in ToSet(before) : u <= t
IndexOf(s, x) == CHOOSE i \in DOMAIN s : s[i] = x /\ \A j \in 1..(i - 1) : s[j] # x
WithoutFirst(s, x) == IF x \in ToSet(s) THEN RemoveAt(s, IndexOf(s, x)) ELSE s

\* nearest_datetime raises when no cause is left before the effect: the loop ends.
MatchOne(causes, m, effect) ==
  IF m.over \/ ~ \E i \in DOMAIN m.times : m.times[i] < effect.t THEN [m EXCEPT !.over = TRUE]
  ELSE LET t == nearest_datetime(m.times, effect.t)
           cause == causes[IndexOf([i \in DOMAIN causes |-> causes[i].t], t)]
       IN  [m EXCEPT !.times = WithoutFirst(@, t),
                     !.pairs = Append(@, [delta |-> effect.t - t, cause |-> cause, effect |-> effect])]

EventMatches(causes, effects) ==
  FoldLeft(LAMBDA m, e : MatchOne(causes, m, e),
           [times |-> [i \in DOMAIN causes |-> causes[i].t], pairs |-> <<>>, over |-> FALSE],
           effects).pairs

StrikeOut(rest, pair) ==
  IF rest.causes = <<>> \/ rest.effects = <<>> THEN rest
  ELSE [causes |-> WithoutFirst(rest.causes, pair.cause),
        effects |-> WithoutFirst(rest.effects, pair.effect)]

\* A history that timed out counts as an empty list of what remains.
Unmatched(causes, effects) ==
  LET usable == IF causes.timedout THEN <<>> ELSE causes.list
      pairs == SortSeq(EventMatches(usable, effects.list), LAMBDA p, q : p.delta < q.delta)
  IN  FoldLeft(StrikeOut, [causes |-> usable,
                           effects |-> IF effects.timedout THEN <<>> ELSE effects.list], pairs)

-----------------------------------------------------------------------------
(* Filter files: [json |-> named so, loads |-> readable, of version 1 and  *)
(* with a list of filters, filters |-> [name, ok]]. Loading goes on from   *)
(* [names, ok] and stops at the first error.                               *)

add_filter(acc, f) ==
  IF acc.ok /\ f.ok /\ f.name \notin acc.names THEN [acc EXCEPT !.names = @ \cup {f.name}]
  ELSE [acc EXCEPT !.ok = FALSE]
load_filter_file(acc, file) ==
  IF acc.ok /\ file.loads THEN FoldLeft(add_filter, acc, file.filters)
  ELSE [acc EXCEPT !.ok = FALSE]
load_filter_directory(acc, files) ==
  FoldLeft(load_filter_file, acc, SelectSeq(files, LAMBDA f : f.json))
load_filters(paths) ==
  LET Load(acc, path) == CASE path.is = "missing"   -> [acc EXCEPT !.ok = FALSE]
                           [] path.is = "directory" -> load_filter_directory(acc, path.files)
                           [] path.is = "file"      -> load_filter_file(acc, path.files[1])
  IN  FoldLeft(Load, [names |-> {}, ok |-> TRUE], paths)

\* The constructor raises when a filter path does not load: then there is no parser.
ParserInit ==
  /\ oldLog \in BOOLEAN
  /\ events = <<>> /\ half = <<>> /\ exists = FALSE /\ clock = 0
  /\ \E paths \in FilterPaths :
       load_filters(paths).ok /\ filters = [main |-> load_filters(paths).names, stray |-> {}]
  /\ child = NoChild /\ changes = 0
  /\ query = Idle /\ answer = NothingAnswered /\ queries = 0

-----------------------------------------------------------------------------
(* The log filter process and the clock.                                   *)

Work == clock + Len(events \o half) + 2 * changes
CallsWait == answer' = NothingAnswered /\ UNCHANGED <<oldLog, query, queries>>
File == UNCHANGED <<events, half, exists>>
LoadedFilters == UNCHANGED <<filters, child, changes>>

Tick ==
  /\ ~oldLog /\ clock < MaxClock /\ Work < MaxWork /\ clock' = clock + 1
  /\ File /\ LoadedFilters /\ CallsWait

\* The switchboard is made when it is first used; its log filter process gets a
\* copy of the parser.
CreateSwitchboard ==
  /\ ~oldLog /\ query = Idle /\ child.state = "none"
  /\ child' = [NoChild EXCEPT !.state = "up", !.labels = filters.main]
  /\ filters' = [filters EXCEPT !.stray = {}]
  /\ File /\ UNCHANGED <<clock, changes>> /\ CallsWait

\* The process that ends closes its files, and removes an event file with nothing in it.
CloseFiles == half = <<>> /\ exists' = (exists /\ events # <<>>) /\ UNCHANGED <<events, half, clock>>
CloseSwitchboard ==
  /\ child.state # "none" /\ query = Idle /\ Work + 1 < MaxWork
  /\ child' = NoChild /\ changes' = changes + 1 /\ UNCHANGED filters
  /\ CloseFiles /\ CallsWait

OpenEventFile ==
  /\ child.state = "up" /\ ~exists /\ exists' = TRUE
  /\ UNCHANGED <<events, half, clock>> /\ LoadedFilters /\ CallsWait

generate_event_data(kind, t) ==
  [t |-> t, has |-> kind.has \cap (IF oldLog THEN filters.main ELSE child.labels),
   says |-> kind.says, ok |-> TRUE]

\* process_line: a line that some filter matches becomes an event, written and flushed.
ProcessLine(kind, slowly) ==
  /\ child.state = "up" /\ exists /\ half = <<>>
  /\ Len(events) < MaxEvents /\ Work < MaxWork
  /\ LET line == generate_event_data(kind, clock)
     IN  /\ line.has # {}
         /\ IF slowly THEN half' = <<line>> /\ UNCHANGED events
            ELSE events' = Append(events, line) /\ UNCHANGED half
  /\ UNCHANGED <<exists, clock>> /\ LoadedFilters /\ CallsWait

WriteEnds ==
  /\ half # <<>> /\ events' = events \o half /\ half' = <<>>
  /\ UNCHANGED <<exists, clock>> /\ LoadedFilters /\ CallsWait

\* CMD_ADD_NEW_FILTER, between two lines.
ChildLoadsFilters ==
  /\ child.state = "up" /\ child.inbox # <<>> /\ half = <<>>
  /\ child' = [child EXCEPT !.inbox = Tail(@),
                 !.labels = load_filter_file([names |-> @, ok |-> TRUE], Head(child.inbox)).names]
  /\ File /\ UNCHANGED <<clock, filters, changes>> /\ CallsWait

-----------------------------------------------------------------------------
(* The calls.                                                              *)

Still == File /\ UNCHANGED <<oldLog, clock>> /\ LoadedFilters
Start(q) == query' = q /\ answer' = NothingAnswered /\ queries' = queries + 1 /\ Still
Continue(q) == query' = q /\ answer' = NothingAnswered /\ Still /\ UNCHANGED queries
AnswerNow(a) == a @@ [file |-> events, torn |-> half # <<>>]
Return(a) == query' = Idle /\ answer' = AnswerNow(a) /\ Still /\ UNCHANGED queries
\* A call that reads the file once, or not at all.
Answer(a) == answer' = AnswerNow(a) /\ queries' = queries + 1 /\ Still /\ UNCHANGED query

\* verify_event_labels: a label that no filter has raises ParserError.
verify_event_labels(labels) == ToSet(labels) \subseteq filters.main
ParserError == [op |-> "ParserError"]

History(labels, start, count) ==
  IF start # NoTime THEN get_all_event_history(labels, start)
  ELSE IF count > 0 THEN get_limited_event_history(labels, count)
  ELSE get_all_event_history(labels, NoTime)

GetEventHistory(labels, start, count) ==
  IF labels \notin {NoLabels, <<>>} /\ ~verify_event_labels(labels) THEN Answer(ParserError)
  ELSE \E r \in History(labels, start, count) :
         Answer([op |-> "history", list |-> r.list, timedout |-> r.timedout,
                 asked |-> [labels |-> labels, start |-> start, count |-> count]])

GetEventHistoryCount(label) ==
  IF ~verify_event_labels(<<label>>) THEN Answer(ParserError)
  ELSE \E r \in get_event_history_count_of(label) :
         Answer([op |-> "count", n |-> r.n, timedout |-> r.timedout, label |-> label])

\* get_event_labels and get_event_label_dict: the labels that match a pattern.
GetEventLabels(matches) == Answer([op |-> "labels", labels |-> filters.main \cap matches])

\* One lookup per label, each at its own moment.
GetLastEvent(labels) ==
  IF labels # NoLabels /\ ~verify_event_labels(labels) THEN Answer(ParserError)
  ELSE Start([op |-> "last", labels |-> labels, i |-> 1, found |-> <<>>, timedout |-> FALSE])

ReadLast ==
  /\ query.op = "last" /\ query.i <= Len(query.labels)
  /\ \E r \in get_last_event_of(query.labels[query.i]) :
       Continue([query EXCEPT !.i = @ + 1, !.timedout = @ \/ r.timedout,
                              !.found = Append(@, [list |-> r.list, size |-> Len(events),
                                                   torn |-> half # <<>>])])
LastReturns ==
  /\ query.op = "last" /\ query.i > Len(query.labels)
  /\ Return([op |-> "last", found |-> query.found, timedout |-> query.timedout,
             labels |-> query.labels])

\* get_last_event_state: a group of the label's match; KeyError when the line that
\* grep found has the label in its text only.
GetLastEventState(label, group_index, raise_error) ==
  IF ~verify_event_labels(<<label>>) THEN Answer(ParserError)
  ELSE \E r \in get_last_event_of(label) :
    LET none == IF raise_error THEN "ParserError" ELSE ""
        says == IF r.list = <<>> THEN none
                ELSE IF label \notin r.list[1].has THEN "KeyError"
                ELSE IF group_index < Groups[label] THEN "group" ELSE none
    IN  Answer([op |-> "state", says |-> says, label |-> label, timedout |-> r.timedout])

GetUnmatchedEvents ==
  IF ~verify_event_labels(<<Cause>>) THEN Answer(ParserError)
  ELSE Start([op |-> "unmatched", causes |-> <<>>])
GetUnexpectedReboots == GetUnmatchedEvents   \* which keeps the effects that remain

ReadCauses ==
  /\ query = [op |-> "unmatched", causes |-> <<>>]
  /\ \E r \in get_all_event_history(<<Cause>>, NoTime) : Continue([query EXCEPT !.causes = <<r>>])
ReadEffects ==
  /\ query.op = "unmatched" /\ query.causes # <<>>
  /\ IF ~verify_event_labels(<<Effect>>) THEN Return(ParserError)
     ELSE \E r \in get_all_event_history(<<Effect>>, NoTime) :
            Return([op |-> "unmatched", left |-> Unmatched(query.causes[1], r),
                    causes |-> query.causes[1], effects |-> r])

-----------------------------------------------------------------------------
(* wait_for_event_labels. In order, each label is waited for by a call of  *)
(* _find_all_event_labels of its own, from the time of the one before.     *)

WaitAnswer(q, found) ==
  [op |-> "wait", found |-> found, labels |-> q.labels, start |-> q.start, inOrder |-> q.inOrder,
   round |-> q.round]

\* found FALSE stands for the ParserError of raise_error as well.
\* round: events when the last round of lookups began; -1 before the first, or when a
\* lookup of it timed out or met a half written line.
WaitForEventLabels(labels, start, inOrder) ==
  LET q == [op |-> "wait", labels |-> labels, start |-> start, inOrder |-> inOrder, at |-> 1,
            looking |-> FALSE, i |-> 1, since |-> start, latest |-> start, found |-> {},
            timedout |-> FALSE, round |-> -1]
  IN  IF ~verify_event_labels(labels) THEN Answer(ParserError)
      ELSE IF inOrder /\ labels = <<>> THEN Answer(WaitAnswer(q, TRUE))
      ELSE Start(q)

LabelsWanted == IF query.inOrder THEN <<query.labels[query.at]>> ELSE query.labels

NotLooking == [query EXCEPT !.looking = FALSE, !.i = 1, !.found = {}, !.timedout = FALSE]

\* The end of _find_all_event_labels, and of _find_event_labels_in_order around it.
FindReturns(found) ==
  IF found /\ query.inOrder /\ query.at < Len(query.labels)
  THEN Continue([NotLooking EXCEPT !.at = @ + 1, !.since = query.latest])
  ELSE Return(WaitAnswer(query, found))

\* while not all_found and time.time() < end_time; in order, the time may be up at once.
WaitRound ==
  /\ query.op = "wait" /\ ~query.looking
  /\ \/ FindReturns(FALSE)
     \/ Continue([query EXCEPT !.looking = TRUE, !.round = Len(events)])

Recent(last, start) == last # <<>> /\ last[1].t >= start

WaitLookup ==
  /\ query.op = "wait" /\ query.looking /\ query.i <= Len(LabelsWanted)
  /\ \E r \in get_last_event_of(LabelsWanted[query.i]) :
       LET found == Recent(r.list, query.since)
       IN  Continue([query EXCEPT !.i = @ + 1, !.timedout = @ \/ r.timedout,
                       !.found = IF found THEN @ \cup {LabelsWanted[query.i]} ELSE @,
                       !.latest = IF found /\ query.inOrder /\ r.list[1].t > @ THEN r.list[1].t ELSE @,
                       !.round = IF r.timedout \/ half # <<>> THEN -1 ELSE @])

AllFound == ~query.timedout /\ Cardinality(query.found) = Len(LabelsWanted)
WaitRoundEnds ==
  /\ query.op = "wait" /\ query.looking /\ query.i > Len(LabelsWanted)
  /\ IF AllFound THEN FindReturns(TRUE) ELSE Continue(NotLooking)

-----------------------------------------------------------------------------
(* add_new_filter of the device.                                           *)

\* This process loads the file and sends it on to the log filter process, if the
\* switchboard was ever used; a file that is refused half way leaves its first filters here.
AddNewFilter(file) ==
  LET loaded == load_filter_file([names |-> filters.main, ok |-> TRUE], file)
  IN  /\ Work + 1 < MaxWork /\ changes' = changes + 1
      /\ filters' = [main |-> loaded.names,
                     stray |-> filters.stray \cup IF loaded.ok \/ child.state # "up" THEN {}
                                                  ELSE loaded.names \ filters.main]
      /\ IF loaded.ok /\ child.state = "up"
         THEN /\ child' = [child EXCEPT !.inbox = Append(@, file)] /\ query' = [op |-> "adding"]
              /\ answer' = NothingAnswered
         ELSE /\ UNCHANGED <<child, query>>
              /\ answer' = AnswerNow([op |-> IF ~loaded.ok THEN "ParserError"
                                            ELSE IF child.state = "dead" THEN "RuntimeError"
                                            ELSE "added"])
      /\ File /\ UNCHANGED <<oldLog, clock, queries>>

AddReturns == query.op = "adding" /\ child.inbox = <<>> /\ Return([op |-> "added"])
\* The command was not taken in time: the process is stopped.
AddTimesOut ==
  /\ query.op = "adding" /\ child.inbox # <<>>
  /\ child' = [child EXCEPT !.state = "dead", !.inbox = <<>>] /\ CloseFiles
  /\ query' = Idle /\ answer' = AnswerNow([op |-> "ProcessCommunicationError"])
  /\ UNCHANGED <<oldLog, filters, changes, queries>>

-----------------------------------------------------------------------------
(* LogParser: an old log, a chunk at a time.                               *)

\* NewlineFramer.get_lines: the search begins after what was buffered before.
GetLines(s, begin) ==
  LET ends == SelectSeq([i \in 1..Len(s) |-> i], LAMBDA i : i > begin /\ s[i] = "n")
      from(k) == IF k = 1 THEN 1 ELSE ends[k - 1] + 1
  IN  [whole |-> [k \in DOMAIN ends |-> SubSeq(s, from(k), ends[k])],
       rest |-> SubSeq(s, from(Len(ends) + 1), Len(s))]

\* The event file must not exist yet.
LogParser(text) ==
  IF exists THEN Answer(ParserError)
  ELSE /\ exists' = TRUE
       /\ query' = [op |-> "parse", text |-> text, at |-> 0, buffered |-> <<>>, lines |-> <<>>]
       /\ answer' = NothingAnswered /\ queries' = queries + 1
       /\ UNCHANGED <<oldLog, events, half, clock>> /\ LoadedFilters

Caused(line) == [has |-> IF "c" \in ToSet(line) THEN {Cause} ELSE {}, says |-> {}]
EventsOf(lines) ==
  SelectSeq([i \in DOMAIN lines |-> generate_event_data(Caused(lines[i]), NoTime)],
            LAMBDA e : e.has # {})

ParseChunk ==
  /\ query.op = "parse" /\ query.at < Len(query.text)
  /\ LET chunk == Head_n(SubSeq(query.text, query.at + 1, Len(query.text)), ChunkSize)
         got == GetLines(query.buffered \o chunk, Len(query.buffered))
     IN  /\ query' = [query EXCEPT !.at = @ + Len(chunk), !.buffered = got.rest,
                                   !.lines = @ \o got.whole]
         /\ events' = events \o EventsOf(got.whole)
  /\ answer' = NothingAnswered /\ UNCHANGED <<oldLog, half, exists, clock, queries>> /\ LoadedFilters
ParseEnds ==
  /\ query.op = "parse" /\ query.at >= Len(query.text)
  /\ Return([op |-> "parse", lines |-> query.lines, text |-> query.text, rest |-> query.buffered])

\* get_last_event and get_event_history_count pass the name of the event file to
\* methods that take none, and fail with a TypeError.
LogParserLastEvent(labels) ==
  Answer(IF labels # NoLabels /\ ~verify_event_labels(labels) THEN ParserError
         ELSE [op |-> "TypeError"])
LogParserCount(label) ==
  Answer(IF ~verify_event_labels(<<label>>) THEN ParserError ELSE [op |-> "TypeError"])
LogParserHistory(labels, count) ==
  IF labels \notin {NoLabels, <<>>} /\ ~verify_event_labels(labels) THEN Answer(ParserError)
  ELSE GetEventHistory(labels, NoTime, count)

-----------------------------------------------------------------------------
AskDevice ==
  \/ \E ls \in LabelLists \cup {NoLabels, <<>>} :
       \/ \E start \in 0..clock, n \in 0..1 : GetEventHistory(ls, start, n)
       \/ GetLastEvent(ls)
  \/ \E label \in {Cause, Effect} : GetEventHistoryCount(label)
  \/ \E label \in DOMAIN Groups, group_index \in 0..1, raise_error \in BOOLEAN :
       GetLastEventState(label, group_index, raise_error)
  \/ GetEventLabels({Cause}) \/ GetUnexpectedReboots
  \/ \E ls \in WaitLists, start \in {NoTime, clock}, inOrder \in BOOLEAN :
       WaitForEventLabels(ls, start, inOrder)

AskOldLog ==
  \/ \E text \in LogTexts : LogParser(text)
  \/ \E ls \in LabelLists \cup {NoLabels}, n \in 0..1 :
       LogParserLastEvent(ls) \/ LogParserHistory(ls, n)
  \/ LogParserCount(Cause)

ParserNext ==
  \/ Tick \/ CreateSwitchboard \/ CloseSwitchboard \/ OpenEventFile \/ WriteEnds \/ ChildLoadsFilters
  \/ \E k \in EventKinds, slowly \in BOOLEAN : ProcessLine(k, slowly)
  \/ query = Idle /\ queries < MaxQueries /\ (IF oldLog THEN AskOldLog ELSE AskDevice)
  \/ ~oldLog /\ query = Idle /\ \E file \in FilterFiles : AddNewFilter(file)
  \/ ReadLast \/ LastReturns \/ ReadCauses \/ ReadEffects
  \/ WaitRound \/ WaitLookup \/ WaitRoundEnds \/ AddReturns \/ AddTimesOut
  \/ ParseChunk \/ ParseEnds

ParserSpec == ParserInit /\ [][ParserNext]_epsVars

-----------------------------------------------------------------------------
(* Properties.                                                             *)

IsLine(e) == e.t \in 0..clock /\ e.has # {} /\ e.has \subseteq filters.main /\ e.ok

\* State is of its type: lines are whole, in the order of their times, and of
\* filters that the main process knows as well.
ParserTypeOK ==
  /\ \A i \in DOMAIN events : IsLine(events[i])
  /\ \A i, j \in DOMAIN events : i < j => events[i].t <= events[j].t
  /\ Len(half) <= 1 /\ (half # <<>> => IsLine(half[1]) /\ child.state = "up")
  /\ events # <<>> => exists
  /\ clock \in 0..MaxClock /\ queries \in 0..MaxQueries /\ Work \in 0..MaxWork
  /\ child.state \in {"none", "up", "dead"} /\ Len(child.inbox) <= 1
  /\ query.op \in {"idle", "last", "unmatched", "wait", "adding", "parse"}

Pick(s, labels) ==
  [i \in DOMAIN s |-> IF labels = {"any"} THEN s[i] ELSE [s[i] EXCEPT !.has = @ \cap labels]]
NewestFirst(file, labels, start) ==
  Pick(Reverse(SelectSeq(file, LAMBDA e : EventHas(e, labels) /\ e.t >= start)), labels)

\* get_event_history and get_event_history_count answer from the file as it was at one moment:
\* the events that match, newest first, no more than asked for. A half written last line costs
\* the newest event at most, or one place of the count; nothing garbled is ever returned, and a
\* history that timed out has events that match, in order.
HistoryIsTheFile ==
  /\ answer.op = "history" =>
       LET q == answer.asked
           full == NewestFirst(answer.file, ToSet(q.labels), q.start)
           n == IF q.start = NoTime /\ q.count > 0 /\ q.count < Len(full) THEN q.count ELSE Len(full)
           slack == IF answer.torn THEN 1 ELSE 0
       IN  IF answer.timedout
           THEN \E from \in 1..(Len(full) + 1), to \in 0..Len(full) :
                  answer.list = SubSeq(full, from, to)
           ELSE \E from \in 1..(1 + slack), to \in (n - slack)..n :
                  answer.list = SubSeq(full, from, to) /\ Len(answer.list) >= n - slack
  /\ answer.op = "count" /\ ~answer.timedout =>
       answer.n - Len(NewestFirst(answer.file, {answer.label}, NoTime))
         \in 0..(IF answer.torn THEN 1 ELSE 0)

\* get_last_event returns for every label the newest event at the moment of that lookup, never an
\* older one; a line being written may only hide it. get_last_event_state fails with KeyError
\* only for a line that has the label in its text and not among its filters.
LastIsNewest ==
  /\ answer.op = "last" => \A i \in DOMAIN answer.found :
       LET f == answer.found[i]
           full == NewestFirst(SubSeq(answer.file, 1, f.size), {answer.labels[i]}, NoTime)
       IN  f.list = Head_n(full, 1) \/ (f.list = <<>> /\ (f.torn \/ answer.timedout))
  /\ answer.op = "state" =>
       LET full == NewestFirst(answer.file, {answer.label}, NoTime)
       IN  /\ answer.says = "group" => full # <<>> /\ answer.label \in full[1].has
           /\ answer.says = "KeyError" => answer.label \in full[1].says \ full[1].has

MaxMatching(causes, effects) ==
  LET Can(S) == \E f \in [S -> DOMAIN causes] :
                  /\ \A i, j \in S : i # j => f[i] # f[j]
                  /\ \A i \in S : causes[f[i]].t < effects[i].t
      sizes == {Cardinality(S) : S \in {T \in SUBSET DOMAIN effects : Can(T)}}
  IN  CHOOSE n \in sizes : \A k \in sizes : k <= n
DistinctTimes(s) == \A i, j \in DOMAIN s : i # j => s[i].t # s[j].t

\* get_unmatched_events leaves as few events unmatched as any pairing of causes with later
\* effects could, on both sides, whenever the causes have times of their own and neither
\* history timed out: no reboot is called unexpected that a trigger can account for.
UnmatchedIsMinimal ==
  answer.op = "unmatched" /\ ~answer.causes.timedout /\ ~answer.effects.timedout
    /\ DistinctTimes(answer.causes.list) =>
    LET k == MaxMatching(answer.causes.list, answer.effects.list)
    IN  /\ Len(answer.left.causes) = Len(answer.causes.list) - k
        /\ Len(answer.left.effects) = Len(answer.effects.list) - k
        /\ ToSet(answer.left.effects) \subseteq ToSet(answer.effects.list)

\* wait_for_event_labels says found only when there is an event for every label that is not
\* older than the start, and with in_order, events whose times are in the order of the labels.
FoundIsTrue ==
  answer.op = "wait" /\ answer.found =>
    \E f \in [DOMAIN answer.labels -> DOMAIN answer.file] : \A i \in DOMAIN answer.labels :
      LET e == answer.file[f[i]]
      IN  /\ EventHas(e, {answer.labels[i]}) /\ e.t >= answer.start
          /\ answer.inOrder => \A j \in 1..(i - 1) : answer.file[f[j]].t <= e.t

\* wait_for_event_labels gives up only when some label had no event when its last round of
\* lookups began, unless a lookup timed out or met a half written line, a label was given
\* twice, or the time was up before the first round.
MissedIsMissed ==
  answer.op = "wait" /\ ~answer.found /\ ~answer.inOrder /\ answer.round >= 0 =>
    \/ Cardinality(ToSet(answer.labels)) < Len(answer.labels)
    \/ \E l \in ToSet(answer.labels) :
         NewestFirst(SubSeq(answer.file, 1, answer.round), {l}, answer.start) = <<>>

\* The labels that the device accepts in questions are those that the log filter process looks
\* for or is about to, but for the names that a file refused half way left behind.
LabelsAreFiltered ==
  child.state = "up" =>
    filters.main \ filters.stray =
      child.labels \cup UNION {{f.name : f \in ToSet(child.inbox[i].filters)}
                              : i \in DOMAIN child.inbox}

\* LogParser hands every complete line of the log to the filters, whole, once and in order,
\* wherever the chunks end; only an unterminated last line is left over.
ParsesWholeLines ==
  answer.op = "parse" =>
    /\ FlattenSeq(answer.lines) \o answer.rest = answer.text
    /\ "n" \notin ToSet(answer.rest)
    /\ \A i \in DOMAIN answer.lines :
         \A j \in DOMAIN answer.lines[i] : (answer.lines[i][j] = "n") <=> (j = Len(answer.lines[i]))
    /\ Len(answer.file) = Cardinality({i \in DOMAIN answer.lines : "c" \in ToSet(answer.lines[i])})

\* Every question is answered from the events that the file has at a moment of
\* the question, although it grows and its last line may be half written.
AnswersFromTheFile ==
  /\ ParserTypeOK
  /\ HistoryIsTheFile
  /\ LastIsNewest
  /\ UnmatchedIsMinimal
  /\ FoundIsTrue
  /\ MissedIsMissed
  /\ LabelsAreFiltered
  /\ ParsesWholeLines
=============================================================================
