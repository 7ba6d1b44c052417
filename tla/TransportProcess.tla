-------------------------- MODULE TransportProcess --------------------------
(***************************************************************************)
(* One transport process (gazoo_device/switchboard/transport_process.py)   *)
(* and the Switchboard methods that command it: the child owns the port,   *)
(* reads and frames what the device says, writes what the user sends, and  *)
(* opens, closes and calls the transport as the commands in its queue say. *)
(* The main process sees the port only through the event _transport_open   *)
(* and the queue of call results.                                          *)
(*                                                                         *)
(* Of the process framework (see SwitchboardProcess) what matters here is  *)
(* kept: the terminate event, SIGTERM when a stop takes too long, SIGUSR1  *)
(* and the DeviceError it raises in the main process.  The transport is    *)
(* external: open() takes time, may raise, and the port may drop.          *)
(* The device says characters; one of them has two bytes.                  *)
(***************************************************************************)
EXTENDS Integers, Sequences, SequencesExt, FiniteSetsExt

CONSTANTS Loads,         \* bounds: how often each operation may happen
          MaxWriteBytes  \* the code's _MAX_WRITE_BYTES

Ops == {"start", "stop", "open", "close", "xmodem", "call", "send", "drop", "fail", "other",
        "emit"}

ASSUME LoadsAssumption == Loads \subseteq [Ops -> Nat] /\ MaxWriteBytes \in Nat \ {0}

VARIABLES
  left,           \* what is left of the load
  autoReopen, openOnStart,  \* properties of the transport
  mpc,            \* the Switchboard call in progress
  xmodem,         \* that call is part of xmodem_file_to_transport
  started,        \* is_started() of the handle
  cpc,            \* where the child is
  terminateEvent, sigusr1,
  commands,       \* the command queue, which outlives a child
  call,           \* number of call() invocations
  results,        \* the call result queue
  openEvent,      \* _transport_open
  portOpen,       \* transport.is_open() in the child
  mainOpen,       \* the transport is open in the main process
  sent,           \* number of bytes handed to send()
  pending,        \* _pending_writes
  written,        \* bytes written to the transport
  lost,           \* number of bytes that were pending when a child ended
  text,           \* the bytes the device has said and no earlier child has read
  wire,           \* those of them that are not read yet
  decoded,        \* what the others were decoded to
  torn,           \* how many bytes were read when a read ended inside a character
  buffer,         \* _buffered_unicode
  published,      \* lines that this child put in the log queue
  told,           \* the last open_transport or close_transport that returned
  rough,          \* a child was killed or failed, a call timed out or was interrupted
  dropped,        \* the port has closed unexpectedly
  early,          \* close_transport of a transfer returned while an open was ahead
  abandoned,      \* number of call()s that an exception ended
  gaveUp,         \* a child was killed, failed, or a stop() was interrupted, since
                  \* the last stop() during which a child took the terminate event
  leaked,         \* the end of a transfer was cut off before it closed the port
  unheard,        \* this child failed and sent no SIGUSR1
  partial         \* this child published a partial line

control == <<mpc, xmodem, started, terminateEvent, sigusr1>>
calls   == <<call, results>>
port    == <<openEvent, portOpen, mainOpen>>
writes  == <<sent, pending, written, lost>>
reads   == <<text, wire, decoded, torn, buffer, published, partial>>
frozen  == <<autoReopen, openOnStart>>
marks   == <<abandoned, gaveUp, leaked, unheard>>
history == <<told, rough, dropped, early, marks>>
vars == <<left, frozen, control, cpc, commands, calls, port, writes, reads, history>>

MainPcs == {"idle", "opening", "closing", "calling", "stopping", "xmodem", "finally", "reopen"}
Opening == {"openHook", "openCmd", "openAgain"}
ChildPcs == {"off", "hook", "loop", "check", "failing", "ending"} \cup Opening

Visible(c) == c \notin {"\r", "\n"}

\* The bytes: three characters of one byte, and the two bytes of another.
Bytes == {"a", "\r", "\n", "lead", "cont"}

Init ==
  /\ left \in Loads
  /\ autoReopen \in BOOLEAN /\ openOnStart \in BOOLEAN
  /\ mpc = "idle" /\ xmodem = FALSE /\ started = FALSE
  /\ cpc = "off" /\ terminateEvent = FALSE /\ sigusr1 = FALSE
  /\ commands = <<>> /\ call = 0 /\ results = <<>>
  /\ openEvent = FALSE /\ portOpen = FALSE /\ mainOpen = FALSE
  /\ sent = 0 /\ pending = <<>> /\ written = <<>> /\ lost = 0
  /\ text = <<>> /\ wire = <<>> /\ decoded = <<>> /\ torn = {}
  /\ buffer = <<>> /\ published = <<>>
  /\ told = FALSE /\ rough = FALSE /\ dropped = FALSE /\ early = FALSE
  /\ partial = FALSE /\ abandoned = 0 /\ gaveUp = FALSE /\ leaked = FALSE /\ unheard = FALSE

Spend(op) == left[op] > 0 /\ left' = [left EXCEPT ![op] = @ - 1]

Command(op, arg) == commands' = Append(commands, [op |-> op, arg |-> arg])

-----------------------------------------------------------------------------
(* The main process.                                                       *)

\* The commands in the queue that open or close the port.
Orders == {i \in DOMAIN commands : commands[i].op \in {"open", "close"}}

\* The commands its predecessor did not take are obeyed by the new child, which
\* begins with an empty buffer: what was read and not published is gone with the
\* old one, which may have taken the first byte of a character.
StartTransportProcess ==
  /\ mpc = "idle" /\ ~started /\ Spend("start")
  /\ started' = TRUE /\ cpc' = "hook"
  /\ buffer' = <<>> /\ published' = <<>> /\ text' = wire /\ partial' = FALSE
  /\ decoded' = <<>> /\ torn' = IF wire # <<>> /\ Head(wire) = "cont" THEN {0} ELSE {}
  /\ unheard' = FALSE
  /\ told' = IF Orders = {} THEN openOnStart ELSE commands[Max(Orders)].op = "open"
  /\ UNCHANGED <<frozen, mpc, xmodem, terminateEvent, sigusr1, commands, calls, port,
                 writes, wire, rough, dropped, early, abandoned, gaveUp, leaked>>

\* stop() of the process: the event, then a wait for the child.
StopEntry ==
  /\ mpc' = "stopping"
  /\ terminateEvent' = (terminateEvent \/ cpc # "off")

StopTransportProcess ==
  /\ mpc = "idle" /\ started /\ Spend("stop")
  /\ StopEntry
  /\ UNCHANGED <<frozen, xmodem, started, sigusr1, cpc, commands, calls, port, writes,
                 reads, history>>

\* After a stop() inside xmodem_file_to_transport comes its finally clause.
AfterStop == mpc' = IF xmodem THEN "finally" ELSE "idle"

StopReturns ==
  /\ mpc = "stopping" /\ cpc = "off"
  /\ started' = FALSE /\ AfterStop
  /\ UNCHANGED <<left, frozen, xmodem, terminateEvent, sigusr1, cpc, commands, calls, port,
                 writes, reads, history>>

\* The child did not end in time: SIGTERM.  Its _post_run_hook does not run, and
\* its last result may still be in a buffer of its own.
StopKills ==
  /\ mpc = "stopping" /\ cpc # "off"
  /\ cpc' = "off" /\ portOpen' = FALSE
  /\ started' = FALSE /\ AfterStop
  /\ \/ results' = results
     \/ results # <<>> /\ results' = Front(results)
  /\ rough' = TRUE /\ gaveUp' = TRUE
  /\ UNCHANGED <<left, frozen, xmodem, terminateEvent, sigusr1, commands, call, openEvent,
                 mainOpen, writes, reads, told, dropped, early, abandoned, leaked, unheard>>

OpenTransport ==
  /\ mpc = "idle" /\ Spend("open")
  /\ Command("open", 0) /\ mpc' = "opening"
  /\ UNCHANGED <<frozen, xmodem, started, terminateEvent, sigusr1, cpc, calls, port,
                 writes, reads, history>>

OpenReturns ==
  /\ mpc = "opening" /\ openEvent
  /\ mpc' = "idle" /\ told' = TRUE
  /\ UNCHANGED <<left, frozen, xmodem, started, terminateEvent, sigusr1, cpc, commands,
                 calls, port, writes, reads, rough, dropped, early, marks>>

CloseTransport(x) ==
  /\ mpc = "idle" /\ Spend(IF x THEN "xmodem" ELSE "close")
  /\ Command("close", 0) /\ mpc' = "closing" /\ xmodem' = x
  /\ UNCHANGED <<frozen, started, terminateEvent, sigusr1, cpc, calls, port, writes,
                 reads, history>>

\* The child has yet to open the port, of which the event says nothing.
OpenAhead ==
  \/ cpc \in Opening
  \/ cpc = "hook" /\ openOnStart
  \/ \E i \in DOMAIN commands : commands[i].op = "open"

CloseReturns ==
  /\ mpc = "closing" /\ ~openEvent
  /\ told' = FALSE
  /\ mpc' = IF xmodem THEN "xmodem" ELSE "idle"
  /\ mainOpen' = (mainOpen \/ xmodem)
  /\ early' = IF xmodem THEN OpenAhead ELSE early
  /\ UNCHANGED <<left, frozen, xmodem, started, terminateEvent, sigusr1, cpc, commands,
                 calls, openEvent, portOpen, writes, reads, rough, dropped, marks>>

\* The poll of is_open() times out: the process is stopped; stop() of a
\* process that is not started raises.
PollTimesOut ==
  /\ mpc = IF openEvent THEN "closing" ELSE "opening"
  /\ IF started THEN StopEntry ELSE AfterStop /\ UNCHANGED terminateEvent
  /\ rough' = TRUE
  /\ UNCHANGED <<left, frozen, xmodem, started, sigusr1, cpc, commands, calls, port, writes,
                 reads, told, dropped, early, marks>>

\* The transfer ends, or raises.
XmodemDone ==
  /\ mpc = "xmodem" /\ mpc' = "finally"
  /\ UNCHANGED <<left, frozen, xmodem, started, terminateEvent, sigusr1, cpc, commands,
                 calls, port, writes, reads, history>>

\* The finally clause: transport.close() in the main process,
XmodemCloses ==
  /\ mpc = "finally" /\ mpc' = "reopen"
  /\ mainOpen' = FALSE /\ leaked' = FALSE
  /\ UNCHANGED <<left, frozen, xmodem, started, terminateEvent, sigusr1, cpc, commands,
                 calls, openEvent, portOpen, writes, reads, told, rough, dropped, early,
                 abandoned, gaveUp, unheard>>

\* then open_transport.
XmodemReopens ==
  /\ mpc = "reopen" /\ xmodem' = FALSE
  /\ Command("open", 0) /\ mpc' = "opening"
  /\ UNCHANGED <<left, frozen, started, terminateEvent, sigusr1, cpc, calls, port, writes,
                 reads, history>>

Call ==
  /\ mpc = "idle" /\ Spend("call")
  /\ call' = call + 1 /\ Command("call", call + 1) /\ mpc' = "calling"
  /\ UNCHANGED <<frozen, xmodem, started, terminateEvent, sigusr1, cpc, results, port,
                 writes, reads, history>>

CallReturns ==
  /\ mpc = "calling" /\ results # <<>>
  /\ results' = Tail(results) /\ mpc' = "idle"
  /\ UNCHANGED <<left, frozen, xmodem, started, terminateEvent, sigusr1, cpc, commands,
                 call, port, writes, reads, history>>

Send(n) ==
  /\ mpc = "idle" /\ Spend("send")
  /\ sent' = sent + n /\ Command("write", [i \in 1..n |-> sent + i])
  /\ UNCHANGED <<frozen, control, cpc, calls, port, pending, written, lost, reads, history>>

\* Manager._process_exceptions: the DeviceError ends the call in progress.  The
\* finally clause of xmodem_file_to_transport still runs, unless it is already
\* in progress: then the rest of it does not.
ProcessExceptions ==
  /\ sigusr1 /\ sigusr1' = FALSE
  /\ mpc' = IF xmodem /\ mpc \notin {"finally", "reopen"} THEN "finally" ELSE "idle"
  /\ xmodem' = (mpc' = "finally")
  /\ rough' = (rough \/ mpc # "idle")
  /\ abandoned' = abandoned + (IF mpc = "calling" THEN 1 ELSE 0)
  /\ gaveUp' = (gaveUp \/ mpc = "stopping")
  /\ leaked' = (leaked \/ (mpc = "finally" /\ mainOpen))
  /\ UNCHANGED <<left, frozen, started, terminateEvent, cpc, commands, calls, port, writes,
                 reads, told, dropped, early, unheard>>

\* SIGUSR1 of another process: of this device, or of another one of the Manager.
OtherChildFails ==
  /\ Spend("other") /\ sigusr1' = TRUE
  /\ UNCHANGED <<frozen, mpc, xmodem, started, terminateEvent, cpc, commands, calls, port,
                 writes, reads, history>>

-----------------------------------------------------------------------------
(* The child: _pre_run_hook, _do_work, _post_run_hook.                     *)

ChildHook ==
  /\ cpc = "hook"
  /\ pending' = <<>> /\ lost' = lost + Len(FlattenSeq(pending))
  /\ cpc' = IF openOnStart THEN "openHook" ELSE "loop"
  /\ UNCHANGED <<left, frozen, control, commands, calls, port, sent, written, reads, history>>

ChildOpens == \* transport.open() returns; the event is set
  /\ cpc \in Opening
  /\ portOpen' = TRUE /\ openEvent' = TRUE
  /\ cpc' = IF cpc = "openCmd" THEN "check" ELSE "loop"
  /\ UNCHANGED <<left, frozen, control, commands, calls, mainOpen, writes, reads, history>>

\* open(), read() or write() of the transport raises.
ChildRaises ==
  /\ cpc \in Opening \cup (IF portOpen THEN {"check"} ELSE {})
  /\ Spend("fail")
  /\ cpc' = "failing" /\ rough' = TRUE
  /\ UNCHANGED <<frozen, control, commands, calls, port, writes, reads, told, dropped, early,
                 marks>>

\* Mutant: ends without SIGUSR1.
ChildFailsSilently ==
  /\ cpc = "failing"
  /\ cpc' = "ending" /\ gaveUp' = TRUE
  /\ UNCHANGED <<left, frozen, control, commands, calls, port, writes, reads, told, rough,
                 dropped, early, abandoned, leaked, unheard>>

ChildFails == \* the message, SIGUSR1, the stop event
  /\ cpc = "failing"
  /\ cpc' = "ending" /\ sigusr1' = TRUE /\ gaveUp' = TRUE
  /\ UNCHANGED <<left, frozen, mpc, xmodem, started, terminateEvent, commands, calls,
                 port, writes, reads, told, rough, dropped, early, abandoned, leaked, unheard>>

\* No SIGUSR1: what was raised is an EOFError, or the feeder thread does not take
\* the message in time, upon which the process dies of that exception.
ChildFailsUnheard ==
  /\ cpc = "failing"
  /\ \/ cpc' = "ending" /\ UNCHANGED portOpen
     \/ cpc' = "off" /\ portOpen' = FALSE
  /\ unheard' = TRUE /\ gaveUp' = TRUE
  /\ UNCHANGED <<left, frozen, control, commands, calls, openEvent, mainOpen, writes, reads,
                 told, rough, dropped, early, abandoned, leaked>>

ChildEnds == \* _post_run_hook
  /\ cpc = "ending"
  /\ cpc' = "off" /\ portOpen' = FALSE /\ openEvent' = FALSE
  /\ UNCHANGED <<left, frozen, control, commands, calls, mainOpen, writes, reads, history>>

ChildTerminates ==
  /\ cpc = "loop" /\ terminateEvent
  /\ terminateEvent' = FALSE /\ cpc' = "ending"
  /\ gaveUp' = (gaveUp /\ mpc # "stopping")
  /\ UNCHANGED <<left, frozen, mpc, xmodem, started, sigusr1, commands, calls, port,
                 writes, reads, told, rough, dropped, early, abandoned, leaked, unheard>>

\* _enqueue_command_writes(): chunks of at most MaxWriteBytes bytes.
EnqueueCommandWrites(data) ==
  [k \in 1..((Len(data) + MaxWriteBytes - 1) \div MaxWriteBytes) |->
     SubSeq(data, (k - 1) * MaxWriteBytes + 1, Min({k * MaxWriteBytes, Len(data)}))]

\* Mutant: a close command leaves the event to the next check.
ProcessCommandLate(c) ==
  /\ cpc' = IF c.op = "open" THEN "openCmd" ELSE "check"
  /\ pending' = pending \o (IF c.op = "write" THEN EnqueueCommandWrites(c.arg) ELSE <<>>)
  /\ results' = results \o (IF c.op = "call" THEN <<c.arg>> ELSE <<>>)
  /\ portOpen' = (portOpen /\ c.op # "close")
  /\ UNCHANGED openEvent

\* _process_command_message()
ProcessCommandMessage(c) ==
  /\ cpc' = IF c.op = "open" THEN "openCmd" ELSE "check"
  /\ pending' = pending \o (IF c.op = "write" THEN EnqueueCommandWrites(c.arg) ELSE <<>>)
  /\ results' = results \o (IF c.op = "call" THEN <<c.arg>> ELSE <<>>)
  /\ portOpen' = (portOpen /\ c.op # "close")
  /\ openEvent' = (openEvent /\ c.op # "close")

ChildTakesCommand ==
  /\ cpc = "loop" /\ ~terminateEvent
  /\ IF commands = <<>>
     THEN cpc' = "check" /\ UNCHANGED <<commands, pending, results, portOpen, openEvent>>
     ELSE ProcessCommandMessage(Head(commands)) /\ commands' = Tail(commands)
  /\ UNCHANGED <<left, frozen, control, call, mainOpen, sent, written, lost,
                 reads, history>>

-----------------------------------------------------------------------------
(* Reading: decoding, data_framer.split_newlines_only and the partial      *)
(* lines.                                                                  *)

\* bytes.decode("utf-8", "replace"): byte i of s is one of a character that is
\* there as a whole.
IsWhole(s, i) ==
  CASE s[i] = "lead" -> i < Len(s) /\ s[i + 1] = "cont"
    [] s[i] = "cont" -> i > 1 /\ s[i - 1] = "lead"
    [] OTHER -> TRUE

\* Each byte of half a character becomes a replacement character.
Decode(s) == [i \in 1..Len(s) |-> IF IsWhole(s, i) THEN s[i] ELSE "?"]

\* The number of bytes of the first character.
FirstWidth(s) == IF s # <<>> /\ s[1] = "lead" THEN 2 ELSE 1

\* Where the line begins that ends at the newline p, or before the first i
\* characters of s end: after the last newline that was searched for.
StartIndex(s, begin, i) == Max({0} \cup {j \in begin + 1 .. i - 1 : s[j] = "\n"}) + 1

\* The last byte before newline p that cleanends keeps.  The search for it in
\* what was buffered before does not look at the first character.
LastKept(s, begin, p) ==
  LET after  == {i \in begin + 1 .. p : Visible(s[i])}
      before == {i \in FirstWidth(s) + 1 .. begin + 1 : Visible(s[i])}
  IN IF after # {} THEN Max(after) ELSE IF before # {} THEN Max(before) ELSE begin

\* Mutant: forgets that a line may have begun in the buffer.
SplitFromBegin(s, begin) ==
  LET first(i) == Max({begin + 1, StartIndex(s, begin, i)})
      split[i \in begin .. Len(s)] ==
        IF i = begin THEN <<>>
        ELSE IF s[i] # "\n" THEN split[i - 1]
        ELSE Append(split[i - 1], SubSeq(s, first(i), LastKept(s, begin, i)) \o <<"\n">>)
  IN split[Len(s)]

\* The complete lines of s, of which the first begin characters were seen before.
SplitNewlinesOnly(s, begin) ==
  LET split[i \in begin .. Len(s)] ==
        IF i = begin THEN <<>>
        ELSE IF s[i] # "\n" THEN split[i - 1]
        ELSE Append(split[i - 1],
                    SubSeq(s, StartIndex(s, begin, i), LastKept(s, begin, i)) \o <<"\n">>)
  IN split[Len(s)]

Rest(s, begin) == SubSeq(s, StartIndex(s, begin, Len(s) + 1), Len(s))

\* Mutant: the bytes of all reads are decoded together.
TransportReadTogether(n, elapsed) ==
  LET s     == buffer \o SubSeq(wire, 1, n)
      lines == SplitNewlinesOnly(s, Len(buffer))
      rest  == Rest(s, Len(buffer))
      now   == elapsed /\ rest # <<>>
  IN /\ wire' = SubSeq(wire, n + 1, Len(wire))
     /\ decoded' = decoded \o SubSeq(wire, 1, n)
     /\ torn' = IF n > 0 /\ wire[n] = "lead" THEN torn \cup {Len(decoded) + n} ELSE torn
     /\ published' = published \o lines \o (IF now THEN <<rest>> ELSE <<>>)
     /\ buffer' = IF now THEN <<>> ELSE rest
     /\ partial' = (partial \/ now)
     /\ UNCHANGED text

\* _transport_read() of n bytes; elapsed: the partial line timeout is over.
TransportRead(n, elapsed) ==
  LET chars == Decode(SubSeq(wire, 1, n))
      s     == buffer \o chars
      lines == SplitNewlinesOnly(s, Len(buffer))
      rest  == Rest(s, Len(buffer))
      now   == elapsed /\ rest # <<>>
  IN /\ wire' = SubSeq(wire, n + 1, Len(wire))
     /\ decoded' = decoded \o chars
     /\ torn' = IF n > 0 /\ wire[n] = "lead" THEN torn \cup {Len(decoded) + n} ELSE torn
     /\ published' = published \o lines \o (IF now THEN <<rest>> ELSE <<>>)
     /\ buffer' = IF now THEN <<>> ELSE rest
     /\ partial' = (partial \/ now)
     /\ UNCHANGED text

TransportWrite == \* one chunk
  IF pending = <<>> THEN UNCHANGED <<pending, written>>
  ELSE pending' = Tail(pending) /\ written' = written \o Head(pending)

ChildWorksOpen ==
  /\ cpc = "check" /\ portOpen
  /\ openEvent' = TRUE
  /\ TransportWrite
  /\ \E n \in 0..Len(wire), elapsed \in BOOLEAN : TransportRead(n, elapsed)
  /\ cpc' = "loop"
  /\ UNCHANGED <<left, frozen, control, commands, calls, portOpen, mainOpen, sent, lost,
                 history>>

\* The event still set means that the transport closed by itself.
ChildWorksClosed ==
  /\ cpc = "check" /\ ~portOpen
  /\ openEvent' = FALSE
  /\ cpc' = IF openEvent /\ autoReopen THEN "openAgain" ELSE "loop"
  /\ UNCHANGED <<left, frozen, control, commands, calls, portOpen, mainOpen, writes,
                 reads, history>>

-----------------------------------------------------------------------------
(* The device at the other end.                                            *)

PortDrops ==
  /\ portOpen /\ Spend("drop")
  /\ portOpen' = FALSE /\ dropped' = TRUE
  /\ UNCHANGED <<frozen, control, cpc, commands, calls, openEvent, mainOpen, writes,
                 reads, told, rough, early, marks>>

\* c: the bytes of a character.
DeviceEmits(c) ==
  /\ Spend("emit")
  /\ text' = text \o c /\ wire' = wire \o c
  /\ UNCHANGED <<frozen, control, cpc, commands, calls, port, writes, decoded, torn, buffer,
                 published, partial, history>>

Characters == {<<"a">>, <<"\r">>, <<"\n">>, <<"lead", "cont">>}

-----------------------------------------------------------------------------
Calls ==
  \/ StartTransportProcess \/ StopTransportProcess \/ OpenTransport
  \/ (\E x \in BOOLEAN : CloseTransport(x)) \/ Call \/ \E n \in {1, MaxWriteBytes + 1} : Send(n)

MainContinues ==
  \/ StopReturns \/ StopKills \/ OpenReturns \/ CloseReturns \/ PollTimesOut
  \/ XmodemDone \/ XmodemCloses \/ XmodemReopens \/ CallReturns

ChildContinues ==
  \/ ChildHook \/ ChildOpens \/ ChildRaises \/ ChildFails \/ ChildFailsUnheard \/ ChildEnds
  \/ ChildTerminates \/ ChildTakesCommand \/ ChildWorksOpen \/ ChildWorksClosed

Next ==
  \/ Calls \/ MainContinues \/ ProcessExceptions \/ OtherChildFails \/ ChildContinues
  \/ PortDrops \/ \E c \in Characters : DeviceEmits(c)

\* Fairness: every poll of the main process has a timeout and signals are
\* delivered; the child's transport methods return or raise.
Spec == Init /\ [][Next]_vars
FairSpec == Spec /\ WF_vars(MainContinues) /\ WF_vars(ProcessExceptions)
                 /\ WF_vars(ChildContinues)
-----------------------------------------------------------------------------
TypeOK ==
  /\ left \in [Ops -> Nat] /\ autoReopen \in BOOLEAN /\ openOnStart \in BOOLEAN
  /\ mpc \in MainPcs /\ xmodem \in BOOLEAN /\ started \in BOOLEAN
  /\ cpc \in ChildPcs /\ terminateEvent \in BOOLEAN /\ sigusr1 \in BOOLEAN
  /\ call \in Nat /\ results \in Seq(1..call)
  /\ openEvent \in BOOLEAN /\ portOpen \in BOOLEAN /\ mainOpen \in BOOLEAN
  /\ sent \in Nat /\ pending \in Seq(Seq(1..sent)) /\ written \in Seq(1..sent)
  /\ lost \in 0..sent
  /\ {text, wire} \subseteq Seq(Bytes) /\ {decoded, buffer} \subseteq Seq(Bytes \cup {"?"})
  /\ told \in BOOLEAN /\ rough \in BOOLEAN /\ dropped \in BOOLEAN
  /\ early \in BOOLEAN /\ partial \in BOOLEAN /\ abandoned \in Nat /\ gaveUp \in BOOLEAN
  /\ leaked \in BOOLEAN /\ unheard \in BOOLEAN

\* call() takes whatever is next in the one result queue of the Switchboard.  It
\* is the answer to this call, or to one before it by no more than the number of
\* calls that the DeviceError of a failed child ended: each of them leaves its
\* answer to the next call, which leaves its own to the one after it.
CallAnswersItself ==
  [][CallReturns => Head(results) \in (call - abandoned)..call]_vars

\* The child runs and nobody has told it to stop.
Serving == cpc \notin {"off", "ending"} /\ ~terminateEvent

\* call() waits without a timeout.  It returns all the same when the process
\* it asks is running and nobody has told it to stop: the child answers, or
\* fails and its SIGUSR1 ends the wait.  It waits for ever when the child fails
\* and sends none.
CallIsAnswered == [](mpc = "calling" /\ Serving => <>(mpc # "calling" \/ unheard))

\* open_transport, close_transport, stop and an xmodem transfer always return:
\* each of their waits has a timeout that ends in stop(), which ends in SIGTERM.
PollsReturn == [](mpc \notin {"idle", "calling"} => <>(mpc \in {"idle", "calling"}))

\* Once the child has worked off its commands, the port is as the last
\* open_transport or close_transport said, and the event the main process
\* polls says so, until the port drops or a call or child ends roughly.
PortAsTold ==
  cpc = "loop" /\ commands = <<>> /\ mpc = "idle" /\ ~dropped /\ ~rough
    => portOpen = told /\ openEvent = told

\* xmodem_file_to_transport opens the transport in the main process only after
\* the child has closed it: never both, unless the event was clear because the
\* child had yet to open the port (at its start, after a drop, or by a command
\* that close_transport overtook), or a signal cut off the end of the transfer
\* before it closed the port; then the next transfer closes it.
PortHasOneOwner == mainOpen /\ portOpen => early \/ leaked

\* The bytes that a command brings, and those that the command queue holds.
Data(c) == IF c.op = "write" THEN c.arg ELSE <<>>
Queued == FlattenSeq([i \in 1..Len(commands) |-> Data(commands[i])])

\* What send() was given arrives in order, whole and once, across commands,
\* chunks, closing and opening again; what is missing was lost with a child.
WritesInOrder ==
  LET all == written \o FlattenSeq(pending) \o Queued
  IN /\ \A i, j \in 1..Len(all) : i < j => all[i] < all[j]
     /\ Len(all) + lost = sent

\* The terminate event is set only while a stop() is waiting, so that the next
\* child does not find it, unless a stop() ended in SIGTERM, met a child that
\* failed by itself, or was interrupted; the next stop() that takes its regular
\* course ends that.
TerminateIsForThisChild == terminateEvent => mpc = "stopping" \/ gaveUp

\* s without its carriage returns.
Strip(s) ==
  LET strip[i \in 0..Len(s)] ==
        IF i = 0 THEN <<>>
        ELSE IF s[i] = "\r" THEN strip[i - 1] ELSE Append(strip[i - 1], s[i])
  IN strip[Len(s)]

\* The bytes of a character that a read ended inside of.
TornAt(i) == i \in torn \/ i - 1 \in torn

\* Each read is decoded alone.  What this child has read is the text, byte for
\* byte, but for the characters that a read ended inside of: of those, and of no
\* others, every byte became a replacement character.
CharactersKept ==
  /\ Len(text) = Len(decoded) + Len(wire)
  /\ \A i \in 1..Len(decoded) : decoded[i] = IF TornAt(i) THEN "?" ELSE text[i]
  /\ \A i \in torn \ {0} : text[i] = "lead"

\* Framing loses, repeats and reorders nothing but carriage returns of what this
\* child has read, however the text is cut into reads and whichever partial
\* lines are published early.
TextIsKept == Strip(FlattenSeq(published) \o buffer) = Strip(decoded)

\* Reference: the lines of a text, without trailing carriage returns.
LinesOf(s) ==
  LET first(i) == Max({0} \cup {j \in 1..i - 1 : s[j] = "\n"}) + 1
      last(i) == Max({first(i) - 1} \cup {j \in first(i)..i : Visible(s[j])})
      lines[i \in 0..Len(s)] ==
        IF i = 0 THEN <<>>
        ELSE IF s[i] # "\n" THEN lines[i - 1]
        ELSE Append(lines[i - 1], SubSeq(s, first(i), last(i)) \o <<"\n">>)
  IN lines[Len(s)]

\* Without early partial lines the published lines are the lines of the text
\* with their trailing carriage returns removed, however the reads cut them.
\* Lines of at most one character may keep some (see LastKept).
LinesAsWhole ==
  LET lines == LinesOf(decoded)
  IN ~partial =>
       /\ Len(published) = Len(lines)
       /\ \A k \in DOMAIN lines :
            /\ Strip(published[k]) = Strip(lines[k])
            /\ Len(lines[k]) > FirstWidth(lines[k]) + 1 => published[k] = lines[k]

\* The child and the main process agree on the port and on whether the child is
\* to end.
PortIsRight == TypeOK /\ PortAsTold /\ PortHasOneOwner /\ TerminateIsForThisChild

\* Both directions of the port: writes arrive, and lines are published, whole,
\* once and in order, however they are cut into pieces.
TrafficIsWhole == WritesInOrder /\ CharactersKept /\ TextIsKept /\ LinesAsWhole

\* Every wait of the main process ends, and the answer that ends a call() is
\* that of the call.
CallsAreAnswered == CallAnswersItself /\ CallIsAnswered /\ PollsReturn
=============================================================================
