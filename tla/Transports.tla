----------------------------- MODULE Transports -----------------------------
(***************************************************************************)
(* The transports that a transport process reads and writes: a serial      *)
(* port, a socket, a websocket, a process (adb shell, ssh, a pseudo        *)
(* terminal), a J-Link probe, and Pigweed RPC over a serial port or a      *)
(* socket, whose HDLC client reads in a thread of its own. The loop of     *)
(* transport_process.py opens, closes and reads them; the other end leaves *)
(* and comes back.                                                         *)
(***************************************************************************)
EXTENDS Integers, Sequences, FiniteSets, SequencesExt

CONSTANTS
  TransportKinds,   \* the transports that may be in use
  MaxMessages,      \* messages that the device sends
  MaxLosses,        \* times that the other end leaves
  MaxCommands,      \* commands to open or to close
  MaxReadErrors     \* _max_read_errors of the serial transport

ASSUME TransportsAssumption ==
  /\ MaxMessages \in Nat /\ MaxLosses \in Nat /\ MaxCommands \in Nat /\ MaxReadErrors \in Nat
  /\ TransportKinds \subseteq
       {"serial", "tcp", "websocket", "process", "ssh", "pty", "jlink", "pwserial", "pwsocket"}

VARIABLES
  tkind,    \* which transport
  tlink,     \* the other end: "up" or "down"
  h,        \* what this process holds: [fd, peer, proc, worker, errors]
  inbound,     \* messages sent and not yet read from the port
  logq,     \* log_queue of the HDLC client
  delivered,      \* messages returned by read()
  open_event,    \* the _transport_open event
  tlog      \* [auto, mode, sent, losses, commands, row, did, dropped, died, opened]

trVars == <<tkind, tlink, h, inbound, logq, delivered, open_event, tlog>>

Processes == {"process", "ssh", "pty"}
Pigweed == {"pwserial", "pwsocket"}
WorkerAlive == h.worker = "alive"     \* PwHdlcRpcClient.is_alive

is_open ==
  CASE tkind \in {"serial", "tcp", "websocket"} -> h.fd
    [] tkind \in Processes -> h.proc = "running"
    [] tkind = "jlink" -> h.fd /\ h.peer = "ok"
    [] tkind = "pwserial" -> h.fd /\ WorkerAlive
    [] tkind = "pwsocket" -> WorkerAlive

\* Outcomes of _open and _close: the new handle, or an exception with what it leaves.
OpOk(handle) == [h |-> handle, ok |-> TRUE]
OpRaises(handle) == [h |-> handle, ok |-> FALSE]
OpenHandle == [h EXCEPT !.fd = TRUE, !.peer = "ok"]

-----------------------------------------------------------------------------
(* _open.                                                                  *)

NeedsLink(handle) == IF tlink = "up" THEN {OpOk(handle)} ELSE {OpRaises(h)}
SerialOpen == NeedsLink(OpenHandle)
TcpOpen == NeedsLink(OpenHandle)
WebSocketOpen == NeedsLink(OpenHandle)
JLinkOpen == NeedsLink(OpenHandle)
Popen == [OpenHandle EXCEPT !.proc = "running"]
ProcessOpen == {OpOk(Popen)}
PtyOpen == {OpOk(Popen)}
\* _is_ready_to_open: nothing is opened, and nothing is raised.
SshOpen == IF tlink = "up" THEN {OpOk(Popen)} ELSE {OpOk(h)}
\* start() of the client makes a worker only when there is none, not even a dead one.
ClientStart(handle) ==
  IF handle.worker = "none" THEN [handle EXCEPT !.worker = "alive"] ELSE handle
PwSerialOpen == IF h.fd THEN {OpRaises(h)} ELSE NeedsLink(ClientStart(OpenHandle))
\* A new socket and a new client every time.
PwSocketOpen ==
  IF tlink = "up" THEN {OpOk(ClientStart([OpenHandle EXCEPT !.worker = "none"]))}
  ELSE {OpRaises([h EXCEPT !.fd = FALSE, !.worker = "none"])}

DoOpen ==
  CASE tkind = "serial" -> SerialOpen [] tkind = "tcp" -> TcpOpen [] tkind = "websocket" -> WebSocketOpen
    [] tkind = "process" -> ProcessOpen [] tkind = "ssh" -> SshOpen [] tkind = "pty" -> PtyOpen
    [] tkind = "jlink" -> JLinkOpen [] tkind = "pwserial" -> PwSerialOpen [] tkind = "pwsocket" -> PwSocketOpen
transport_open == IF is_open THEN {OpOk(h)} ELSE DoOpen

-----------------------------------------------------------------------------
(* _close.                                                                 *)

ClosedHandle == [h EXCEPT !.fd = FALSE, !.peer = "ok"]
SerialClose == {OpOk(ClosedHandle)}
\* shutdown() of a connection that was reset raises, and the socket is kept.
TcpClose == {OpOk(ClosedHandle)} \cup (IF h.peer = "lost" THEN {OpRaises(h)} ELSE {})
WebSocketClose == {OpOk(ClosedHandle)}
\* The pipes first; a process that does not end is killed, with an error.
CloseProcess(handle) ==
  IF handle.proc # "running" THEN {OpOk(handle)}
  ELSE {OpOk([handle EXCEPT !.proc = "none"]), OpRaises([handle EXCEPT !.proc = "exited"])}
ProcessClose == CloseProcess(ClosedHandle)
PtyClose == CloseProcess(ClosedHandle)
JLinkClose == {OpOk(ClosedHandle)}
\* The worker is asked to stop and joined; if it does not end in time it is left running.
ClientClose ==
  {OpOk([h EXCEPT !.worker = "none"]), OpRaises(h)}
PwSerialClose ==
  {IF r.ok THEN OpOk([r.h EXCEPT !.fd = FALSE, !.peer = "ok"]) ELSE r : r \in ClientClose}
PwSocketClose ==
  {IF r.ok THEN OpOk([r.h EXCEPT !.fd = FALSE, !.peer = "ok"]) ELSE r : r \in ClientClose}

\* TransportBase.close does nothing when is_open() is false; process, pty and J-Link
\* transports override it.
transport_close ==
  CASE tkind = "process" \/ tkind = "ssh" -> ProcessClose [] tkind = "pty" -> PtyClose [] tkind = "jlink" -> JLinkClose
    [] OTHER -> IF ~is_open THEN {OpOk(h)}
                ELSE CASE tkind = "serial" -> SerialClose [] tkind = "tcp" -> TcpClose
                       [] tkind = "websocket" -> WebSocketClose
                       [] tkind = "pwserial" -> PwSerialClose [] tkind = "pwsocket" -> PwSocketClose

-----------------------------------------------------------------------------
(* The other end.                                                          *)

TransportsInit ==
  /\ tkind \in TransportKinds /\ tlink = "up"
  /\ h = [fd |-> FALSE, peer |-> "ok", proc |-> "none", worker |-> "none", errors |-> 0]
  /\ inbound = <<>> /\ logq = <<>> /\ delivered = <<>> /\ open_event = FALSE
  /\ \E auto \in BOOLEAN :
       tlog = [auto |-> auto, mode |-> "running", sent |-> 0, losses |-> 0, commands |-> 0, row |-> 0,
               did |-> "none", dropped |-> FALSE, died |-> FALSE, opened |-> TRUE]

LoopRuns == tlog.mode \in {"running", "reopening"}
DeviceSends ==
  /\ LoopRuns /\ h.fd /\ h.peer = "ok" /\ tlog.sent < MaxMessages
  /\ tlog' = [tlog EXCEPT !.sent = @ + 1] /\ inbound' = Append(inbound, tlog.sent + 1)
  /\ UNCHANGED <<tkind, tlink, h, logq, delivered, open_event>>
OtherEndLeaves ==
  /\ LoopRuns /\ tlink = "up" /\ tlog.losses < MaxLosses
  /\ tlink' = "down" /\ tlog' = [tlog EXCEPT !.losses = @ + 1]
  /\ h' = IF h.fd THEN [h EXCEPT !.peer = "lost"] ELSE h
  /\ UNCHANGED <<tkind, inbound, logq, delivered, open_event>>
OtherEndReturns ==
  LoopRuns /\ tlink = "down" /\ tlink' = "up" /\ UNCHANGED <<tkind, h, inbound, logq, delivered, open_event, tlog>>
ProcessExits ==
  /\ LoopRuns /\ h.proc = "running" /\ h.peer = "lost" /\ h' = [h EXCEPT !.proc = "exited"]
  /\ UNCHANGED <<tkind, tlink, inbound, logq, delivered, open_event, tlog>>

-----------------------------------------------------------------------------
(* The worker thread of the HDLC client.                                   *)

\* Mutant: the newest frame is read first.
WorkerPushesFirst ==
  /\ LoopRuns /\ WorkerAlive /\ inbound # <<>>
  /\ logq' = <<Head(inbound)>> \o logq /\ inbound' = Tail(inbound)
  /\ UNCHANGED <<tkind, tlink, h, delivered, open_event, tlog>>
WorkerReads ==
  /\ LoopRuns /\ WorkerAlive /\ inbound # <<>>
  /\ logq' = Append(logq, Head(inbound)) /\ inbound' = Tail(inbound)
  /\ UNCHANGED <<tkind, tlink, h, delivered, open_event, tlog>>
\* A serial port that is gone ends the thread; a socket at its end is read for ever.
WorkerFails ==
  /\ LoopRuns /\ WorkerAlive /\ tkind = "pwserial" /\ h.peer = "lost"
  /\ h' = [h EXCEPT !.worker = "dead"] /\ tlog' = [tlog EXCEPT !.died = TRUE]
  /\ UNCHANGED <<tkind, tlink, inbound, logq, delivered, open_event>>

-----------------------------------------------------------------------------
(* The loop of the transport process: _do_work.                            *)

\* What was not read when the handle changes is gone; log_queue too.
Discard(handle) ==
  LET same == handle.fd = h.fd /\ handle.worker = h.worker /\ handle.proc = h.proc
  IN  /\ inbound' = IF same THEN inbound ELSE <<>>
      /\ logq' = IF same THEN logq ELSE <<>>
LosesUnread(handle) == tlog.dropped \/ (inbound \o logq # <<>> /\ (handle.fd # h.fd \/ handle.worker # h.worker
                                                         \/ handle.proc # h.proc))

\* open() and close() by a command or by the loop; an exception ends the process.
OpenTransport(next) ==
  \E r \in transport_open :
    /\ UNCHANGED <<tkind, tlink, delivered>>
    /\ h' = r.h /\ Discard(r.h) /\ open_event' = (IF r.ok THEN TRUE ELSE open_event)
    /\ tlog' = [next EXCEPT !.mode = IF r.ok THEN "running" ELSE "failed", !.did = "open",
                            !.dropped = LosesUnread(r.h), !.opened = r.ok => is_open']
CloseTransport(next) ==
  \E r \in transport_close :
    /\ h' = r.h /\ Discard(r.h) /\ open_event' = FALSE
    /\ tlog' = [next EXCEPT !.mode = IF r.ok THEN @ ELSE "failed", !.did = IF r.ok THEN "closed" ELSE "none",
                            !.dropped = LosesUnread(r.h)]
    /\ UNCHANGED <<tkind, tlink, delivered>>

CommandComes == tlog.mode = "running" /\ tlog.commands < MaxCommands
CommandOpen == CommandComes /\ OpenTransport([tlog EXCEPT !.commands = @ + 1])
CommandClose == CommandComes /\ CloseTransport([tlog EXCEPT !.commands = @ + 1])

\* The transport is not open although the event is set: it closed on its own.
ClosedUnexpectedly ==
  /\ tlog.mode = "running" /\ ~is_open /\ open_event
  /\ CloseTransport([tlog EXCEPT !.mode = IF tlog.auto THEN "reopening" ELSE "running"])
Reopens == tlog.mode = "reopening" /\ OpenTransport(tlog)

ReadPossible == tlog.mode = "running" /\ is_open
ReadsFrom(queue) == queue # <<>> /\ delivered' = Append(delivered, Head(queue))

\* tcp, websocket, process and J-Link: what has arrived; at its end an empty read.
ReadPlain ==
  /\ ReadPossible /\ tkind \notin {"serial"} \cup Pigweed
  /\ ReadsFrom(inbound) /\ inbound' = Tail(inbound) /\ open_event' = TRUE
  /\ UNCHANGED <<tkind, tlink, h, logq, tlog>>
TcpReset ==
  /\ ReadPossible /\ tkind = "tcp" /\ h.peer = "lost" /\ inbound = <<>>
  /\ tlog' = [tlog EXCEPT !.mode = "failed"] /\ UNCHANGED <<tkind, tlink, h, inbound, logq, delivered, open_event>>
\* Pigweed: log_queue.get
ReadLogQueue ==
  /\ ReadPossible /\ tkind \in Pigweed
  /\ ReadsFrom(logq) /\ logq' = Tail(logq) /\ open_event' = TRUE
  /\ UNCHANGED <<tkind, tlink, h, inbound, tlog>>

\* Serial: a read that succeeds counts one error off.
SerialReadOk(handle) == [handle EXCEPT !.errors = IF @ > 0 THEN @ - 1 ELSE 0]
SerialReadError(handle) == [handle EXCEPT !.errors = @ + 1]
SerialRead ==
  /\ ReadPossible /\ tkind = "serial" /\ h.peer = "ok"
  /\ \/ ReadsFrom(inbound) /\ inbound' = Tail(inbound)
     \/ inbound = <<>> /\ h.errors > 0 /\ UNCHANGED <<inbound, delivered>>
  /\ h' = SerialReadOk(h) /\ open_event' = TRUE /\ tlog' = [tlog EXCEPT !.row = 0]
  /\ UNCHANGED <<tkind, tlink, logq>>
\* "read but returned no data": close, wait for the port, open and read again, unless there
\* were too many errors or it is another error.
SerialReadFails ==
  /\ ReadPossible /\ tkind = "serial"
  /\ h.peer = "lost" \/ tlog.losses < MaxLosses
  /\ LET after == SerialReadError(h)
         reopens == after.errors <= MaxReadErrors
         next == [tlog EXCEPT !.losses = IF h.peer = "lost" THEN @ ELSE @ + 1,
                              !.dropped = @ \/ inbound # <<>>]
     IN  \/ /\ reopens /\ tlink = "up"
            /\ h' = [after EXCEPT !.peer = "ok"] /\ tlog' = [next EXCEPT !.row = @ + 1]
         \/ /\ reopens /\ tlink = "down"     \* the port does not come back in time
            /\ h' = [after EXCEPT !.fd = FALSE, !.peer = "ok"] /\ tlog' = [next EXCEPT !.mode = "failed"]
         \/ h' = after /\ tlog' = [next EXCEPT !.mode = "failed"]
  /\ inbound' = <<>> /\ UNCHANGED <<tkind, tlink, logq, delivered, open_event>>

TransportsNext ==
  \/ DeviceSends \/ OtherEndLeaves \/ OtherEndReturns \/ ProcessExits
  \/ WorkerReads \/ WorkerFails
  \/ CommandOpen \/ CommandClose \/ ClosedUnexpectedly \/ Reopens
  \/ ReadPlain \/ TcpReset \/ ReadLogQueue \/ SerialRead \/ SerialReadFails

TransportsSpec == TransportsInit /\ [][TransportsNext]_trVars

-----------------------------------------------------------------------------
(* Properties.                                                             *)

\* State is of its type; a worker thread never reads a port that is closed under it.
TransportsTypeOK ==
  /\ tlink \in {"up", "down"} /\ h.peer \in {"ok", "lost"} /\ h.proc \in {"none", "running", "exited"}
  /\ h.worker \in {"none", "alive", "dead"} /\ open_event \in BOOLEAN
  /\ tlog.mode \in {"running", "reopening", "failed"}
  /\ WorkerAlive => h.fd

\* After close() has returned normally nothing is held: no port or socket, no process, no
\* thread. The exception is a Pigweed serial transport whose worker ended by itself: is_open()
\* is false, so close() leaves the port open.
ClosedIsFree ==
  tlog.did = "closed" => (~h.fd /\ h.proc # "running" /\ ~WorkerAlive) \/ (tlog.died /\ tkind = "pwserial")

\* read() returns what the device sent while the transport was open, in order, once, and all of
\* it unless the transport was closed or opened again with messages still unread.
ReadsWhatWasSent ==
  IF tlog.dropped THEN \A i, j \in DOMAIN delivered : i < j => delivered[i] < delivered[j]
  ELSE delivered \o logq \o inbound = [i \in 1..tlog.sent |-> i]

\* open() that returns normally leaves the transport open, and so the event true; the ssh
\* transport alone returns without opening when the device does not answer.
OpenedIsOpen == ~tlog.opened => tkind = "ssh"

\* A serial port that keeps failing is reopened at most MaxReadErrors times between two reads
\* that succeed; then the error ends the process.
ReadErrorsBounded == tlog.row <= MaxReadErrors /\ h.errors <= MaxReadErrors + 1

\* A transport that is closed holds nothing, and one that is open loses,
\* repeats and reorders nothing, for every kind of transport.
NothingHeldOrLost ==
  /\ TransportsTypeOK
  /\ ClosedIsFree
  /\ ReadsWhatWasSent
  /\ OpenedIsOpen
  /\ ReadErrorsBounded
=============================================================================
