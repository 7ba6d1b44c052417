---------------------------- MODULE RawDataQueue ----------------------------
(***************************************************************************)
(* expect() and do_and_expect() of gazoo_device/switchboard/switchboard.py *)
(* and the raw data queue they read: _enable_raw_data_queue,               *)
(* _disable_raw_data_queue, _flush_raw_data_queue, _toggle_raw_data, and   *)
(* toggle_raw_data and _publish_line of transport_process.py.              *)
(*                                                                         *)
(* The main process switches the stream of lines on and off by toggling    *)
(* one event per transport process, one after the other, while the         *)
(* transport processes publish.  do_and_expect runs a function first,      *)
(* which may call expect() itself, and may add a transport process.        *)
(* A line passes through the feeder buffer of its process before it is in  *)
(* the pipe, where the main process can see it.                            *)
(***************************************************************************)
EXTENDS Naturals, Sequences

CONSTANTS
  MaxTransports, \* bound: transport processes
  MaxLines,      \* bound: lines the transports publish
  MaxExpects     \* bound: outermost expect calls

ASSUME RawDataAssumption ==
  MaxTransports \in Nat /\ MaxLines \in Nat /\ MaxExpects \in Nat

Transports == 1..MaxTransports

VARIABLES
  transports, \* len(_transport_processes)
  enabled,    \* enabled[t]: t's _raw_data_enabled event
  users,      \* _raw_data_queue_users
  mpc,        \* where the innermost call in progress is
  depth,      \* number of calls in progress: a call, and one inside its function
  at,         \* the next transport _toggle_raw_data toggles
  buffer,     \* buffer[t]: lines t has published that are not in the pipe
  queue,      \* _raw_data_queue: lines, with the call they reached the pipe in
  expects,    \* number of outermost calls so far
  lines,      \* number of lines published so far
  due,        \* lines published while the current call was listening
  heard,      \* lines the current call's waits have taken
  disturbed   \* a signal interrupted the switching, or a transport was added
              \* while a call was listening

vars == <<transports, enabled, users, mpc, depth, at, buffer, queue, expects, lines, due,
          heard, disturbed>>
stream == <<buffer, queue, lines, due, heard>>

\* A call has switched the stream on and not begun to switch it off.
Listening == mpc \in {"func", "wait"} \/ (mpc = "enter" /\ depth = 2)

Init ==
  /\ transports \in Transports
  /\ enabled = [t \in Transports |-> FALSE]
  /\ users = 0 /\ mpc = "idle" /\ depth = 0 /\ at = 1
  /\ buffer = [t \in Transports |-> <<>>] /\ queue = <<>>
  /\ expects = 0 /\ lines = 0 /\ due = {} /\ heard = {} /\ disturbed = FALSE

-----------------------------------------------------------------------------
(* Enabling and disabling.                                                 *)

Expect == \* the try block: _enable_raw_data_queue() is about to run
  /\ mpc = "idle" /\ expects < MaxExpects
  /\ expects' = expects + 1 /\ mpc' = "enter" /\ depth' = 1
  /\ due' = {} /\ heard' = {}
  /\ UNCHANGED <<transports, enabled, users, at, buffer, queue, lines, disturbed>>

InnerExpect == \* the function calls expect()
  /\ mpc = "func" /\ mpc' = "enter" /\ depth' = 2
  /\ UNCHANGED <<transports, enabled, users, at, expects, stream, disturbed>>

\* The outermost call runs its function first; the one inside only waits.
Body == IF depth = 2 THEN "wait" ELSE "func"

\* Mutant: a nested call flushes too.
EnableFlushesAlways ==
  /\ mpc = "enter"
  /\ users' = users + 1
  /\ IF users' = 1 THEN mpc' = "flushOn" /\ UNCHANGED queue
                   ELSE mpc' = Body /\ queue' = <<>>
  /\ UNCHANGED <<transports, enabled, depth, at, buffer, expects, lines, due, heard,
                 disturbed>>
\* Only the first user flushes and toggles.
Enable ==
  /\ mpc = "enter"
  /\ users' = users + 1
  /\ mpc' = IF users' = 1 THEN "flushOn" ELSE Body
  /\ UNCHANGED <<transports, enabled, depth, at, expects, stream, disturbed>>

\* Mutant: looks at one message only.
FlushOnce(done) == done /\ queue' = IF queue = <<>> THEN <<>> ELSE Tail(queue)
\* while not empty: get_nowait
Flush(done) ==
  IF queue # <<>> THEN queue' = Tail(queue) /\ UNCHANGED <<mpc, depth>>
                  ELSE done /\ UNCHANGED queue

Goto(pc) == mpc' = pc /\ UNCHANGED depth

FlushOn ==
  /\ mpc = "flushOn" /\ Flush(Goto("toggleOn"))
  /\ at' = 1
  /\ UNCHANGED <<transports, enabled, users, buffer, expects, lines, due, heard, disturbed>>

\* Mutant: goes one past the last transport.
ToggleOnePast(from, to) ==
  /\ mpc = from
  /\ IF at <= transports + 1
     THEN /\ enabled' = [enabled EXCEPT ![at] = ~@]
          /\ at' = at + 1 /\ UNCHANGED mpc
     ELSE mpc' = to /\ at' = 1 /\ UNCHANGED enabled
  /\ UNCHANGED <<transports, users, depth, expects, stream, disturbed>>
\* for transport in self._transport_processes: toggle_raw_data()
Toggle(from, to) ==
  /\ mpc = from
  /\ IF at <= transports
     THEN /\ enabled' = [enabled EXCEPT ![at] = ~@]
          /\ at' = at + 1 /\ UNCHANGED mpc
     ELSE mpc' = to /\ at' = 1 /\ UNCHANGED enabled
  /\ UNCHANGED <<transports, users, depth, expects, stream, disturbed>>

ToggleOn == Toggle("toggleOn", Body)
ToggleOff == Toggle("toggleOff", "flushOff")

\* The call is over; if it was called by the function of another, that goes on.
Leave == depth' = depth - 1 /\ mpc' = IF depth = 2 THEN "func" ELSE "idle"

FlushOff ==
  /\ mpc = "flushOff" /\ Flush(Leave)
  /\ UNCHANGED <<transports, enabled, users, at, buffer, expects, lines, due, heard,
                 disturbed>>

\* Mutant: switches the stream off whoever else uses it.
DisableUncounted ==
  /\ users' = IF users > 0 THEN users - 1 ELSE 0
  /\ Goto("toggleOff") /\ at' = 1
\* _disable_raw_data_queue()
Disable ==
  /\ users' = IF users > 0 THEN users - 1 ELSE 0
  /\ IF users' = 0 THEN Goto("toggleOff") /\ at' = 1
                   ELSE Leave /\ UNCHANGED at

-----------------------------------------------------------------------------
(* The call's body.                                                        *)

FuncReturns ==
  /\ mpc = "func" /\ mpc' = "wait"
  /\ UNCHANGED <<transports, enabled, users, depth, at, expects, stream, disturbed>>

Take == \* _expect gets a line
  /\ mpc = "wait" /\ queue # <<>>
  /\ heard' = heard \cup {Head(queue).line} /\ queue' = Tail(queue)
  /\ UNCHANGED <<transports, enabled, users, mpc, depth, at, buffer, expects, lines, due,
                 disturbed>>

ExpectEnds == \* found, timed out, or raised: the finally clause
  /\ mpc = "wait" /\ Disable
  /\ UNCHANGED <<transports, enabled, expects, stream, disturbed>>

FuncRaises ==
  /\ mpc = "func" /\ Disable
  /\ UNCHANGED <<transports, enabled, expects, stream, disturbed>>

\* The SIGUSR1 handler raises in the middle of enabling or disabling: before
\* the finally clause it runs the finally clause, inside it leaves the call.
Interrupted ==
  /\ \/ mpc \in {"enter", "flushOn", "toggleOn"} /\ Disable
     \/ mpc \in {"toggleOff", "flushOff"} /\ Leave /\ UNCHANGED <<users, at>>
  /\ disturbed' = TRUE
  /\ UNCHANGED <<transports, enabled, expects, stream>>

-----------------------------------------------------------------------------
(* Transport processes.                                                    *)

AddTransportProcess == \* a new process has a new, cleared event
  /\ mpc \in {"idle", "func"} /\ transports < MaxTransports
  /\ transports' = transports + 1
  /\ disturbed' = (disturbed \/ mpc = "func")
  /\ UNCHANGED <<enabled, users, mpc, depth, at, expects, stream>>

DeleteLastTransportProcess ==
  /\ mpc \in {"idle", "func"} /\ transports > 1 /\ buffer[transports] = <<>>
  /\ transports' = transports - 1
  /\ enabled' = [enabled EXCEPT ![transports] = FALSE]
  /\ UNCHANGED <<users, mpc, depth, at, expects, stream, disturbed>>

\* _publish_line: the line goes to the queue if the event is set at this moment.
PublishLine(t) ==
  /\ t <= transports /\ lines < MaxLines
  /\ lines' = lines + 1
  /\ due' = IF Listening THEN due \cup {lines + 1} ELSE due
  /\ buffer' = IF enabled[t] THEN [buffer EXCEPT ![t] = Append(@, lines + 1)] ELSE buffer
  /\ UNCHANGED <<transports, enabled, users, mpc, depth, at, queue, expects, heard,
                 disturbed>>

Feed(t) == \* the transport process's feeder thread
  /\ buffer[t] # <<>>
  /\ queue' = Append(queue, [line |-> Head(buffer[t]), call |-> expects])
  /\ buffer' = [buffer EXCEPT ![t] = Tail(@)]
  /\ UNCHANGED <<transports, enabled, users, mpc, depth, at, expects, lines, due, heard,
                 disturbed>>

-----------------------------------------------------------------------------
MainNext ==
  \/ Expect \/ Enable \/ FlushOn \/ ToggleOn \/ InnerExpect \/ FuncReturns
  \/ Take \/ ExpectEnds \/ FuncRaises \/ ToggleOff \/ FlushOff \/ Interrupted
  \/ AddTransportProcess \/ DeleteLastTransportProcess

Next == MainNext \/ \E t \in Transports : PublishLine(t) \/ Feed(t)

Spec == Init /\ [][Next]_vars

-----------------------------------------------------------------------------
Messages == [line : 1..MaxLines, call : 0..MaxExpects]

TypeOK ==
  /\ transports \in Transports
  /\ enabled \in [Transports -> BOOLEAN]
  /\ users \in 0..2
  /\ mpc \in {"idle", "enter", "flushOn", "toggleOn", "func", "wait", "toggleOff", "flushOff"}
  /\ depth \in 0..2
  /\ at \in 1..(MaxTransports + 1)
  /\ buffer \in [Transports -> Seq(1..MaxLines)] /\ queue \in Seq(Messages)
  /\ expects \in 0..MaxExpects /\ lines \in 0..MaxLines
  /\ due \subseteq 1..lines /\ heard \subseteq 1..lines /\ disturbed \in BOOLEAN

\* Toggling instead of setting is right only as long as every transport's event
\* agrees with the user count: while a call listens every transport publishes,
\* and between calls none does.  An exception in the middle of toggling, or a
\* transport that joins late, ends that for good.
FlagsFollowUsers == ~disturbed =>
  \A t \in 1..transports : /\ Listening => enabled[t]
                           /\ mpc = "idle" => ~enabled[t]

OnItsWay(n) ==
  \/ \E i \in DOMAIN queue : queue[i].line = n
  \/ \E t \in Transports : \E i \in DOMAIN buffer[t] : buffer[t][i] = n

\* "Starts up expect queue right before ... to catch fast responses": a line a
\* transport publishes after the stream was switched on is taken by a wait of
\* this call or still to come; neither a nested call nor a flush loses it.
NoLineMissed ==
  ~disturbed /\ Listening => \A n \in due : n \in heard \/ OnItsWay(n)

\* "Flushes the expect queue before and after an expect": a call looks only at
\* lines that reached the pipe during that call, even when an interrupted call
\* has left transports publishing.
NoStaleLines == [][Take => Head(queue).call = expects]_vars
=============================================================================
