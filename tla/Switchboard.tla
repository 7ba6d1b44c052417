---------------------------- MODULE Switchboard -----------------------------
(***************************************************************************)
(* The process table of SwitchboardDefault                                 *)
(* (gazoo_device/switchboard/switchboard.py): the lazy health check that   *)
(* starts every process of a device, transports that come and go, and      *)
(* close().  The processes are handles that behave by ProcessHandle, which *)
(* SwitchboardProcess implements; status[p] is the state of handle p.      *)
(*                                                                         *)
(* One call runs at a time: op names it and todo lists the processes it    *)
(* still has to visit.  The DeviceError that Manager._process_exceptions   *)
(* raises on SIGUSR1 ends it wherever it is.                               *)
(***************************************************************************)
EXTENDS Integers, Sequences, SequencesExt, FiniteSets

CONSTANTS NumPorts,  \* transports the device was created with
          HasParser, \* the device has a log parser, hence a log filter process
          MaxAdded,  \* bound: calls of add_transport_process
          MaxStarts  \* bound: calls of start_transport_process

ASSUME SizesAssumption ==
  NumPorts \in Nat /\ HasParser \in BOOLEAN /\ MaxAdded \in Nat /\ MaxStarts \in Nat

Writer == 0
Filter == -1
Ports == 1..(NumPorts + MaxAdded)
Procs == Ports \cup {Writer, Filter}

VARIABLES
  healthy,     \* _healthy: "unset", "yes" or "no"
  transports,  \* _transport_processes_cache
  logs,        \* the log writer and log filter in the table
  status,      \* status[p]: the handle of p
  orphans,     \* transports with a child that a timed out start() left behind
  op, todo,    \* the call in progress and the processes it has yet to visit
  batch,       \* processes_to_start: those of the table that are not started
  addresses,   \* comms_addresses of close(): the transports it found
  added, starts,
  sigusr1,
  removed,     \* transports that delete_last_transport_process has removed
  interrupted, \* SIGUSR1 has ended a call, or a start() has raised
  closed       \* close() has returned

table == <<transports, logs>>
call  == <<op, todo, batch, addresses>>
past  == <<removed, interrupted, closed>>
vars  == <<healthy, table, status, orphans, call, added, starts, sigusr1, past>>

H(p) == INSTANCE ProcessHandle WITH status <- status[p]

IsStarted(p) == status[p] # "none"

Init ==
  /\ healthy = "unset" /\ transports = <<>> /\ logs = <<>>
  /\ status = [p \in Procs |-> "none"] /\ orphans = {}
  /\ op = "idle" /\ todo = <<>> /\ batch = {} /\ addresses = {}
  /\ added = 0 /\ starts = 0
  /\ sigusr1 = FALSE /\ removed = {} /\ interrupted = FALSE /\ closed = FALSE

Moves(p, from, to) == status[p] \in from /\ status' = [status EXCEPT ![p] = to]

-----------------------------------------------------------------------------
(* health_check() and _start_processes().                                  *)

AllProcesses == transports \o logs

\* The first use of the switchboard fills the table and starts what is in it
\* and not started yet; transports added before come first.
HealthCheck ==
  /\ op = "idle" /\ healthy = "unset"
  /\ transports' = transports \o [i \in 1..NumPorts |-> i]
  /\ logs' = IF HasParser THEN <<Writer, Filter>> ELSE <<Writer>>
  /\ todo' = transports' \o logs'
  /\ batch' = {p \in Range(todo') : ~IsStarted(p)}
  /\ op' = "starting"
  /\ UNCHANGED <<healthy, status, orphans, addresses, added, starts, sigusr1, past>>

\* The call goes on to the next process of its list, or to `then`.
Visited(then, rest) ==
  IF Len(todo) > 1 THEN op' = op /\ todo' = Tail(todo)
                   ELSE op' = then /\ todo' = rest

StartOne == \* start(wait_for_start=False)
  /\ op = "starting"
  /\ IF Head(todo) \in batch THEN Moves(Head(todo), {"none"}, "up") ELSE UNCHANGED status
  /\ Visited("waiting", AllProcesses)
  /\ UNCHANGED <<healthy, table, orphans, batch, addresses, added, starts, sigusr1, past>>

\* start() raises something else than RuntimeError: nothing is terminated.
StartRaises ==
  /\ op = "starting"
  /\ healthy' = "no" /\ op' = "idle" /\ todo' = <<>> /\ interrupted' = TRUE
  /\ UNCHANGED <<table, status, orphans, batch, addresses, added, starts, sigusr1, removed, closed>>

WaitReturns ==
  /\ op = "waiting"
  /\ Visited("idle", <<>>)
  /\ healthy' = IF Len(todo) = 1 THEN "yes" ELSE healthy
  /\ UNCHANGED <<table, status, orphans, batch, addresses, added, starts, sigusr1, past>>

\* Mutant: terminates only the processes that were not waited for yet.
WaitTimesOutRest ==
  /\ op = "waiting"
  /\ op' = "terminating" /\ UNCHANGED todo
  /\ UNCHANGED <<healthy, table, status, orphans, batch, addresses, added, starts, sigusr1,
                 past>>

\* RuntimeError: all of the batch is terminated.
WaitTimesOut ==
  /\ op = "waiting" /\ Head(todo) \in batch
  /\ op' = "terminating" /\ todo' = AllProcesses
  /\ UNCHANGED <<healthy, table, status, orphans, batch, addresses, added, starts, sigusr1,
                 past>>

\* Mutant: lets go without SIGTERM.
TerminateForgets ==
  /\ op = "terminating"
  /\ Moves(Head(todo), {"up", "doomed", "down"}, "none")
  /\ Visited("idle", <<>>)
  /\ healthy' = IF Len(todo) = 1 THEN "no" ELSE healthy
  /\ UNCHANGED <<table, orphans, batch, addresses, added, starts, sigusr1, past>>

\* terminate() of the next process: SIGTERM, then join() and let go.
TerminateOne ==
  /\ op = "terminating"
  /\ \/ Head(todo) \in batch /\ Moves(Head(todo), {"up"}, "doomed") /\ UNCHANGED <<op, todo, healthy>>
     \/ /\ IF Head(todo) \in batch THEN Moves(Head(todo), {"doomed", "down"}, "none")
                                  ELSE UNCHANGED status
        /\ Visited("idle", <<>>)
        /\ healthy' = IF Len(todo) = 1 THEN "no" ELSE healthy
  /\ UNCHANGED <<table, orphans, batch, addresses, added, starts, sigusr1, past>>

-----------------------------------------------------------------------------
(* Transports that come and go.                                            *)

\* add_transport_process() does not run the health check.
AddTransportProcess ==
  /\ op = "idle" /\ added < MaxAdded /\ ~closed
  /\ added' = added + 1
  /\ transports' = Append(transports, NumPorts + added + 1)
  /\ UNCHANGED <<healthy, logs, status, orphans, call, starts, sigusr1, past>>

StartTransportProcess(i) ==
  /\ op = "idle" /\ healthy = "yes" /\ i \in DOMAIN transports
  /\ starts < MaxStarts /\ starts' = starts + 1
  /\ Moves(transports[i], {"none"}, "up")
  /\ UNCHANGED <<healthy, table, orphans, call, added, sigusr1, past>>

\* start() times out waiting for its child: the child runs, unbound.
StartTransportTimesOut(i) ==
  /\ op = "idle" /\ healthy = "yes" /\ i \in DOMAIN transports
  /\ starts < MaxStarts /\ starts' = starts + 1
  /\ ~IsStarted(transports[i])
  /\ orphans' = orphans \cup {transports[i]}
  /\ UNCHANGED <<healthy, table, status, call, added, sigusr1, past>>

RemoveLast(delete) == \* del self._transport_processes[last]
  IF delete THEN transports' = Front(transports) /\ removed' = removed \cup {Last(transports)}
            ELSE UNCHANGED <<transports, removed>>

\* stop_transport_process(), and delete_last_transport_process(), which stops
\* the last one and removes it.
StopTransportProcess(i, delete) ==
  /\ op = "idle" /\ healthy = "yes" /\ i \in DOMAIN transports
  /\ delete => i = Len(transports)
  /\ IF IsStarted(transports[i])
     THEN /\ op' = (IF delete THEN "deleting" ELSE "stopping") /\ todo' = <<transports[i]>>
          /\ UNCHANGED <<transports, removed>>
     ELSE UNCHANGED <<op, todo>> /\ RemoveLast(delete)
  /\ UNCHANGED <<healthy, logs, status, orphans, batch, addresses, added, starts, sigusr1,
                 interrupted, closed>>

-----------------------------------------------------------------------------
(* close() and _stop_processes().                                          *)

Close ==
  /\ op = "idle" /\ ~closed
  /\ healthy' = "no" /\ addresses' = Range(transports)
  /\ op' = "closing" /\ todo' = transports
  /\ UNCHANGED <<table, status, orphans, batch, added, starts, sigusr1, past>>

\* stop() of the next process: it exits or is sent SIGTERM, and is let go.
StopOne ==
  /\ op \in {"stopping", "deleting", "closing", "closingLogs"} /\ todo # <<>>
  /\ \/ Moves(Head(todo), {"up"}, "doomed") /\ UNCHANGED <<todo, table, op, removed>>
     \/ /\ Moves(Head(todo), {"doomed", "down"}, "none")
        /\ todo' = Tail(todo)
        /\ op' = IF op \in {"stopping", "deleting"} THEN "idle" ELSE op
        /\ RemoveLast(op = "deleting")
        /\ logs' = IF op = "closingLogs" THEN Tail(logs) ELSE logs
  /\ UNCHANGED <<healthy, orphans, batch, addresses, added, starts, sigusr1, interrupted, closed>>

SkipOne ==
  /\ op \in {"closing", "closingLogs"} /\ todo # <<>> /\ ~IsStarted(Head(todo))
  /\ todo' = Tail(todo)
  /\ logs' = IF op = "closingLogs" THEN Tail(logs) ELSE logs
  /\ UNCHANGED <<healthy, transports, status, orphans, op, batch, addresses, added, starts,
                 sigusr1, past>>

\* The transports are stopped and forgotten; then the log processes.
CloseTransports ==
  /\ op = "closing" /\ todo = <<>>
  /\ transports' = <<>> /\ op' = "closingLogs" /\ todo' = logs
  /\ UNCHANGED <<healthy, logs, status, orphans, batch, addresses, added, starts, sigusr1, past>>

\* ensure_serial_paths_unlocked(): whoever still holds a path is sent SIGTERM.
EnsureSerialPathsUnlocked == orphans' = orphans \ addresses

CloseReturns ==
  /\ op = "closingLogs" /\ todo = <<>>
  /\ EnsureSerialPathsUnlocked
  /\ op' = "idle" /\ closed' = TRUE
  /\ UNCHANGED <<healthy, table, status, todo, batch, addresses, added, starts, sigusr1,
                 removed, interrupted>>

-----------------------------------------------------------------------------
(* The children, and SIGUSR1.                                              *)

ChildExits(p) == \* stopped, killed, or failed
  /\ Moves(p, {"up", "doomed"}, "down")
  /\ sigusr1' \in {sigusr1, TRUE}
  /\ UNCHANGED <<healthy, table, orphans, call, added, starts, past>>

ProcessExceptions ==
  /\ sigusr1 /\ sigusr1' = FALSE
  /\ healthy' = IF op \in {"starting", "waiting", "terminating"} THEN "no" ELSE healthy
  /\ op' = "idle" /\ todo' = <<>>
  /\ interrupted' = (interrupted \/ op # "idle")
  /\ UNCHANGED <<table, status, orphans, batch, addresses, added, starts, removed, closed>>

-----------------------------------------------------------------------------
Calls ==
  \/ HealthCheck \/ AddTransportProcess \/ Close
  \/ \E i \in Ports : \/ StartTransportProcess(i) \/ StartTransportTimesOut(i)
                      \/ \E delete \in BOOLEAN : StopTransportProcess(i, delete)

CallContinues ==
  \/ StartOne \/ StartRaises \/ WaitReturns \/ WaitTimesOut \/ TerminateOne
  \/ StopOne \/ SkipOne \/ CloseTransports \/ CloseReturns

Next == Calls \/ CallContinues \/ ProcessExceptions \/ \E p \in Procs : ChildExits(p)

Spec == Init /\ [][Next]_vars

-----------------------------------------------------------------------------
Ops == {"idle", "starting", "waiting", "terminating", "stopping", "deleting", "closing",
        "closingLogs"}

TypeOK ==
  /\ healthy \in {"unset", "yes", "no"} /\ op \in Ops
  /\ transports \in Seq(Ports) /\ logs \in Seq({Writer, Filter})
  /\ status \in [Procs -> {"none", "up", "doomed", "down"}] /\ orphans \subseteq Ports
  /\ todo \in Seq(Procs) /\ batch \subseteq Procs
  /\ added \in 0..MaxAdded /\ starts \in 0..MaxStarts
  /\ addresses \subseteq Ports /\ removed \subseteq Ports
  /\ sigusr1 \in BOOLEAN /\ interrupted \in BOOLEAN /\ closed \in BOOLEAN

\* The Switchboard uses each of its processes as a handle may be used: it never
\* starts one twice or lets go of a child that is up, in whatever order starts,
\* failures, signals and close() come.
HandlesUsedWell ==
  /\ \A p \in Procs : H(p)!Init
  /\ [][\A p \in Procs : H(p)!Next \/ UNCHANGED status[p]]_status

\* A health check that fails because a process does not start in time leaves
\* none of them running ("terminate all of them to clean up"); one that is
\* interrupted by a signal leaves them to close().
FailedStartLeavesNone ==
  healthy = "no" /\ op = "idle" /\ ~interrupted => \A p \in Procs : ~IsStarted(p)

\* When close() has returned no process is left in the table, whatever failed,
\* was interrupted, added or removed before; and no child that a timed out
\* start() abandoned holds a serial path, except that of a transport that was
\* removed, or when the first close() was interrupted.
ClosedMeansStopped ==
  closed => /\ \A p \in Procs : ~IsStarted(p)
            /\ orphans \subseteq removed \/ interrupted

\* Every process that runs is in the table, where close() will find it.
RunningIsInTable ==
  \A p \in Procs : IsStarted(p) => p \in Range(transports) \cup Range(logs)

\* A switchboard that was closed or failed to start never starts a process
\* ("Prevent switchboard from re-running health check after it's closed").
NeverRestarted ==
  [][closed \/ healthy = "no" => \A p \in Procs : ~IsStarted(p) => status'[p] = "none"]_vars

\* No process runs that nobody will stop: not after a start that failed, not
\* after close(), and not outside of the table that close() goes through.
NothingLeftRunning ==
  /\ TypeOK
  /\ FailedStartLeavesNone
  /\ ClosedMeansStopped
  /\ RunningIsInTable

\* The steps of the Switchboard are steps of its handles, and none of them
\* starts a process once the switchboard was closed or has failed.
ProcessesAsPromised == HandlesUsedWell /\ NeverRestarted
=============================================================================
