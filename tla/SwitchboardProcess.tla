------------------------- MODULE SwitchboardProcess -------------------------
(***************************************************************************)
(* The life cycle of one SwitchboardProcess object                         *)
(* (gazoo_device/switchboard/switchboard_process.py): a handle in the main *)
(* process that starts, commands, stops and restarts a child process, and  *)
(* the children it has forked.  All children of a handle share its three   *)
(* events, its command queue and the Manager's exception queue.            *)
(*                                                                         *)
(* The main process runs one call at a time; mpc is where that call waits. *)
(* A SIGUSR1 from a child runs Manager._process_exceptions there, and the  *)
(* DeviceError it raises aborts the call at that point.                    *)
(*                                                                         *)
(* A multiprocessing queue has two stages: the putting process's feeder    *)
(* buffer, and the pipe that get() and empty() look at.                    *)
(***************************************************************************)
EXTENDS Naturals, Sequences, FiniteSets

CONSTANTS MaxStarts, \* bound: children forked by this handle
          MaxSends   \* bound: calls of send_command

ASSUME BoundsAssumption == MaxStarts \in Nat /\ MaxSends \in Nat

Children == 1..MaxStarts
None == 0

VARIABLES
  mpc,            \* where the main process's current call is, "idle" between calls
  parentAlive,
  process,        \* self._process: a child or None
  forked,         \* number of children forked so far; the newest child
  cpc,            \* cpc[c]: where child c is
  sigterm,        \* children that were sent SIGTERM
  startEvent, stopEvent, terminateEvent,
  cmdBuffer,      \* commands in the main process's feeder buffer
  cmdQueue,       \* commands in the pipe
  sends,          \* number of send_command calls so far
  excBuffer,      \* children whose message is still in their feeder buffer
  excQueue,       \* children whose message is in the exception queue's pipe
  sigusr1         \* SIGUSR1 pending in the main process (signals do not queue)

events  == <<startEvent, stopEvent, terminateEvent>>
cmds    == <<cmdBuffer, cmdQueue, sends>>
reports == <<excBuffer, excQueue, sigusr1>>
handle  == <<mpc, parentAlive, process, forked>>
vars    == <<handle, cpc, sigterm, events, cmds, reports>>

MainPcs == {"idle", "startWait", "waitStart", "setTerminate", "stopWait",
            "join", "terminateJoin", "consume"}
ChildPcs == {"unborn", "boot", "hook", "loop", "clear", "work", "raised",
             "flush", "signal", "crash", "ending", "post", "dead"}

IsAlive(c) == cpc[c] \notin {"unborn", "dead"}

Init ==
  /\ mpc = "idle" /\ parentAlive = TRUE /\ process = None /\ forked = 0
  /\ cpc = [c \in Children |-> "unborn"]
  /\ sigterm = {}
  /\ startEvent = FALSE /\ stopEvent = FALSE /\ terminateEvent = FALSE
  /\ cmdBuffer = 0 /\ cmdQueue = 0 /\ sends = 0
  /\ excBuffer = {} /\ excQueue = <<>> /\ sigusr1 = FALSE

-----------------------------------------------------------------------------
(* The main process: start(), wait_for_start().                            *)

MainAt(pc) == parentAlive /\ mpc = pc

\* Mutant: looks at is_running() instead of is_started().
StartWhenDead(wait) ==
  /\ MainAt("idle") /\ forked < MaxStarts
  /\ ~(process # None /\ IsAlive(process))
  /\ startEvent' = FALSE /\ stopEvent' = FALSE
  /\ forked' = forked + 1
  /\ cpc' = [cpc EXCEPT ![forked + 1] = "boot"]
  /\ IF wait THEN mpc' = "startWait" /\ UNCHANGED process
             ELSE mpc' = "idle" /\ process' = forked + 1
  /\ UNCHANGED <<parentAlive, terminateEvent, sigterm, cmds, reports>>

\* start() forks before it waits, and binds _process only after waiting.
Start(wait) ==
  /\ MainAt("idle") /\ process = None /\ forked < MaxStarts
  /\ startEvent' = FALSE /\ stopEvent' = FALSE
  /\ forked' = forked + 1
  /\ cpc' = [cpc EXCEPT ![forked + 1] = "boot"]
  /\ IF wait THEN mpc' = "startWait" /\ UNCHANGED process
             ELSE mpc' = "idle" /\ process' = forked + 1
  /\ UNCHANGED <<parentAlive, terminateEvent, sigterm, cmds, reports>>

\* Mutant: binds the next child's number.
StartReturnsOffByOne ==
  /\ MainAt("startWait") /\ startEvent
  /\ mpc' = "idle" /\ process' = forked + 1
  /\ UNCHANGED <<parentAlive, forked, cpc, sigterm, events, cmds, reports>>

StartReturns ==
  /\ MainAt("startWait") /\ startEvent
  /\ mpc' = "idle" /\ process' = forked
  /\ UNCHANGED <<parentAlive, forked, cpc, sigterm, events, cmds, reports>>

\* RuntimeError: _process stays None, the child is left running.
StartTimesOut ==
  /\ MainAt("startWait") /\ ~startEvent
  /\ mpc' = "idle"
  /\ UNCHANGED <<parentAlive, process, forked, cpc, sigterm, events, cmds, reports>>

\* wait_for_start() after start(wait_for_start=False).
WaitForStart ==
  /\ MainAt("idle") /\ process # None
  /\ mpc' = "waitStart"
  /\ UNCHANGED <<parentAlive, process, forked, cpc, sigterm, events, cmds, reports>>

WaitForStartReturns == \* with the event set, or with a RuntimeError
  /\ MainAt("waitStart")
  /\ mpc' = "idle"
  /\ UNCHANGED <<parentAlive, process, forked, cpc, sigterm, events, cmds, reports>>

-----------------------------------------------------------------------------
(* The main process: stop(), terminate().                                  *)

\* stop() up to and including its is_alive() check.
StopEntry == mpc' = IF IsAlive(process) THEN "setTerminate" ELSE "stopWait"

Stop ==
  /\ MainAt("idle") /\ process # None
  /\ StopEntry
  /\ UNCHANGED <<parentAlive, process, forked, cpc, sigterm, events, cmds, reports>>

SetTerminate ==
  /\ MainAt("setTerminate")
  /\ terminateEvent' = TRUE
  /\ mpc' = "stopWait"
  /\ UNCHANGED <<parentAlive, process, forked, cpc, sigterm, startEvent, stopEvent,
                 cmds, reports>>

StopWaitReturns == \* _stop_event.wait(5): set, or timed out
  /\ MainAt("stopWait")
  /\ mpc' = "join"
  /\ UNCHANGED <<parentAlive, process, forked, cpc, sigterm, events, cmds, reports>>

\* process.terminate(): SIGTERM to the child, then join(1).
SendSigterm ==
  /\ sigterm' = sigterm \cup ({process} \cap {c \in Children : IsAlive(c)})
  /\ mpc' = "terminateJoin"
  /\ UNCHANGED <<parentAlive, process, forked, cpc, events, cmds, reports>>

\* Mutant: trusts the stop event and does not look at the child.
JoinTrustsEvent ==
  /\ MainAt("join")
  /\ process' = None /\ mpc' = "idle"
  /\ UNCHANGED <<parentAlive, forked, cpc, sigterm, events, cmds, reports>>

JoinStopped ==
  /\ MainAt("join") /\ ~IsAlive(process)
  /\ process' = None /\ mpc' = "idle"
  /\ UNCHANGED <<parentAlive, forked, cpc, sigterm, events, cmds, reports>>

JoinTimesOut == MainAt("join") /\ IsAlive(process) /\ SendSigterm

Terminate == MainAt("idle") /\ process # None /\ SendSigterm

TerminateJoinReturns == \* the child is dead, or join() timed out
  /\ MainAt("terminateJoin")
  /\ process' = None /\ mpc' = "idle"
  /\ UNCHANGED <<parentAlive, forked, cpc, sigterm, events, cmds, reports>>

-----------------------------------------------------------------------------
(* The main process: send_command(), exceptions, death.                    *)

SendCommand(wait) ==
  /\ MainAt("idle") /\ sends < MaxSends
  /\ sends' = sends + 1
  /\ cmdBuffer' = cmdBuffer + 1
  /\ mpc' = IF wait THEN "consume" ELSE "idle"
  /\ UNCHANGED <<parentAlive, process, forked, cpc, sigterm, events, cmdQueue, reports>>

FeedCommand == \* the feeder thread of the main process
  /\ parentAlive /\ cmdBuffer > 0
  /\ cmdBuffer' = cmdBuffer - 1 /\ cmdQueue' = cmdQueue + 1
  /\ UNCHANGED <<handle, cpc, sigterm, events, sends, reports>>

\* is_command_consumed(): Queue.empty() looks at the pipe only.
IsCommandConsumed == cmdQueue = 0

CommandConsumed ==
  /\ MainAt("consume") /\ IsCommandConsumed
  /\ mpc' = "idle"
  /\ UNCHANGED <<parentAlive, process, forked, cpc, sigterm, events, cmds, reports>>

\* ProcessCommunicationError after stop(); stop() of no process raises at once.
ConsumptionTimesOut ==
  /\ MainAt("consume") /\ ~IsCommandConsumed
  /\ IF process = None THEN mpc' = "idle" ELSE StopEntry
  /\ UNCHANGED <<parentAlive, process, forked, cpc, sigterm, events, cmds, reports>>

\* Manager._process_exceptions: one get_nowait(), then raise, which leaves
\* whatever call the main process was in.
ProcessExceptions ==
  /\ parentAlive /\ sigusr1
  /\ sigusr1' = FALSE
  /\ excQueue' = IF excQueue = <<>> THEN <<>> ELSE Tail(excQueue)
  /\ mpc' = "idle"
  /\ UNCHANGED <<parentAlive, process, forked, cpc, sigterm, events, cmds, excBuffer>>

ParentDies ==
  /\ parentAlive
  /\ parentAlive' = FALSE /\ cmdBuffer' = 0 /\ sigusr1' = FALSE
  /\ UNCHANGED <<mpc, process, forked, cpc, sigterm, events, cmdQueue, sends,
                 excBuffer, excQueue>>

-----------------------------------------------------------------------------
(* A child: _process_loop() inside _child_process_wrapper().               *)

ChildStep(c, from, to) == cpc[c] = from /\ cpc' = [cpc EXCEPT ![c] = to]

ChildBoots(c) == \* _start_event.set()
  /\ ChildStep(c, "boot", "hook")
  /\ startEvent' = TRUE
  /\ UNCHANGED <<handle, sigterm, stopEvent, terminateEvent, cmds, reports>>

ChildPreRun(c) == \* _pre_run_hook(): True, False or an exception
  /\ \E to \in {"loop", "ending", "raised"} : ChildStep(c, "hook", to)
  /\ UNCHANGED <<handle, sigterm, events, cmds, reports>>

\* Mutant: the loop does not look at its parent.
ChildLoopForever(c) ==
  /\ ChildStep(c, "loop", IF terminateEvent THEN "clear" ELSE "work")
  /\ UNCHANGED <<handle, sigterm, events, cmds, reports>>

ChildLoop(c) == \* parent alive?  terminate event set?
  /\ ChildStep(c, "loop", IF ~parentAlive THEN "ending"
                          ELSE IF terminateEvent THEN "clear" ELSE "work")
  /\ UNCHANGED <<handle, sigterm, events, cmds, reports>>

ChildClears(c) == \* _terminate_event.clear(); break
  /\ ChildStep(c, "clear", "ending")
  /\ terminateEvent' = FALSE
  /\ UNCHANGED <<handle, sigterm, startEvent, stopEvent, cmds, reports>>

\* _do_work() takes at most one command, then continues, finishes or raises.
ChildWorks(c) ==
  /\ \E to \in {"loop", "ending", "raised"} : ChildStep(c, "work", to)
  /\ cmdQueue' = IF cmdQueue > 0 THEN cmdQueue - 1 ELSE 0
  /\ UNCHANGED <<handle, sigterm, events, cmdBuffer, sends, reports>>

ChildPutsException(c) == \* exception_queue.put_nowait()
  /\ ChildStep(c, "raised", "flush")
  /\ excBuffer' = excBuffer \cup {c}
  /\ UNCHANGED <<handle, sigterm, events, cmds, excQueue, sigusr1>>

ChildFeedsException(c) == \* the child's feeder thread
  /\ IsAlive(c) /\ c \in excBuffer
  /\ excBuffer' = excBuffer \ {c} /\ excQueue' = Append(excQueue, c)
  /\ UNCHANGED <<handle, cpc, sigterm, events, cmds, sigusr1>>

\* Mutant: does not wait for the feeder thread.
ChildNotFlushed(c) ==
  /\ ChildStep(c, "flush", "signal")
  /\ UNCHANGED <<handle, sigterm, events, cmds, reports>>

ChildFlushed(c) == \* wait_for_queue_writes() returns, or raises after 1s
  /\ ChildStep(c, "flush", IF c \in excBuffer THEN "crash" ELSE "signal")
  /\ UNCHANGED <<handle, sigterm, events, cmds, reports>>

ChildSignals(c) == \* os.kill(parent_pid, SIGUSR1)
  /\ ChildStep(c, "signal", "ending")
  /\ sigusr1' = parentAlive
  /\ UNCHANGED <<handle, sigterm, events, cmds, excBuffer, excQueue>>

ChildEnds(c) == \* _stop_event.set()
  /\ ChildStep(c, "ending", "post")
  /\ stopEvent' = TRUE
  /\ UNCHANGED <<handle, sigterm, startEvent, terminateEvent, cmds, reports>>

ChildExits(c) == \* _post_run_hook(), or a traceback; exit joins the feeder thread
  /\ \E from \in {"post", "crash"} : ChildStep(c, from, "dead")
  /\ c \notin excBuffer
  /\ UNCHANGED <<handle, sigterm, events, cmds, reports>>

ChildKilled(c) == \* SIGTERM takes effect; unsent messages are lost
  /\ c \in sigterm /\ IsAlive(c)
  /\ cpc' = [cpc EXCEPT ![c] = "dead"]
  /\ excBuffer' = excBuffer \ {c}
  /\ UNCHANGED <<handle, sigterm, events, cmds, excQueue, sigusr1>>

-----------------------------------------------------------------------------
Calls == \/ \E wait \in BOOLEAN : Start(wait) \/ SendCommand(wait)
         \/ WaitForStart \/ Stop \/ Terminate

\* Steps of a call in progress: each wait in the code has a timeout.
MainContinues ==
  \/ StartReturns \/ StartTimesOut \/ WaitForStartReturns
  \/ SetTerminate \/ StopWaitReturns \/ JoinStopped \/ JoinTimesOut
  \/ TerminateJoinReturns \/ CommandConsumed \/ ConsumptionTimesOut

ChildContinues(c) ==
  \/ ChildBoots(c) \/ ChildPreRun(c) \/ ChildLoop(c) \/ ChildClears(c)
  \/ ChildWorks(c) \/ ChildPutsException(c) \/ ChildFeedsException(c)
  \/ ChildFlushed(c) \/ ChildSignals(c) \/ ChildEnds(c) \/ ChildExits(c)

Next ==
  \/ Calls \/ MainContinues \/ FeedCommand \/ ProcessExceptions \/ ParentDies
  \/ \E c \in Children : ChildContinues(c) \/ ChildKilled(c)

Spec == Init /\ [][Next]_vars

\* Fairness: a call in progress goes on, since each of its waits is timed.
\* Nothing forces the main process to call anything, and nothing is promised
\* about the children, which may hang in _do_work.
FairSpec == Spec /\ WF_vars(MainContinues)

\* What OrphansExit needs besides: _do_work returns, the loop of a child is
\* scheduled and the operating system delivers SIGTERM.
ChildFairness == \A c \in Children : WF_vars(ChildContinues(c)) /\ WF_vars(ChildKilled(c))

-----------------------------------------------------------------------------
TypeOK ==
  /\ mpc \in MainPcs /\ parentAlive \in BOOLEAN
  /\ forked \in 0..MaxStarts /\ process \in 0..forked
  /\ cpc \in [Children -> ChildPcs] /\ sigterm \subseteq Children
  /\ startEvent \in BOOLEAN /\ stopEvent \in BOOLEAN /\ terminateEvent \in BOOLEAN
  /\ cmdBuffer \in Nat /\ cmdQueue \in Nat /\ sends \in 0..MaxSends
  /\ excBuffer \subseteq Children /\ excQueue \in Seq(Children)
  /\ sigusr1 \in BOOLEAN

\* wait_for_queue_writes() exists so that SIGUSR1 never overtakes its message:
\* whenever the signal is pending, the handler finds a message in the queue, so
\* "Exception queue missing exception message on SIGUSR1" is never raised.
SignalHasMessage == sigusr1 => excQueue # <<>>

\* stop() and terminate() let go of a child only when it is dead or has been
\* sent SIGTERM ("stopping and verifying process stop"), whatever the stop
\* event said, which an older child sharing the event may have set.
StopNeverOrphans ==
  [][process # None /\ process' # process
       => ~IsAlive(process) \/ process \in sigterm]_vars

\* The state of the bound child, as the owner of the handle may rely on it.
Status == IF process = None THEN "none"
          ELSE IF ~IsAlive(process) THEN "down"
          ELSE IF process \in sigterm THEN "doomed" ELSE "up"

Handle == INSTANCE ProcessHandle WITH status <- Status

\* The events, queues, timeouts and signals together implement the handle that
\* the Switchboard relies on: a handle binds one child at a time, a dead child
\* stays dead, and a child that is up is never let go of, in any interleaving.
ImplementsHandle == Handle!Spec

\* stop(), terminate(), start() and send_command() return even if the child
\* never does: every wait of theirs is bounded.
CallsReturn == [](mpc # "idle" => <>(mpc = "idle" \/ ~parentAlive))

\* Children do not outlive a dead main process as long as _do_work() returns,
\* and a child that was sent SIGTERM dies.
OrphansExit == ChildFairness =>
  /\ ~parentAlive ~> \A c \in Children : ~IsAlive(c)
  /\ \A c \in Children : c \in sigterm ~> ~IsAlive(c)

-----------------------------------------------------------------------------
(* What the documentation says and the code does not do.                   *)

\* "starting and verifying process start": when start() returns, the child it
\* binds has set the start event.
StartVerified ==
  [][StartReturns => cpc[forked] # "boot"]_vars

\* No hanging process holds another one up: the calls of the main process end
\* although children hang, and children end although the main process died.
NothingHangs == CallsReturn /\ OrphansExit
=============================================================================
