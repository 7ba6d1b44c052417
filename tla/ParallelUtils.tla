---------------------------- MODULE ParallelUtils ---------------------------
(***************************************************************************)
(* execute_concurrently() of gazoo_device/utility/parallel_utils.py: calls *)
(* on devices that run in a pool of processes, their results collected in  *)
(* order until a deadline, and a shutdown that terminates the processes    *)
(* which hang.                                                             *)
(*                                                                         *)
(* The pool (concurrent.futures.process of CPython 3.11) is external: a    *)
(* manager thread moves pending calls to a short queue, hands the answers  *)
(* of the workers to the futures and fails all of them when a worker dies. *)
(* No step of a worker is fair: a call may hang anywhere.                  *)
(***************************************************************************)
EXTENDS Integers, Sequences, FiniteSets

CONSTANTS Sizes,    \* the numbers of call_specs and max_processes to choose from
          MaxDeaths \* bound: workers that die by themselves

ASSUME SizesAssumption ==
  Sizes \subseteq [calls : Nat, processes : Nat \ {0}] /\ MaxDeaths \in Nat

NoCall == 0

VARIABLES
  size,     \* len(call_specs) and max_processes of this call
  fut,      \* fut[i]: the future of call i; "queued" is RUNNING and in the call queue
  answer,   \* answer[i]: what future i was completed with
  queue,    \* the call queue
  pipe,     \* answers on their way to the manager thread
  worker,   \* worker[w]: where process w is, its call and how the call ends so far
  doomed,   \* workers that were sent SIGTERM
  thread,   \* the manager thread
  broken, shutting, \* _broken and _shutdown_thread
  pc, next, \* execute_concurrently: the statement, and the call or worker it is at
  late,     \* the deadline has passed
  results, errors, \* proc_results and proc_errors
  verdict,  \* how execute_concurrently ends
  open,     \* calls whose device is open
  outcome,  \* outcome[i]: how _process_wrapper ended for call i
  begun,    \* calls a worker has taken, with the number of times
  withdrawn, inTime, \* calls not yet queued when reported; answers before the deadline
  deaths,   \* workers that died by themselves
  unclosed, odd \* what the properties except: devices that Manager.close() failed
            \* to close; "left" and "crashed", a shutdown() or a thread cut short

future  == <<fut, answer>>
pool    == <<worker, doomed, open, outcome, begun, withdrawn, unclosed>>
flags   == <<broken, shutting>>
main    == <<pc, next, results, errors, verdict>>
vars    == <<size, future, queue, pipe, pool, thread, flags, main, late, inTime, deaths, odd>>

NumCalls  == size.calls
Calls     == 1..size.calls
Workers   == 1..size.processes
QueueSize == size.processes + 1 \* EXTRA_QUEUED_CALLS

Gone  == {"absent", "dead", "exited"}
Alive == {w \in Workers : worker[w].at \notin Gone}
Waiting(i)  == fut[i] = "pending"
InFlight(i) == fut[i] \in {"queued", "taken"}

Init ==
  /\ size \in Sizes
  /\ fut = [i \in Calls |-> "none"] /\ answer = [i \in Calls |-> "none"]
  /\ queue = <<>> /\ pipe = {} /\ thread = "none"
  /\ worker = [w \in Workers |-> [at |-> "absent", call |-> NoCall, out |-> "ok"]]
  /\ doomed = {} /\ open = {} /\ withdrawn = {} /\ inTime = {}
  /\ outcome = [i \in Calls |-> "none"] /\ begun = [i \in Calls |-> 0]
  /\ broken = FALSE /\ shutting = FALSE
  /\ pc = "submit" /\ next = 1 /\ late = FALSE
  /\ results = <<>> /\ errors = <<>> /\ verdict = "none"
  /\ deaths = 0 /\ unclosed = {} /\ odd = {}

-----------------------------------------------------------------------------
(* The pool processes: _process_init() and _process_wrapper().             *)

Goes(w, at, out) == worker' = [worker EXCEPT ![w].at = at, ![w].out = out]
At(w, place) == worker[w].at = place /\ w \notin doomed
RestOfPool == UNCHANGED <<doomed, outcome, begun, withdrawn, unclosed>>
NotWorkers == UNCHANGED <<future, queue, pipe, thread, flags, main, late, inTime, deaths, odd>>

\* Packages that do not load are passed over; another exception ends the
\* process.
ProcessInit(w) ==
  /\ At(w, "init")
  /\ \/ Goes(w, "idle", "ok") /\ UNCHANGED deaths
     \/ deaths < MaxDeaths /\ Goes(w, "dead", "ok") /\ deaths' = deaths + 1
  /\ UNCHANGED open /\ RestOfPool
  /\ UNCHANGED <<future, queue, pipe, thread, flags, main, late, inTime, odd>>

\* A worker takes the next call.
Take(w) ==
  /\ At(w, "idle") /\ queue # <<>>
  /\ LET i == Head(queue)
     IN /\ worker' = [worker EXCEPT ![w] = [at |-> "manager", call |-> i, out |-> "ok"]]
        /\ fut' = [fut EXCEPT ![i] = "taken"]
        /\ begun' = [begun EXCEPT ![i] = @ + 1]
  /\ queue' = Tail(queue)
  /\ UNCHANGED <<answer, withdrawn, doomed, open, outcome, unclosed, pipe, thread, flags, main, late, inTime, deaths, odd>>

\* Manager() is outside of the try: when it raises there is nothing to close.
MakeManager(w) ==
  /\ At(w, "manager")
  /\ Goes(w, "create", "ok") \/ Goes(w, "send", "raised")
  /\ UNCHANGED open /\ RestOfPool /\ NotWorkers

CreateDevice(w) ==
  /\ At(w, "create")
  /\ \/ Goes(w, "act", "ok") /\ open' = open \cup {worker[w].call}
     \/ Goes(w, "closeManager", "raised") /\ UNCHANGED open
  /\ RestOfPool /\ NotWorkers

\* The operation returns, raises (NotImplementedError included) or raises a
\* TimeoutError of its own.
Act(w) ==
  /\ At(w, "act")
  /\ \E out \in {"ok", "raised", "timeout"} : Goes(w, "closeDevice", out)
  /\ UNCHANGED open /\ RestOfPool /\ NotWorkers

\* device.close(); its error replaces that of the operation.
CloseDevice(w) ==
  /\ At(w, "closeDevice")
  /\ \/ Goes(w, "closeManager", worker[w].out) /\ open' = open \ {worker[w].call}
     \/ Goes(w, "closeManager", "raised") /\ UNCHANGED open
  /\ RestOfPool /\ NotWorkers

\* Manager.close() closes a device that is still open.
CloseManager(w) ==
  /\ At(w, "closeManager")
  /\ \/ Goes(w, "send", worker[w].out) /\ open' = open \ {worker[w].call} /\ UNCHANGED unclosed
     \/ /\ Goes(w, "send", "raised") /\ UNCHANGED open
        /\ unclosed' = unclosed \cup {worker[w].call}
  /\ UNCHANGED <<doomed, outcome, begun, withdrawn>> /\ NotWorkers

Send(w) ==
  /\ At(w, "send")
  /\ LET i == worker[w].call
     IN /\ pipe' = pipe \cup {<<i, worker[w].out>>}
        /\ outcome' = [outcome EXCEPT ![i] = worker[w].out]
  /\ worker' = [worker EXCEPT ![w] = [at |-> "idle", call |-> NoCall, out |-> "ok"]]
  /\ UNCHANGED <<doomed, open, begun, withdrawn, unclosed>>
  /\ UNCHANGED <<future, queue, thread, flags, main, late, inTime, deaths, odd>>

\* An idle worker leaves once the manager thread sends it None.
Leave(w) ==
  /\ At(w, "idle") /\ thread = "joining"
  /\ Goes(w, "exited", "ok")
  /\ UNCHANGED open /\ RestOfPool /\ NotWorkers

\* A worker dies by itself, or by the SIGTERM it was sent.
Die(w) ==
  /\ w \in Alive
  /\ \/ w \in doomed /\ UNCHANGED deaths
     \/ w \notin doomed /\ deaths < MaxDeaths /\ deaths' = deaths + 1
  /\ Goes(w, "dead", "ok")
  /\ UNCHANGED open /\ RestOfPool
  /\ UNCHANGED <<future, queue, pipe, thread, flags, main, late, inTime, odd>>

-----------------------------------------------------------------------------
(* The manager thread of the pool.                                         *)

NotThread == UNCHANGED <<pool, main, late, deaths>>

\* The oldest pending call moves to the call queue, unless it was cancelled.
AddCallItem ==
  /\ thread = "on" /\ Len(queue) < QueueSize
  /\ \E i \in Calls :
       /\ fut[i] \in {"pending", "cancelled"}
       /\ \A j \in 1..(i - 1) : fut[j] \notin {"pending", "cancelled"}
       /\ IF Waiting(i)
            THEN fut' = [fut EXCEPT ![i] = "queued"] /\ queue' = Append(queue, i)
            ELSE fut' = [fut EXCEPT ![i] = "dropped"] /\ UNCHANGED queue
  /\ UNCHANGED <<answer, pipe, thread, flags, inTime, odd>> /\ NotThread

\* An answer completes its future.
Receive ==
  /\ thread = "on"
  /\ \E a \in pipe :
       /\ pipe' = pipe \ {a}
       /\ fut' = [fut EXCEPT ![a[1]] = "done"]
       /\ answer' = [answer EXCEPT ![a[1]] = a[2]]
       /\ inTime' = IF late THEN inTime ELSE inTime \cup {a[1]}
  /\ UNCHANGED <<queue, thread, flags, odd>> /\ NotThread

\* Shutdown: what is still pending is cancelled, and with nothing in flight
\* the thread ends the workers and joins them.
SeeShutdown ==
  /\ thread = "on" /\ shutting
  /\ (\E i \in Calls : fut[i] \in {"pending", "cancelled"}) \/ (\A i \in Calls : ~InFlight(i))
  /\ fut' = [i \in Calls |-> IF fut[i] \in {"pending", "cancelled"} THEN "dropped" ELSE fut[i]]
  /\ thread' = IF \A i \in Calls : ~InFlight(i) THEN "joining" ELSE thread
  /\ UNCHANGED <<answer, queue, pipe, flags, inTime, odd>> /\ NotThread

\* terminate_broken(): a worker has died and no answer is left to read.  Every
\* future fails, the workers are sent SIGTERM and joined.  The first future
\* that execute_concurrently has cancelled raises InvalidStateError instead,
\* which ends the thread there.
SeeDeath ==
  /\ thread = "on" /\ pipe = {}
  /\ \E w \in Workers : worker[w].at = "dead"
  /\ LET Cancelled == {i \in Calls : fut[i] = "cancelled"}
         Fails(i) == (Waiting(i) \/ InFlight(i)) /\ \A j \in Cancelled : i < j
     IN /\ fut' = [i \in Calls |-> IF Fails(i) THEN "done" ELSE fut[i]]
        /\ answer' = [i \in Calls |-> IF Fails(i) THEN "broken" ELSE answer[i]]
        /\ IF Cancelled = {}
             THEN thread' = "joining" /\ doomed' = doomed \cup Alive /\ UNCHANGED odd
             ELSE thread' = "ended" /\ odd' = odd \cup {"crashed"} /\ UNCHANGED doomed
  /\ broken' = TRUE /\ shutting' = TRUE
  /\ queue' = <<>>
  /\ UNCHANGED <<pipe, main, late, inTime, deaths, worker, open, outcome, begun, withdrawn,
                 unclosed>>

JoinWorkers ==
  /\ thread = "joining" /\ Alive = {}
  /\ thread' = "ended"
  /\ UNCHANGED <<future, queue, pipe, flags, inTime, odd>> /\ NotThread

-----------------------------------------------------------------------------
(* execute_concurrently().                                                 *)

RestOfMain == UNCHANGED <<queue, pipe, open, outcome, begun, unclosed, broken, inTime, deaths>>
NotMain == UNCHANGED withdrawn /\ RestOfMain

\* submit(); the first one starts some processes, later ones may start more.
Submit ==
  /\ pc = "submit" /\ next \in Calls /\ ~broken
  /\ fut' = [fut EXCEPT ![next] = "pending"]
  /\ \E S \in SUBSET {w \in Workers : worker[w].at = "absent"} :
       /\ thread = "none" => S # {}
       /\ worker' = [w \in Workers |-> IF w \in S THEN [worker[w] EXCEPT !.at = "init"] ELSE worker[w]]
  /\ thread' = IF thread = "none" THEN "on" ELSE thread
  /\ next' = next + 1
  /\ UNCHANGED <<answer, doomed, shutting, pc, results, errors, verdict, late, odd>> /\ NotMain

Submitted ==
  /\ pc = "submit" /\ next > NumCalls
  /\ pc' = "collect" /\ next' = 1
  /\ UNCHANGED <<future, worker, doomed, thread, shutting, results, errors, verdict, late, odd>>
  /\ NotMain

\* The with statement ends: shutdown() sets the flag and wakes the thread.
Shutdown(v) ==
  /\ verdict' = v /\ shutting' = TRUE
  /\ pc' = "join" /\ next' = 1

SubmitRaises ==
  /\ pc = "submit" /\ next \in Calls /\ broken
  /\ Shutdown("BrokenProcessPool")
  /\ UNCHANGED <<future, worker, doomed, thread, results, errors, late, odd>> /\ NotMain

\* SIGUSR1 for another device of the caller.
Interrupt ==
  /\ pc \in {"submit", "collect"}
  /\ Shutdown("DeviceError")
  /\ UNCHANGED <<future, worker, doomed, thread, results, errors, late, odd>> /\ NotMain

Deadline ==
  /\ pc = "collect" /\ ~late
  /\ late' = TRUE
  /\ UNCHANGED <<future, worker, doomed, thread, shutting, main, odd>> /\ NotMain

Report(result, error) ==
  /\ results' = Append(results, result) /\ errors' = Append(errors, error)
  /\ withdrawn' = IF Waiting(next) THEN withdrawn \cup {next} ELSE withdrawn
  /\ next' = next + 1
  /\ UNCHANGED <<worker, doomed, thread, shutting, pc, verdict, late, odd>> /\ RestOfMain

\* Mutant: takes the results as they come.
ResultAsCompleted ==
  /\ pc = "collect" /\ next \in Calls
  /\ \E i \in Calls : /\ fut[i] = "done" /\ answer[i] = "ok" /\ i \notin {results[k] : k \in 1..Len(results)}
                      /\ Report(i, "none")
  /\ UNCHANGED future

\* future.result() returns; it does so at the deadline too.
Result ==
  /\ pc = "collect" /\ next \in Calls
  /\ fut[next] = "done" /\ answer[next] = "ok"
  /\ Report(next, "none")
  /\ UNCHANGED future

\* future.result() raises what the call raised; a TimeoutError of the call is
\* taken for the one of result().
ResultRaises ==
  /\ pc = "collect" /\ next \in Calls
  /\ fut[next] = "done" /\ answer[next] # "ok"
  /\ Report(NoCall, IF answer[next] = "timeout" THEN "ResultNotReceived" ELSE answer[next])
  /\ UNCHANGED future

\* cancel() only takes back a call that is still pending.
ResultTimesOut ==
  /\ pc = "collect" /\ next \in Calls /\ late /\ fut[next] # "done"
  /\ fut' = [fut EXCEPT ![next] = IF Waiting(next) THEN "cancelled" ELSE @]
  /\ Report(NoCall, "ResultNotReceived")
  /\ UNCHANGED answer

Failed == \E k \in 1..Len(errors) : errors[k] # "none"

Collected ==
  /\ pc = "collect" /\ next > NumCalls
  /\ Shutdown(IF Failed THEN "errors" ELSE "results")
  /\ UNCHANGED <<future, worker, doomed, thread, results, errors, late, odd>> /\ NotMain

\* The thread ends within the time that join() waits, or was never started.
JoinReturns ==
  /\ pc \in {"join", "joinAgain"} /\ thread \in {"none", "ended"}
  /\ pc' = "end"
  /\ UNCHANGED <<future, worker, doomed, thread, shutting, next, results, errors, verdict, late, odd>>
  /\ NotMain

\* Mutant: join() without a timeout.
JoinWaitsForever ==
  /\ thread \notin {"none", "ended"}
  /\ pc = "joinAgain" /\ pc' = "end" /\ verdict' = "BrokenExecutor"
  /\ UNCHANGED <<future, worker, doomed, thread, shutting, next, results, errors, late, odd>>
  /\ NotMain

\* Ten seconds pass: the pool processes are terminated; the second time
\* BrokenExecutor takes the place of whatever was to be returned or raised.
JoinTimesOut ==
  /\ thread \notin {"none", "ended"}
  /\ \/ pc = "join" /\ pc' = "terminate" /\ UNCHANGED verdict
     \/ pc = "joinAgain" /\ pc' = "end" /\ verdict' = "BrokenExecutor"
  /\ UNCHANGED <<future, worker, doomed, thread, shutting, next, results, errors, late, odd>>
  /\ NotMain

\* Mutant: SIGTERM only.
TerminateNextNoKill ==
  /\ pc = "terminate"
  /\ IF next \notin Workers THEN pc' = "joinAgain" /\ UNCHANGED <<next, worker, doomed>>
     ELSE doomed' = doomed \cup ({next} \cap Alive) /\ next' = next + 1 /\ UNCHANGED <<pc, worker>>
  /\ UNCHANGED <<future, thread, shutting, results, errors, verdict, late, odd>> /\ NotMain

\* The next process that is alive: SIGTERM, and SIGKILL when it is still alive
\* three seconds later.
TerminateNext ==
  /\ pc = "terminate"
  /\ IF next \notin Workers THEN pc' = "joinAgain" /\ UNCHANGED <<next, worker, doomed>>
     ELSE IF next \notin Alive THEN next' = next + 1 /\ UNCHANGED <<pc, worker, doomed>>
     ELSE IF next \notin doomed THEN doomed' = doomed \cup {next} /\ UNCHANGED <<pc, next, worker>>
     ELSE Goes(next, "dead", "ok") /\ next' = next + 1 /\ UNCHANGED <<pc, doomed>>
  /\ UNCHANGED <<future, thread, shutting, results, errors, verdict, late, odd>> /\ NotMain

\* SIGUSR1 during shutdown() leaves the pool to itself.
ShutdownRaises ==
  /\ pc \in {"join", "terminate", "joinAgain"}
  /\ pc' = "end" /\ verdict' = "DeviceError" /\ odd' = odd \cup {"left"}
  /\ UNCHANGED <<future, worker, doomed, thread, shutting, next, results, errors, late>>
  /\ NotMain

-----------------------------------------------------------------------------

Worker(w) ==
  \/ ProcessInit(w) \/ Take(w) \/ MakeManager(w) \/ CreateDevice(w) \/ Act(w)
  \/ CloseDevice(w) \/ CloseManager(w) \/ Send(w) \/ Leave(w) \/ Die(w)

Thread == AddCallItem \/ Receive \/ SeeShutdown \/ SeeDeath \/ JoinWorkers

\* The steps the caller takes by itself or because time passes.
Main ==
  \/ Submit \/ SubmitRaises \/ Submitted \/ Deadline \/ Result \/ ResultRaises \/ ResultTimesOut
  \/ Collected \/ JoinReturns \/ JoinTimesOut \/ TerminateNext

Next ==
  /\ \/ \E w \in Workers : Worker(w)
     \/ Thread
     \/ Main \/ Interrupt \/ ShutdownRaises
  /\ UNCHANGED size

Spec == Init /\ [][Next]_vars

\* Only the caller is assumed to go on: not the pool, nor the calls in it.
FairSpec == Spec /\ WF_vars(Main /\ UNCHANGED size)

-----------------------------------------------------------------------------

Outcomes == {"ok", "raised", "timeout"}

TypeOK ==
  /\ size \in Sizes
  /\ fut \in [Calls -> {"none", "pending", "queued", "taken", "done", "cancelled", "dropped"}]
  /\ answer \in [Calls -> {"none", "broken"} \cup Outcomes]
  /\ queue \in Seq(Calls) /\ Len(queue) <= QueueSize
  /\ pipe \subseteq Calls \X Outcomes
  /\ worker \in [Workers -> [at : Gone \cup {"init", "idle", "manager", "create", "act",
                                             "closeDevice", "closeManager", "send"},
                             call : Calls \cup {NoCall}, out : Outcomes]]
  /\ doomed \subseteq Workers
  /\ thread \in {"none", "on", "joining", "ended"}
  /\ broken \in BOOLEAN /\ shutting \in BOOLEAN /\ late \in BOOLEAN
  /\ pc \in {"submit", "collect", "join", "terminate", "joinAgain", "end"}
  /\ next \in 1..(NumCalls + size.processes + 1)
  /\ results \in Seq(Calls \cup {NoCall}) /\ Len(results) = Len(errors)
  /\ errors \in Seq({"none", "raised", "broken", "ResultNotReceived"})
  /\ verdict \in {"none", "results", "errors", "BrokenProcessPool", "BrokenExecutor", "DeviceError"}
  /\ open \subseteq Calls /\ withdrawn \subseteq Calls /\ inTime \subseteq Calls
  /\ outcome \in [Calls -> {"none"} \cup Outcomes] /\ begun \in [Calls -> Nat]
  /\ deaths \in 0..MaxDeaths /\ unclosed \subseteq Calls /\ odd \subseteq {"crashed", "left"}

\* "The order of return values and errors corresponds to the order of provided
\* call_specs", however the calls end: entry k is the value that call k has
\* returned, or no result and an error; when the function returns without
\* raising there is one entry for every call.
ResultsInOrder ==
  /\ \A k \in 1..Len(results) :
       /\ results[k] \in {k, NoCall}
       /\ (results[k] = k) = (errors[k] = "none")
       /\ results[k] = k => outcome[k] = "ok"
  /\ verdict \in {"results", "errors"} => Len(results) = NumCalls

\* An error says what happened to that call: it raised, a process of the pool
\* died, or the deadline passed (or the call raised a TimeoutError of its own).
ErrorsAreTrue ==
  \A k \in 1..Len(errors) :
    /\ errors[k] = "raised" => outcome[k] = "raised"
    /\ errors[k] = "broken" => deaths > 0
    /\ errors[k] = "ResultNotReceived" => late \/ outcome[k] = "timeout"

\* A result that came in before the deadline is returned, although it may be
\* looked at long after the deadline, behind calls that hang.
InTimeIsKept ==
  \A k \in 1..Len(results) : k \in inTime /\ answer[k] = "ok" => results[k] = k

\* No process of the pool outlives the call, hanging ones included, unless
\* SIGUSR1 ended shutdown() or the manager thread has crashed.
NoProcessLeft ==
  pc = "end" /\ odd = {} => Alive = {}

\* A call runs at most once, and one that was reported before it got into the
\* call queue never runs.  One in the queue may still run after its caller was
\* told that it gave no result.
WithdrawnNeverRuns ==
  \A i \in Calls : begun[i] <= (IF i \in withdrawn THEN 0 ELSE 1)

\* A device is open only while its call uses or closes it, unless its worker
\* died or Manager.close() failed to close it.
DevicesClosed ==
  \A i \in open :
    \/ \E w \in Workers : worker[w].call = i
    \/ i \in unclosed

\* execute_concurrently() ends whatever the calls and the pool do.
Returns == <>(pc = "end")

\* What execute_concurrently() says of a call is true of that call.
ResultsAreTrue ==
  /\ TypeOK
  /\ ResultsInOrder
  /\ ErrorsAreTrue
  /\ InTimeIsKept
  /\ WithdrawnNeverRuns

\* When execute_concurrently() is over, no process of the pool runs and no
\* device is open.
NothingLeft == NoProcessLeft /\ DevicesClosed
=============================================================================
