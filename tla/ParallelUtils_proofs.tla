------------------------ MODULE ParallelUtils_proofs -------------------------
(***************************************************************************)
(* Proofs about ParallelUtils, for any number of calls, of processes and   *)
(* of workers that die.                                                    *)
(***************************************************************************)
EXTENDS ParallelUtils, SequenceTheorems, TLAPS

\* Where a worker is while it runs a call.
Busy == {"manager", "create", "act", "closeDevice", "closeManager", "send"}

\* The caller goes through its calls once, and the pool is only shut down when
\* it is through or a worker has died.
MainInv ==
  /\ pc \in {"submit", "collect"} => verdict = "none" /\ next <= NumCalls + 1
  /\ pc = "submit" => results = <<>> /\ \A i \in Calls : i >= next => fut[i] = "none"
  /\ pc = "collect" => next = Len(results) + 1
  /\ pc = "join" => next = 1
  /\ pc = "terminate" => next <= size.processes + 1
  /\ Len(results) <= NumCalls
  /\ verdict \in {"results", "errors"} => Len(results) = NumCalls
  /\ shutting => broken \/ pc \notin {"submit", "collect"}
  /\ thread \in {"joining", "ended"} => shutting

\* A call is run by one worker at most, and only while nobody has answered for
\* it.
OwnerInv ==
  /\ \A w \in Workers : worker[w].at \in {"absent", "init", "idle"} => worker[w].call = NoCall
  /\ \A w \in Workers : worker[w].at \in Busy => worker[w].call # NoCall
  /\ \A w \in Workers : worker[w].call # NoCall =>
       /\ outcome[worker[w].call] = "none" /\ begun[worker[w].call] = 1
       /\ thread = "on" => fut[worker[w].call] = "taken"
  /\ \A w, v \in Workers : worker[w].call = worker[v].call /\ w # v => worker[w].call = NoCall
  /\ \A a \in pipe : outcome[a[1]] = a[2] /\ (thread = "on" => fut[a[1]] = "taken")

\* A future follows its call: only a call that has left the queue has begun, and
\* an answer is what the call ended with.
FutureInv ==
  /\ thread # "on" => queue = <<>>
  /\ \A k \in 1..Len(queue) : fut[queue[k]] = "queued"
  /\ \A k, l \in 1..Len(queue) : queue[k] = queue[l] => k = l
  /\ \A i \in Calls : fut[i] \in {"none", "pending", "queued", "cancelled", "dropped"} => begun[i] = 0
  /\ \A i \in Calls : begun[i] <= 1
  /\ \A i \in Calls : begun[i] = 0 => outcome[i] = "none" /\ i \notin open
  /\ \A i \in withdrawn : fut[i] \in {"cancelled", "dropped"}
  /\ \A i \in Calls : fut[i] = "done" => answer[i] # "none"
  /\ \A i \in Calls : answer[i] \in Outcomes => outcome[i] = answer[i]
  /\ \A i \in inTime : fut[i] = "done"

\* Until the caller shuts the pool down, only a worker that died by itself can
\* break it.
DeathInv ==
  pc \in {"submit", "collect"} /\ deaths = 0 =>
    /\ doomed = {} /\ \A w \in Workers : worker[w].at # "dead"
    /\ \A i \in Calls : answer[i] # "broken"

\* What was reported is true and stays true; a call is reported without an
\* answer only when it is late.
ReportInv ==
  /\ ResultsInOrder /\ ErrorsAreTrue /\ InTimeIsKept
  /\ \A k \in 1..Len(results) : fut[k] = "done" \/ late

\* Terminating the pool leaves none of the processes it has passed, and a thread
\* that ended has joined them all.
AliveInv ==
  /\ thread = "none" => pipe = {} /\ \A w \in Workers : worker[w].at = "absent"
  /\ thread = "ended" /\ odd = {} => Alive = {}
  /\ pc = "terminate" => \A w \in Alive : w >= next
  /\ pc = "joinAgain" => Alive = {}
  /\ pc = "end" /\ odd = {} => Alive = {}

\* A device is opened by the call that its worker runs and closed by the time
\* the worker answers.
OpenInv ==
  /\ DevicesClosed
  /\ \A w \in Workers : worker[w].at \in {"manager", "create"} => worker[w].call \notin open
  /\ \A w \in Workers : worker[w].at = "send" /\ worker[w].call \in open => worker[w].call \in unclosed

-----------------------------------------------------------------------------
(* Types.                                                                  *)

Ats == Gone \cup Busy \cup {"init", "idle"}
WorkerStates == [at : Ats, call : Calls \cup {NoCall}, out : Outcomes]

\* The size of the call is fixed.
LEMMA SizeIsFixed ==
  ASSUME TypeOK
  PROVE  /\ size.calls \in Nat /\ size.processes \in Nat /\ size.processes > 0
         /\ NumCalls \in Nat /\ Calls = 1..NumCalls /\ Workers = 1..size.processes
         /\ size' = size => Calls' = Calls /\ Workers' = Workers /\ QueueSize' = QueueSize
                            /\ NumCalls' = NumCalls /\ WorkerStates' = WorkerStates
<1>1. size \in [calls : Nat, processes : Nat \ {0}]
  BY SizesAssumption DEF TypeOK
<1>2. size.calls \in Nat /\ size.processes \in Nat /\ size.processes > 0
  BY <1>1
<1>3. size' = size => Calls' = Calls /\ Workers' = Workers /\ QueueSize' = QueueSize
                      /\ NumCalls' = NumCalls
  BY DEF NumCalls, Calls, Workers, QueueSize
<1> QED BY <1>2, <1>3 DEF NumCalls, Calls, Workers, WorkerStates

\* A worker that goes to another place keeps its call; the others stay.
LEMMA GoesOne ==
  ASSUME TypeOK, NEW w \in Workers, NEW at \in Ats, NEW out \in Outcomes, Goes(w, at, out)
  PROVE  /\ worker' \in [Workers -> WorkerStates]
         /\ worker'[w].at = at /\ worker'[w].call = worker[w].call /\ worker'[w].out = out
         /\ \A v \in Workers \ {w} : worker'[v] = worker[v]
<1>1. worker \in [Workers -> WorkerStates]
  BY DEF TypeOK, WorkerStates, Ats, Busy
<1>2. worker' = [worker EXCEPT ![w] = [@ EXCEPT !.at = at, !.out = out]]
  BY <1>1 DEF Goes, WorkerStates
<1> QED BY <1>1, <1>2 DEF WorkerStates

\* What a worker does keeps the types.
LEMMA WorkerTypes ==
  ASSUME TypeOK, OwnerInv, NEW w \in Workers, Worker(w), size' = size
  PROVE  TypeOK'
<1>0. /\ Calls' = Calls /\ Workers' = Workers /\ QueueSize' = QueueSize
      /\ NumCalls' = NumCalls
      /\ worker[w] \in WorkerStates /\ worker[w].out \in Outcomes
      /\ worker \in [Workers -> WorkerStates]
      /\ At(w, "send") \/ At(w, "create") \/ At(w, "closeManager") => worker[w].call \in Calls
  BY SizeIsFixed DEF TypeOK, WorkerStates, Ats, Busy, OwnerInv, At
<1>1. ASSUME worker' \in [Workers -> WorkerStates], open' \subseteq Calls,
             unclosed' \subseteq Calls, deaths' \in 0..MaxDeaths,
             UNCHANGED <<future, queue, pipe, thread, flags, main, late, inTime, odd>>,
             UNCHANGED <<doomed, outcome, begun, withdrawn>>
      PROVE  TypeOK'
  BY <1>0, <1>1 DEF TypeOK, WorkerStates, Ats, Busy, future, flags, main
<1>2. deaths < MaxDeaths /\ deaths' = deaths + 1 => deaths' \in 0..MaxDeaths
  BY SizesAssumption DEF TypeOK
<1>3. CASE ProcessInit(w)
  <2>1. worker' \in [Workers -> WorkerStates]
    BY <1>3, GoesOne DEF ProcessInit, Ats, Gone, Outcomes
  <2> QED BY <1>1, <1>2, <1>3, <2>1 DEF ProcessInit, RestOfPool, TypeOK
<1>4. CASE Take(w)
  <2>1. Head(queue) \in Calls /\ Tail(queue) \in Seq(Calls)
        /\ Len(Tail(queue)) <= Len(queue) /\ Len(queue) \in Nat
    BY <1>4, HeadTailProperties DEF Take, TypeOK
  <2>2. worker' \in [Workers -> WorkerStates]
    BY <1>0, <1>4, <2>1 DEF Take, WorkerStates, Ats, Busy, Outcomes
  <2>3. fut' \in [Calls -> {"none", "pending", "queued", "taken", "done", "cancelled", "dropped"}]
        /\ begun' \in [Calls -> Nat]
    BY <1>4, <2>1 DEF Take, TypeOK
  <2>4. queue' \in Seq(Calls) /\ Len(queue') <= QueueSize
    <3>1. QueueSize \in Nat /\ Len(queue) <= QueueSize
      BY SizeIsFixed, SMTT(40) DEF TypeOK, QueueSize
    <3> QED BY <1>4, <2>1, <3>1 DEF Take
  <2> QED BY <1>0, <1>4, <2>2, <2>3, <2>4, SMTT(40)
          DEF Take, TypeOK, WorkerStates, Ats, Busy, flags, main
<1>5. CASE MakeManager(w)
  <2>1. worker' \in [Workers -> WorkerStates]
    BY <1>5, GoesOne DEF MakeManager, Ats, Busy, Outcomes
  <2> QED BY <1>1, <1>5, <2>1 DEF MakeManager, RestOfPool, NotWorkers, TypeOK
<1>6. CASE CreateDevice(w)
  <2>1. worker' \in [Workers -> WorkerStates]
    BY <1>6, GoesOne DEF CreateDevice, Ats, Busy, Outcomes
  <2> QED BY <1>0, <1>1, <1>6, <2>1 DEF CreateDevice, RestOfPool, NotWorkers, TypeOK
<1>7. CASE Act(w)
  <2>1. worker' \in [Workers -> WorkerStates]
    BY <1>7, GoesOne DEF Act, Ats, Busy, Outcomes
  <2> QED BY <1>1, <1>7, <2>1 DEF Act, RestOfPool, NotWorkers, TypeOK
<1>8. CASE CloseDevice(w)
  <2>1. worker' \in [Workers -> WorkerStates]
    BY <1>0, <1>8, GoesOne DEF CloseDevice, Ats, Busy, Outcomes
  <2> QED BY <1>1, <1>8, <2>1 DEF CloseDevice, RestOfPool, NotWorkers, TypeOK
<1>9. CASE CloseManager(w)
  <2>1. worker' \in [Workers -> WorkerStates]
    BY <1>0, <1>9, GoesOne DEF CloseManager, Ats, Busy, Outcomes
  <2> QED BY <1>0, <1>1, <1>9, <2>1 DEF CloseManager, NotWorkers, TypeOK
<1>10. CASE Send(w)
  <2>1. worker' \in [Workers -> WorkerStates]
    BY <1>0, <1>10 DEF Send, WorkerStates, Ats, Outcomes
  <2>2. pipe' \subseteq Calls \X Outcomes /\ outcome' \in [Calls -> {"none"} \cup Outcomes]
    BY <1>0, <1>10 DEF Send, TypeOK
  <2> QED BY <1>0, <1>10, <2>1, <2>2
          DEF Send, TypeOK, WorkerStates, Ats, Busy, future, flags, main
<1>11. CASE Leave(w)
  <2>1. worker' \in [Workers -> WorkerStates]
    BY <1>11, GoesOne DEF Leave, Ats, Gone, Outcomes
  <2> QED BY <1>1, <1>11, <2>1 DEF Leave, RestOfPool, NotWorkers, TypeOK
<1>12. CASE Die(w)
  <2>1. worker' \in [Workers -> WorkerStates]
    BY <1>12, GoesOne DEF Die, Ats, Gone, Outcomes
  <2> QED BY <1>1, <1>2, <1>12, <2>1 DEF Die, RestOfPool, TypeOK
<1> QED BY <1>3, <1>4, <1>5, <1>6, <1>7, <1>8, <1>9, <1>10, <1>11, <1>12 DEF Worker

Futures == {"none", "pending", "queued", "taken", "done", "cancelled", "dropped"}

\* What the manager thread does keeps the types.
LEMMA ThreadTypes ==
  ASSUME TypeOK, Thread, size' = size
  PROVE  TypeOK'
<1>0. /\ Calls' = Calls /\ Workers' = Workers /\ QueueSize' = QueueSize
      /\ NumCalls' = NumCalls /\ WorkerStates' = WorkerStates /\ QueueSize \in Nat
      /\ fut \in [Calls -> Futures] /\ answer \in [Calls -> {"none", "broken"} \cup Outcomes]
      /\ queue \in Seq(Calls) /\ Len(queue) <= QueueSize
  <2>1. QueueSize \in Nat
    BY SizeIsFixed DEF QueueSize
  <2> QED BY <2>1, SizeIsFixed DEF TypeOK, Futures
<1>1. ASSUME fut' \in [Calls -> Futures],
             answer' \in [Calls -> {"none", "broken"} \cup Outcomes],
             queue' \in Seq(Calls), Len(queue') <= QueueSize, pipe' \subseteq Calls \X Outcomes,
             doomed' \subseteq Workers, thread' \in {"none", "on", "joining", "ended"},
             broken' \in BOOLEAN, shutting' \in BOOLEAN, inTime' \subseteq Calls,
             odd' \subseteq {"crashed", "left"},
             UNCHANGED <<worker, open, outcome, begun, withdrawn, unclosed, main, late, deaths>>
      PROVE  TypeOK'
  BY <1>0, <1>1 DEF TypeOK, Futures, main
<1>2. CASE AddCallItem
  <2>1. PICK i \in Calls :
          IF Waiting(i) THEN fut' = [fut EXCEPT ![i] = "queued"] /\ queue' = Append(queue, i)
                        ELSE fut' = [fut EXCEPT ![i] = "dropped"] /\ UNCHANGED queue
    BY <1>2 DEF AddCallItem
  <2>2. fut' \in [Calls -> Futures]
    BY <1>0, <2>1 DEF Futures
  <2>3. queue' \in Seq(Calls) /\ Len(queue') <= QueueSize
    <3>1. Append(queue, i) \in Seq(Calls) /\ Len(Append(queue, i)) = Len(queue) + 1
          /\ Len(queue) \in Nat /\ Len(queue) < QueueSize
      BY <1>0, <1>2, AppendProperties DEF AddCallItem
    <3> QED BY <1>0, <2>1, <3>1
  <2> QED BY <1>0, <1>1, <1>2, <2>2, <2>3
          DEF AddCallItem, NotThread, pool, flags, TypeOK
<1>3. CASE Receive
  <2>1. PICK a \in pipe : /\ pipe' = pipe \ {a}
                          /\ fut' = [fut EXCEPT ![a[1]] = "done"]
                          /\ answer' = [answer EXCEPT ![a[1]] = a[2]]
                          /\ inTime' = IF late THEN inTime ELSE inTime \cup {a[1]}
    BY <1>3 DEF Receive
  <2>2. a[1] \in Calls /\ a[2] \in Outcomes
    BY <2>1 DEF TypeOK
  <2>3. fut' \in [Calls -> Futures] /\ answer' \in [Calls -> {"none", "broken"} \cup Outcomes]
    BY <1>0, <2>1, <2>2 DEF Futures
  <2> QED BY <1>0, <1>1, <1>3, <2>1, <2>2, <2>3 DEF Receive, NotThread, pool, flags, TypeOK
<1>4. CASE SeeShutdown
  <2>1. fut' \in [Calls -> Futures] /\ thread' \in {"none", "on", "joining", "ended"}
    BY <1>0, <1>4 DEF SeeShutdown, Futures, TypeOK
  <2> QED BY <1>0, <1>1, <1>4, <2>1 DEF SeeShutdown, NotThread, pool, flags, TypeOK
<1>5. CASE SeeDeath
  <2>1. PICK Fails \in [Calls -> BOOLEAN] :
          /\ fut' = [i \in Calls |-> IF Fails[i] THEN "done" ELSE fut[i]]
          /\ answer' = [i \in Calls |-> IF Fails[i] THEN "broken" ELSE answer[i]]
    <3> DEFINE Cancelled == {i \in Calls : fut[i] = "cancelled"}
               F == [i \in Calls |-> (Waiting(i) \/ InFlight(i)) /\ \A j \in Cancelled : i < j]
    <3>1. /\ fut' = [i \in Calls |-> IF F[i] THEN "done" ELSE fut[i]]
          /\ answer' = [i \in Calls |-> IF F[i] THEN "broken" ELSE answer[i]]
      BY <1>5 DEF SeeDeath
    <3>2. F \in [Calls -> BOOLEAN]
      BY DEF Waiting, InFlight
    <3> HIDE DEF F
    <3> QED BY <3>1, <3>2
  <2>2. fut' \in [Calls -> Futures] /\ answer' \in [Calls -> {"none", "broken"} \cup Outcomes]
    BY <1>0, <2>1 DEF Futures
  <2>3. doomed' \subseteq Workers /\ thread' \in {"none", "on", "joining", "ended"}
        /\ odd' \subseteq {"crashed", "left"}
    BY <1>5 DEF SeeDeath, TypeOK, Alive
  <2>4. queue' \in Seq(Calls) /\ Len(queue') <= QueueSize
    BY <1>0, <1>5 DEF SeeDeath
  <2> QED BY <1>1, <1>5, <2>2, <2>3, <2>4 DEF SeeDeath, TypeOK
<1>6. CASE JoinWorkers
  BY <1>0, <1>1, <1>6 DEF JoinWorkers, NotThread, future, pool, flags, TypeOK
<1> QED BY <1>2, <1>3, <1>4, <1>5, <1>6 DEF Thread

\* What the caller does keeps the types.
LEMMA MainTypes ==
  ASSUME TypeOK, MainInv, FutureInv, Main \/ Interrupt \/ ShutdownRaises, size' = size
  PROVE  TypeOK'
<1> DEFINE Verdicts == {"none", "results", "errors", "BrokenProcessPool", "BrokenExecutor",
                        "DeviceError"}
           Errors == {"none", "raised", "broken", "ResultNotReceived"}
           Pcs == {"submit", "collect", "join", "terminate", "joinAgain", "end"}
<1>0. /\ Calls' = Calls /\ Workers' = Workers /\ QueueSize' = QueueSize
      /\ NumCalls' = NumCalls /\ WorkerStates' = WorkerStates /\ NumCalls \in Nat
      /\ size.processes \in Nat /\ size.processes > 0 /\ Calls = 1..NumCalls
      /\ Workers = 1..size.processes
      /\ fut \in [Calls -> Futures] /\ answer \in [Calls -> {"none", "broken"} \cup Outcomes]
      /\ next \in Nat /\ next > 0 /\ worker \in [Workers -> WorkerStates]
  <2>1. /\ fut \in [Calls -> Futures] /\ answer \in [Calls -> {"none", "broken"} \cup Outcomes]
        /\ worker \in [Workers -> WorkerStates]
    BY DEF TypeOK, Futures, WorkerStates, Ats, Busy
  <2>2. next \in Nat /\ next > 0
    BY SizeIsFixed DEF TypeOK
  <2> QED BY <2>1, <2>2, SizeIsFixed
<1>1. ASSUME fut' \in [Calls -> Futures], worker' \in [Workers -> WorkerStates],
             doomed' \subseteq Workers, thread' \in {"none", "on", "joining", "ended"},
             shutting' \in BOOLEAN, late' \in BOOLEAN, odd' \subseteq {"crashed", "left"},
             pc' \in Pcs, next' \in 1..(NumCalls + size.processes + 1),
             results' \in Seq(Calls \cup {NoCall}), Len(results') = Len(errors'),
             errors' \in Seq(Errors), verdict' \in Verdicts, withdrawn' \subseteq Calls,
             UNCHANGED <<answer, queue, pipe, open, outcome, begun, unclosed, broken, inTime,
                         deaths>>
      PROVE  TypeOK'
  BY <1>0, <1>1, ZenonT(40) DEF TypeOK, Futures, WorkerStates, Ats, Busy
<1>2. ASSUME NEW v \in Verdicts, Shutdown(v)
      PROVE  /\ shutting' \in BOOLEAN /\ pc' \in Pcs /\ verdict' \in Verdicts
             /\ next' \in 1..(NumCalls + size.processes + 1)
  BY <1>0, <1>2 DEF Shutdown
<1>3. CASE Submit
  <2>1. next \in Calls /\ next' = next + 1 /\ fut' = [fut EXCEPT ![next] = "pending"]
    BY <1>3 DEF Submit
  <2>2. fut' \in [Calls -> Futures] /\ next' \in 1..(NumCalls + size.processes + 1)
    BY <1>0, <2>1 DEF Futures
  <2>3. worker' \in [Workers -> WorkerStates]
    <3>1. PICK S \in SUBSET Workers :
            worker' = [w \in Workers |-> IF w \in S THEN [worker[w] EXCEPT !.at = "init"]
                                                    ELSE worker[w]]
      BY <1>3 DEF Submit
    <3>2. ASSUME NEW w \in Workers
          PROVE  /\ worker[w] \in WorkerStates
                 /\ [worker[w] EXCEPT !.at = "init"] \in WorkerStates
      <4>1. worker[w] \in WorkerStates
        BY <1>0
      <4> QED BY <4>1 DEF WorkerStates, Ats
    <3> QED BY <1>0, <3>1, <3>2
  <2>4. thread' \in {"none", "on", "joining", "ended"}
    BY <1>3 DEF Submit, TypeOK
  <2> QED BY <1>1, <1>3, <2>2, <2>3, <2>4 DEF Submit, NotMain, RestOfMain, TypeOK
<1>4. CASE SubmitRaises
  BY <1>0, <1>1, <1>2, <1>4 DEF SubmitRaises, NotMain, RestOfMain, future, TypeOK
<1>5. CASE Submitted
  <2>1. next' \in 1..(NumCalls + size.processes + 1)
    BY <1>0, <1>5 DEF Submitted
  <2> QED BY <1>0, <1>1, <1>5, <2>1 DEF Submitted, NotMain, RestOfMain, future, TypeOK
<1>6. CASE Deadline
  BY <1>0, <1>1, <1>6 DEF Deadline, NotMain, RestOfMain, future, main, TypeOK
<1>7. CASE Interrupt
  BY <1>0, <1>1, <1>2, <1>7 DEF Interrupt, NotMain, RestOfMain, future, TypeOK
<1>8. ASSUME NEW result \in Calls \cup {NoCall}, NEW error \in Errors, Report(result, error),
             next \in Calls, fut' \in [Calls -> Futures], UNCHANGED answer
      PROVE  TypeOK'
  <2>1. results' \in Seq(Calls \cup {NoCall}) /\ errors' \in Seq(Errors)
        /\ Len(results') = Len(errors')
    <3>1. results \in Seq(Calls \cup {NoCall}) /\ errors \in Seq(Errors)
          /\ Len(results) = Len(errors)
      BY DEF TypeOK
    <3>2. results' = Append(results, result) /\ errors' = Append(errors, error)
      BY <1>8 DEF Report
    <3> QED BY <3>1, <3>2, AppendProperties
  <2>2. next' \in 1..(NumCalls + size.processes + 1)
    BY <1>0, <1>8 DEF Report
  <2>3. withdrawn' \subseteq Calls
    BY <1>8 DEF Report, TypeOK
  <2> QED BY <1>0, <1>1, <1>8, <2>1, <2>2, <2>3, ZenonT(40) DEF Report, RestOfMain, TypeOK
<1>9. CASE Result
  BY <1>0, <1>8, <1>9 DEF Result, future
<1>10. CASE ResultRaises
  <2>1. answer[next] \in {"raised", "timeout", "broken"}
    BY <1>0, <1>10 DEF ResultRaises, FutureInv, Outcomes
  <2> QED BY <1>0, <1>8, <1>10, <2>1 DEF ResultRaises, future
<1>11. CASE ResultTimesOut
  <2>1. fut' \in [Calls -> Futures]
    BY <1>0, <1>11 DEF ResultTimesOut, Futures
  <2> QED BY <1>0, <1>8, <1>11, <2>1 DEF ResultTimesOut
<1>12. CASE Collected
  <2>1. PICK v \in Verdicts : Shutdown(v)
    BY <1>12 DEF Collected
  <2> QED BY <1>0, <1>1, <1>2, <1>12, <2>1 DEF Collected, NotMain, RestOfMain, future, TypeOK
<1>13. CASE JoinReturns
  BY <1>0, <1>1, <1>13 DEF JoinReturns, NotMain, RestOfMain, future, TypeOK
<1>14. CASE JoinTimesOut
  BY <1>0, <1>1, <1>14 DEF JoinTimesOut, NotMain, RestOfMain, future, TypeOK
<1>15. CASE TerminateNext
  <2>1. worker' \in [Workers -> WorkerStates] /\ doomed' \subseteq Workers
    <3>1. doomed \subseteq Workers
      BY DEF TypeOK
    <3>2. "dead" \in Ats /\ "ok" \in Outcomes
      BY DEF Ats, Gone, Outcomes
    <3>3. CASE next \in Workers /\ Goes(next, "dead", "ok") /\ UNCHANGED doomed
      BY <3>1, <3>2, <3>3, GoesOne
    <3>4. CASE next \in Workers /\ doomed' = doomed \cup {next} /\ UNCHANGED worker
      BY <1>0, <3>1, <3>4
    <3>5. CASE UNCHANGED <<worker, doomed>>
      BY <1>0, <3>1, <3>5
    <3> QED BY <1>15, <3>3, <3>4, <3>5 DEF TerminateNext
  <2>2. next' \in 1..(NumCalls + size.processes + 1) /\ pc' \in Pcs
    BY <1>0, <1>15 DEF TerminateNext, TypeOK
  <2> QED BY <1>0, <1>1, <1>15, <2>1, <2>2
          DEF TerminateNext, NotMain, RestOfMain, future, TypeOK
<1>16. CASE ShutdownRaises
  BY <1>0, <1>1, <1>16 DEF ShutdownRaises, NotMain, RestOfMain, future, TypeOK
<1> QED BY <1>3, <1>4, <1>5, <1>6, <1>7, <1>9, <1>10, <1>11, <1>12, <1>13, <1>14, <1>15, <1>16
        DEF Main

-----------------------------------------------------------------------------
(* What the steps of each actor leave alone.                               *)

\* A step of a worker that neither takes a call nor sends its answer: it keeps
\* its call and concerns nobody else.
QuietStep(w) ==
  /\ UNCHANGED <<future, queue, pipe, thread, flags, main, late, inTime, odd>>
  /\ UNCHANGED <<doomed, outcome, begun, withdrawn>>
  /\ \A v \in Workers : worker'[v].call = worker[v].call
  /\ \A v \in Workers \ {w} : worker'[v] = worker[v]
  /\ worker'[w].at \in Busy => worker[w].at \in Busy
  /\ worker'[w].at \in {"absent", "init", "idle"} => worker[w].at = "init"
  /\ worker[w].at \notin Gone
  /\ open' \subseteq open \cup ({worker[w].call} \ {NoCall})
  /\ deaths' >= deaths /\ (worker'[w].at = "dead" => w \in doomed \/ deaths' > 0)

\* A worker takes a call, sends an answer, or concerns nobody else.
LEMMA WorkerFrame ==
  ASSUME TypeOK, OwnerInv, NEW w \in Workers, Worker(w), size' = size
  PROVE  Take(w) \/ Send(w) \/ QuietStep(w)
<1>0. /\ worker \in [Workers -> WorkerStates] /\ worker[w].out \in Outcomes
      /\ worker[w].at \in Busy => worker[w].call # NoCall
      /\ deaths \in Nat
  BY DEF TypeOK, WorkerStates, Ats, Busy, OwnerInv
<1>1. ASSUME NEW at \in Ats, NEW out \in Outcomes, Goes(w, at, out),
             at \in Busy => worker[w].at \in Busy,
             at \in {"absent", "init", "idle"} => worker[w].at = "init",
             worker[w].at \notin Gone, open' \subseteq open \cup ({worker[w].call} \ {NoCall}),
             deaths' >= deaths, at = "dead" => w \in doomed \/ deaths' > 0,
             UNCHANGED <<future, queue, pipe, thread, flags, main, late, inTime, odd>>,
             UNCHANGED <<doomed, outcome, begun, withdrawn>>
      PROVE  QuietStep(w)
  BY <1>1, GoesOne DEF QuietStep
<1>2. CASE ProcessInit(w)
  <2>1. /\ \/ Goes(w, "idle", "ok") /\ UNCHANGED deaths
           \/ Goes(w, "dead", "ok") /\ deaths' = deaths + 1
        /\ worker[w].at = "init"
    BY <1>2 DEF ProcessInit, At
  <2>2. "idle" \in Ats /\ "dead" \in Ats /\ "ok" \in Outcomes /\ "init" \notin Gone
    BY DEF Ats, Gone, Outcomes
  <2> QED BY <1>0, <1>1, <1>2, <2>1, <2>2 DEF ProcessInit, RestOfPool, Busy
<1>3. CASE MakeManager(w)
  BY <1>0, <1>1, <1>3 DEF MakeManager, At, RestOfPool, NotWorkers, Busy, Ats, Gone, Outcomes
<1>4. CASE CreateDevice(w)
  BY <1>0, <1>1, <1>4 DEF CreateDevice, At, RestOfPool, NotWorkers, Busy, Ats, Gone, Outcomes
<1>5. CASE Act(w)
  BY <1>0, <1>1, <1>5 DEF Act, At, RestOfPool, NotWorkers, Busy, Ats, Gone, Outcomes
<1>6. CASE CloseDevice(w)
  BY <1>0, <1>1, <1>6 DEF CloseDevice, At, RestOfPool, NotWorkers, Busy, Ats, Gone, Outcomes
<1>7. CASE CloseManager(w)
  BY <1>0, <1>1, <1>7 DEF CloseManager, At, NotWorkers, Busy, Ats, Gone, Outcomes
<1>8. CASE Leave(w)
  BY <1>0, <1>1, <1>8 DEF Leave, At, RestOfPool, NotWorkers, Busy, Ats, Gone, Outcomes
<1>9. CASE Die(w)
  BY <1>0, <1>1, <1>9 DEF Die, Alive, RestOfPool, Busy, Ats, Gone, Outcomes
<1> QED BY <1>2, <1>3, <1>4, <1>5, <1>6, <1>7, <1>8, <1>9 DEF Worker

\* The caller starts and terminates workers, submits calls and takes back those
\* that are pending; it answers for none and concerns nobody else.
CallerStep ==
  /\ UNCHANGED <<queue, pipe, open, outcome, begun, unclosed, broken, inTime, deaths, answer>>
  /\ \A w \in Workers :
       /\ worker'[w].call = worker[w].call
       /\ \/ worker'[w] = worker[w]
          \/ /\ worker[w].at = "absent" /\ worker'[w].at = "init"
             /\ pc = "submit" /\ ~broken /\ thread' # "none"
          \/ worker'[w].at = "dead" /\ worker[w].at \notin Gone /\ pc = "terminate"
  /\ \A i \in Calls : \/ fut'[i] = fut[i]
                      \/ fut[i] = "none" /\ fut'[i] = "pending"
                      \/ fut[i] = "pending" /\ fut'[i] = "cancelled"
  /\ thread' = thread \/ (thread = "none" /\ thread' = "on" /\ pc = "submit")
  /\ \A i \in withdrawn' : i \in withdrawn \/ (i \in Calls /\ fut'[i] = "cancelled")

\* Every step of the caller is such a step.
LEMMA CallerFrame ==
  ASSUME TypeOK, MainInv, Main \/ Interrupt \/ ShutdownRaises, size' = size
  PROVE  CallerStep
<1>0. /\ fut \in [Calls -> Futures] /\ worker \in [Workers -> WorkerStates]
      /\ pc = "submit" /\ next \in Calls => fut[next] = "none"
  <2>1. /\ fut \in [Calls -> Futures] /\ worker \in [Workers -> WorkerStates]
    BY DEF TypeOK, Futures, WorkerStates, Ats, Busy
  <2>2. Calls = 1..NumCalls /\ NumCalls \in Nat
    BY SizeIsFixed
  <2> QED BY <2>1, <2>2 DEF MainInv
<1>1. ASSUME NotMain, UNCHANGED <<future, worker, thread>>
      PROVE  CallerStep
  BY <1>1 DEF CallerStep, NotMain, RestOfMain, future
<1>2. CASE Submit
  <2>1. PICK S \in SUBSET {w \in Workers : worker[w].at = "absent"} :
          worker' = [w \in Workers |-> IF w \in S THEN [worker[w] EXCEPT !.at = "init"]
                                                  ELSE worker[w]]
    BY <1>2 DEF Submit
  <2>2. \A w \in Workers : /\ worker'[w].call = worker[w].call
                           /\ \/ worker'[w] = worker[w]
                              \/ worker[w].at = "absent" /\ worker'[w].at = "init"
    BY <1>0, <2>1 DEF WorkerStates
  <2>3. \A i \in Calls : fut'[i] = fut[i] \/ (fut[i] = "none" /\ fut'[i] = "pending")
    BY <1>0, <1>2 DEF Submit
  <2> QED BY <1>2, <2>2, <2>3 DEF Submit, CallerStep, NotMain, RestOfMain, TypeOK
<1>3. CASE Submitted \/ SubmitRaises \/ Interrupt \/ Deadline \/ Collected \/ JoinReturns
           \/ JoinTimesOut \/ ShutdownRaises
  BY <1>1, <1>3 DEF Submitted, SubmitRaises, Interrupt, Deadline, Collected, JoinReturns,
                    JoinTimesOut, ShutdownRaises, Shutdown
<1>4. CASE Result \/ ResultRaises
  <2>1. UNCHANGED future /\ RestOfMain /\ UNCHANGED <<worker, thread>> /\ ~Waiting(next)
    BY <1>4 DEF Result, ResultRaises, Report, Waiting
  <2>2. UNCHANGED withdrawn
    BY <1>4, <2>1 DEF Result, ResultRaises, Report
  <2> QED BY <1>1, <2>1, <2>2 DEF NotMain
<1>5. CASE ResultTimesOut
  <2>1. /\ next \in Calls /\ RestOfMain /\ UNCHANGED <<worker, thread, answer>>
        /\ fut' = [fut EXCEPT ![next] = IF Waiting(next) THEN "cancelled" ELSE @]
        /\ withdrawn' = IF Waiting(next) THEN withdrawn \cup {next} ELSE withdrawn
    BY <1>5 DEF ResultTimesOut, Report
  <2>2. \A i \in Calls : fut'[i] = fut[i] \/ (fut[i] = "pending" /\ fut'[i] = "cancelled")
    BY <1>0, <2>1 DEF Waiting
  <2>3. Waiting(next) => fut'[next] = "cancelled"
    BY <1>0, <2>1
  <2> QED BY <2>1, <2>2, <2>3 DEF CallerStep, RestOfMain
<1>6. CASE TerminateNext
  <2>1. /\ NotMain /\ UNCHANGED <<future, thread>> /\ pc = "terminate"
        /\ UNCHANGED worker \/ (next \in Alive /\ Goes(next, "dead", "ok"))
    BY <1>6 DEF TerminateNext
  <2>2. \A w \in Workers :
          /\ worker'[w].call = worker[w].call
          /\ worker'[w] = worker[w] \/ (worker'[w].at = "dead" /\ worker[w].at \notin Gone)
    <3>1. CASE UNCHANGED worker
      BY <3>1
    <3>2. CASE next \in Alive /\ Goes(next, "dead", "ok")
      <4>1. next \in Workers /\ worker[next].at \notin Gone
        BY <3>2 DEF Alive
      <4> QED BY <3>2, <4>1, GoesOne DEF Ats, Gone, Outcomes
    <3> QED BY <2>1, <3>1, <3>2
  <2> QED BY <2>1, <2>2 DEF CallerStep, NotMain, RestOfMain, future
<1> QED BY <1>2, <1>3, <1>4, <1>5, <1>6 DEF Main

-----------------------------------------------------------------------------
(* Calls, their workers and their futures.                                 *)

\* The call at the head of the queue has not begun, and no worker has it.
LEMMA HeadOfQueue ==
  ASSUME TypeOK, OwnerInv, FutureInv, queue # <<>>
  PROVE  /\ Head(queue) \in Calls /\ Head(queue) = queue[1] /\ Head(queue) # NoCall
         /\ Tail(queue) \in Seq(Calls) /\ Len(Tail(queue)) = Len(queue) - 1
         /\ \A k \in 1..Len(Tail(queue)) : Tail(queue)[k] = queue[k + 1]
         /\ Len(queue) \in Nat /\ Len(queue) > 0
         /\ thread = "on" /\ fut[Head(queue)] = "queued" /\ begun[Head(queue)] = 0
         /\ outcome[Head(queue)] = "none" /\ Head(queue) \notin open
         /\ \A w \in Workers : worker[w].call # Head(queue)
<1>1. /\ queue \in Seq(Calls) /\ Head(queue) \in Calls /\ Tail(queue) \in Seq(Calls)
      /\ Len(Tail(queue)) = Len(queue) - 1 /\ Head(queue) = queue[1]
      /\ \A k \in 1..Len(Tail(queue)) : Tail(queue)[k] = queue[k + 1]
      /\ Len(queue) \in Nat /\ Len(queue) > 0
  BY HeadTailProperties DEF TypeOK
<1>2. /\ thread = "on" /\ fut[Head(queue)] = "queued" /\ begun[Head(queue)] = 0
  BY <1>1 DEF FutureInv
<1>3. outcome[Head(queue)] = "none" /\ Head(queue) \notin open
  BY <1>1, <1>2 DEF FutureInv
<1>4. Head(queue) # NoCall
  BY <1>1, SizeIsFixed DEF NoCall
<1>5. \A w \in Workers : worker[w].call # Head(queue)
  BY <1>2, <1>4 DEF OwnerInv
<1> QED BY <1>1, <1>2, <1>3, <1>4, <1>5

\* A step of a worker keeps calls with their owners.
LEMMA OwnerByWorker ==
  ASSUME TypeOK, OwnerInv, FutureInv, NEW w \in Workers, Worker(w), size' = size
  PROVE  OwnerInv'
<1>0. /\ Workers' = Workers /\ worker \in [Workers -> WorkerStates] /\ fut \in [Calls -> Futures]
      /\ begun \in [Calls -> Nat] /\ outcome \in [Calls -> {"none"} \cup Outcomes]
      /\ pipe \subseteq Calls \X Outcomes
  BY SizeIsFixed DEF TypeOK, WorkerStates, Ats, Busy, Futures
<1>1. CASE Take(w)
  <2> DEFINE i == Head(queue)
  <2>1. /\ i \in Calls /\ i # NoCall /\ thread = "on" /\ fut[i] = "queued" /\ begun[i] = 0
        /\ outcome[i] = "none" /\ \A v \in Workers : worker[v].call # i
    BY <1>1, HeadOfQueue DEF Take
  <2>2. /\ worker' = [worker EXCEPT ![w] = [at |-> "manager", call |-> i, out |-> "ok"]]
        /\ fut' = [fut EXCEPT ![i] = "taken"] /\ begun' = [begun EXCEPT ![i] = @ + 1]
        /\ UNCHANGED <<outcome, pipe, thread>> /\ worker[w].at = "idle"
    BY <1>1 DEF Take, At
  <2> HIDE DEF i
  <2>3. /\ worker'[w] = [at |-> "manager", call |-> i, out |-> "ok"]
        /\ \A v \in Workers \ {w} : worker'[v] = worker[v]
        /\ fut'[i] = "taken" /\ \A j \in Calls \ {i} : fut'[j] = fut[j] /\ begun'[j] = begun[j]
        /\ begun'[i] = 1
    BY <1>0, <2>1, <2>2
  <2>4. \A v \in Workers \ {w} : worker[v].call # NoCall => worker[v].call \in Calls \ {i}
    BY <1>0, <2>1 DEF WorkerStates
  <2>5. \A a \in pipe : a[1] \in Calls \ {i}
    BY <1>0, <2>1 DEF OwnerInv, Outcomes
  <2>6. \A v \in Workers : worker'[v].call # NoCall =>
          /\ outcome'[worker'[v].call] = "none" /\ begun'[worker'[v].call] = 1
          /\ thread' = "on" => fut'[worker'[v].call] = "taken"
    BY <2>1, <2>2, <2>3, <2>4 DEF OwnerInv
  <2>7. \A a \in pipe' : outcome'[a[1]] = a[2] /\ (thread' = "on" => fut'[a[1]] = "taken")
    BY <2>2, <2>3, <2>5 DEF OwnerInv
  <2>8. \A u, v \in Workers : worker'[u].call = worker'[v].call /\ u # v => worker'[u].call = NoCall
    BY <2>1, <2>3 DEF OwnerInv
  <2>9. /\ \A v \in Workers : worker'[v].at \in {"absent", "init", "idle"} => worker'[v].call = NoCall
        /\ \A v \in Workers : worker'[v].at \in Busy => worker'[v].call # NoCall
    BY <2>1, <2>3 DEF OwnerInv
  <2> QED BY <1>0, <2>6, <2>7, <2>8, <2>9 DEF OwnerInv
<1>2. CASE Send(w)
  <2> DEFINE i == worker[w].call
  <2>1. /\ worker' = [worker EXCEPT ![w] = [at |-> "idle", call |-> NoCall, out |-> "ok"]]
        /\ pipe' = pipe \cup {<<i, worker[w].out>>}
        /\ outcome' = [outcome EXCEPT ![i] = worker[w].out]
        /\ UNCHANGED <<fut, begun, thread>> /\ worker[w].at = "send"
    BY <1>2 DEF Send, At, future
  <2>2. /\ i # NoCall /\ i \in Calls /\ worker[w].out \in Outcomes
        /\ outcome[i] = "none" /\ (thread = "on" => fut[i] = "taken")
    BY <1>0, <2>1 DEF OwnerInv, Busy, WorkerStates
  <2> HIDE DEF i
  <2>3. /\ worker'[w] = [at |-> "idle", call |-> NoCall, out |-> "ok"]
        /\ \A v \in Workers \ {w} : worker'[v] = worker[v]
        /\ outcome'[i] = worker[w].out /\ \A j \in Calls \ {i} : outcome'[j] = outcome[j]
    BY <1>0, <2>1, <2>2
  <2>4. \A v \in Workers \ {w} : worker[v].call # NoCall => worker[v].call \in Calls \ {i}
    BY <1>0, <2>2 DEF OwnerInv, WorkerStates, i
  <2>5. \A a \in pipe : a[1] \in Calls \ {i}
    BY <1>0, <2>2 DEF OwnerInv, Outcomes
  <2>6. \A v \in Workers : worker'[v].call # NoCall =>
          /\ outcome'[worker'[v].call] = "none" /\ begun'[worker'[v].call] = 1
          /\ thread' = "on" => fut'[worker'[v].call] = "taken"
    BY <2>1, <2>3, <2>4 DEF OwnerInv
  <2>7. \A a \in pipe' : outcome'[a[1]] = a[2] /\ (thread' = "on" => fut'[a[1]] = "taken")
    BY <2>1, <2>2, <2>3, <2>5 DEF OwnerInv
  <2>8. \A u, v \in Workers : worker'[u].call = worker'[v].call /\ u # v => worker'[u].call = NoCall
    BY <2>3 DEF OwnerInv
  <2>9. /\ \A v \in Workers : worker'[v].at \in {"absent", "init", "idle"} => worker'[v].call = NoCall
        /\ \A v \in Workers : worker'[v].at \in Busy => worker'[v].call # NoCall
    BY <2>3 DEF OwnerInv, Busy
  <2> QED BY <1>0, <2>6, <2>7, <2>8, <2>9 DEF OwnerInv
<1>3. CASE QuietStep(w)
  <2>1. /\ \A v \in Workers : worker'[v].call = worker[v].call
        /\ \A v \in Workers : worker'[v].at \in {"absent", "init", "idle"} => worker[v].call = NoCall
        /\ \A v \in Workers : worker'[v].at \in Busy => worker[v].at \in Busy
        /\ UNCHANGED <<fut, begun, thread, outcome, pipe>>
    BY <1>3 DEF QuietStep, OwnerInv, future
  <2> QED BY <1>0, <2>1 DEF OwnerInv
<1> QED BY <1>1, <1>2, <1>3, WorkerFrame

\* A step of a worker keeps each future in step with its call.
LEMMA FutureByWorker ==
  ASSUME TypeOK, OwnerInv, FutureInv, NEW w \in Workers, Worker(w), size' = size
  PROVE  FutureInv'
<1>0. /\ Calls' = Calls /\ worker \in [Workers -> WorkerStates] /\ fut \in [Calls -> Futures]
      /\ begun \in [Calls -> Nat] /\ outcome \in [Calls -> {"none"} \cup Outcomes]
      /\ queue \in Seq(Calls) /\ withdrawn \subseteq Calls /\ inTime \subseteq Calls
      /\ \A v \in Workers : worker[v].call # NoCall =>
           worker[v].call \in Calls /\ begun[worker[v].call] = 1
  BY SizeIsFixed DEF TypeOK, WorkerStates, Ats, Busy, Futures, OwnerInv
<1>1. CASE Take(w)
  <2> DEFINE i == Head(queue)
             rest == Tail(queue)
  <2>1. /\ i \in Calls /\ i = queue[1] /\ rest \in Seq(Calls) /\ Len(rest) = Len(queue) - 1
        /\ \A k \in 1..Len(rest) : rest[k] = queue[k + 1]
        /\ Len(queue) \in Nat /\ Len(queue) > 0
        /\ thread = "on" /\ fut[i] = "queued" /\ begun[i] = 0 /\ outcome[i] = "none"
    BY <1>1, HeadOfQueue DEF Take
  <2>2. /\ fut' = [fut EXCEPT ![i] = "taken"] /\ begun' = [begun EXCEPT ![i] = @ + 1]
        /\ queue' = rest /\ UNCHANGED <<answer, withdrawn, open, outcome, thread, inTime>>
    BY <1>1 DEF Take
  <2> HIDE DEF i, rest
  <2>3. /\ fut'[i] = "taken" /\ \A j \in Calls \ {i} : fut'[j] = fut[j] /\ begun'[j] = begun[j]
        /\ begun'[i] = 1
    BY <1>0, <2>1, <2>2
  <2>4. \A k \in 1..Len(rest) : /\ k + 1 \in 1..Len(queue) /\ rest[k] = queue[k + 1]
                                /\ rest[k] \in Calls /\ rest[k] # i
    <3>1. \A k \in 1..Len(rest) : k + 1 \in 1..Len(queue) /\ rest[k] = queue[k + 1]
      BY <2>1
    <3>2. \A k \in 1..Len(rest) : k + 1 # 1 /\ 1 \in 1..Len(queue)
      BY <2>1
    <3>3. \A k \in 1..Len(rest) : rest[k] \in Calls
      BY <2>1
    <3> QED BY <2>1, <3>1, <3>2, <3>3 DEF FutureInv
  <2>5. /\ \A k \in 1..Len(rest) : fut'[rest[k]] = "queued"
        /\ \A k, l \in 1..Len(rest) : rest[k] = rest[l] => k = l
    <3>1. \A k \in 1..Len(rest) : fut'[rest[k]] = "queued"
      BY <2>3, <2>4 DEF FutureInv
    <3>2. ASSUME NEW k \in 1..Len(rest), NEW l \in 1..Len(rest), rest[k] = rest[l]
          PROVE  k = l
      <4>1. k + 1 = l + 1
        BY <2>4, <3>2 DEF FutureInv
      <4> QED BY <2>1, <4>1
    <3> QED BY <3>1, <3>2
  <2>6. /\ \A j \in Calls : fut'[j] \in {"none", "pending", "queued", "cancelled", "dropped"}
                            => begun'[j] = 0
        /\ \A j \in Calls : begun'[j] <= 1
        /\ \A j \in Calls : begun'[j] = 0 => outcome'[j] = "none" /\ j \notin open'
        /\ \A j \in withdrawn' : fut'[j] \in {"cancelled", "dropped"}
        /\ \A j \in Calls : fut'[j] = "done" => answer'[j] # "none"
        /\ \A j \in Calls : answer'[j] \in Outcomes => outcome'[j] = answer'[j]
        /\ \A j \in inTime' : fut'[j] = "done"
    BY <1>0, <2>1, <2>2, <2>3 DEF FutureInv
  <2>7. /\ thread' = "on"
        /\ \A k \in 1..Len(queue') : fut'[queue'[k]] = "queued"
        /\ \A k, l \in 1..Len(queue') : queue'[k] = queue'[l] => k = l
    BY <2>1, <2>2, <2>5
  <2> QED BY <1>0, <2>6, <2>7 DEF FutureInv
<1>2. CASE Send(w)
  <2> DEFINE i == worker[w].call
  <2>1. /\ outcome' = [outcome EXCEPT ![i] = worker[w].out] /\ worker[w].at = "send"
        /\ UNCHANGED <<fut, answer, queue, begun, open, withdrawn, thread, inTime>>
    BY <1>2 DEF Send, At, future
  <2>2. i \in Calls /\ begun[i] = 1 /\ outcome[i] = "none"
    BY <1>0, <2>1 DEF OwnerInv, Busy
  <2> HIDE DEF i
  <2>3. \A j \in Calls \ {i} : outcome'[j] = outcome[j]
    BY <1>0, <2>1, <2>2
  <2>4. answer[i] \notin Outcomes
    BY <2>2 DEF FutureInv, Outcomes
  <2> QED BY <1>0, <2>1, <2>2, <2>3, <2>4 DEF FutureInv
<1>3. CASE QuietStep(w)
  <2>1. /\ UNCHANGED <<fut, answer, queue, thread, inTime, outcome, begun, withdrawn>>
        /\ open' \subseteq open \cup ({worker[w].call} \ {NoCall})
    BY <1>3 DEF QuietStep, future
  <2>2. \A j \in Calls : begun[j] = 0 => j \notin open'
    BY <1>0, <2>1 DEF FutureInv
  <2> QED BY <1>0, <2>1, <2>2 DEF FutureInv
<1> QED BY <1>1, <1>2, <1>3, WorkerFrame

\* A step of the caller keeps both.
LEMMA OwnersByCaller ==
  ASSUME TypeOK, MainInv, OwnerInv, FutureInv, AliveInv,
         Main \/ Interrupt \/ ShutdownRaises, size' = size
  PROVE  OwnerInv' /\ FutureInv'
<1>0. /\ Calls' = Calls /\ Workers' = Workers /\ worker \in [Workers -> WorkerStates]
      /\ queue \in Seq(Calls) /\ pipe \subseteq Calls \X Outcomes
      /\ \A k \in 1..Len(queue) : queue[k] \in Calls
      /\ CallerStep
  <2>1. worker \in [Workers -> WorkerStates]
    BY DEF TypeOK, WorkerStates, Ats, Busy
  <2>2. queue \in Seq(Calls) /\ pipe \subseteq Calls \X Outcomes
    BY DEF TypeOK
  <2>3. \A k \in 1..Len(queue) : queue[k] \in Calls
    BY <2>2
  <2> QED BY <2>1, <2>2, <2>3, CallerFrame, SizeIsFixed
<1>1. OwnerInv'
  <2>1. /\ \A w \in Workers : worker'[w].call = worker[w].call
        /\ \A w \in Workers : worker'[w].at \in {"absent", "init", "idle"} => worker[w].call = NoCall
        /\ \A w \in Workers : worker'[w].at \in Busy => worker[w].call # NoCall
    BY <1>0 DEF CallerStep, OwnerInv, Busy
  <2>2. \A i \in Calls : fut[i] = "taken" => fut'[i] = "taken"
    BY <1>0 DEF CallerStep
  <2>3. thread' = "on" => \/ thread = "on"
                          \/ pipe = {} /\ \A w \in Workers : worker[w].call = NoCall
    BY <1>0 DEF CallerStep, AliveInv, OwnerInv
  <2>4. \A w \in Workers : worker[w].call # NoCall => worker[w].call \in Calls
    BY <1>0 DEF WorkerStates
  <2>5. UNCHANGED <<outcome, begun, pipe>>
    BY <1>0 DEF CallerStep
  <2> QED BY <1>0, <2>1, <2>2, <2>3, <2>4, <2>5 DEF OwnerInv
<1>2. FutureInv'
  <2>1. /\ UNCHANGED <<queue, open, outcome, begun, answer, inTime>>
        /\ thread' # "on" => thread # "on"
        /\ \A i \in Calls : fut[i] \in {"queued", "taken", "done", "cancelled", "dropped"}
                            => fut'[i] = fut[i]
        /\ \A i \in Calls : fut'[i] # fut[i] => fut[i] \in {"none", "pending"}
                                                /\ fut'[i] \in {"pending", "cancelled"}
        /\ \A i \in withdrawn' : i \in withdrawn \/ (i \in Calls /\ fut'[i] = "cancelled")
    BY <1>0 DEF CallerStep
  <2>2. withdrawn \subseteq Calls /\ inTime \subseteq Calls
    BY DEF TypeOK
  <2>3. \A k \in 1..Len(queue) : fut'[queue[k]] = "queued"
    BY <1>0, <2>1 DEF FutureInv
  <2>4. \A i \in withdrawn' : fut'[i] \in {"cancelled", "dropped"}
    BY <2>1, <2>2 DEF FutureInv
  <2>5. /\ \A i \in Calls : fut'[i] \in {"none", "pending", "queued", "cancelled", "dropped"}
                            => begun[i] = 0
        /\ \A i \in Calls : fut'[i] = "done" => answer[i] # "none"
        /\ \A i \in inTime : fut'[i] = "done"
    BY <2>1, <2>2 DEF FutureInv
  <2> QED BY <1>0, <2>1, <2>3, <2>4, <2>5 DEF FutureInv
<1> QED BY <1>1, <1>2

\* A step of the manager thread keeps both.
LEMMA OwnersByThread ==
  ASSUME TypeOK, OwnerInv, FutureInv, Thread, size' = size
  PROVE  OwnerInv' /\ FutureInv'
<1>0. /\ Calls' = Calls /\ Workers' = Workers /\ worker \in [Workers -> WorkerStates]
      /\ fut \in [Calls -> Futures] /\ answer \in [Calls -> {"none", "broken"} \cup Outcomes]
      /\ queue \in Seq(Calls) /\ pipe \subseteq Calls \X Outcomes
      /\ withdrawn \subseteq Calls /\ inTime \subseteq Calls
      /\ \A k \in 1..Len(queue) : queue[k] \in Calls
      /\ \A w \in Workers : worker[w].call # NoCall => worker[w].call \in Calls
      /\ Len(queue) \in Nat
  <2>1. worker \in [Workers -> WorkerStates] /\ fut \in [Calls -> Futures]
    BY DEF TypeOK, WorkerStates, Ats, Busy, Futures
  <2>2. /\ answer \in [Calls -> {"none", "broken"} \cup Outcomes]
        /\ queue \in Seq(Calls) /\ pipe \subseteq Calls \X Outcomes
        /\ withdrawn \subseteq Calls /\ inTime \subseteq Calls
    BY DEF TypeOK
  <2>3. Len(queue) \in Nat /\ \A k \in 1..Len(queue) : queue[k] \in Calls
    BY <2>2
  <2>4. \A w \in Workers : worker[w].call # NoCall => worker[w].call \in Calls
    BY <2>1 DEF WorkerStates
  <2> QED BY <2>1, <2>2, <2>3, <2>4, SizeIsFixed
<1>1. CASE AddCallItem
  <2>1. PICK i \in Calls :
          /\ fut[i] \in {"pending", "cancelled"}
          /\ IF Waiting(i) THEN fut' = [fut EXCEPT ![i] = "queued"] /\ queue' = Append(queue, i)
                           ELSE fut' = [fut EXCEPT ![i] = "dropped"] /\ UNCHANGED queue
    BY <1>1 DEF AddCallItem
  <2>2. /\ UNCHANGED <<answer, pipe, thread, inTime>> /\ thread = "on"
        /\ UNCHANGED <<worker, open, outcome, begun, withdrawn>>
    BY <1>1 DEF AddCallItem, NotThread, pool
  <2>3. \A j \in Calls \ {i} : fut'[j] = fut[j]
    BY <1>0, <2>1
  <2>4. OwnerInv'
    <3>1. \A j \in Calls : fut[j] = "taken" => fut'[j] = "taken"
      BY <2>1, <2>3
    <3> QED BY <1>0, <2>2, <3>1 DEF OwnerInv
  <2>5. /\ fut'[i] \in {"queued", "dropped"} /\ begun[i] = 0
        /\ \A j \in withdrawn : fut'[j] \in {"cancelled", "dropped"}
    <3>1. Waiting(i) => i \notin withdrawn
      BY DEF FutureInv, Waiting
    <3>2. fut'[i] \in {"queued", "dropped"} /\ (~Waiting(i) => fut'[i] = "dropped")
      BY <1>0, <2>1
    <3> QED BY <1>0, <2>1, <2>3, <3>1, <3>2 DEF FutureInv
  <2>6. /\ \A k \in 1..Len(queue') : fut'[queue'[k]] = "queued"
        /\ \A k, l \in 1..Len(queue') : queue'[k] = queue'[l] => k = l
    <3>1. CASE Waiting(i)
      <4>1. /\ queue' = Append(queue, i) /\ fut'[i] = "queued"
            /\ \A k \in 1..Len(queue) : queue[k] # i /\ fut'[queue[k]] = "queued"
        BY <1>0, <2>1, <2>3, <3>1 DEF FutureInv, Waiting
      <4>2. /\ Len(queue') = Len(queue) + 1 /\ queue'[Len(queue) + 1] = i
            /\ \A k \in 1..Len(queue) : queue'[k] = queue[k]
        BY <1>0, <4>1, AppendProperties
      <4>3. \A k \in 1..Len(queue') : k \in 1..Len(queue) \/ k = Len(queue) + 1
        BY <1>0, <4>2
      <4> QED BY <4>1, <4>2, <4>3 DEF FutureInv
    <3>2. CASE ~Waiting(i)
      <4>1. queue' = queue
        BY <2>1, <3>2
      <4>2. \A k \in 1..Len(queue) : fut'[queue[k]] = "queued"
        BY <1>0, <2>1, <2>3 DEF FutureInv
      <4> QED BY <4>1, <4>2 DEF FutureInv
    <3> QED BY <3>1, <3>2
  <2>7. /\ \A j \in Calls : fut'[j] \in {"none", "pending", "queued", "cancelled", "dropped"}
                            => begun[j] = 0
        /\ \A j \in Calls : fut'[j] = "done" => answer[j] # "none"
        /\ \A j \in inTime : fut'[j] = "done"
    BY <1>0, <2>1, <2>3, <2>5 DEF FutureInv
  <2> QED BY <1>0, <2>2, <2>4, <2>5, <2>6, <2>7 DEF FutureInv
<1>2. CASE Receive
  <2>1. PICK a \in pipe : /\ pipe' = pipe \ {a}
                          /\ fut' = [fut EXCEPT ![a[1]] = "done"]
                          /\ answer' = [answer EXCEPT ![a[1]] = a[2]]
                          /\ inTime' = IF late THEN inTime ELSE inTime \cup {a[1]}
    BY <1>2 DEF Receive
  <2>2. PICK i \in Calls, out \in Outcomes : a = <<i, out>>
    BY <1>0, <2>1
  <2>3. /\ UNCHANGED <<queue, thread>> /\ thread = "on"
        /\ UNCHANGED <<worker, open, outcome, begun, withdrawn>>
    BY <1>2 DEF Receive, NotThread, pool
  <2>4. fut[i] = "taken" /\ outcome[i] = out
    BY <2>1, <2>2, <2>3 DEF OwnerInv
  <2>5. /\ fut'[i] = "done" /\ answer'[i] = out
        /\ \A j \in Calls \ {i} : fut'[j] = fut[j] /\ answer'[j] = answer[j]
    BY <1>0, <2>1, <2>2
  <2>6. OwnerInv'
    <3>1. \A w \in Workers : worker[w].call # i
      BY <1>0, <2>4, SMTT(40) DEF OwnerInv, NoCall, Outcomes
    <3>2. ASSUME NEW b \in pipe \ {a} PROVE b[1] \in Calls \ {i}
      <4>1. PICK j \in Calls, o \in Outcomes : b = <<j, o>>
        BY <1>0
      <4>2. outcome[j] = o
        BY <4>1 DEF OwnerInv
      <4>3. j # i
        BY <2>2, <2>4, <4>1, <4>2
      <4> QED BY <4>1, <4>3
    <3>3. \A w \in Workers : worker[w].call # NoCall => fut'[worker[w].call] = "taken"
      BY <1>0, <2>3, <2>5, <3>1 DEF OwnerInv
    <3>4. \A b \in pipe' : outcome[b[1]] = b[2] /\ fut'[b[1]] = "taken"
      BY <2>1, <2>3, <2>5, <3>2 DEF OwnerInv
    <3> QED BY <1>0, <2>3, <3>3, <3>4 DEF OwnerInv
  <2>7. /\ \A k \in 1..Len(queue) : fut'[queue[k]] = "queued"
        /\ \A j \in Calls : fut'[j] \in {"none", "pending", "queued", "cancelled", "dropped"}
                            => begun[j] = 0
        /\ \A j \in withdrawn : fut'[j] \in {"cancelled", "dropped"}
        /\ \A j \in Calls : fut'[j] = "done" => answer'[j] # "none"
        /\ \A j \in Calls : answer'[j] \in Outcomes => outcome[j] = answer'[j]
        /\ \A j \in inTime' : fut'[j] = "done"
    BY <1>0, <2>1, <2>2, <2>4, <2>5 DEF FutureInv, Outcomes
  <2> QED BY <1>0, <2>3, <2>6, <2>7 DEF FutureInv
<1>3. CASE SeeShutdown
  <2>1. /\ fut' = [i \in Calls |-> IF fut[i] \in {"pending", "cancelled"} THEN "dropped" ELSE fut[i]]
        /\ thread' = IF \A i \in Calls : ~InFlight(i) THEN "joining" ELSE thread
        /\ UNCHANGED <<answer, queue, pipe, inTime>> /\ thread = "on"
        /\ UNCHANGED <<worker, open, outcome, begun, withdrawn>>
    BY <1>3 DEF SeeShutdown, NotThread, pool
  <2>2. \A i \in Calls : fut[i] \in {"queued", "taken", "done"} => fut'[i] = fut[i]
    BY <1>0, <2>1
  <2>3. OwnerInv'
    BY <1>0, <2>1, <2>2 DEF OwnerInv
  <2>4. thread' # "on" => queue = <<>>
    <3> SUFFICES ASSUME thread' # "on", queue # <<>> PROVE FALSE
      OBVIOUS
    <3>1. Head(queue) \in Calls /\ fut[Head(queue)] = "queued"
      BY HeadOfQueue
    <3> QED BY <2>1, <3>1 DEF InFlight
  <2>5. \A k \in 1..Len(queue) : fut'[queue[k]] = "queued"
    BY <1>0, <2>2 DEF FutureInv
  <2>6. /\ \A j \in Calls : fut'[j] \in {"none", "pending", "queued", "cancelled", "dropped"}
                            => begun[j] = 0
        /\ \A j \in withdrawn : fut'[j] \in {"cancelled", "dropped"}
        /\ \A j \in Calls : fut'[j] = "done" => answer[j] # "none"
        /\ \A j \in inTime : fut'[j] = "done"
    BY <1>0, <2>1 DEF FutureInv
  <2> QED BY <1>0, <2>1, <2>3, <2>4, <2>5, <2>6 DEF FutureInv
<1>4. CASE SeeDeath
  <2>1. /\ \A i \in Calls :
             \/ fut'[i] = fut[i] /\ answer'[i] = answer[i]
             \/ /\ fut'[i] = "done" /\ answer'[i] = "broken"
                /\ fut[i] \in {"pending", "queued", "taken"}
        /\ queue' = <<>> /\ thread' # "on"
        /\ UNCHANGED <<pipe, inTime, worker, open, outcome, begun, withdrawn>>
    BY <1>0, <1>4 DEF SeeDeath, Waiting, InFlight
  <2>2. OwnerInv'
    BY <1>0, <2>1 DEF OwnerInv
  <2>3. \A k \in 1..Len(queue') : FALSE
    BY <2>1
  <2>4. /\ \A j \in Calls : fut'[j] \in {"none", "pending", "queued", "cancelled", "dropped"}
                            => begun[j] = 0
        /\ \A j \in withdrawn : fut'[j] \in {"cancelled", "dropped"}
        /\ \A j \in Calls : fut'[j] = "done" => answer'[j] # "none"
        /\ \A j \in Calls : answer'[j] \in Outcomes => outcome[j] = answer'[j]
        /\ \A j \in inTime : fut'[j] = "done"
    <3>1. \A j \in withdrawn : fut'[j] = fut[j]
      BY <1>0, <2>1 DEF FutureInv
    <3>2. \A j \in inTime : fut'[j] = fut[j]
      BY <1>0, <2>1 DEF FutureInv
    <3>3. "broken" \notin Outcomes /\ "broken" # "none"
      BY DEF Outcomes
    <3>4. \A j \in Calls : answer'[j] \in Outcomes => answer'[j] = answer[j]
      BY <2>1, <3>3
    <3>5. \A j \in Calls : fut'[j] = "done" => answer'[j] # "none"
      BY <2>1, <3>3 DEF FutureInv
    <3>6. \A j \in Calls : fut'[j] \in {"none", "pending", "queued", "cancelled", "dropped"}
                            => begun[j] = 0
      BY <2>1 DEF FutureInv
    <3> QED BY <3>1, <3>2, <3>4, <3>5, <3>6 DEF FutureInv
  <2> QED BY <1>0, <2>1, <2>2, <2>3, <2>4 DEF FutureInv
<1>5. CASE JoinWorkers
  BY <1>0, <1>5 DEF JoinWorkers, NotThread, future, pool, OwnerInv, FutureInv
<1> QED BY <1>1, <1>2, <1>3, <1>4, <1>5 DEF Thread

-----------------------------------------------------------------------------
(* The caller, the deaths of workers, and the devices.                     *)

\* Steps of the pool keep the caller where it is.
LEMMA CallerByPool ==
  ASSUME TypeOK, MainInv, OwnerInv, FutureInv, (\E w \in Workers : Worker(w)) \/ Thread,
         size' = size
  PROVE  MainInv'
<1>0. Calls' = Calls /\ NumCalls' = NumCalls /\ Calls = 1..NumCalls
      /\ fut \in [Calls -> Futures] /\ size' = size
  BY SizeIsFixed DEF TypeOK, Futures
<1>1. ASSUME UNCHANGED main, \A i \in Calls : fut[i] = "none" => fut'[i] = "none",
             shutting' => broken' \/ shutting, broken => broken', shutting => shutting',
             thread' \in {"joining", "ended"} => shutting'
      PROVE  MainInv'
  <2>1. UNCHANGED <<pc, next, results, verdict>>
    BY <1>1 DEF main
  <2> QED BY <1>0, <1>1, <2>1 DEF MainInv
<1>2. ASSUME NEW w \in Workers, Worker(w) PROVE MainInv'
  <2>1. CASE Take(w)
    <3>1. fut[Head(queue)] = "queued" /\ Head(queue) \in Calls
      BY <2>1, HeadOfQueue DEF Take
    <3> QED BY <1>0, <1>1, <2>1, <3>1 DEF Take, flags, MainInv
  <2>2. CASE Send(w)
    BY <1>1, <2>2 DEF Send, future, flags, MainInv
  <2>3. CASE QuietStep(w)
    BY <1>1, <2>3 DEF QuietStep, future, flags, MainInv
  <2> QED BY <1>2, <2>1, <2>2, <2>3, WorkerFrame
<1>3. CASE AddCallItem
  <2>1. \A i \in Calls : fut[i] = "none" => fut'[i] = "none"
    BY <1>0, <1>3 DEF AddCallItem
  <2> QED BY <1>1, <1>3, <2>1 DEF AddCallItem, NotThread, flags, MainInv
<1>4. CASE Receive
  <2>1. PICK a \in pipe : fut' = [fut EXCEPT ![a[1]] = "done"] /\ fut[a[1]] = "taken"
    BY <1>4 DEF Receive, OwnerInv
  <2>2. \A i \in Calls : fut[i] = "none" => fut'[i] = "none"
    BY <1>0, <2>1
  <2> QED BY <1>1, <1>4, <2>2 DEF Receive, NotThread, flags, MainInv
<1>5. CASE SeeShutdown
  <2>1. \A i \in Calls : fut[i] = "none" => fut'[i] = "none"
    BY <1>0, <1>5 DEF SeeShutdown
  <2> QED BY <1>1, <1>5, <2>1 DEF SeeShutdown, NotThread, flags, MainInv
<1>6. CASE SeeDeath
  <2>1. \A i \in Calls : fut[i] = "none" => fut'[i] = "none"
    BY <1>0, <1>6 DEF SeeDeath, Waiting, InFlight
  <2> QED BY <1>1, <1>6, <2>1 DEF SeeDeath
<1>7. CASE JoinWorkers
  BY <1>1, <1>7 DEF JoinWorkers, NotThread, future, flags, MainInv
<1> QED BY <1>2, <1>3, <1>4, <1>5, <1>6, <1>7 DEF Thread

\* Steps of the caller follow its program.
LEMMA CallerByItself ==
  ASSUME TypeOK, MainInv, Main \/ Interrupt \/ ShutdownRaises, size' = size
  PROVE  MainInv'
<1>0. /\ Calls' = Calls /\ NumCalls' = NumCalls /\ Calls = 1..NumCalls /\ NumCalls \in Nat
      /\ size.processes \in Nat /\ Workers = 1..size.processes /\ next \in Nat
      /\ fut \in [Calls -> Futures] /\ Len(results) \in Nat
  BY SizeIsFixed DEF TypeOK, Futures
<1>1. broken' = broken /\ (thread' = thread \/ thread' = "on")
  BY CallerFrame DEF CallerStep
<1>2. CASE Submit
  <2>1. fut' = [fut EXCEPT ![next] = "pending"] /\ next \in Calls /\ next' = next + 1
    BY <1>2 DEF Submit
  <2>2. \A i \in Calls : i >= next + 1 => fut'[i] = fut[i]
    BY <1>0, <2>1
  <2>3. UNCHANGED <<pc, results, verdict, shutting>> /\ pc = "submit"
    BY <1>2 DEF Submit
  <2>4. \A i \in Calls : i >= next' => fut'[i] = "none"
    BY <1>0, <2>1, <2>2, <2>3 DEF MainInv
  <2>5. next' <= NumCalls + 1
    BY <1>0, <2>1
  <2>6. /\ verdict = "none" /\ results = <<>> /\ Len(results) <= NumCalls
        /\ shutting => broken
        /\ thread \in {"joining", "ended"} => shutting
    BY <2>3 DEF MainInv
  <2> QED BY <1>0, <1>1, <2>3, <2>4, <2>5, <2>6 DEF MainInv
<1>3. ASSUME NEW v, Shutdown(v), UNCHANGED <<results, thread>>,
             v \in {"results", "errors"} => Len(results) = NumCalls
      PROVE  MainInv'
  BY <1>0, <1>3 DEF Shutdown, MainInv
<1>4. CASE Submitted
  BY <1>0, <1>1, <1>4 DEF Submitted, MainInv
<1>5. CASE SubmitRaises \/ Interrupt
  BY <1>3, <1>5 DEF SubmitRaises, Interrupt
<1>6. CASE Deadline
  BY <1>0, <1>1, <1>6 DEF Deadline, future, main, MainInv
<1>7. CASE Result \/ ResultRaises \/ ResultTimesOut
  <2>1. /\ pc = "collect" /\ next \in Calls /\ next' = next + 1
        /\ UNCHANGED <<pc, verdict, shutting, thread>>
        /\ \E r \in Calls \cup {NoCall} : results' = Append(results, r)
    BY <1>7 DEF Result, ResultRaises, ResultTimesOut, Report
  <2>2. Len(results') = Len(results) + 1
    BY <2>1, AppendProperties DEF TypeOK
  <2> QED BY <1>0, <1>1, <2>1, <2>2 DEF MainInv
<1>8. CASE Collected
  <2>1. Len(results) = NumCalls
    BY <1>0, <1>8 DEF Collected, MainInv
  <2> QED BY <1>3, <1>8, <2>1 DEF Collected
<1>9. CASE JoinReturns \/ JoinTimesOut \/ ShutdownRaises
  BY <1>0, <1>9 DEF JoinReturns, JoinTimesOut, ShutdownRaises, MainInv
<1>10. CASE TerminateNext
  <2>1. /\ pc = "terminate" /\ pc' \in {"terminate", "joinAgain"}
        /\ UNCHANGED <<results, verdict, shutting, thread>>
        /\ pc' = "terminate" => next' \in {next, next + 1} /\ next \in Workers
    BY <1>10 DEF TerminateNext
  <2> QED BY <1>0, <1>1, <2>1 DEF MainInv
<1> QED BY <1>2, <1>4, <1>5, <1>6, <1>7, <1>8, <1>9, <1>10 DEF Main

\* Until the shutdown only deaths break the pool.
LEMMA DeathStep ==
  ASSUME TypeOK, MainInv, OwnerInv, FutureInv, DeathInv,
         \/ \E w \in Workers : Worker(w)
         \/ Thread
         \/ Main \/ Interrupt \/ ShutdownRaises,
         size' = size
  PROVE  DeathInv'
<1>0. /\ Calls' = Calls /\ Workers' = Workers /\ worker \in [Workers -> WorkerStates]
      /\ deaths \in Nat /\ answer \in [Calls -> {"none", "broken"} \cup Outcomes]
  BY SizeIsFixed DEF TypeOK, WorkerStates, Ats, Busy
<1>1. ASSUME NEW w \in Workers, Worker(w) PROVE DeathInv'
  <2>1. CASE Take(w) \/ Send(w)
    <3>1. /\ UNCHANGED <<answer, doomed, deaths, pc>>
          /\ \A v \in Workers : worker'[v].at = worker[v].at \/ worker'[v].at \in {"manager", "idle"}
      BY <1>0, <2>1 DEF Take, Send, future, main
    <3> QED BY <1>0, <3>1 DEF DeathInv
  <2>2. CASE QuietStep(w)
    <3>1. UNCHANGED <<answer, doomed, pc>> /\ deaths' >= deaths
      BY <2>2 DEF QuietStep, future, main
    <3>2. deaths' = 0 => /\ deaths = 0 \/ ~(deaths' >= deaths)
                         /\ worker'[w].at = "dead" => w \in doomed
      BY <1>0, <2>2 DEF QuietStep
    <3>3. deaths' = 0 => deaths = 0
      BY <1>0, <3>1
    <3> QED BY <1>0, <2>2, <3>1, <3>2, <3>3 DEF DeathInv, QuietStep
  <2> QED BY <1>1, <2>1, <2>2, WorkerFrame
<1>2. CASE Thread
  <2>1. CASE AddCallItem \/ SeeShutdown \/ JoinWorkers
    BY <1>0, <2>1 DEF AddCallItem, SeeShutdown, JoinWorkers, NotThread, future, pool, main, DeathInv
  <2>2. CASE Receive
    <3>1. /\ \A i \in Calls : answer'[i] = "broken" => answer[i] = "broken"
          /\ UNCHANGED <<worker, doomed, deaths, pc>>
      <4>1. PICK a \in pipe : answer' = [answer EXCEPT ![a[1]] = a[2]]
        BY <2>2 DEF Receive
      <4>2. a[2] # "broken"
        BY <4>1 DEF TypeOK, Outcomes
      <4> QED BY <1>0, <2>2, <4>1, <4>2 DEF Receive, NotThread, pool, main
    <3> QED BY <1>0, <3>1 DEF DeathInv
  <2>3. CASE SeeDeath
    BY <1>0, <2>3 DEF SeeDeath, main, DeathInv
  <2> QED BY <1>2, <2>1, <2>2, <2>3 DEF Thread
<1>3. CASE Main \/ Interrupt \/ ShutdownRaises
  <2>1. CallerStep
    BY <1>3, CallerFrame
  <2>2. pc' \in {"submit", "collect"} => pc \in {"submit", "collect"} /\ doomed' = doomed
    BY <1>3 DEF Main, Submit, SubmitRaises, Submitted, Deadline, Result, ResultRaises,
                ResultTimesOut, Collected, JoinReturns, JoinTimesOut, TerminateNext, Interrupt,
                ShutdownRaises, Shutdown, Report, main
  <2> QED BY <1>0, <2>1, <2>2 DEF CallerStep, DeathInv
<1> QED BY <1>1, <1>2, <1>3

\* A step keeps track of the workers that are alive.
LEMMA AliveStep ==
  ASSUME TypeOK, MainInv, OwnerInv, AliveInv,
         \/ \E w \in Workers : Worker(w)
         \/ Thread
         \/ Main \/ Interrupt \/ ShutdownRaises,
         size' = size
  PROVE  AliveInv'
<1>0. /\ Workers' = Workers /\ worker \in [Workers -> WorkerStates]
      /\ Workers = 1..size.processes /\ size.processes \in Nat /\ next \in Nat /\ next > 0
      /\ Alive = {w \in Workers : worker[w].at \notin Gone}
      /\ Alive' = {w \in Workers : worker'[w].at \notin Gone}
      /\ "absent" \in Gone /\ "dead" \in Gone
  <2>1. worker \in [Workers -> WorkerStates] /\ next \in Nat /\ next > 0
    BY SizeIsFixed DEF TypeOK, WorkerStates, Ats, Busy
  <2> QED BY <2>1, SizeIsFixed DEF Alive, Gone
<1>a. Workers' = Workers
  BY <1>0
<1>1. ASSUME NEW w \in Workers, Worker(w) PROVE AliveInv'
  <2>1. /\ worker[w].at \notin Gone /\ UNCHANGED <<pc, next, thread, odd>>
        /\ \A v \in Workers \ {w} : worker'[v] = worker[v]
    <3>1. CASE Take(w) \/ Send(w)
      BY <1>0, <3>1 DEF Take, Send, At, Gone, main
    <3>2. CASE QuietStep(w)
      BY <1>0, <3>2 DEF QuietStep, main
    <3> QED BY <1>1, <3>1, <3>2, WorkerFrame
  <2>2. Alive' \subseteq Alive /\ thread # "none"
    BY <1>0, <2>1 DEF AliveInv
  <2>3. /\ thread = "ended" /\ odd = {} => Alive' = {}
        /\ pc = "terminate" => \A v \in Alive' : v >= next
        /\ pc = "joinAgain" => Alive' = {}
        /\ pc = "end" /\ odd = {} => Alive' = {}
    BY <2>2 DEF AliveInv
  <2> QED BY <1>a, <2>1, <2>2, <2>3 DEF AliveInv
<1>2. CASE Thread
  <2>1. /\ UNCHANGED <<pc, next, worker>> /\ thread' # "none" /\ odd \subseteq odd'
        /\ thread' = "ended" => Alive = {} \/ odd' # {}
    BY <1>2 DEF Thread, AddCallItem, Receive, SeeShutdown, SeeDeath, JoinWorkers, NotThread,
                pool, main
  <2>2. Alive' = Alive
    BY <1>0, <2>1
  <2> QED BY <2>1, <2>2 DEF AliveInv
<1>3. CASE Submit
  <2>1. /\ pc = "submit" /\ pc' = "submit" /\ ~broken /\ thread' # "none"
        /\ thread' = "ended" => thread = "ended"
    BY <1>3 DEF Submit
  <2> QED BY <2>1 DEF AliveInv, MainInv
<1>4. CASE TerminateNext
  <2>1. /\ UNCHANGED <<thread, odd, pipe>> /\ pc = "terminate"
        /\ \/ next \notin Workers /\ pc' = "joinAgain" /\ UNCHANGED worker
           \/ next \notin Alive /\ next' = next + 1 /\ pc' = pc /\ UNCHANGED worker
           \/ next' = next /\ pc' = pc /\ UNCHANGED worker
           \/ next \in Alive /\ Goes(next, "dead", "ok") /\ next' = next + 1 /\ pc' = pc
    BY <1>4 DEF TerminateNext, NotMain, RestOfMain
  <2>2. CASE UNCHANGED worker
    <3>1. Alive' = Alive
      BY <1>0, <2>2
    <3>2. /\ pc' = "joinAgain" => Alive = {}
          /\ pc' = "terminate" => \A w \in Alive : w >= next'
      <4>1. \A w \in Alive : w >= next /\ w <= size.processes /\ w \in Nat
        BY <1>0, <2>1 DEF AliveInv
      <4>2. CASE next \notin Workers /\ pc' = "joinAgain"
        <5>1. \A w \in Alive : next \in Workers
          BY <1>0, <4>1
        <5> QED BY <4>2, <5>1
      <4>3. CASE next \notin Alive /\ next' = next + 1 /\ pc' = pc
        <5>1. \A w \in Alive : w # next
          BY <4>3
        <5> QED BY <1>0, <2>1, <4>1, <4>3, <5>1
      <4>4. CASE next' = next /\ pc' = pc
        BY <2>1, <4>1, <4>4
      <4>5. CASE next \in Alive /\ Goes(next, "dead", "ok")
        BY <1>0, <4>5, <2>2, GoesOne DEF Ats, Gone, Outcomes
      <4> QED BY <2>1, <2>2, <4>2, <4>3, <4>4, <4>5
    <3>3. pc' \in {"terminate", "joinAgain"}
      BY <2>1
    <3> QED BY <1>a, <2>1, <2>2, <3>1, <3>2, <3>3 DEF AliveInv
  <2>3. CASE next \in Alive /\ Goes(next, "dead", "ok") /\ next' = next + 1 /\ pc' = pc
    <3>1. worker'[next].at = "dead" /\ \A w \in Workers \ {next} : worker'[w] = worker[w]
      BY <1>0, <2>3, GoesOne DEF Ats, Gone, Outcomes
    <3>2. Alive' = Alive \ {next}
      BY <1>0, <3>1
    <3>3. \A w \in Alive' : w >= next + 1
      <4>1. \A w \in Alive' : w >= next /\ w # next /\ w \in Nat
        BY <1>0, <2>1, <3>2 DEF AliveInv
      <4> QED BY <1>0, <4>1
    <3>4. thread # "none"
      BY <1>0, <2>3 DEF AliveInv
    <3>5. thread = "ended" /\ odd = {} => Alive' = {}
      BY <3>2 DEF AliveInv
    <3> QED BY <2>1, <2>3, <3>3, <3>4, <3>5 DEF AliveInv
  <2> QED BY <2>1, <2>2, <2>3
<1>5. CASE JoinReturns
  <2>1. /\ UNCHANGED <<worker, thread, odd, pipe>> /\ pc' = "end" /\ thread \in {"none", "ended"}
    BY <1>5 DEF JoinReturns, NotMain, RestOfMain
  <2>2. Alive' = Alive
    BY <1>0, <2>1
  <2>3. odd = {} => Alive = {}
    BY <1>0, <2>1 DEF AliveInv
  <2> QED BY <1>a, <2>1, <2>2, <2>3 DEF AliveInv
<1>6. CASE JoinTimesOut
  <2>1. /\ UNCHANGED <<worker, thread, odd, pipe, next>>
        /\ \/ pc = "join" /\ pc' = "terminate"
           \/ pc = "joinAgain" /\ pc' = "end"
    BY <1>6 DEF JoinTimesOut, NotMain, RestOfMain
  <2>2. Alive' = Alive /\ \A w \in Alive : w >= 1
    BY <1>0, <2>1
  <2>3. pc = "join" => next = 1
    BY DEF MainInv
  <2> QED BY <1>a, <2>1, <2>2, <2>3 DEF AliveInv
<1>7. CASE ShutdownRaises
  <2>1. /\ UNCHANGED <<worker, thread, pipe>> /\ odd' # {} /\ pc' = "end"
    BY <1>7 DEF ShutdownRaises, NotMain, RestOfMain
  <2> QED BY <1>a, <2>1 DEF AliveInv
<1>8. CASE \/ SubmitRaises \/ Submitted \/ Deadline \/ Result \/ ResultRaises \/ ResultTimesOut
           \/ Collected \/ Interrupt
  <2>1. /\ UNCHANGED <<worker, thread, odd, pipe>> /\ pc' \in {"submit", "collect", "join"}
    BY <1>8 DEF SubmitRaises, Submitted, Deadline, Result, ResultRaises, ResultTimesOut,
                Collected, Interrupt, Shutdown, Report, NotMain, RestOfMain, main
  <2>2. Alive' = Alive
    BY <1>0, <2>1
  <2> QED BY <1>a, <2>1, <2>2 DEF AliveInv
<1> QED BY <1>1, <1>2, <1>3, <1>4, <1>5, <1>6, <1>7, <1>8 DEF Main

\* A step leaves no device open behind.
LEMMA OpenStep ==
  ASSUME TypeOK, MainInv, OwnerInv, FutureInv, OpenInv,
         \/ \E w \in Workers : Worker(w)
         \/ Thread
         \/ Main \/ Interrupt \/ ShutdownRaises,
         size' = size
  PROVE  OpenInv'
<1>0. /\ Workers' = Workers /\ worker \in [Workers -> WorkerStates] /\ open \subseteq Calls
      /\ \A i \in open : i # NoCall
  <2>1. worker \in [Workers -> WorkerStates] /\ open \subseteq Calls
    BY DEF TypeOK, WorkerStates, Ats, Busy
  <2>2. \A i \in Calls : i # NoCall
    BY SizeIsFixed DEF NoCall
  <2> QED BY <2>1, <2>2, SizeIsFixed
<1>1. ASSUME NEW w \in Workers, NEW at \in Ats, NEW out \in Outcomes, Goes(w, at, out),
             open' = open, unclosed' = unclosed, at \notin {"manager", "send"},
             at = "create" => worker[w].at = "manager"
      PROVE  OpenInv'
  <2>1. /\ \A v \in Workers : worker'[v].call = worker[v].call
        /\ \A v \in Workers : worker'[v].at \in {"manager", "create"} =>
                              worker[v].at \in {"manager", "create"}
        /\ \A v \in Workers : worker'[v].at = "send" => worker[v].at = "send"
    BY <1>0, <1>1, GoesOne
  <2> QED BY <1>0, <1>1, <2>1 DEF OpenInv, DevicesClosed
<1>2. ASSUME NEW w \in Workers, Worker(w) PROVE OpenInv'
  <2>0. /\ worker[w].out \in Outcomes
        /\ \A v \in Workers \ {w} : worker[v].call # worker[w].call \/ worker[w].call = NoCall
    BY <1>0 DEF WorkerStates, OwnerInv
  <2>1. CASE ProcessInit(w)
    <3>1. Goes(w, "idle", "ok") \/ Goes(w, "dead", "ok")
      BY <2>1 DEF ProcessInit
    <3> QED BY <1>1, <2>1, <3>1 DEF ProcessInit, RestOfPool, Ats, Gone, Outcomes
  <2>2. CASE Take(w)
    <3>1. /\ worker' = [worker EXCEPT ![w] = [at |-> "manager", call |-> Head(queue), out |-> "ok"]]
          /\ UNCHANGED <<open, unclosed>> /\ worker[w].call = NoCall /\ Head(queue) \notin open
      BY <2>2, HeadOfQueue DEF Take, At, OwnerInv
    <3>2. /\ worker'[w] = [at |-> "manager", call |-> Head(queue), out |-> "ok"]
          /\ \A v \in Workers \ {w} : worker'[v] = worker[v]
      BY <1>0, <3>1
    <3> QED BY <1>0, <3>1, <3>2 DEF OpenInv, DevicesClosed
  <2>3. CASE MakeManager(w)
    <3>1. CASE Goes(w, "create", "ok")
      BY <1>1, <2>3, <3>1 DEF MakeManager, At, RestOfPool, Ats, Busy, Outcomes
    <3>2. CASE Goes(w, "send", "raised")
      <4>1. /\ \A v \in Workers : worker'[v].call = worker[v].call
            /\ \A v \in Workers : worker'[v].at \in {"manager", "create"} =>
                                  worker[v].at \in {"manager", "create"}
            /\ \A v \in Workers : worker'[v].at = "send" => worker[v].at = "send" \/ v = w
        BY <1>0, <3>2, GoesOne DEF Ats, Busy, Outcomes
      <4>2. worker[w].call \notin open /\ UNCHANGED <<open, unclosed>>
        BY <2>3 DEF MakeManager, At, RestOfPool, OpenInv
      <4> QED BY <1>0, <4>1, <4>2 DEF OpenInv, DevicesClosed
    <3> QED BY <2>3, <3>1, <3>2 DEF MakeManager
  <2>4. CASE CreateDevice(w)
    <3>1. CASE Goes(w, "act", "ok") /\ open' = open \cup {worker[w].call}
      <4>1. /\ \A v \in Workers : worker'[v].call = worker[v].call
            /\ \A v \in Workers : worker'[v].at \in {"manager", "create"} =>
                                  v # w /\ worker[v].at \in {"manager", "create"}
            /\ \A v \in Workers : worker'[v].at = "send" => v # w /\ worker[v].at = "send"
        BY <1>0, <3>1, GoesOne DEF Ats, Busy, Outcomes
      <4>2. worker[w].call # NoCall /\ UNCHANGED unclosed
        BY <2>4 DEF CreateDevice, At, RestOfPool, OwnerInv, Busy
      <4>3. \A v \in Workers \ {w} : worker[v].call \in open' => worker[v].call \in open
        BY <2>0, <3>1, <4>2
      <4> QED BY <1>0, <3>1, <4>1, <4>2, <4>3 DEF OpenInv, DevicesClosed
    <3>2. CASE Goes(w, "closeManager", "raised") /\ UNCHANGED open
      BY <1>1, <2>4, <3>2 DEF CreateDevice, RestOfPool, Ats, Busy, Outcomes
    <3> QED BY <2>4, <3>1, <3>2 DEF CreateDevice
  <2>5. CASE Act(w)
    BY <1>1, <2>5 DEF Act, RestOfPool, Ats, Busy, Outcomes
  <2>6. CASE CloseDevice(w) \/ CloseManager(w)
    <3>1. /\ open' \in {open, open \ {worker[w].call}} /\ unclosed \subseteq unclosed'
          /\ \E at \in {"closeManager", "send"}, out \in Outcomes :
               /\ Goes(w, at, out)
               /\ at = "send" => worker[w].call \notin open' \/ worker[w].call \in unclosed'
      BY <2>0, <2>6 DEF CloseDevice, CloseManager, RestOfPool, Outcomes
    <3>2. /\ \A v \in Workers : worker'[v].call = worker[v].call
          /\ \A v \in Workers : worker'[v].at \in {"manager", "create"} =>
                                v # w /\ worker[v].at \in {"manager", "create"}
          /\ \A v \in Workers : worker'[v].at = "send" => worker[v].at = "send" \/ v = w
          /\ worker'[w].at = "send" => worker[w].call \notin open' \/ worker[w].call \in unclosed'
      BY <1>0, <3>1, GoesOne DEF Ats, Busy
    <3> QED BY <1>0, <3>1, <3>2 DEF OpenInv, DevicesClosed
  <2>7. CASE Send(w)
    <3>1. /\ worker' = [worker EXCEPT ![w] = [at |-> "idle", call |-> NoCall, out |-> "ok"]]
          /\ UNCHANGED <<open, unclosed>>
          /\ worker[w].call \in open => worker[w].call \in unclosed
      BY <2>7 DEF Send, At, OpenInv
    <3>2. /\ worker'[w] = [at |-> "idle", call |-> NoCall, out |-> "ok"]
          /\ \A v \in Workers \ {w} : worker'[v] = worker[v]
      BY <1>0, <3>1
    <3> QED BY <1>0, <3>1, <3>2 DEF OpenInv, DevicesClosed
  <2>8. CASE Leave(w) \/ Die(w)
    BY <1>1, <2>8 DEF Leave, Die, RestOfPool, Ats, Gone, Outcomes
  <2> QED BY <1>2, <2>1, <2>2, <2>3, <2>4, <2>5, <2>6, <2>7, <2>8 DEF Worker
<1>3. CASE Thread
  <2>1. UNCHANGED <<worker, open, unclosed>>
    BY <1>3 DEF Thread, AddCallItem, Receive, SeeShutdown, SeeDeath, JoinWorkers, NotThread, pool
  <2> QED BY <1>0, <2>1 DEF OpenInv, DevicesClosed
<1>4. CASE Main \/ Interrupt \/ ShutdownRaises
  <2>1. /\ UNCHANGED <<open, unclosed>>
        /\ \A v \in Workers : worker'[v].call = worker[v].call
        /\ \A v \in Workers : worker'[v].at \in {"manager", "create", "send"} =>
                              worker'[v].at = worker[v].at
    BY <1>4, CallerFrame DEF CallerStep
  <2> QED BY <1>0, <2>1 DEF OpenInv, DevicesClosed
<1> QED BY <1>2, <1>3, <1>4

-----------------------------------------------------------------------------
(* The reports.                                                            *)

\* What the pool does keeps every report true.
LEMMA ReportByPool ==
  ASSUME TypeOK, MainInv, OwnerInv, FutureInv, ReportInv,
         (\E w \in Workers : Worker(w)) \/ Thread, size' = size
  PROVE  ReportInv'
<1>0. /\ Calls' = Calls /\ NumCalls' = NumCalls /\ Calls = 1..NumCalls /\ NumCalls \in Nat
      /\ fut \in [Calls -> Futures] /\ answer \in [Calls -> {"none", "broken"} \cup Outcomes]
      /\ outcome \in [Calls -> {"none"} \cup Outcomes]
      /\ Len(results) \in Nat /\ Len(results) = Len(errors) /\ Len(results) <= NumCalls
      /\ deaths \in Nat /\ \A k \in 1..Len(results) : k \in Calls
  <2>1. /\ fut \in [Calls -> Futures] /\ answer \in [Calls -> {"none", "broken"} \cup Outcomes]
        /\ outcome \in [Calls -> {"none"} \cup Outcomes] /\ deaths \in Nat
    BY DEF TypeOK, Futures
  <2>2. Len(results) \in Nat /\ Len(results) = Len(errors) /\ Len(results) <= NumCalls
    BY DEF TypeOK, MainInv
  <2> QED BY <2>1, <2>2, SizeIsFixed
<1>1. ASSUME UNCHANGED main, late' = late, deaths' >= deaths, deaths' \in Nat,
             \A i \in Calls : outcome'[i] = outcome[i] \/ outcome[i] = "none",
             \A i \in Calls : fut[i] = "done" => fut'[i] = "done" /\ answer'[i] = answer[i],
             \A i \in inTime' : i \in inTime \/ (~late /\ fut[i] # "done")
      PROVE  ReportInv'
  <2>1. UNCHANGED <<results, errors, verdict>>
    BY <1>1 DEF main
  <2>2. ResultsInOrder'
    BY <1>0, <1>1, <2>1 DEF ReportInv, ResultsInOrder
  <2>3. ErrorsAreTrue'
    BY <1>0, <1>1, <2>1 DEF ReportInv, ErrorsAreTrue
  <2>4. \A k \in 1..Len(results') : fut'[k] = "done" \/ late'
    BY <1>0, <1>1, <2>1 DEF ReportInv
  <2>5. InTimeIsKept'
    <3>1. ASSUME NEW k \in 1..Len(results), k \in inTime', answer'[k] = "ok" PROVE results[k] = k
      <4>1. k \in inTime /\ k \in Calls /\ fut[k] = "done"
        BY <1>0, <1>1, <3>1 DEF ReportInv, FutureInv
      <4> QED BY <1>1, <3>1, <4>1 DEF ReportInv, InTimeIsKept
    <3> QED BY <2>1, <3>1 DEF InTimeIsKept
  <2> QED BY <2>2, <2>3, <2>4, <2>5 DEF ReportInv
<1>2. ASSUME NEW w \in Workers, Worker(w) PROVE ReportInv'
  <2>1. CASE Take(w)
    <3>1. \A i \in Calls : fut[i] = "done" => fut'[i] = "done" /\ answer'[i] = answer[i]
      <4>1. fut' = [fut EXCEPT ![Head(queue)] = "taken"] /\ fut[Head(queue)] = "queued"
            /\ UNCHANGED answer
        BY <2>1, HeadOfQueue DEF Take
      <4> QED BY <1>0, <4>1
    <3> QED BY <1>0, <1>1, <2>1, <3>1 DEF Take
  <2>2. CASE Send(w)
    <3>1. \A i \in Calls : outcome'[i] = outcome[i] \/ outcome[i] = "none"
      <4>1. /\ outcome' = [outcome EXCEPT ![worker[w].call] = worker[w].out]
            /\ outcome[worker[w].call] = "none"
        BY <2>2 DEF Send, At, OwnerInv, Busy
      <4> QED BY <1>0, <4>1
    <3> QED BY <1>0, <1>1, <2>2, <3>1 DEF Send, future
  <2>3. CASE QuietStep(w)
    <3>1. deaths' \in Nat
      BY <1>2, WorkerTypes DEF TypeOK
    <3> QED BY <1>0, <1>1, <2>3, <3>1 DEF QuietStep, future
  <2> QED BY <1>2, <2>1, <2>2, <2>3, WorkerFrame
<1>3. CASE Receive
  <2>1. PICK a \in pipe : /\ fut' = [fut EXCEPT ![a[1]] = "done"]
                          /\ answer' = [answer EXCEPT ![a[1]] = a[2]]
                          /\ inTime' = IF late THEN inTime ELSE inTime \cup {a[1]}
                          /\ fut[a[1]] = "taken"
    BY <1>3 DEF Receive, OwnerInv
  <2>2. \A i \in Calls : fut[i] = "done" => fut'[i] = "done" /\ answer'[i] = answer[i]
    BY <1>0, <2>1
  <2> QED BY <1>0, <1>1, <1>3, <2>1, <2>2 DEF Receive, NotThread, pool
<1>4. CASE AddCallItem \/ SeeShutdown \/ SeeDeath \/ JoinWorkers
  <2>1. \A i \in Calls : fut[i] = "done" => fut'[i] = "done" /\ answer'[i] = answer[i]
    BY <1>0, <1>4 DEF AddCallItem, SeeShutdown, SeeDeath, JoinWorkers, Waiting, InFlight, future
  <2>2. UNCHANGED <<main, late, deaths, outcome, inTime>>
    BY <1>4 DEF AddCallItem, SeeShutdown, SeeDeath, JoinWorkers, NotThread, pool
  <2> QED BY <1>0, <1>1, <2>1, <2>2
<1> QED BY <1>2, <1>3, <1>4 DEF Thread

\* What the caller reports is true, and so is what it has reported before.
LEMMA ReportByCaller ==
  ASSUME TypeOK, MainInv, OwnerInv, FutureInv, DeathInv, ReportInv,
         Main \/ Interrupt \/ ShutdownRaises, size' = size
  PROVE  ReportInv'
<1>0. /\ Calls' = Calls /\ NumCalls' = NumCalls /\ Calls = 1..NumCalls /\ NumCalls \in Nat
      /\ Len(results) \in Nat /\ Len(results) = Len(errors) /\ Len(results) <= NumCalls
      /\ deaths \in Nat /\ late \in BOOLEAN /\ \A k \in 1..Len(results) : k \in Calls
      /\ fut \in [Calls -> Futures]
  <2>1. deaths \in Nat /\ late \in BOOLEAN /\ fut \in [Calls -> Futures]
    BY DEF TypeOK, Futures
  <2>2. Len(results) \in Nat /\ Len(results) = Len(errors) /\ Len(results) <= NumCalls
    BY DEF TypeOK, MainInv
  <2> QED BY <2>1, <2>2, SizeIsFixed
<1>1. /\ MainInv' /\ UNCHANGED <<outcome, answer, inTime, deaths>>
      /\ \A i \in Calls : fut[i] = "done" => fut'[i] = "done"
  BY CallerByItself, CallerFrame DEF CallerStep
<1>2. ASSUME UNCHANGED <<results, errors>>, late => late' PROVE ReportInv'
  <2>1. ResultsInOrder'
    BY <1>0, <1>1, <1>2 DEF ReportInv, ResultsInOrder, MainInv
  <2>2. ErrorsAreTrue'
    BY <1>0, <1>1, <1>2 DEF ReportInv, ErrorsAreTrue
  <2>3. InTimeIsKept'
    BY <1>0, <1>1, <1>2 DEF ReportInv, InTimeIsKept
  <2>4. \A k \in 1..Len(results') : fut'[k] = "done" \/ late'
    BY <1>0, <1>1, <1>2 DEF ReportInv
  <2> QED BY <2>1, <2>2, <2>3, <2>4 DEF ReportInv
<1>3. ASSUME NEW result \in Calls \cup {NoCall}, NEW error, Report(result, error),
             pc = "collect", next \in Calls, result \in {next, NoCall},
             (result = next) = (error = "none"),
             result = next => outcome[next] = "ok",
             error = "raised" => outcome[next] = "raised",
             error = "broken" => deaths > 0,
             error = "ResultNotReceived" => late \/ outcome[next] = "timeout",
             next \in inTime /\ answer[next] = "ok" => result = next,
             fut'[next] = "done" \/ late
      PROVE  ReportInv'
  <2> DEFINE n == Len(results)
  <2>1. /\ n \in Nat /\ next = n + 1 /\ late' = late /\ next \in Calls
        /\ Len(results') = n + 1 /\ results'[next] = result
        /\ errors'[next] = error
        /\ \A k \in 1..n : results'[k] = results[k] /\ errors'[k] = errors[k]
    <3>1. /\ results \in Seq(Calls \cup {NoCall})
          /\ results' = Append(results, result) /\ errors' = Append(errors, error)
          /\ late' = late
      BY <1>3 DEF TypeOK, Report
    <3>2. errors \in Seq({"none", "raised", "broken", "ResultNotReceived"} \cup {error})
      BY DEF TypeOK
    <3>3. /\ Len(results') = n + 1 /\ results'[n + 1] = result
          /\ \A k \in 1..n : results'[k] = results[k]
      BY <1>0, <3>1, AppendProperties
    <3>4. errors'[n + 1] = error /\ \A k \in 1..n : errors'[k] = errors[k]
      BY <1>0, <3>1, <3>2, AppendProperties
    <3>5. next = n + 1
      BY <1>3 DEF MainInv
    <3> QED BY <1>0, <1>3, <3>1, <3>3, <3>4, <3>5
  <2> HIDE DEF n
  <2>2. \A k \in 1..Len(results') : k \in 1..n \/ k = next
    BY <2>1
  <2>3. ResultsInOrder'
    <3>1. \A k \in 1..Len(results') : /\ results'[k] \in {k, NoCall}
                                      /\ (results'[k] = k) = (errors'[k] = "none")
                                      /\ results'[k] = k => outcome[k] = "ok"
      BY <1>3, <2>1, <2>2 DEF ReportInv, ResultsInOrder, n
    <3>2. verdict' \in {"results", "errors"} => Len(results') = NumCalls'
      BY <1>1 DEF MainInv
    <3> QED BY <1>1, <3>1, <3>2 DEF ResultsInOrder
  <2>4. ErrorsAreTrue'
    <3>1. \A k \in 1..Len(results') :
            /\ errors'[k] = "raised" => outcome[k] = "raised"
            /\ errors'[k] = "broken" => deaths > 0
            /\ errors'[k] = "ResultNotReceived" => late \/ outcome[k] = "timeout"
      BY <1>0, <1>3, <2>1, <2>2 DEF ReportInv, ErrorsAreTrue, n
    <3>2. Len(errors') = Len(results')
      <4>1. errors \in Seq({"none", "raised", "broken", "ResultNotReceived"} \cup {error})
        BY DEF TypeOK
      <4>2. Len(errors') = Len(errors) + 1
        BY <1>3, <4>1, AppendProperties DEF Report
      <4> QED BY <1>0, <2>1, <4>2 DEF n
    <3> QED BY <1>1, <2>1, <3>1, <3>2 DEF ErrorsAreTrue
  <2>5. InTimeIsKept'
    <3>1. \A k \in 1..Len(results') : k \in inTime /\ answer[k] = "ok" => results'[k] = k
      BY <1>3, <2>1, <2>2 DEF ReportInv, InTimeIsKept, n
    <3> QED BY <1>1, <3>1 DEF InTimeIsKept
  <2>6. \A k \in 1..Len(results') : fut'[k] = "done" \/ late'
    BY <1>0, <1>1, <1>3, <2>1, <2>2 DEF ReportInv, n
  <2> QED BY <2>3, <2>4, <2>5, <2>6 DEF ReportInv
<1>a. \A i \in Calls : i # NoCall
  BY <1>0 DEF NoCall
<1>4. CASE Result
  <2>1. /\ Report(next, "none") /\ UNCHANGED fut /\ fut[next] = "done" /\ answer[next] = "ok"
        /\ next \in Calls /\ pc = "collect"
    BY <1>4 DEF Result, future
  <2>2. outcome[next] = "ok"
    BY <2>1 DEF FutureInv, Outcomes
  <2> QED BY <1>3, <2>1, <2>2
<1>5. CASE ResultRaises
  <2> DEFINE error == IF answer[next] = "timeout" THEN "ResultNotReceived" ELSE answer[next]
  <2>1. /\ Report(NoCall, error) /\ UNCHANGED fut /\ fut[next] = "done" /\ answer[next] # "ok"
        /\ next \in Calls /\ pc = "collect"
    BY <1>5 DEF ResultRaises, future
  <2>2. /\ answer[next] \in {"raised", "timeout", "broken"}
        /\ answer[next] # "broken" => outcome[next] = answer[next]
    BY <2>1 DEF FutureInv, TypeOK, Outcomes
  <2>3. answer[next] = "broken" => deaths > 0
    BY <1>0, <2>1 DEF DeathInv
  <2>4. /\ error # "none" /\ (error = "raised" => outcome[next] = "raised")
        /\ error = "broken" => deaths > 0
        /\ error = "ResultNotReceived" => outcome[next] = "timeout"
    BY <2>2, <2>3
  <2> HIDE DEF error
  <2> QED BY <1>3, <1>a, <2>1, <2>4
<1>6. CASE ResultTimesOut
  <2>1. /\ Report(NoCall, "ResultNotReceived") /\ late /\ fut[next] # "done"
        /\ next \in Calls /\ pc = "collect"
    BY <1>6 DEF ResultTimesOut
  <2>2. next \notin inTime
    BY <2>1 DEF FutureInv
  <2> QED BY <1>3, <1>a, <2>1, <2>2
<1>7. CASE \/ Submit \/ SubmitRaises \/ Submitted \/ Deadline \/ Collected \/ JoinReturns
           \/ JoinTimesOut \/ TerminateNext \/ Interrupt \/ ShutdownRaises
  <2>1. UNCHANGED <<results, errors>> /\ (late => late')
    BY <1>7 DEF Submit, SubmitRaises, Submitted, Deadline, Collected, JoinReturns, JoinTimesOut,
                TerminateNext, Interrupt, ShutdownRaises, Shutdown, main
  <2> QED BY <1>2, <2>1
<1> QED BY <1>4, <1>5, <1>6, <1>7 DEF Main

-----------------------------------------------------------------------------
(* The theorems.                                                           *)

Inv == /\ TypeOK /\ MainInv /\ OwnerInv /\ FutureInv /\ DeathInv /\ ReportInv /\ AliveInv
       /\ OpenInv

\* The inductive invariant holds in every behaviour.
LEMMA InvHolds == Spec => []Inv
<1>1. Init => Inv
  <2> SUFFICES ASSUME Init PROVE Inv
    OBVIOUS
  <2>0. /\ size.calls \in Nat /\ size.processes \in Nat /\ size.processes > 0
        /\ size \in Sizes /\ NumCalls \in Nat /\ QueueSize \in Nat
    <3>1. size \in [calls : Nat, processes : Nat \ {0}] /\ size \in Sizes
      BY SizesAssumption DEF Init
    <3> QED BY <3>1 DEF NumCalls, QueueSize
  <2>1. TypeOK
    <3>1. /\ fut \in [Calls -> Futures] /\ answer \in [Calls -> {"none", "broken"} \cup Outcomes]
          /\ outcome \in [Calls -> {"none"} \cup Outcomes] /\ begun \in [Calls -> Nat]
          /\ worker \in [Workers -> WorkerStates]
      BY DEF Init, Futures, WorkerStates, Ats, Gone, Outcomes
    <3>2. /\ queue \in Seq(Calls) /\ Len(queue) <= QueueSize
          /\ results \in Seq(Calls \cup {NoCall}) /\ Len(results) = Len(errors)
          /\ errors \in Seq({"none", "raised", "broken", "ResultNotReceived"})
      BY <2>0 DEF Init
    <3>3. /\ next \in 1..(NumCalls + size.processes + 1) /\ deaths \in 0..MaxDeaths
          /\ size \in Sizes
      BY <2>0, SizesAssumption DEF Init
    <3>4. /\ pipe \subseteq Calls \X Outcomes /\ doomed \subseteq Workers
          /\ thread \in {"none", "on", "joining", "ended"}
          /\ broken \in BOOLEAN /\ shutting \in BOOLEAN /\ late \in BOOLEAN
          /\ pc \in {"submit", "collect", "join", "terminate", "joinAgain", "end"}
          /\ verdict \in {"none", "results", "errors", "BrokenProcessPool", "BrokenExecutor",
                          "DeviceError"}
          /\ open \subseteq Calls /\ withdrawn \subseteq Calls /\ inTime \subseteq Calls
          /\ unclosed \subseteq Calls /\ odd \subseteq {"crashed", "left"}
      BY DEF Init
    <3> QED BY <3>1, <3>2, <3>3, <3>4 DEF TypeOK, Futures, WorkerStates, Ats, Busy
  <2>2. /\ \A i \in Calls : fut[i] = "none" /\ answer[i] = "none" /\ outcome[i] = "none"
                            /\ begun[i] = 0
        /\ \A w \in Workers : worker[w].at = "absent" /\ worker[w].call = NoCall
        /\ results = <<>> /\ errors = <<>> /\ queue = <<>> /\ pipe = {} /\ open = {}
        /\ Len(results) = 0 /\ Len(errors) = 0 /\ Len(queue) = 0
    BY DEF Init
  <2>3. MainInv
    BY <2>0, <2>2 DEF Init, MainInv
  <2>4. OwnerInv
    BY <2>2 DEF OwnerInv, Busy
  <2>5. FutureInv
    BY <2>2 DEF Init, FutureInv, Outcomes
  <2>6. DeathInv
    BY <2>2 DEF Init, DeathInv
  <2>7. ReportInv
    BY <2>2 DEF Init, ReportInv, ResultsInOrder, ErrorsAreTrue, InTimeIsKept
  <2>8. AliveInv
    BY <2>2 DEF Init, AliveInv, Alive, Gone
  <2>9. OpenInv
    BY <2>2 DEF OpenInv, DevicesClosed
  <2> QED BY <2>1, <2>3, <2>4, <2>5, <2>6, <2>7, <2>8, <2>9 DEF Inv
<1>2. ASSUME Inv, Next PROVE Inv'
  <2>0. /\ TypeOK /\ MainInv /\ OwnerInv /\ FutureInv /\ DeathInv /\ ReportInv /\ AliveInv
        /\ OpenInv /\ size' = size
    BY <1>2 DEF Inv, Next
  <2>1. CASE \E w \in Workers : Worker(w)
    BY <2>0, <2>1, WorkerTypes, CallerByPool, OwnerByWorker, FutureByWorker, DeathStep,
       ReportByPool, AliveStep, OpenStep DEF Inv
  <2>2. CASE Thread
    BY <2>0, <2>2, ThreadTypes, CallerByPool, OwnersByThread, DeathStep, ReportByPool, AliveStep,
       OpenStep DEF Inv
  <2>3. CASE Main \/ Interrupt \/ ShutdownRaises
    BY <2>0, <2>3, MainTypes, CallerByItself, OwnersByCaller, DeathStep, ReportByCaller,
       AliveStep, OpenStep DEF Inv
  <2> QED BY <1>2, <2>1, <2>2, <2>3 DEF Next
<1>3. ASSUME Inv, UNCHANGED vars PROVE Inv'
  <2> USE <1>3 DEF Inv, vars, future, pool, flags, main, Calls, Workers
  <2>1. TypeOK'
    BY DEF TypeOK, NumCalls, QueueSize
  <2>2. MainInv' /\ OwnerInv' /\ FutureInv' /\ DeathInv'
    BY DEF MainInv, NumCalls, OwnerInv, FutureInv, DeathInv
  <2>3. ReportInv'
    BY DEF ReportInv, ResultsInOrder, NumCalls, ErrorsAreTrue, InTimeIsKept
  <2>4. AliveInv' /\ OpenInv'
    BY DEF AliveInv, Alive, OpenInv, DevicesClosed
  <2> QED BY <2>1, <2>2, <2>3, <2>4
<1> QED BY <1>1, <1>2, <1>3, PTL DEF Spec

\* However calls end, hang or die and whenever the deadline passes, every entry
\* of the results and errors is that of its call and true of it, a result that
\* came in time is reported, and no call runs twice or after it was withdrawn:
\* for any number of calls, of processes and of deaths.
THEOREM ReportsAreTrue == Spec => []ResultsAreTrue
<1>1. Inv => ResultsAreTrue
  <2> SUFFICES ASSUME Inv PROVE ResultsAreTrue
    OBVIOUS
  <2>1. WithdrawnNeverRuns
    <3> SUFFICES ASSUME NEW i \in Calls
                 PROVE  begun[i] <= (IF i \in withdrawn THEN 0 ELSE 1)
      BY DEF WithdrawnNeverRuns
    <3>1. begun[i] <= 1 /\ (i \in withdrawn => begun[i] = 0)
      BY DEF Inv, FutureInv
    <3> QED BY <3>1
  <2> QED BY <2>1 DEF Inv, ReportInv, ResultsAreTrue
<1> QED BY <1>1, InvHolds, PTL

\* When execute_concurrently() is over no process of the pool runs, and no device
\* is open but in the hands of a worker or because it could not be closed.
THEOREM PoolIsGone == Spec => []NothingLeft
<1>1. Inv => NothingLeft
  BY DEF Inv, AliveInv, OpenInv, NothingLeft, NoProcessLeft
<1> QED BY <1>1, InvHolds, PTL
===============================================================================
