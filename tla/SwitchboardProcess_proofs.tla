---------------------- MODULE SwitchboardProcess_proofs ----------------------
(***************************************************************************)
(* Proofs about SwitchboardProcess, for any number of children and         *)
(* commands.                                                               *)
(***************************************************************************)
EXTENDS SwitchboardProcess, FiniteSetTheorems, TLAPS

USE BoundsAssumption DEF Children, None

ChildSteps(c) == ChildContinues(c) \/ ChildKilled(c)

\* The type invariant holds: in particular _process only ever names a child
\* that start() has forked.
THEOREM TypeCorrect == Spec => []TypeOK
<1> USE DEF TypeOK
<1>1. Init => TypeOK
  <2> SUFFICES ASSUME Init PROVE TypeOK
    OBVIOUS
  <2>1. cpc \in [Children -> ChildPcs]
    BY DEF Init, ChildPcs
  <2>2. forked \in 0..MaxStarts /\ process \in 0..forked /\ sends \in 0..MaxSends
    BY DEF Init
  <2>3. excQueue \in Seq(Children) /\ cmdBuffer \in Nat /\ cmdQueue \in Nat
    BY DEF Init
  <2> QED BY <2>1, <2>2, <2>3 DEF Init, MainPcs
<1>2. TypeOK /\ [Next]_vars => TypeOK'
  <2> SUFFICES ASSUME TypeOK, [Next]_vars PROVE TypeOK'
    OBVIOUS
  <2> USE DEF vars, handle, events, cmds, reports, MainAt, MainPcs
  <2>1. CASE Calls
    <3>1. ASSUME NEW wait \in BOOLEAN, Start(wait) PROVE TypeOK'
      <4>1. forked' \in 0..MaxStarts /\ process' \in 0..forked'
        BY <3>1 DEF Start
      <4>2. cpc' \in [Children -> ChildPcs]
        BY <3>1 DEF Start, ChildPcs
      <4> QED BY <3>1, <4>1, <4>2 DEF Start
    <3>2. ASSUME NEW wait \in BOOLEAN, SendCommand(wait) PROVE TypeOK'
      BY <3>2 DEF SendCommand
    <3>3. ASSUME WaitForStart PROVE TypeOK'
      BY <3>3 DEF WaitForStart
    <3>4. ASSUME Stop PROVE TypeOK'
      BY <3>4 DEF Stop, StopEntry
    <3>5. ASSUME Terminate PROVE TypeOK'
      BY <3>5 DEF Terminate, SendSigterm
    <3> QED BY <2>1, <3>1, <3>2, <3>3, <3>4, <3>5 DEF Calls
  <2>2. CASE MainContinues
    <3>1. ASSUME StartReturns PROVE TypeOK'
      BY <3>1 DEF StartReturns
    <3>2. ASSUME StartTimesOut PROVE TypeOK'
      BY <3>2 DEF StartTimesOut
    <3>3. ASSUME WaitForStartReturns PROVE TypeOK'
      BY <3>3 DEF WaitForStartReturns
    <3>4. ASSUME SetTerminate PROVE TypeOK'
      BY <3>4 DEF SetTerminate
    <3>5. ASSUME StopWaitReturns PROVE TypeOK'
      BY <3>5 DEF StopWaitReturns
    <3>6. ASSUME JoinStopped PROVE TypeOK'
      BY <3>6 DEF JoinStopped
    <3>7. ASSUME JoinTimesOut PROVE TypeOK'
      BY <3>7 DEF JoinTimesOut, SendSigterm
    <3>8. ASSUME TerminateJoinReturns PROVE TypeOK'
      BY <3>8 DEF TerminateJoinReturns
    <3>9. ASSUME CommandConsumed PROVE TypeOK'
      BY <3>9 DEF CommandConsumed
    <3>10. ASSUME ConsumptionTimesOut PROVE TypeOK'
      BY <3>10 DEF ConsumptionTimesOut, StopEntry
    <3> QED BY <2>2, <3>1, <3>2, <3>3, <3>4, <3>5, <3>6, <3>7, <3>8, <3>9, <3>10 DEF MainContinues
  <2>3. CASE FeedCommand \/ ParentDies
    <3>1. CASE FeedCommand BY <3>1 DEF FeedCommand
    <3>2. CASE ParentDies BY <3>2 DEF ParentDies
    <3> QED BY <2>3, <3>1, <3>2
  <2>4. CASE ProcessExceptions
    <3>1. excQueue # <<>> => Tail(excQueue) \in Seq(Children)
      OBVIOUS
    <3> QED BY <2>4, <3>1 DEF ProcessExceptions
  <2>5. ASSUME NEW c \in Children, ChildSteps(c) PROVE TypeOK'
    <3>1. ASSUME ChildBoots(c) PROVE TypeOK'
      BY <3>1 DEF ChildBoots, ChildStep, ChildPcs
    <3>2. ASSUME ChildPreRun(c) PROVE TypeOK'
      BY <3>2 DEF ChildPreRun, ChildStep, ChildPcs
    <3>3. ASSUME ChildLoop(c) PROVE TypeOK'
      BY <3>3 DEF ChildLoop, ChildStep, ChildPcs
    <3>4. ASSUME ChildClears(c) PROVE TypeOK'
      BY <3>4 DEF ChildClears, ChildStep, ChildPcs
    <3>5. ASSUME ChildWorks(c) PROVE TypeOK'
      BY <3>5 DEF ChildWorks, ChildStep, ChildPcs
    <3>6. ASSUME ChildPutsException(c) PROVE TypeOK'
      BY <3>6 DEF ChildPutsException, ChildStep, ChildPcs
    <3>7. ASSUME ChildFeedsException(c) PROVE TypeOK'
      BY <3>7 DEF ChildFeedsException
    <3>8. ASSUME ChildFlushed(c) PROVE TypeOK'
      BY <3>8 DEF ChildFlushed, ChildStep, ChildPcs
    <3>9. ASSUME ChildSignals(c) PROVE TypeOK'
      BY <3>9 DEF ChildSignals, ChildStep, ChildPcs
    <3>10. ASSUME ChildEnds(c) PROVE TypeOK'
      BY <3>10 DEF ChildEnds, ChildStep, ChildPcs
    <3>11. ASSUME ChildExits(c) PROVE TypeOK'
      BY <3>11 DEF ChildExits, ChildStep, ChildPcs
    <3>12. ASSUME ChildKilled(c) PROVE TypeOK'
      BY <3>12 DEF ChildKilled, ChildPcs
    <3> QED BY <2>5, <3>1, <3>2, <3>3, <3>4, <3>5, <3>6, <3>7, <3>8, <3>9, <3>10, <3>11, <3>12 DEF ChildSteps, ChildContinues
  <2>6. CASE UNCHANGED vars
    BY <2>6
  <2> QED BY <2>1, <2>2, <2>3, <2>4, <2>5, <2>6 DEF Next, ChildSteps
<1> QED BY <1>1, <1>2, PTL DEF Spec

-----------------------------------------------------------------------------
(* stop() and terminate() verify that the child is gone or doomed.         *)

\* Where the main process waits inside stop(), terminate() or
\* wait_for_start(), the handle owns a child, and after SIGTERM was sent that
\* child is dead or has the signal on its way.
HandleInv ==
  /\ mpc \in {"setTerminate", "stopWait", "join", "terminateJoin", "waitStart"}
       => process # None
  /\ mpc = "terminateJoin" => ~IsAlive(process) \/ process \in sigterm
  /\ mpc = "startWait" => process = None

\* Children do not come back to life and SIGTERM is not taken back: what
\* HandleInv says of the owned child is stable under every child's steps.
LEMMA ChildStepsKeepDoom ==
  ASSUME TypeOK, NEW c \in Children, ChildSteps(c), NEW d \in Children,
         ~IsAlive(d) \/ d \in sigterm
  PROVE  ~IsAlive(d)' \/ d \in sigterm'
<1> USE DEF TypeOK, IsAlive, ChildStep
<1>1. sigterm' = sigterm /\ (cpc[d] \in {"unborn", "dead"} => cpc'[d] = cpc[d])
  BY DEF ChildSteps, ChildContinues, ChildBoots, ChildPreRun, ChildLoop, ChildClears,
         ChildWorks, ChildPutsException, ChildFeedsException, ChildFlushed,
         ChildSignals, ChildEnds, ChildExits, ChildKilled
<1> QED BY <1>1

\* HandleInv holds in every state: what start, stop and terminate know of the child.
LEMMA HandleInvariant == Spec => []HandleInv
<1>1. Init => HandleInv
  BY DEF Init, HandleInv
<1>2. TypeOK /\ TypeOK' /\ HandleInv /\ [Next]_vars => HandleInv'
  <2> SUFFICES ASSUME TypeOK, TypeOK', HandleInv, [Next]_vars PROVE HandleInv'
    OBVIOUS
  <2> USE DEF HandleInv, MainAt
  <2>1. CASE Calls
    <3>1. ASSUME NEW wait \in BOOLEAN, Start(wait) PROVE HandleInv'
      BY <3>1 DEF Start
    <3>2. ASSUME NEW wait \in BOOLEAN, SendCommand(wait) PROVE HandleInv'
      BY <3>2 DEF SendCommand
    <3>3. ASSUME WaitForStart PROVE HandleInv'
      BY <3>3 DEF WaitForStart
    <3>4. ASSUME Stop PROVE HandleInv'
      BY <3>4 DEF Stop, StopEntry
    <3>5. ASSUME Terminate PROVE HandleInv'
      BY <3>5 DEF Terminate, SendSigterm, TypeOK, IsAlive
    <3> QED BY <2>1, <3>1, <3>2, <3>3, <3>4, <3>5 DEF Calls
  <2>2. CASE MainContinues
    <3>1. CASE JoinTimesOut
      BY <3>1 DEF JoinTimesOut, SendSigterm, TypeOK, IsAlive
    <3>2. CASE ConsumptionTimesOut
      BY <3>2 DEF ConsumptionTimesOut, StopEntry
    <3> QED
      BY <2>2, <3>1, <3>2 DEF MainContinues, StartReturns, StartTimesOut,
         WaitForStartReturns, SetTerminate, StopWaitReturns, JoinStopped,
         TerminateJoinReturns, CommandConsumed
  <2>3. CASE FeedCommand \/ ProcessExceptions \/ ParentDies
    BY <2>3 DEF FeedCommand, ProcessExceptions, ParentDies, handle, IsAlive
  <2>4. ASSUME NEW c \in Children, ChildSteps(c) PROVE HandleInv'
    <3>1. UNCHANGED <<mpc, process>>
      BY <2>4 DEF ChildSteps, ChildContinues, ChildBoots, ChildPreRun, ChildLoop,
         ChildClears, ChildWorks, ChildPutsException, ChildFeedsException,
         ChildFlushed, ChildSignals, ChildEnds, ChildExits, ChildKilled, handle
    <3>2. mpc = "terminateJoin" => process \in Children
      BY DEF TypeOK
    <3>3. CASE mpc = "terminateJoin"
      <4>1. ~IsAlive(process)' \/ process \in sigterm'
        BY <2>4, <3>1, <3>2, <3>3, ChildStepsKeepDoom DEF IsAlive
      <4> QED BY <3>1, <3>3, <4>1
    <3> QED BY <3>1, <3>3
  <2>5. CASE UNCHANGED vars
    BY <2>5 DEF vars, handle, IsAlive
  <2> QED BY <2>1, <2>2, <2>3, <2>4, <2>5 DEF Next, ChildSteps
<1> QED BY <1>1, <1>2, TypeCorrect, PTL DEF Spec

\* stop() and terminate() never let go of a child that is alive and unsignalled.
THEOREM StopVerified == Spec => StopNeverOrphans
<1>1. HandleInv /\ [Next]_vars
      => [process # None /\ process' # process
            => ~IsAlive(process) \/ process \in sigterm]_vars
  <2> SUFFICES ASSUME HandleInv, Next, process # None, process' # process
               PROVE ~IsAlive(process) \/ process \in sigterm
    BY DEF vars, handle
  <2> USE DEF MainAt
  <2>1. CASE Calls
    BY <2>1 DEF Calls, Start, SendCommand, WaitForStart, Stop, Terminate, SendSigterm
  <2>2. CASE MainContinues
    BY <2>2 DEF MainContinues, HandleInv, StartReturns, StartTimesOut,
       WaitForStartReturns, SetTerminate, StopWaitReturns, JoinStopped, JoinTimesOut,
       SendSigterm, TerminateJoinReturns, CommandConsumed, ConsumptionTimesOut
  <2>3. CASE FeedCommand \/ ProcessExceptions \/ ParentDies
    BY <2>3 DEF FeedCommand, ProcessExceptions, ParentDies, handle
  <2>4. ASSUME NEW c \in Children, ChildSteps(c) PROVE FALSE
    BY <2>4 DEF ChildSteps, ChildContinues, ChildBoots, ChildPreRun, ChildLoop,
       ChildClears, ChildWorks, ChildPutsException, ChildFeedsException,
       ChildFlushed, ChildSignals, ChildEnds, ChildExits, ChildKilled, handle
  <2> QED BY <2>1, <2>2, <2>3, <2>4 DEF Next, ChildSteps
<1> QED BY <1>1, HandleInvariant, PTL DEF Spec, StopNeverOrphans

-----------------------------------------------------------------------------
(* SIGUSR1 never overtakes its message.                                    *)

\* Children that have their message in the pipe and have not signalled yet.
Due == {c \in Children : cpc[c] = "signal" \/ (cpc[c] = "flush" /\ c \notin excBuffer)}

\* The queue holds a message for every signal that is pending or still due.
ReportInv == Cardinality(Due) + (IF sigusr1 THEN 1 ELSE 0) <= Len(excQueue)

\* The children that still have to signal are finitely many.
LEMMA DueFinite == IsFiniteSet(Due) /\ Cardinality(Due) \in Nat
<1>1. IsFiniteSet(Children)
  BY FS_Interval
<1>2. Due \subseteq Children
  BY DEF Due
<1> QED BY <1>1, <1>2, FS_Subset, FS_CardinalityType

\* How Cardinality(Due) moves: by at most the one child that takes a step.
LEMMA DueStep ==
  ASSUME NEW c, Due' \subseteq Due \cup {c}
  PROVE  /\ Cardinality(Due') \in Nat
         /\ Cardinality(Due') <= Cardinality(Due) + 1
         /\ c \notin Due' \/ c \in Due => Cardinality(Due') <= Cardinality(Due)
         /\ c \in Due /\ c \notin Due' => Cardinality(Due') + 1 <= Cardinality(Due)
<1>1. IsFiniteSet(Due) /\ Cardinality(Due) \in Nat
  BY DueFinite
<1>2. /\ IsFiniteSet(Due \cup {c})
      /\ Cardinality(Due \cup {c}) <= Cardinality(Due) + 1
      /\ Cardinality(Due \cup {c}) \in Nat
  BY <1>1, FS_AddElement, FS_CardinalityType
<1>3. /\ IsFiniteSet(Due')
      /\ Cardinality(Due') <= Cardinality(Due \cup {c})
      /\ Cardinality(Due') \in Nat
  BY <1>2, FS_Subset, FS_CardinalityType
<1>4. ASSUME c \notin Due' \/ c \in Due PROVE Cardinality(Due') <= Cardinality(Due)
  <2>1. Due' \subseteq Due
    BY <1>4
  <2> QED BY <2>1, <1>1, FS_Subset
<1>5. ASSUME c \in Due, c \notin Due' PROVE Cardinality(Due') + 1 <= Cardinality(Due)
  <2>1. Due' \subseteq Due \ {c}
    BY <1>5
  <2>2. IsFiniteSet(Due \ {c}) /\ Cardinality(Due \ {c}) = Cardinality(Due) - 1
    BY <1>1, <1>5, FS_RemoveElement
  <2>3. Cardinality(Due') <= Cardinality(Due \ {c})
    BY <2>1, <2>2, FS_Subset
  <2> QED BY <1>1, <1>3, <2>2, <2>3
<1> QED BY <1>1, <1>2, <1>3, <1>4, <1>5

\* ReportInv holds in every state: put, wait for the write, then signal.
LEMMA ReportInvariant == Spec => []ReportInv
<1>1. Init => ReportInv
  <2> SUFFICES ASSUME Init PROVE ReportInv
    OBVIOUS
  <2>1. Due = {}
    BY DEF Due, Init
  <2> QED BY <2>1, FS_EmptySet DEF ReportInv, Init
<1>2. TypeOK /\ TypeOK' /\ ReportInv /\ [Next]_vars => ReportInv'
  <2> SUFFICES ASSUME TypeOK, TypeOK', ReportInv, [Next]_vars PROVE ReportInv'
    OBVIOUS
  <2> USE DEF ReportInv
  <2>0. Cardinality(Due) \in Nat /\ Len(excQueue) \in Nat
    BY DueFinite DEF TypeOK
  <2>1. ASSUME Due' = Due, excQueue' = excQueue, sigusr1' = sigusr1 \/ sigusr1' = FALSE
        PROVE ReportInv'
    BY <2>0, <2>1 DEF TypeOK
  <2>2. CASE Calls
    <3>1. ASSUME NEW wait \in BOOLEAN, Start(wait) PROVE ReportInv'
      <4>1. Due' \subseteq Due \cup {forked + 1} /\ forked + 1 \notin Due'
        BY <3>1 DEF Due, Start, TypeOK, reports
      <4>2. excQueue' = excQueue /\ sigusr1' = sigusr1
        BY <3>1 DEF Start, reports
      <4>3. Cardinality(Due') \in Nat /\ Cardinality(Due') <= Cardinality(Due)
        BY <4>1, DueStep
      <4> QED BY <4>2, <4>3, <2>0 DEF TypeOK
    <3> QED
      BY <2>1, <2>2, <3>1 DEF Calls, SendCommand, WaitForStart, Stop, Terminate,
         SendSigterm, reports, Due
  <2>3. CASE MainContinues
    BY <2>1, <2>3 DEF MainContinues, StartReturns, StartTimesOut, WaitForStartReturns,
       SetTerminate, StopWaitReturns, JoinStopped, JoinTimesOut, SendSigterm,
       TerminateJoinReturns, CommandConsumed, ConsumptionTimesOut, reports, Due
  <2>4. CASE FeedCommand \/ ParentDies
    BY <2>1, <2>4 DEF FeedCommand, ParentDies, reports, Due
  <2>5. CASE ProcessExceptions
    <3>1. Due' = Due /\ sigusr1 /\ ~sigusr1'
      BY <2>5 DEF ProcessExceptions, Due
    <3>2. excQueue # <<>> /\ excQueue' = Tail(excQueue)
      BY <2>0, <2>5, <3>1 DEF ProcessExceptions, TypeOK
    <3>3. Len(excQueue') = Len(excQueue) - 1
      BY <3>2 DEF TypeOK
    <3> QED BY <3>1, <3>3, <2>0
  <2>6. ASSUME NEW c \in Children, ChildSteps(c) PROVE ReportInv'
    <3>1. CASE ChildFeedsException(c)
      <4>1. Due' \subseteq Due \cup {c}
        BY <3>1 DEF ChildFeedsException, Due
      <4>2. Len(excQueue') = Len(excQueue) + 1 /\ sigusr1' = sigusr1
        BY <3>1 DEF ChildFeedsException, TypeOK
      <4>3. Cardinality(Due') \in Nat /\ Cardinality(Due') <= Cardinality(Due) + 1
        BY <4>1, DueStep
      <4> QED BY <4>2, <4>3, <2>0, SMTT(40) DEF TypeOK
    <3>2. CASE ChildSignals(c)
      <4>1. Due' \subseteq Due \cup {c} /\ c \in Due /\ c \notin Due'
        BY <3>2 DEF ChildSignals, ChildStep, Due, TypeOK
      <4>2. excQueue' = excQueue
        BY <3>2 DEF ChildSignals
      <4>3. Cardinality(Due') \in Nat /\ Cardinality(Due') + 1 <= Cardinality(Due)
        BY <4>1, DueStep
      <4> QED BY <4>2, <4>3, <2>0, SMTT(40) DEF TypeOK
    <3>3. ASSUME Due' \subseteq Due \cup {c}, c \notin Due' \/ c \in Due,
                 excQueue' = excQueue, sigusr1' = sigusr1
          PROVE  ReportInv'
      <4>1. Cardinality(Due') \in Nat /\ Cardinality(Due') <= Cardinality(Due)
        BY <3>3, DueStep
      <4> QED BY <3>3, <4>1, <2>0 DEF TypeOK
    <3>4. CASE ChildPutsException(c)
      <4>1. Due' \subseteq Due \cup {c} /\ c \notin Due'
        BY <3>4 DEF ChildPutsException, ChildStep, Due, TypeOK
      <4> QED BY <3>3, <3>4, <4>1 DEF ChildPutsException
    <3>5. CASE ChildFlushed(c)
      <4>1. Due' \subseteq Due \cup {c} /\ (c \notin Due' \/ c \in Due)
        BY <3>5 DEF ChildFlushed, ChildStep, Due, TypeOK, reports
      <4> QED BY <3>3, <3>5, <4>1 DEF ChildFlushed, reports
    <3>6. CASE ChildKilled(c)
      <4>1. Due' \subseteq Due \cup {c} /\ c \notin Due'
        BY <3>6 DEF ChildKilled, Due, TypeOK
      <4> QED BY <3>3, <3>6, <4>1 DEF ChildKilled
    <3>7. CASE ChildBoots(c) \/ ChildPreRun(c) \/ ChildLoop(c) \/ ChildClears(c)
               \/ ChildWorks(c) \/ ChildEnds(c) \/ ChildExits(c)
      <4>1. UNCHANGED reports
        BY <3>7 DEF ChildBoots, ChildPreRun, ChildLoop, ChildClears, ChildWorks,
           ChildEnds, ChildExits
      <4>2. \E to \in ChildPcs \ {"flush", "signal"} : cpc' = [cpc EXCEPT ![c] = to]
        BY <3>7 DEF ChildBoots, ChildPreRun, ChildLoop, ChildClears, ChildWorks,
           ChildEnds, ChildExits, ChildStep, ChildPcs
      <4>3. Due' \subseteq Due \cup {c} /\ c \notin Due'
        BY <4>1, <4>2 DEF Due, TypeOK, reports
      <4> QED BY <3>3, <4>1, <4>3 DEF reports
    <3> QED BY <2>6, <3>1, <3>2, <3>4, <3>5, <3>6, <3>7 DEF ChildSteps, ChildContinues
  <2>7. CASE UNCHANGED vars
    BY <2>1, <2>7 DEF vars, reports, Due
  <2> QED BY <2>2, <2>3, <2>4, <2>5, <2>6, <2>7 DEF Next, ChildSteps
<1> QED BY <1>1, <1>2, TypeCorrect, PTL DEF Spec

\* Whenever SIGUSR1 is pending, Manager._process_exceptions finds a message:
\* each signal follows its message into the pipe, signals may merge, and one
\* handler run takes one message.
THEOREM SignalCarriesMessage == Spec => []SignalHasMessage
<1>1. TypeOK /\ ReportInv => SignalHasMessage
  <2> SUFFICES ASSUME TypeOK, ReportInv, sigusr1 PROVE excQueue # <<>>
    BY DEF SignalHasMessage
  <2> QED BY DueFinite DEF TypeOK, ReportInv
<1> QED BY <1>1, TypeCorrect, ReportInvariant, PTL

-----------------------------------------------------------------------------
(* The handle implements ProcessHandle.                                    *)

\* Only children that were forked are signalled, and the one that start()
\* waits for is not: no other call runs, and nobody else knows it.
SigtermInv ==
  /\ sigterm \subseteq 1..forked
  /\ mpc = "startWait" => forked \in Children /\ forked \notin sigterm

\* A step of a child leaves the handle and the signals alone, and does not
\* bring a dead child back.
LEMMA ChildStepsOnlyEnd ==
  ASSUME TypeOK, NEW c \in Children, ChildSteps(c)
  PROVE  /\ UNCHANGED <<mpc, process, forked, sigterm>>
         /\ \A d \in Children : ~IsAlive(d) => ~IsAlive(d)'
<1> USE DEF TypeOK, IsAlive, ChildStep, ChildSteps, ChildContinues, ChildBoots, ChildPreRun,
        ChildLoop, ChildClears, ChildWorks, ChildPutsException, ChildFeedsException,
        ChildFlushed, ChildSignals, ChildEnds, ChildExits, ChildKilled, handle
<1>1. UNCHANGED <<mpc, process, forked, sigterm>>
  OBVIOUS
<1>2. ASSUME NEW d \in Children, ~IsAlive(d) PROVE ~IsAlive(d)'
  BY <1>2
<1> QED BY <1>1, <1>2

\* SigtermInv holds in every state.
LEMMA SigtermInvariant == Spec => []SigtermInv
<1>1. Init => SigtermInv
  BY DEF Init, SigtermInv
<1>2. TypeOK /\ TypeOK' /\ SigtermInv /\ HandleInv /\ [Next]_vars => SigtermInv'
  <2> SUFFICES ASSUME TypeOK, TypeOK', SigtermInv, HandleInv, [Next]_vars PROVE SigtermInv'
    OBVIOUS
  <2> USE DEF SigtermInv, MainAt
  <2>1. CASE Calls
    <3>1. ASSUME NEW wait \in BOOLEAN, Start(wait) PROVE SigtermInv'
      BY <3>1 DEF Start, TypeOK
    <3>2. CASE Terminate
      BY <3>2 DEF Terminate, SendSigterm, TypeOK
    <3> QED BY <2>1, <3>1, <3>2 DEF Calls, SendCommand, WaitForStart, Stop, StopEntry
  <2>2. CASE MainContinues
    <3>1. CASE JoinTimesOut
      BY <3>1 DEF JoinTimesOut, SendSigterm, TypeOK
    <3> QED
      BY <2>2, <3>1 DEF MainContinues, StartReturns, StartTimesOut, WaitForStartReturns,
         SetTerminate, StopWaitReturns, JoinStopped, TerminateJoinReturns, CommandConsumed,
         ConsumptionTimesOut, StopEntry
  <2>3. CASE FeedCommand \/ ProcessExceptions \/ ParentDies
    BY <2>3 DEF FeedCommand, ProcessExceptions, ParentDies, handle
  <2>4. ASSUME NEW c \in Children, ChildSteps(c) PROVE SigtermInv'
    <3>1. UNCHANGED <<mpc, forked, sigterm>>
      BY <2>4, ChildStepsOnlyEnd
    <3> QED BY <3>1
  <2>5. CASE UNCHANGED vars
    BY <2>5 DEF vars, handle
  <2> QED BY <2>1, <2>2, <2>3, <2>4, <2>5 DEF Next, ChildSteps
<1> QED BY <1>1, <1>2, TypeCorrect, HandleInvariant, PTL DEF Spec

\* What the owner of the handle sees does not change when neither the handle
\* nor the signals nor the bound child do.
LEMMA StatusKept ==
  ASSUME UNCHANGED <<process, cpc, sigterm>>
  PROVE  Status' = Status
BY DEF Status, IsAlive

\* The handle is a ProcessHandle: whatever the events, queues, timeouts and
\* signals do, a step of the detailed handle starts, dooms, ends or lets go of
\* its child as ProcessHandle allows, or leaves its state as it is.
THEOREM HandleImplemented == Spec => ImplementsHandle
<1>1. Init => Handle!Init
  BY DEF Init, Handle!Init, Status
<1>2. TypeOK /\ TypeOK' /\ HandleInv /\ SigtermInv /\ [Next]_vars => [Handle!Next]_Status
  <2> SUFFICES ASSUME TypeOK, TypeOK', HandleInv, SigtermInv, [Next]_vars
               PROVE  Handle!Next \/ Status' = Status
    OBVIOUS
  <2> USE DEF Handle!Next, Handle!Started, Handle!ChildExits, Handle!Sigterm, Handle!LetGo
  <2>1. CASE Calls
    <3>1. ASSUME NEW wait \in BOOLEAN, Start(wait) PROVE Handle!Next \/ Status' = Status
      BY <3>1 DEF Start, MainAt, Status, IsAlive, TypeOK, SigtermInv
    <3>2. CASE Terminate
      BY <3>2 DEF Terminate, SendSigterm, MainAt, Status, IsAlive, TypeOK
    <3> QED
      BY <2>1, <3>1, <3>2, StatusKept DEF Calls, SendCommand, WaitForStart, Stop, StopEntry
  <2>2. CASE MainContinues
    <3>1. CASE StartReturns
      BY <3>1 DEF StartReturns, MainAt, Status, IsAlive, TypeOK, HandleInv, SigtermInv
    <3>2. CASE JoinStopped
      BY <3>2 DEF JoinStopped, MainAt, Status, IsAlive, HandleInv
    <3>3. CASE JoinTimesOut
      BY <3>3 DEF JoinTimesOut, SendSigterm, MainAt, Status, IsAlive, TypeOK
    <3>4. CASE TerminateJoinReturns
      BY <3>4 DEF TerminateJoinReturns, MainAt, Status, IsAlive, HandleInv
    <3> QED
      BY <2>2, <3>1, <3>2, <3>3, <3>4, StatusKept DEF MainContinues, StartTimesOut,
         WaitForStartReturns, SetTerminate, StopWaitReturns, CommandConsumed,
         ConsumptionTimesOut
  <2>3. CASE FeedCommand \/ ProcessExceptions \/ ParentDies
    BY <2>3, StatusKept DEF FeedCommand, ProcessExceptions, ParentDies, handle
  <2>4. ASSUME NEW c \in Children, ChildSteps(c) PROVE Handle!Next \/ Status' = Status
    <3>1. UNCHANGED <<process, sigterm>> /\ \A d \in Children : ~IsAlive(d) => ~IsAlive(d)'
      BY <2>4, ChildStepsOnlyEnd
    <3>2. process # None => process \in Children
      BY DEF TypeOK
    <3>3. process # None /\ ~IsAlive(process) => ~IsAlive(process)'
      BY <3>1, <3>2 DEF IsAlive
    <3> QED BY <3>1, <3>3 DEF Status, IsAlive
  <2>5. CASE UNCHANGED vars
    BY <2>5, StatusKept DEF vars, handle
  <2> QED BY <2>1, <2>2, <2>3, <2>4, <2>5 DEF Next, ChildSteps
<1> QED
  BY <1>1, <1>2, TypeCorrect, HandleInvariant, SigtermInvariant, PTL
  DEF Spec, ImplementsHandle, Handle!Spec
=============================================================================
