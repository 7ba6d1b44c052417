------------------------- MODULE Switchboard_proofs --------------------------
(***************************************************************************)
(* Proofs about the switchboard, the transports it is made of, and what is *)
(* asked for over them: Matter endpoints and the OpenThread command line.  *)
(*                                                                         *)
(* Switchboard, for any number of transports, additions and starts:        *)
(* nothing is left running.  Transports, for any kinds, messages, losses,  *)
(* commands and read errors: a closed transport holds nothing, and an open *)
(* one loses, repeats and reorders nothing.  MatterEndpoints, for any      *)
(* nodes and layouts: what an alias, an endpoint or a cluster object says  *)
(* is what the node has now.  Wpan, for any calls, attempts and datagrams: *)
(* the methods and the command line of the board stay in step.             *)
(***************************************************************************)
EXTENDS Switchboard, Transports, MatterEndpoints, Wpan, SequenceTheorems, WellFoundedInduction, TLAPS

Table == Range(transports) \cup Range(logs)
Running == {p \in Procs : IsStarted(p)}

\* The call in progress and the health of the switchboard fit together, and a
\* call that visits processes has one to visit.
CallInv ==
  /\ op \in {"starting", "waiting", "terminating"} => healthy = "unset" /\ todo # <<>>
  /\ op \in {"stopping", "deleting"} => healthy = "yes" /\ Len(todo) = 1
  /\ op \in {"closing", "closingLogs"} => healthy = "no"
  /\ op = "deleting" => transports # <<>> /\ todo[1] = transports[Len(transports)]
  /\ op = "closingLogs" => transports = <<>> /\ todo = logs
  /\ closed => healthy = "no" /\ op = "idle" /\ transports = <<>> /\ logs = <<>>

\* Before the first health check nothing runs; during it only what it starts,
\* all of which is in the table and, while it cleans up, still to be visited.
StartInv ==
  /\ healthy = "unset" /\ op = "idle" => Running = {}
  /\ op \in {"starting", "waiting", "terminating"} =>
       Running \subseteq batch /\ batch \subseteq Table /\ Range(todo) \subseteq Table
  /\ op = "terminating" => Running \subseteq Range(todo)
  /\ healthy = "no" /\ op = "idle" /\ ~interrupted => Running = {}

\* What runs is in the table; while the transports are being stopped, those
\* that run are still to be visited.
TableInv ==
  /\ Running \subseteq Table
  /\ op = "closing" => Running \cap Range(transports) \subseteq Range(todo)

\* An orphan's transport is in the table, was removed from it, or is among the
\* addresses that close() unlocks at its end.
OrphanInv ==
  interrupted \/ orphans \subseteq removed \cup (IF op \in {"closing", "closingLogs"}
                                                 THEN addresses ELSE Range(transports))

-----------------------------------------------------------------------------
(* Sequences of processes.                                                 *)

\* A step of a loop over a list: its head and what is left.
LEMMA HeadAndTail ==
  ASSUME NEW S, NEW s \in Seq(S), s # <<>>
  PROVE  /\ Head(s) \in S /\ Tail(s) \in Seq(S) /\ Len(Tail(s)) = Len(s) - 1
         /\ Head(s) = s[1]
         /\ Range(s) = {Head(s)} \cup Range(Tail(s))
<1>1. /\ Head(s) \in S /\ Tail(s) \in Seq(S) /\ Len(Tail(s)) = Len(s) - 1
      /\ Len(s) \in Nat /\ Len(s) > 0 /\ Head(s) = s[1]
      /\ \A i \in 1..Len(Tail(s)) : Tail(s)[i] = s[i + 1]
  BY HeadTailProperties
<1>2. DOMAIN s = 1..Len(s) /\ DOMAIN Tail(s) = 1..(Len(s) - 1)
  BY <1>1
<1>3. ASSUME NEW x \in Range(s) PROVE x \in {Head(s)} \cup Range(Tail(s))
  <2>1. PICK i \in 1..Len(s) : x = s[i]
    BY <1>2 DEF Range
  <2>2. CASE i = 1
    BY <2>1, <2>2, <1>1
  <2>3. CASE i # 1
    <3>1. i - 1 \in 1..(Len(s) - 1) /\ Tail(s)[i - 1] = s[i]
      BY <2>3, <1>1
    <3> QED BY <2>1, <3>1, <1>2 DEF Range
  <2> QED BY <2>2, <2>3
<1>4. ASSUME NEW x \in {Head(s)} \cup Range(Tail(s)) PROVE x \in Range(s)
  <2>1. CASE x = Head(s)
    <3>1. 1 \in DOMAIN s
      BY <1>1, <1>2
    <3> QED BY <2>1, <3>1, <1>1 DEF Range
  <2>2. CASE x \in Range(Tail(s))
    <3>1. PICK i \in 1..(Len(s) - 1) : x = Tail(s)[i]
      BY <2>2, <1>2 DEF Range
    <3>2. x = s[i + 1] /\ i + 1 \in 1..Len(s)
      BY <3>1, <1>1
    <3> QED BY <3>2, <1>2 DEF Range
  <2> QED BY <1>4, <2>1, <2>2
<1> QED BY <1>1, <1>3, <1>4

\* The elements of two lists in a row.
LEMMA RangeOfConcat ==
  ASSUME NEW S, NEW s \in Seq(S), NEW t \in Seq(S)
  PROVE  s \o t \in Seq(S) /\ Range(s \o t) = Range(s) \cup Range(t)
<1>1. /\ s \o t \in Seq(S) /\ Len(s \o t) = Len(s) + Len(t)
      /\ Len(s) \in Nat /\ Len(t) \in Nat
      /\ \A i \in 1..(Len(s) + Len(t)) :
           (s \o t)[i] = IF i <= Len(s) THEN s[i] ELSE t[i - Len(s)]
  BY ConcatProperties
<1>2. /\ DOMAIN s = 1..Len(s) /\ DOMAIN t = 1..Len(t)
      /\ DOMAIN (s \o t) = 1..(Len(s) + Len(t))
  BY <1>1
<1>3. ASSUME NEW x \in Range(s \o t) PROVE x \in Range(s) \cup Range(t)
  <2>1. PICK i \in 1..(Len(s) + Len(t)) : x = (s \o t)[i]
    BY <1>2 DEF Range
  <2>2. CASE i <= Len(s)
    BY <2>1, <2>2, <1>1, <1>2 DEF Range
  <2>3. CASE ~(i <= Len(s))
    <3>1. i - Len(s) \in 1..Len(t) /\ x = t[i - Len(s)]
      BY <2>1, <2>3, <1>1
    <3> QED BY <3>1, <1>2 DEF Range
  <2> QED BY <2>2, <2>3
<1>4. ASSUME NEW x \in Range(s) PROVE x \in Range(s \o t)
  <2>1. PICK i \in 1..Len(s) : x = s[i]
    BY <1>2 DEF Range
  <2>2. i \in 1..(Len(s) + Len(t)) /\ (s \o t)[i] = x
    BY <2>1, <1>1
  <2> QED BY <2>2, <1>2 DEF Range
<1>5. ASSUME NEW x \in Range(t) PROVE x \in Range(s \o t)
  <2>1. PICK i \in 1..Len(t) : x = t[i]
    BY <1>2 DEF Range
  <2>2. i + Len(s) \in 1..(Len(s) + Len(t)) /\ (s \o t)[i + Len(s)] = x
    BY <2>1, <1>1
  <2> QED BY <2>2, <1>2 DEF Range
<1> QED BY <1>1, <1>3, <1>4, <1>5

\* The elements of a list with one more at its end.
LEMMA RangeOfAppend ==
  ASSUME NEW S, NEW s \in Seq(S), NEW e \in S
  PROVE  Append(s, e) \in Seq(S) /\ Range(Append(s, e)) = Range(s) \cup {e}
<1>1. <<e>> \in Seq(S) /\ Append(s, e) = s \o <<e>> /\ Append(s, e) \in Seq(S)
  BY AppendIsConcat
<1>2. Range(<<e>>) = {e}
  BY DEF Range
<1>3. Range(s \o <<e>>) = Range(s) \cup Range(<<e>>)
  BY <1>1, RangeOfConcat, ZenonT(40)
<1>4. Range(Append(s, e)) = Range(s \o <<e>>)
  BY <1>1, Zenon
<1>5. Range(Append(s, e)) = Range(s) \cup {e}
  BY <1>2, <1>3, <1>4, Zenon
<1> QED BY <1>1, <1>5

\* What is left when the last element goes.
LEMMA FrontAndLast ==
  ASSUME NEW S, NEW s \in Seq(S), s # <<>>
  PROVE  /\ Front(s) \in Seq(S) /\ Last(s) \in S
         /\ Range(s) = Range(Front(s)) \cup {Last(s)}
<1>1. Len(s) \in Nat /\ Len(s) > 0
  OBVIOUS
<1>a. DOMAIN s = 1..Len(s) /\ s[Len(s)] \in S
  OBVIOUS
<1>2. /\ Front(s) \in Seq(S) /\ Len(Front(s)) = Len(s) - 1
      /\ \A i \in 1..(Len(s) - 1) : Front(s)[i] = s[i]
  <2>1. \A i \in 1..(Len(s) - 1) : i \in 1..Len(s) /\ s[i] \in S
    BY <1>1
  <2>2. Front(s) = [i \in 1..(Len(s) - 1) |-> s[i]]
    BY <1>1 DEF Front
  <2> QED BY <1>1, <2>1, <2>2
<1>3. DOMAIN Front(s) = 1..(Len(s) - 1)
  BY <1>2
<1>4. ASSUME NEW x \in Range(s) PROVE x \in Range(Front(s)) \cup {Last(s)}
  <2>1. PICK i \in 1..Len(s) : x = s[i]
    BY <1>a DEF Range
  <2>2. CASE i = Len(s)
    BY <2>1, <2>2 DEF Last
  <2>3. CASE i # Len(s)
    <3> DEFINE n == Len(s)
    <3>0. n \in Nat /\ i \in 1..n /\ i # n
      BY <1>1, <2>3
    <3> HIDE DEF n
    <3>1. i \in 1..(n - 1)
      BY <3>0
    <3>2. x = Front(s)[i] /\ i \in DOMAIN Front(s)
      BY <3>1, <2>1, <1>2, <1>3 DEF n
    <3> QED BY <3>2 DEF Range
  <2> QED BY <2>2, <2>3
<1>5. ASSUME NEW x \in Range(Front(s)) \cup {Last(s)} PROVE x \in Range(s)
  <2>1. CASE x = Last(s)
    BY <2>1, <1>1, <1>a DEF Range, Last
  <2>2. CASE x \in Range(Front(s))
    <3>1. PICK i \in 1..(Len(s) - 1) : x = Front(s)[i]
      BY <2>2, <1>3 DEF Range
    <3>2. i \in 1..Len(s) /\ x = s[i]
      BY <3>1, <1>1, <1>2
    <3> QED BY <3>2, <1>a DEF Range
  <2> QED BY <1>5, <2>1, <2>2
<1>6. Range(s) = Range(Front(s)) \cup {Last(s)}
  BY <1>4, <1>5, Zenon
<1> QED BY <1>a, <1>2, <1>6 DEF Last

-----------------------------------------------------------------------------
(* Types.                                                                  *)

States == {"none", "up", "doomed", "down"}

\* A list of transports or of log processes is a list of processes.
LEMMA ListsOfProcesses ==
  ASSUME TypeOK
  PROVE  /\ transports \in Seq(Procs) /\ logs \in Seq(Procs)
         /\ AllProcesses \in Seq(Procs) /\ Range(AllProcesses) = Table
         /\ Range(transports) \subseteq Ports /\ Range(logs) \subseteq {Writer, Filter}
<1>1. Ports \subseteq Procs /\ {Writer, Filter} \subseteq Procs
  BY DEF Procs
<1>2. transports \in Seq(Ports) /\ logs \in Seq({Writer, Filter})
  BY DEF TypeOK
<1>3. transports \in Seq(Procs) /\ logs \in Seq(Procs)
  BY <1>1, <1>2
<1>4. Range(transports) \subseteq Ports /\ Range(logs) \subseteq {Writer, Filter}
  BY <1>2 DEF Range
<1> QED BY <1>3, <1>4, RangeOfConcat DEF AllProcesses, Table

\* Moving on in a list of processes leaves a list of processes.
LEMMA VisitedTypes ==
  ASSUME TypeOK, todo # <<>>, NEW then \in Ops, NEW rest \in Seq(Procs), Visited(then, rest)
  PROVE  op' \in Ops /\ todo' \in Seq(Procs)
BY HeadAndTail DEF TypeOK, Visited

\* A handle that moves is still in one of its states, and the others are where
\* they were.
LEMMA MovesOne ==
  ASSUME TypeOK, NEW p \in Procs, NEW from \in SUBSET States, NEW to \in States,
         Moves(p, from, to)
  PROVE  /\ status' \in [Procs -> States]
         /\ status[p] \in from /\ status'[p] = to
         /\ \A q \in Procs \ {p} : status'[q] = status[q]
BY DEF TypeOK, Moves, States

\* Every step keeps the types.
LEMMA TypeStep ==
  ASSUME TypeOK, CallInv, [Next]_vars
  PROVE  TypeOK'
<1> USE DEF States
<1>0. /\ todo # <<>> => Head(todo) \in Procs /\ Tail(todo) \in Seq(Procs)
      /\ AllProcesses \in Seq(Procs) /\ transports \in Seq(Procs) /\ logs \in Seq(Procs)
      /\ Range(transports) \subseteq Ports /\ <<>> \in Seq(Procs)
      /\ status \in [Procs -> States] /\ Ports \subseteq Procs
  BY HeadAndTail, ListsOfProcesses DEF TypeOK, Procs
<1>1. CASE HealthCheck
  <2>1. [i \in 1..NumPorts |-> i] \in Seq(Ports)
    BY SizesAssumption DEF Ports
  <2>2. transports' \in Seq(Ports) /\ logs' \in Seq({Writer, Filter})
    <3>1. transports' \in Seq(Ports)
      BY <1>1, <2>1, RangeOfConcat DEF HealthCheck, TypeOK
    <3>2. <<Writer, Filter>> \in Seq({Writer, Filter}) /\ <<Writer>> \in Seq({Writer, Filter})
      OBVIOUS
    <3> QED BY <1>1, <3>1, <3>2 DEF HealthCheck
  <2>3. transports' \in Seq(Procs) /\ logs' \in Seq(Procs)
    BY <2>2 DEF Procs
  <2>4. todo' \in Seq(Procs) /\ batch' \subseteq Procs
    <3>1. todo' \in Seq(Procs)
      BY <1>1, <2>3, RangeOfConcat DEF HealthCheck
    <3>2. Range(todo') \subseteq Procs
      BY <3>1 DEF Range
    <3> QED BY <1>1, <3>1, <3>2 DEF HealthCheck
  <2> QED BY <1>1, <2>2, <2>4 DEF HealthCheck, TypeOK, Ops, past
<1>2. CASE StartOne
  <2>1. op' \in Ops /\ todo' \in Seq(Procs)
    BY <1>0, <1>2, VisitedTypes DEF StartOne, CallInv, Ops
  <2>2. status' \in [Procs -> States]
    <3>1. Head(todo) \in Procs
      BY <1>0, <1>2 DEF StartOne, CallInv
    <3>2. CASE Head(todo) \in batch
      BY <1>2, <3>1, <3>2, MovesOne DEF StartOne
    <3>3. CASE Head(todo) \notin batch
      BY <1>0, <1>2, <3>3 DEF StartOne
    <3> QED BY <3>2, <3>3
  <2> QED BY <1>2, <2>1, <2>2 DEF StartOne, TypeOK, past, table
<1>3. CASE StartRaises
  BY <1>3 DEF StartRaises, TypeOK, Ops, table
<1>4. CASE WaitReturns
  <2>1. op' \in Ops /\ todo' \in Seq(Procs)
    BY <1>0, <1>4, VisitedTypes DEF WaitReturns, CallInv, Ops
  <2> QED BY <1>4, <2>1 DEF WaitReturns, TypeOK, past, table
<1>5. CASE WaitTimesOut
  BY <1>0, <1>5 DEF WaitTimesOut, TypeOK, Ops, past, table
<1>6. CASE TerminateOne
  <2>1. Head(todo) \in Procs
    BY <1>0, <1>6 DEF TerminateOne, CallInv
  <2>2. op' \in Ops /\ todo' \in Seq(Procs) /\ healthy' \in {"unset", "yes", "no"}
    BY <1>0, <1>6, VisitedTypes DEF TerminateOne, CallInv, Ops, TypeOK
  <2>3. status' \in [Procs -> States]
    <3>1. \/ UNCHANGED status
          \/ Moves(Head(todo), {"up"}, "doomed")
          \/ Moves(Head(todo), {"doomed", "down"}, "none")
      BY <1>6 DEF TerminateOne
    <3> QED BY <1>0, <2>1, <3>1, MovesOne
  <2> QED BY <1>6, <2>2, <2>3 DEF TerminateOne, TypeOK, past, table
<1>7. CASE AddTransportProcess
  <2>1. added \in Nat /\ added < MaxAdded /\ NumPorts + added + 1 \in Ports
    BY <1>7, SizesAssumption DEF AddTransportProcess, TypeOK, Ports
  <2>2. transports' \in Seq(Ports) /\ added' \in 0..MaxAdded
    BY <1>7, <2>1, SizesAssumption, RangeOfAppend DEF AddTransportProcess, TypeOK
  <2> QED BY <1>7, <2>2 DEF AddTransportProcess, TypeOK, call, past
<1>8. ASSUME NEW i \in Ports, StartTransportProcess(i) PROVE TypeOK'
  <2>1. transports[i] \in Procs
    BY <1>0, <1>8 DEF StartTransportProcess
  <2>2. status' \in [Procs -> States]
    BY <1>8, <2>1, MovesOne DEF StartTransportProcess
  <2>3. starts' \in 0..MaxStarts
    BY <1>8, SizesAssumption DEF StartTransportProcess, TypeOK
  <2> QED BY <1>8, <2>2, <2>3 DEF StartTransportProcess, TypeOK, call, past, table
<1>9. ASSUME NEW i \in Ports, StartTransportTimesOut(i) PROVE TypeOK'
  <2>1. transports[i] \in Ports
    BY <1>9 DEF StartTransportTimesOut, TypeOK
  <2>2. starts' \in 0..MaxStarts
    BY <1>9, SizesAssumption DEF StartTransportTimesOut, TypeOK
  <2> QED BY <1>9, <2>1, <2>2 DEF StartTransportTimesOut, TypeOK, call, past, table
<1>10. ASSUME NEW i \in Ports, NEW delete \in BOOLEAN, StopTransportProcess(i, delete)
       PROVE  TypeOK'
  <2>1. transports \in Seq(Ports) /\ transports[i] \in Procs /\ transports # <<>>
    BY <1>0, <1>10 DEF StopTransportProcess, TypeOK
  <2>2. Front(transports) \in Seq(Ports) /\ Last(transports) \in Ports
    BY <2>1, FrontAndLast
  <2>3. op' \in Ops /\ todo' \in Seq(Procs)
    <3>1. <<transports[i]>> \in Seq(Procs)
      BY <2>1
    <3> QED BY <1>10, <3>1 DEF StopTransportProcess, TypeOK, Ops
  <2>4. transports' \in Seq(Ports) /\ removed' \subseteq Ports
    BY <1>10, <2>1, <2>2 DEF StopTransportProcess, RemoveLast, TypeOK
  <2> QED BY <1>10, <2>3, <2>4 DEF StopTransportProcess, TypeOK
<1>11. CASE Close
  BY <1>0, <1>11 DEF Close, TypeOK, Ops, past, table
<1>12. CASE StopOne
  <2>1. Head(todo) \in Procs /\ Tail(todo) \in Seq(Procs)
    BY <1>0, <1>12 DEF StopOne
  <2>2. status' \in [Procs -> States]
    <3>1. \/ Moves(Head(todo), {"up"}, "doomed")
          \/ Moves(Head(todo), {"doomed", "down"}, "none")
      BY <1>12 DEF StopOne
    <3> QED BY <2>1, <3>1, MovesOne
  <2>3. op' \in Ops /\ todo' \in Seq(Procs)
    BY <1>12, <2>1 DEF StopOne, TypeOK, Ops
  <2>4. transports' \in Seq(Ports) /\ removed' \subseteq Ports
    <3>1. UNCHANGED <<transports, removed>> \/ (RemoveLast(TRUE) /\ op = "deleting")
      BY <1>12 DEF StopOne, RemoveLast, table
    <3>2. CASE UNCHANGED <<transports, removed>>
      BY <3>2 DEF TypeOK
    <3>3. CASE RemoveLast(TRUE) /\ op = "deleting"
      <4>1. transports \in Seq(Ports) /\ transports # <<>> /\ removed \subseteq Ports
        BY <3>3 DEF TypeOK, CallInv
      <4>2. Front(transports) \in Seq(Ports) /\ Last(transports) \in Ports
        BY <4>1, FrontAndLast
      <4> QED BY <3>3, <4>1, <4>2 DEF RemoveLast
    <3> QED BY <3>1, <3>2, <3>3
  <2>5. logs' \in Seq({Writer, Filter})
    <3>1. logs' = logs \/ (op = "closingLogs" /\ logs' = Tail(logs))
      BY <1>12 DEF StopOne, table
    <3>2. logs \in Seq({Writer, Filter}) /\ (op = "closingLogs" => logs # <<>>)
      BY <1>12 DEF TypeOK, CallInv, StopOne
    <3> QED BY <3>1, <3>2, HeadAndTail
  <2> QED BY <1>12, <2>2, <2>3, <2>4, <2>5 DEF StopOne, TypeOK
<1>13. CASE SkipOne
  <2>1. Tail(todo) \in Seq(Procs)
    BY <1>0, <1>13 DEF SkipOne
  <2>2. logs' \in Seq({Writer, Filter})
    <3>1. logs \in Seq({Writer, Filter}) /\ (op = "closingLogs" => logs # <<>>)
      BY <1>13 DEF TypeOK, CallInv, SkipOne
    <3> QED BY <1>13, <3>1, HeadAndTail DEF SkipOne
  <2> QED BY <1>13, <2>1, <2>2 DEF SkipOne, TypeOK, past
<1>14. CASE CloseTransports
  BY <1>0, <1>14 DEF CloseTransports, TypeOK, Ops, past
<1>15. CASE CloseReturns
  BY <1>15 DEF CloseReturns, EnsureSerialPathsUnlocked, TypeOK, Ops, table
<1>16. ASSUME NEW p \in Procs, ChildExits(p) PROVE TypeOK'
  <2>1. status' \in [Procs -> States]
    BY <1>16, MovesOne DEF ChildExits
  <2> QED BY <1>16, <2>1 DEF ChildExits, TypeOK, call, past, table
<1>17. CASE ProcessExceptions
  BY <1>0, <1>17 DEF ProcessExceptions, TypeOK, Ops, table
<1>18. CASE UNCHANGED vars
  BY <1>18 DEF vars, TypeOK, call, past, table
<1> QED BY <1>1, <1>2, <1>3, <1>4, <1>5, <1>6, <1>7, <1>8, <1>9, <1>10, <1>11, <1>12, <1>13,
           <1>14, <1>15, <1>16, <1>17, <1>18 DEF Next, Calls, CallContinues

-----------------------------------------------------------------------------
(* The call in progress.                                                   *)

\* A loop goes on with what is left of its list, or ends after its last element.
LEMMA VisitedSteps ==
  ASSUME TypeOK, todo # <<>>, NEW then, NEW rest, Visited(then, rest)
  PROVE  \/ op' = op /\ todo' = Tail(todo) /\ todo' # <<>> /\ Len(todo) # 1
         \/ op' = then /\ todo' = rest /\ Len(todo) = 1 /\ Range(todo) = {Head(todo)}
<1>1. todo \in Seq(Procs)
  BY DEF TypeOK
<1>2. /\ Len(Tail(todo)) = Len(todo) - 1 /\ Tail(todo) \in Seq(Procs)
      /\ Range(todo) = {Head(todo)} \cup Range(Tail(todo)) /\ Len(todo) \in Nat /\ Len(todo) > 0
  BY <1>1, HeadAndTail
<1> DEFINE t == Tail(todo)
<1> HIDE DEF t
<1>3. CASE Len(todo) > 1
  <2>1. Tail(todo) # <<>>
    <3>1. Len(t) # 0
      BY <1>2, <1>3 DEF t
    <3>2. t # <<>>
      BY <3>1
    <3> QED BY <3>2 DEF t
  <2> QED BY <1>2, <1>3, <2>1 DEF Visited
<1>4. CASE ~(Len(todo) > 1)
  <2>1. Len(todo) = 1
    BY <1>2, <1>4
  <2>2. Tail(todo) = <<>>
    <3>1. Len(t) = 0 /\ t \in Seq(Procs)
      BY <1>2, <2>1 DEF t
    <3>2. t = <<>>
      BY <3>1
    <3> QED BY <3>2 DEF t
  <2>3. Range(Tail(todo)) = {}
    BY <2>2 DEF Range
  <2>4. op' = then /\ todo' = rest
    BY <1>4 DEF Visited
  <2> QED BY <1>2, <2>1, <2>3, <2>4
<1> QED BY <1>3, <1>4

\* While the health check runs, the list of all processes is not empty.
LEMMA SomeProcess ==
  ASSUME TypeOK, CallInv, StartInv, op \in {"starting", "waiting", "terminating"}
  PROVE  AllProcesses # <<>>
<1>1. todo \in Seq(Procs) /\ todo # <<>> /\ Range(todo) \subseteq Table
  BY DEF TypeOK, CallInv, StartInv
<1>2. Head(todo) \in Range(AllProcesses)
  BY <1>1, HeadAndTail, ListsOfProcesses
<1> QED BY <1>2 DEF Range

\* Every step keeps the call in progress and the health together.
LEMMA CallStep ==
  ASSUME TypeOK, CallInv, StartInv, [Next]_vars
  PROVE  CallInv'
<1>1. CASE HealthCheck
  <2>1. todo' # <<>>
    <3>1. TypeOK'
      BY TypeStep, <1>1 DEF Next, Calls
    <3>2. transports' \in Seq(Procs) /\ logs' \in Seq(Procs) /\ logs' # <<>>
      BY <1>1, <3>1 DEF TypeOK, HealthCheck, Procs
    <3>3. Len(transports' \o logs') = Len(transports') + Len(logs')
      BY <3>2
    <3>4. Len(transports') \in Nat /\ Len(logs') \in Nat /\ Len(logs') > 0
      BY <3>2
    <3>5. transports' \o logs' # <<>>
      BY <3>3, <3>4
    <3> QED BY <1>1, <3>5 DEF HealthCheck
  <2> QED BY <1>1, <2>1 DEF HealthCheck, CallInv, past
<1>2. CASE StartOne
  <2>1. op' \in {"starting", "waiting"} /\ todo' # <<>>
    BY <1>2, VisitedSteps, SomeProcess DEF StartOne, CallInv
  <2> QED BY <1>2, <2>1 DEF StartOne, CallInv, past
<1>3. CASE StartRaises
  BY <1>3 DEF StartRaises, CallInv
<1>4. CASE WaitReturns
  <2>1. \/ op' = "waiting" /\ todo' # <<>> /\ UNCHANGED healthy
        \/ op' = "idle" /\ healthy' = "yes"
    BY <1>4, VisitedSteps DEF WaitReturns, CallInv
  <2> QED BY <1>4, <2>1 DEF WaitReturns, CallInv, past
<1>5. CASE WaitTimesOut
  BY <1>5, SomeProcess DEF WaitTimesOut, CallInv, past
<1>6. CASE TerminateOne
  <2>1. \/ op' = "terminating" /\ todo' # <<>> /\ UNCHANGED healthy
        \/ op' = "idle" /\ healthy' = "no"
    BY <1>6, VisitedSteps DEF TerminateOne, CallInv
  <2> QED BY <1>6, <2>1 DEF TerminateOne, CallInv, past
<1>7. CASE AddTransportProcess
  BY <1>7 DEF AddTransportProcess, CallInv, call, past
<1>8. ASSUME NEW i \in Ports, StartTransportProcess(i) PROVE CallInv'
  BY <1>8 DEF StartTransportProcess, CallInv, call, past, table
<1>9. ASSUME NEW i \in Ports, StartTransportTimesOut(i) PROVE CallInv'
  BY <1>9 DEF StartTransportTimesOut, CallInv, call, past, table
<1>10. ASSUME NEW i \in Ports, NEW delete \in BOOLEAN, StopTransportProcess(i, delete)
       PROVE  CallInv'
  <2>1. CASE IsStarted(transports[i])
    <3>1. transports # <<>>
      BY <1>10 DEF StopTransportProcess, TypeOK
    <3> QED BY <1>10, <2>1, <3>1 DEF StopTransportProcess, CallInv
  <2>2. CASE ~IsStarted(transports[i])
    BY <1>10, <2>2 DEF StopTransportProcess, CallInv
  <2> QED BY <2>1, <2>2
<1>11. CASE Close
  BY <1>11 DEF Close, CallInv, past, table
<1>12. CASE StopOne
  <2>1. CASE UNCHANGED <<todo, table, op, removed>>
    BY <1>12, <2>1 DEF StopOne, CallInv, table
  <2>2. CASE /\ todo' = Tail(todo)
             /\ op' = IF op \in {"stopping", "deleting"} THEN "idle" ELSE op
             /\ RemoveLast(op = "deleting")
             /\ logs' = IF op = "closingLogs" THEN Tail(logs) ELSE logs
    BY <1>12, <2>2 DEF StopOne, CallInv, RemoveLast
  <2> QED BY <1>12, <2>1, <2>2 DEF StopOne
<1>13. CASE SkipOne
  BY <1>13 DEF SkipOne, CallInv, past
<1>14. CASE CloseTransports
  BY <1>14 DEF CloseTransports, CallInv, past
<1>15. CASE CloseReturns
  BY <1>15 DEF CloseReturns, CallInv, table
<1>16. ASSUME NEW p \in Procs, ChildExits(p) PROVE CallInv'
  BY <1>16 DEF ChildExits, CallInv, call, past, table
<1>17. CASE ProcessExceptions
  BY <1>17 DEF ProcessExceptions, CallInv, table
<1>18. CASE UNCHANGED vars
  BY <1>18 DEF vars, CallInv, call, past, table
<1> QED BY <1>1, <1>2, <1>3, <1>4, <1>5, <1>6, <1>7, <1>8, <1>9, <1>10, <1>11, <1>12, <1>13,
           <1>14, <1>15, <1>16, <1>17, <1>18 DEF Next, Calls, CallContinues

-----------------------------------------------------------------------------
(* What runs is in the table.                                              *)

\* Letting go of a process takes it from those that run; any other move leaves
\* it, or puts it, among them.
LEMMA RunningMoves ==
  ASSUME TypeOK, NEW p \in Procs, NEW from \in SUBSET States, NEW to \in States,
         Moves(p, from, to)
  PROVE  /\ to = "none" => Running' = Running \ {p}
         /\ to # "none" => Running' = Running \cup {p}
         /\ "none" \notin from => p \in Running
BY MovesOne DEF Running, IsStarted, States

\* Every step keeps what runs in the table, and what a failed start leaves
\* running among the processes that it will visit.
LEMMA TableStep ==
  ASSUME TypeOK, CallInv, StartInv, TableInv, [Next]_vars
  PROVE  StartInv' /\ TableInv'
<1>0. /\ transports \in Seq(Procs) /\ logs \in Seq(Procs) /\ todo \in Seq(Procs)
      /\ Range(AllProcesses) = Table
      /\ todo # <<>> => /\ Head(todo) \in Procs /\ Head(todo) = todo[1]
                        /\ Range(todo) = {Head(todo)} \cup Range(Tail(todo))
      /\ Range(<<>>) = {}
      /\ Running \subseteq Procs
  <2>1. Range(<<>>) = {}
    BY DEF Range
  <2>2. todo \in Seq(Procs)
    BY DEF TypeOK
  <2> QED BY <2>1, <2>2, ListsOfProcesses, HeadAndTail DEF Running
<1>a. ASSUME UNCHANGED status PROVE Running' = Running
  BY <1>a DEF Running, IsStarted
<1>b. ASSUME UNCHANGED table PROVE Table' = Table
  BY <1>b DEF Table, table
<1>1. CASE HealthCheck
  <2>1. Running' = {}
    BY <1>1, <1>a DEF HealthCheck, StartInv
  <2>2. TypeOK'
    BY TypeStep, <1>1 DEF Next, Calls
  <2>3. transports' \in Seq(Procs) /\ logs' \in Seq(Procs)
    BY <2>2 DEF TypeOK, Procs
  <2>4. Range(todo') = Table'
    <3>1. Range(transports' \o logs') = Range(transports') \cup Range(logs')
      BY <2>3, RangeOfConcat
    <3>2. todo' = transports' \o logs'
      BY <1>1 DEF HealthCheck
    <3>3. Table' = Range(transports') \cup Range(logs')
      BY DEF Table
    <3>4. Range(todo') = Range(transports' \o logs')
      BY <3>2, Zenon
    <3> QED BY <3>1, <3>3, <3>4
  <2> QED BY <1>1, <2>1, <2>4 DEF HealthCheck, StartInv, TableInv
<1>2. CASE StartOne
  <2>1. Head(todo) \in Procs /\ Running \subseteq batch /\ batch \subseteq Table
        /\ Range(todo) \subseteq Table
    BY <1>0, <1>2 DEF StartOne, CallInv, StartInv
  <2>2. Running' \subseteq batch'
    BY <1>2, <1>a, <2>1, RunningMoves DEF StartOne, States
  <2>3. Table' = Table /\ batch' = batch
    BY <1>2, <1>b DEF StartOne
  <2>4. op' \in {"starting", "waiting"} /\ Range(todo') \subseteq Table
    BY <1>0, <1>2, <2>1, VisitedSteps DEF StartOne, CallInv
  <2> QED BY <2>1, <2>2, <2>3, <2>4 DEF StartInv, TableInv
<1>3. CASE StartRaises
  BY <1>3, <1>a, <1>b DEF StartRaises, StartInv, TableInv
<1>4. CASE WaitReturns
  <2>1. Running' = Running /\ Table' = Table /\ batch' = batch
    BY <1>4, <1>a, <1>b DEF WaitReturns
  <2>2. \/ op' = "waiting" /\ Range(todo') \subseteq Range(todo)
        \/ op' = "idle" /\ healthy' = "yes"
    BY <1>0, <1>4, VisitedSteps DEF WaitReturns, CallInv
  <2> QED BY <1>4, <2>1, <2>2 DEF WaitReturns, StartInv, TableInv
<1>5. CASE WaitTimesOut
  BY <1>0, <1>5, <1>a, <1>b DEF WaitTimesOut, StartInv, TableInv
<1>6. CASE TerminateOne
  <2>0. /\ Head(todo) \in Procs /\ Running \subseteq batch /\ batch \subseteq Table
        /\ Range(todo) \subseteq Table /\ Running \subseteq Range(todo) /\ todo # <<>>
    BY <1>0, <1>6 DEF TerminateOne, CallInv, StartInv
  <2>1. Table' = Table /\ batch' = batch
    BY <1>6, <1>b DEF TerminateOne
  <2>2. CASE Moves(Head(todo), {"up"}, "doomed") /\ UNCHANGED <<op, todo, healthy>>
    <3>1. Running' = Running \cup {Head(todo)} /\ Head(todo) \in Running
      BY <2>0, <2>2, RunningMoves DEF States
    <3> QED BY <1>6, <2>1, <2>2, <3>1 DEF TerminateOne, StartInv, TableInv
  <2>3. CASE /\ IF Head(todo) \in batch THEN Moves(Head(todo), {"doomed", "down"}, "none")
                                        ELSE UNCHANGED status
             /\ Visited("idle", <<>>)
             /\ healthy' = IF Len(todo) = 1 THEN "no" ELSE healthy
    <3>1. Running' = Running \ {Head(todo)}
      BY <1>a, <2>0, <2>3, RunningMoves DEF States
    <3>2. CASE op' = op /\ todo' = Tail(todo) /\ todo' # <<>> /\ Len(todo) # 1
      <4>1. Running' \subseteq Range(todo') /\ Range(todo') \subseteq Range(todo)
        BY <1>0, <2>0, <3>1, <3>2
      <4> QED BY <1>6, <2>0, <2>1, <3>1, <3>2, <4>1 DEF TerminateOne, StartInv, TableInv
    <3>3. CASE op' = "idle" /\ Len(todo) = 1 /\ Range(todo) = {Head(todo)}
      <4>1. Running' = {}
        BY <2>0, <3>1, <3>3
      <4> QED BY <3>3, <4>1 DEF StartInv, TableInv
    <3> QED BY <2>0, <2>3, <3>2, <3>3, VisitedSteps
  <2> QED BY <1>6, <2>2, <2>3 DEF TerminateOne
<1>7. CASE AddTransportProcess
  <2>1. Running' = Running
    BY <1>7, <1>a DEF AddTransportProcess
  <2>2. added \in Nat /\ added < MaxAdded /\ NumPorts + added + 1 \in Ports
    BY <1>7, SizesAssumption DEF AddTransportProcess, TypeOK, Ports
  <2>3. Table \subseteq Table'
    <3>1. Range(transports') = Range(transports) \cup {NumPorts + added + 1}
      BY <1>7, <2>2, RangeOfAppend DEF AddTransportProcess, TypeOK
    <3> QED BY <1>7, <3>1 DEF AddTransportProcess, Table
  <2> QED BY <1>7, <2>1, <2>3 DEF AddTransportProcess, StartInv, TableInv, call, past
<1>8. ASSUME NEW i \in Ports, StartTransportProcess(i) PROVE StartInv' /\ TableInv'
  <2>1. transports[i] \in Procs /\ transports[i] \in Table
    BY <1>0, <1>8 DEF StartTransportProcess, Table, Range
  <2>2. Running' = Running \cup {transports[i]} /\ Table' = Table
    BY <1>8, <1>b, <2>1, RunningMoves DEF StartTransportProcess, States
  <2> QED BY <1>8, <2>1, <2>2 DEF StartTransportProcess, StartInv, TableInv, call, past, table
<1>9. ASSUME NEW i \in Ports, StartTransportTimesOut(i) PROVE StartInv' /\ TableInv'
  BY <1>9, <1>a, <1>b DEF StartTransportTimesOut, StartInv, TableInv, call, past, table
<1>10. ASSUME NEW i \in Ports, NEW delete \in BOOLEAN, StopTransportProcess(i, delete)
       PROVE  StartInv' /\ TableInv'
  <2>1. Running' = Running
    BY <1>10, <1>a DEF StopTransportProcess
  <2>2. Running \subseteq Table'
    <3>1. CASE UNCHANGED transports
      BY <1>10, <3>1 DEF StopTransportProcess, TableInv, Table
    <3>2. CASE /\ i = Len(transports) /\ ~IsStarted(transports[i])
               /\ transports' = Front(transports)
      <4>1. transports # <<>>
        BY <1>0, <1>10 DEF StopTransportProcess
      <4>2. Range(transports) = Range(Front(transports)) \cup {Last(transports)}
        BY <1>0, <4>1, FrontAndLast
      <4>3. Last(transports) \notin Running
        BY <3>2 DEF Last, Running
      <4> QED BY <1>10, <3>2, <4>2, <4>3 DEF StopTransportProcess, TableInv, Table
    <3> QED BY <1>10, <3>1, <3>2 DEF StopTransportProcess, RemoveLast
  <2>3. healthy' = "yes" /\ op' \in {"idle", "stopping", "deleting"}
    BY <1>10 DEF StopTransportProcess
  <2> QED BY <2>1, <2>2, <2>3 DEF StartInv, TableInv
<1>11. CASE Close
  BY <1>11, <1>a, <1>b DEF Close, StartInv, TableInv, past, table
<1>12. CASE StopOne
  <2>1. Head(todo) \in Procs
    BY <1>0, <1>12 DEF StopOne
  <2>2. CASE Moves(Head(todo), {"up"}, "doomed") /\ UNCHANGED <<todo, table, op, removed>>
    <3>1. Running' = Running /\ Table' = Table
      BY <1>b, <2>1, <2>2, RunningMoves DEF States
    <3> QED BY <1>12, <2>2, <3>1 DEF StopOne, StartInv, TableInv, table
  <2>3. CASE /\ Moves(Head(todo), {"doomed", "down"}, "none")
             /\ todo' = Tail(todo)
             /\ op' = IF op \in {"stopping", "deleting"} THEN "idle" ELSE op
             /\ RemoveLast(op = "deleting")
             /\ logs' = IF op = "closingLogs" THEN Tail(logs) ELSE logs
    <3>1. Running' = Running \ {Head(todo)}
      BY <2>1, <2>3, RunningMoves DEF States
    <3>2. Table \subseteq Table' \cup {Head(todo)}
      <4>1. CASE op \in {"stopping", "closing"}
        BY <2>3, <4>1 DEF RemoveLast, Table
      <4>2. CASE op = "deleting"
        <5>1. transports # <<>> /\ Head(todo) = Last(transports)
          BY <1>0, <1>12, <4>2 DEF StopOne, CallInv, Last
        <5>2. Range(transports) = Range(Front(transports)) \cup {Last(transports)}
          BY <1>0, <5>1, FrontAndLast
        <5> QED BY <2>3, <4>2, <5>1, <5>2 DEF RemoveLast, Table
      <4>3. CASE op = "closingLogs"
        <5>1. Range(logs) = {Head(todo)} \cup Range(Tail(logs))
          BY <1>0, <1>12, <4>3 DEF StopOne, CallInv
        <5> QED BY <2>3, <4>3, <5>1 DEF RemoveLast, Table
      <4> QED BY <1>12, <4>1, <4>2, <4>3 DEF StopOne
    <3>3. op = "closing" => /\ UNCHANGED transports
                            /\ Range(todo) = {Head(todo)} \cup Range(todo')
      BY <1>0, <1>12, <2>3 DEF StopOne, RemoveLast
    <3>4. op' \in {"closing", "closingLogs"} \/ (op' = "idle" /\ healthy' = "yes")
      BY <1>12, <2>3 DEF StopOne, CallInv
    <3>5. op' = "closing" => op = "closing"
      BY <2>3
    <3> QED BY <3>1, <3>2, <3>3, <3>4, <3>5 DEF StartInv, TableInv
  <2> QED BY <1>12, <2>2, <2>3 DEF StopOne
<1>13. CASE SkipOne
  <2>1. Running' = Running /\ Head(todo) \notin Running
    BY <1>13, <1>a DEF SkipOne, Running
  <2>2. Table \subseteq Table' \cup {Head(todo)}
    <3>1. CASE op = "closing"
      BY <1>13, <3>1 DEF SkipOne, Table
    <3>2. CASE op = "closingLogs"
      <4>1. Range(logs) = {Head(todo)} \cup Range(Tail(logs))
        BY <1>0, <1>13, <3>2 DEF SkipOne, CallInv
      <4> QED BY <1>13, <3>2, <4>1 DEF SkipOne, Table
    <3> QED BY <1>13, <3>1, <3>2 DEF SkipOne
  <2>3. UNCHANGED transports /\ Range(todo) = {Head(todo)} \cup Range(todo')
    BY <1>0, <1>13 DEF SkipOne
  <2> QED BY <1>13, <2>1, <2>2, <2>3 DEF SkipOne, StartInv, TableInv
<1>14. CASE CloseTransports
  <2>1. Running' = Running
    BY <1>14, <1>a DEF CloseTransports
  <2>2. Running \cap Range(transports) = {}
    BY <1>0, <1>14 DEF CloseTransports, TableInv
  <2>3. Table' = Range(logs)
    BY <1>0, <1>14 DEF CloseTransports, Table
  <2> QED BY <1>14, <2>1, <2>2, <2>3 DEF CloseTransports, StartInv, TableInv, Table
<1>15. CASE CloseReturns
  <2>1. Table = {}
    BY <1>0, <1>15 DEF CloseReturns, CallInv, Table
  <2>2. Running' = {}
    BY <1>15, <1>a, <2>1 DEF CloseReturns, TableInv
  <2> QED BY <1>15, <2>2 DEF CloseReturns, StartInv, TableInv
<1>16. ASSUME NEW p \in Procs, ChildExits(p) PROVE StartInv' /\ TableInv'
  <2>1. Running' = Running
    BY <1>16, RunningMoves DEF ChildExits, States
  <2> QED BY <1>16, <1>b, <2>1 DEF ChildExits, StartInv, TableInv, call, past, table
<1>17. CASE ProcessExceptions
  <2>1. Running' = Running /\ Table' = Table /\ op' = "idle"
    BY <1>17, <1>a, <1>b DEF ProcessExceptions
  <2>2. CASE op = "idle"
    <3>1. interrupted' = interrupted /\ healthy' = healthy
      BY <1>17, <2>2 DEF ProcessExceptions, TypeOK
    <3> QED BY <2>1, <2>2, <3>1 DEF StartInv, TableInv
  <2>3. CASE op # "idle"
    <3>1. interrupted' = TRUE /\ healthy' # "unset"
      BY <1>17, <2>3 DEF ProcessExceptions, CallInv, TypeOK, Ops
    <3> QED BY <2>1, <3>1 DEF StartInv, TableInv
  <2> QED BY <2>2, <2>3
<1>18. CASE UNCHANGED vars
  <2>1. Running' = Running /\ Table' = Table
    BY <1>18, <1>a, <1>b DEF vars
  <2> QED BY <1>18, <2>1 DEF vars, StartInv, TableInv, call, past, table
<1> QED BY <1>1, <1>2, <1>3, <1>4, <1>5, <1>6, <1>7, <1>8, <1>9, <1>10, <1>11, <1>12, <1>13,
           <1>14, <1>15, <1>16, <1>17, <1>18 DEF Next, Calls, CallContinues

-----------------------------------------------------------------------------
(* The children that a timed out start() left behind.                      *)

\* Every step keeps each orphan where close() finds it.
LEMMA OrphanStep ==
  ASSUME TypeOK, CallInv, OrphanInv, [Next]_vars
  PROVE  OrphanInv'
<1> DEFINE Held == IF op \in {"closing", "closingLogs"} THEN addresses ELSE Range(transports)
<1>0. transports \in Seq(Ports) /\ Range(<<>>) = {} /\ interrupted \in BOOLEAN
  BY DEF TypeOK, Range
<1>a. ASSUME interrupted' = TRUE PROVE OrphanInv'
  BY <1>a DEF OrphanInv
<1>b. ASSUME UNCHANGED <<orphans, interrupted>>,
             removed \cup Held \subseteq removed' \cup Held'
      PROVE  OrphanInv'
  BY <1>b DEF OrphanInv
<1>1. CASE HealthCheck
  <2> DEFINE new == [i \in 1..NumPorts |-> i]
  <2>1. new \in Seq(Ports)
    BY SizesAssumption DEF Ports
  <2>2. transports' = transports \o new
    BY <1>1 DEF HealthCheck
  <2> HIDE DEF new
  <2>3. Range(transports) \subseteq Range(transports \o new)
    BY <1>0, <2>1, RangeOfConcat
  <2>4. Range(transports) \subseteq Range(transports')
    BY <2>2, <2>3
  <2> QED BY <1>1, <1>b, <2>4 DEF HealthCheck, past
<1>2. CASE StartOne
  <2>1. op \notin {"closing", "closingLogs"} /\ op' \notin {"closing", "closingLogs"}
    BY <1>2, VisitedSteps DEF StartOne, CallInv
  <2> QED BY <1>2, <1>b, <2>1 DEF StartOne, past, table
<1>3. CASE StartRaises
  BY <1>3, <1>a DEF StartRaises
<1>4. CASE WaitReturns
  <2>1. op \notin {"closing", "closingLogs"} /\ op' \notin {"closing", "closingLogs"}
    BY <1>4, VisitedSteps DEF WaitReturns, CallInv
  <2> QED BY <1>4, <1>b, <2>1 DEF WaitReturns, past, table
<1>5. CASE WaitTimesOut
  BY <1>5, <1>b DEF WaitTimesOut, past, table
<1>6. CASE TerminateOne
  <2>1. op \notin {"closing", "closingLogs"} /\ op' \notin {"closing", "closingLogs"}
    BY <1>6, VisitedSteps DEF TerminateOne, CallInv
  <2> QED BY <1>6, <1>b, <2>1 DEF TerminateOne, past, table
<1>7. CASE AddTransportProcess
  <2>1. added \in Nat /\ added < MaxAdded /\ NumPorts + added + 1 \in Ports
    BY <1>7, SizesAssumption DEF AddTransportProcess, TypeOK, Ports
  <2>2. Range(transports) \subseteq Range(transports')
    BY <1>0, <1>7, <2>1, RangeOfAppend DEF AddTransportProcess
  <2> QED BY <1>7, <1>b, <2>2 DEF AddTransportProcess, past, call
<1>8. ASSUME NEW i \in Ports, StartTransportProcess(i) PROVE OrphanInv'
  BY <1>8, <1>b DEF StartTransportProcess, call, past, table
<1>9. ASSUME NEW i \in Ports, StartTransportTimesOut(i) PROVE OrphanInv'
  <2>1. transports[i] \in Range(transports)
    BY <1>0, <1>9 DEF StartTransportTimesOut, Range
  <2> QED BY <1>9, <2>1 DEF StartTransportTimesOut, OrphanInv, call, past, table
<1>10. ASSUME NEW i \in Ports, NEW delete \in BOOLEAN, StopTransportProcess(i, delete)
       PROVE  OrphanInv'
  <2>1. Range(transports) \cup removed \subseteq Range(transports') \cup removed'
    <3>1. transports # <<>>
      BY <1>0, <1>10 DEF StopTransportProcess
    <3>2. Range(transports) = Range(Front(transports)) \cup {Last(transports)}
      BY <1>0, <3>1, FrontAndLast
    <3> QED BY <1>10, <3>2 DEF StopTransportProcess, RemoveLast
  <2>2. op \notin {"closing", "closingLogs"} /\ op' \notin {"closing", "closingLogs"}
    BY <1>10 DEF StopTransportProcess
  <2> QED BY <1>10, <1>b, <2>1, <2>2 DEF StopTransportProcess
<1>11. CASE Close
  BY <1>11, <1>b DEF Close, past, table
<1>12. CASE StopOne
  <2>1. UNCHANGED <<orphans, interrupted, addresses>>
    BY <1>12 DEF StopOne
  <2>2. CASE op \in {"closing", "closingLogs"}
    <3>1. op' = op /\ removed' = removed
      BY <1>12, <2>2 DEF StopOne, RemoveLast
    <3> QED BY <1>b, <2>1, <2>2, <3>1
  <2>3. CASE op \in {"stopping", "deleting"}
    <3>1. op' \notin {"closing", "closingLogs"}
      BY <1>12, <2>3 DEF StopOne
    <3>2. Range(transports) \cup removed \subseteq Range(transports') \cup removed'
      <4>1. \/ UNCHANGED <<transports, removed>>
            \/ op = "deleting" /\ RemoveLast(TRUE)
        BY <1>12 DEF StopOne, RemoveLast, table
      <4>2. CASE op = "deleting" /\ RemoveLast(TRUE)
        <5>1. Range(transports) = Range(Front(transports)) \cup {Last(transports)}
          BY <1>0, <4>2, FrontAndLast DEF CallInv
        <5> QED BY <4>2, <5>1 DEF RemoveLast
      <4> QED BY <4>1, <4>2
    <3> QED BY <1>b, <2>1, <2>3, <3>1, <3>2
  <2> QED BY <1>12, <2>2, <2>3 DEF StopOne
<1>13. CASE SkipOne
  BY <1>13, <1>b DEF SkipOne, past
<1>14. CASE CloseTransports
  BY <1>14, <1>b DEF CloseTransports, past
<1>15. CASE CloseReturns
  BY <1>0, <1>15 DEF CloseReturns, EnsureSerialPathsUnlocked, OrphanInv, table
<1>16. ASSUME NEW p \in Procs, ChildExits(p) PROVE OrphanInv'
  BY <1>16, <1>b DEF ChildExits, call, past, table
<1>17. CASE ProcessExceptions
  <2>1. CASE op = "idle"
    <3>1. interrupted' = interrupted
      BY <1>0, <1>17, <2>1 DEF ProcessExceptions
    <3> QED BY <1>17, <1>b, <2>1, <3>1 DEF ProcessExceptions, table
  <2>2. CASE op # "idle"
    BY <1>17, <1>a, <2>2 DEF ProcessExceptions
  <2> QED BY <2>1, <2>2
<1>18. CASE UNCHANGED vars
  BY <1>18, <1>b DEF vars, call, past, table
<1> QED BY <1>1, <1>2, <1>3, <1>4, <1>5, <1>6, <1>7, <1>8, <1>9, <1>10, <1>11, <1>12, <1>13,
           <1>14, <1>15, <1>16, <1>17, <1>18 DEF Next, Calls, CallContinues

-----------------------------------------------------------------------------
(* The theorems.                                                           *)

Inv == TypeOK /\ CallInv /\ StartInv /\ TableInv /\ OrphanInv

\* The inductive invariant holds in every behaviour.
LEMMA InvHolds == Spec => []Inv
<1>1. Init => Inv
  <2> SUFFICES ASSUME Init PROVE Inv
    OBVIOUS
  <2>0. transports \in Seq(Ports) /\ logs \in Seq({Writer, Filter}) /\ todo \in Seq(Procs)
    BY DEF Init
  <2>1. TypeOK
    <3>1. /\ healthy \in {"unset", "yes", "no"} /\ op \in Ops
          /\ status \in [Procs -> {"none", "up", "doomed", "down"}]
          /\ added \in 0..MaxAdded /\ starts \in 0..MaxStarts
      BY SizesAssumption DEF Init, Ops
    <3>2. /\ orphans \subseteq Ports /\ batch \subseteq Procs
          /\ addresses \subseteq Ports /\ removed \subseteq Ports
          /\ sigusr1 \in BOOLEAN /\ interrupted \in BOOLEAN /\ closed \in BOOLEAN
      BY DEF Init
    <3> QED BY <2>0, <3>1, <3>2 DEF TypeOK
  <2>2. Running = {}
    BY DEF Init, Running, IsStarted
  <2>3. CallInv /\ StartInv /\ TableInv /\ OrphanInv
    BY <2>2 DEF Init, CallInv, StartInv, TableInv, OrphanInv
  <2> QED BY <2>1, <2>3 DEF Inv
<1>2. Inv /\ [Next]_vars => Inv'
  BY TypeStep, CallStep, TableStep, OrphanStep DEF Inv
<1> QED BY <1>1, <1>2, PTL DEF Spec

\* A health check that failed leaves nothing running, close() stops whatever
\* runs and unlocks whatever an abandoned child holds, and everything that runs
\* is in the table: for any number of transports, of additions and of starts.
THEOREM NothingIsLeftRunning == Spec => []NothingLeftRunning
<1>1. Inv => NothingLeftRunning
  <2> SUFFICES ASSUME Inv PROVE NothingLeftRunning
    OBVIOUS
  <2>1. TypeOK /\ RunningIsInTable
    BY DEF Inv, TableInv, RunningIsInTable, Running, Table
  <2>2. FailedStartLeavesNone
    BY DEF Inv, StartInv, FailedStartLeavesNone, Running
  <2>3. ClosedMeansStopped
    <3> SUFFICES ASSUME closed PROVE /\ \A p \in Procs : ~IsStarted(p)
                                     /\ orphans \subseteq removed \/ interrupted
      BY DEF ClosedMeansStopped
    <3>1. op = "idle" /\ Range(transports) = {} /\ Range(logs) = {}
      BY DEF Inv, CallInv, Range
    <3>2. \A p \in Procs : ~IsStarted(p)
      BY <3>1 DEF Inv, TableInv, Table, Running
    <3>3. orphans \subseteq removed \/ interrupted
      BY <3>1 DEF Inv, OrphanInv
    <3> QED BY <3>2, <3>3
  <2> QED BY <2>1, <2>2, <2>3 DEF NothingLeftRunning
<1> QED BY <1>1, InvHolds, PTL

\* A step moves one handle at most, and starts one only while the switchboard
\* is neither closed nor has failed.
Start(q) == Moves(q, {"none"}, "up") /\ healthy # "no" /\ ~closed
Kill(q)  == Moves(q, {"up"}, "doomed")
Drop(q)  == Moves(q, {"doomed", "down"}, "none")
Exit(q)  == Moves(q, {"up", "doomed"}, "down")

LEMMA StatusStep ==
  ASSUME TypeOK, CallInv, [Next]_vars
  PROVE  UNCHANGED status \/ \E q \in Procs : Start(q) \/ Kill(q) \/ Drop(q) \/ Exit(q)
<1>0. /\ todo # <<>> => Head(todo) \in Procs
      /\ transports \in Seq(Procs)
  BY HeadAndTail, ListsOfProcesses DEF TypeOK
<1>1. CASE StartOne
  <2>1. Head(todo) \in Procs /\ healthy # "no" /\ ~closed
    BY <1>0, <1>1 DEF StartOne, CallInv
  <2>2. UNCHANGED status \/ Start(Head(todo))
    BY <1>1, <2>1 DEF StartOne, Start
  <2> QED BY <2>1, <2>2
<1>2. CASE TerminateOne
  <2>1. Head(todo) \in Procs
    BY <1>0, <1>2 DEF TerminateOne, CallInv
  <2>2. UNCHANGED status \/ Kill(Head(todo)) \/ Drop(Head(todo))
    BY <1>2 DEF TerminateOne, Kill, Drop
  <2> QED BY <2>1, <2>2
<1>3. ASSUME NEW i \in Ports, StartTransportProcess(i)
      PROVE  \E q \in Procs : Start(q)
  <2>1. transports[i] \in Procs /\ Start(transports[i])
    BY <1>0, <1>3 DEF StartTransportProcess, CallInv, Start
  <2> QED BY <2>1
<1>4. CASE StopOne
  <2>1. Head(todo) \in Procs
    BY <1>0, <1>4 DEF StopOne
  <2>2. Kill(Head(todo)) \/ Drop(Head(todo))
    BY <1>4 DEF StopOne, Kill, Drop
  <2> QED BY <2>1, <2>2
<1>5. ASSUME NEW p \in Procs, ChildExits(p) PROVE Exit(p)
  BY <1>5 DEF ChildExits, Exit
<1>6. ASSUME \/ HealthCheck \/ AddTransportProcess \/ Close
             \/ \E i \in Ports : \/ StartTransportTimesOut(i)
                                 \/ \E delete \in BOOLEAN : StopTransportProcess(i, delete)
             \/ StartRaises \/ WaitReturns \/ WaitTimesOut \/ SkipOne \/ CloseTransports
             \/ CloseReturns \/ ProcessExceptions \/ UNCHANGED vars
      PROVE  UNCHANGED status
  BY <1>6 DEF HealthCheck, AddTransportProcess, Close, StartTransportTimesOut,
              StopTransportProcess, StartRaises, WaitReturns, WaitTimesOut, SkipOne,
              CloseTransports, CloseReturns, ProcessExceptions, vars
<1> QED BY <1>1, <1>2, <1>3, <1>4, <1>5, <1>6 DEF Next, Calls, CallContinues

\* Every step of the switchboard is, for each of its processes, a step that a
\* handle may take: none is started twice or let go of while its child is up,
\* and none is started once the switchboard was closed or has failed.
THEOREM ProcessesUsedAsPromised == Spec => ProcessesAsPromised
<1>1. Init => \A p \in Procs : H(p)!Init
  BY DEF Init, H!Init
<1>2. ASSUME Inv, [Next]_vars
      PROVE  [\A p \in Procs : H(p)!Next \/ UNCHANGED status[p]]_status
  <2> SUFFICES ASSUME ~UNCHANGED status, NEW p \in Procs
               PROVE  H(p)!Next \/ UNCHANGED status[p]
    OBVIOUS
  <2>1. PICK q \in Procs : Start(q) \/ Kill(q) \/ Drop(q) \/ Exit(q)
    BY <1>2, StatusStep DEF Inv
  <2>2. \/ status[q] \in {"none"} /\ status'[q] = "up"
        \/ status[q] \in {"up"} /\ status'[q] = "doomed"
        \/ status[q] \in {"doomed", "down"} /\ status'[q] = "none"
        \/ status[q] \in {"up", "doomed"} /\ status'[q] = "down"
    BY <1>2, <2>1, MovesOne DEF Inv, Start, Kill, Drop, Exit, States
  <2>3. p # q => UNCHANGED status[p]
    BY <1>2, <2>1, MovesOne DEF Inv, Start, Kill, Drop, Exit, States
  <2> QED BY <2>2, <2>3 DEF H!Next, H!Started, H!ChildExits, H!Sigterm, H!LetGo
<1>3. ASSUME Inv, [Next]_vars
      PROVE  [closed \/ healthy = "no" =>
                \A p \in Procs : ~IsStarted(p) => status'[p] = "none"]_vars
  <2> SUFFICES ASSUME closed \/ healthy = "no", NEW p \in Procs, ~IsStarted(p)
               PROVE  status'[p] = "none"
    OBVIOUS
  <2>1. status[p] = "none"
    BY DEF IsStarted
  <2>2. UNCHANGED status \/ \E q \in Procs : Kill(q) \/ Drop(q) \/ Exit(q)
    BY <1>3, StatusStep DEF Inv, Start
  <2>3. ASSUME NEW q \in Procs, Kill(q) \/ Drop(q) \/ Exit(q) PROVE p # q \/ status'[p] = "none"
    BY <2>1, <2>3 DEF Kill, Drop, Exit, Moves
  <2>4. ASSUME NEW q \in Procs, Kill(q) \/ Drop(q) \/ Exit(q), p # q
        PROVE  status'[p] = status[p]
    BY <1>3, <2>4, MovesOne DEF Inv, Kill, Drop, Exit, States
  <2> QED BY <2>1, <2>2, <2>3, <2>4
<1> QED BY <1>1, <1>2, <1>3, InvHolds, PTL
        DEF Spec, ProcessesAsPromised, HandlesUsedWell, NeverRestarted

-----------------------------------------------------------------------------
(* The transports (Transports).                                            *)

HandleType ==
  [fd : BOOLEAN, peer : {"ok", "lost"}, proc : {"none", "running", "exited"},
   worker : {"none", "alive", "dead"}, errors : Nat]

TlogType ==
  [auto : BOOLEAN, mode : {"running", "reopening", "failed"}, sent : Nat, losses : Nat,
   commands : Nat, row : Nat, did : {"none", "open", "closed"}, dropped : BOOLEAN,
   died : BOOLEAN, opened : BOOLEAN]

TransportsTyped ==
  /\ tkind \in TransportKinds /\ tlink \in {"up", "down"} /\ open_event \in BOOLEAN
  /\ h \in HandleType /\ tlog \in TlogType
  /\ inbound \in Seq(Nat) /\ logq \in Seq(Nat) /\ delivered \in Seq(Nat)

\* Only a process transport has a process and only a Pigweed one a worker; the worker
\* exists as long as the port or socket is held, and only the serial one ends by itself.
HandleOK(handle, died) ==
  /\ handle.proc # "none" => tkind \in Processes
  /\ handle.worker # "none" => tkind \in Pigweed
  /\ tkind \in Pigweed => (handle.fd <=> handle.worker # "none")
  /\ handle.worker = "dead" => tkind = "pwserial" /\ died

\* Only the HDLC client has a queue of its own.
QueueOK == tkind \notin Pigweed => logq = <<>>

\* Every error but the last leads to a reopening.
ErrorsOK ==
  /\ h.errors <= IF tlog.mode = "failed" THEN MaxReadErrors + 1 ELSE MaxReadErrors
  /\ tlog.row <= h.errors /\ tlog.row <= MaxReadErrors

\* What was read and what is still to be read: messages in the order they were sent,
\* and all of them as long as nothing was dropped.
Messages == (delivered \o logq) \o inbound
Rising(s, n) == s \in Seq(1..n) /\ \A i, j \in DOMAIN s : i < j => s[i] < s[j]
MessagesOK ==
  /\ Rising(Messages, tlog.sent)
  /\ ~ tlog.dropped => Messages = [i \in 1..tlog.sent |-> i]

TransportsInv ==
  /\ TransportsTyped /\ HandleOK(h, tlog.died) /\ QueueOK /\ ErrorsOK /\ MessagesOK
  /\ ClosedIsFree /\ OpenedIsOpen

-----------------------------------------------------------------------------
(* Sequences.                                                              *)

LEMMA HeadMoves ==
  ASSUME NEW S, NEW a \in Seq(S), NEW b \in Seq(S), b # <<>>
  PROVE  /\ Append(a, Head(b)) \o Tail(b) = a \o b
         /\ Append(a, Head(b)) \in Seq(S) /\ Tail(b) \in Seq(S)
<1> DEFINE l == Append(a, Head(b)) \o Tail(b)
           r == a \o b
<1>1. /\ Head(b) \in S /\ Tail(b) \in Seq(S) /\ Append(a, Head(b)) \in Seq(S)
      /\ Len(a) \in Nat /\ Len(b) \in Nat \ {0} /\ Len(Tail(b)) = Len(b) - 1
      /\ Len(Append(a, Head(b))) = Len(a) + 1
      /\ Head(b) = b[1] /\ \A i \in 1..(Len(b) - 1) : Tail(b)[i] = b[i + 1]
      /\ \A i \in 1..(Len(a) + 1) : Append(a, Head(b))[i] = IF i <= Len(a) THEN a[i] ELSE Head(b)
  OBVIOUS
<1>2. l \in Seq(S) /\ r \in Seq(S) /\ Len(l) = Len(a) + Len(b) /\ Len(r) = Len(a) + Len(b)
  BY <1>1
<1>3. ASSUME NEW i \in 1..(Len(a) + Len(b)) PROVE l[i] = r[i]
  <2>1. r[i] = IF i <= Len(a) THEN a[i] ELSE b[i - Len(a)]
    BY <1>1
  <2>2. CASE i <= Len(a) + 1
    <3>1. i \in 1..(Len(a) + 1)
      BY <1>1, <2>2
    <3>2. l[i] = Append(a, Head(b))[i]
      BY <1>1, <3>1
    <3>3. ~ (i <= Len(a)) => i - Len(a) = 1
      BY <1>1, <3>1
    <3> HIDE DEF l, r
    <3> QED BY <1>1, <2>1, <3>1, <3>2, <3>3
  <2>3. CASE ~ (i <= Len(a) + 1)
    <3>1. l[i] = Tail(b)[i - (Len(a) + 1)]
      BY <1>1, <1>2, <2>3
    <3>2. /\ i - (Len(a) + 1) \in 1..(Len(b) - 1) /\ (i - (Len(a) + 1)) + 1 = i - Len(a)
          /\ ~ (i <= Len(a))
      BY <1>1, <2>3
    <3> HIDE DEF l, r
    <3> QED BY <1>1, <2>1, <3>1, <3>2
  <2> QED BY <2>2, <2>3
<1> HIDE DEF l, r
<1>4. l = r
  BY <1>2, <1>3, SeqEqual
<1> QED BY <1>1, <1>4 DEF l, r

LEMMA RisingPrefix ==
  ASSUME NEW a \in Seq(Nat), NEW b \in Seq(Nat), NEW n \in Nat, Rising(a \o b, n)
  PROVE  Rising(a, n)
<1> DEFINE s == a \o b
<1>1. /\ Len(a) \in Nat /\ Len(b) \in Nat /\ DOMAIN a = 1..Len(a) /\ a \in Seq(Nat)
      /\ Len(s) = Len(a) + Len(b) /\ \A i \in 1..Len(a) : s[i] = a[i]
  OBVIOUS
<1> HIDE DEF s
<1>2. s \in Seq(1..n) /\ \A i, j \in DOMAIN s : i < j => s[i] < s[j]
  BY DEF Rising, s
<1>3. DOMAIN s = 1..Len(s)
  BY <1>2
<1>4. \A i \in 1..Len(a) : i \in DOMAIN s
  BY <1>1, <1>3
<1>5. \A i \in 1..Len(a) : a[i] \in 1..n
  BY <1>1, <1>2, <1>4
<1>6. a \in Seq(1..n)
  BY <1>1, <1>5
<1>7. \A i, j \in DOMAIN a : i < j => a[i] < a[j]
  BY <1>1, <1>2, <1>4
<1> QED BY <1>6, <1>7 DEF Rising

LEMMA RisingNext ==
  ASSUME NEW n \in Nat, NEW s, Rising(s, n)
  PROVE  Rising(Append(s, n + 1), n + 1)
<1> DEFINE t == Append(s, n + 1)
<1>1. s \in Seq(1..n) /\ Len(s) \in Nat /\ DOMAIN s = 1..Len(s)
      /\ \A i, j \in DOMAIN s : i < j => s[i] < s[j]
  BY DEF Rising
<1>2. 1..n \subseteq 1..(n + 1) /\ n + 1 \in 1..(n + 1)
  OBVIOUS
<1>3. s \in Seq(1..(n + 1))
  BY <1>1, <1>2
<1>4. t \in Seq(1..(n + 1)) /\ DOMAIN t = 1..(Len(s) + 1)
      /\ \A i \in 1..(Len(s) + 1) : t[i] = IF i <= Len(s) THEN s[i] ELSE n + 1
  <2> DEFINE S == 1..(n + 1)
             m == n + 1
  <2>1. s \in Seq(S) /\ m \in S
    BY <1>2, <1>3
  <2> HIDE DEF S, m
  <2>2. /\ Append(s, m) \in Seq(S) /\ DOMAIN Append(s, m) = 1..(Len(s) + 1)
        /\ \A i \in 1..(Len(s) + 1) : Append(s, m)[i] = IF i <= Len(s) THEN s[i] ELSE m
    BY <2>1
  <2> QED BY <2>2 DEF S, m
<1> HIDE DEF t
<1>5. ASSUME NEW i \in DOMAIN t, NEW j \in DOMAIN t, i < j PROVE t[i] < t[j]
  <2>1. i \in 1..Len(s) /\ j \in 1..(Len(s) + 1) /\ t[i] = s[i] /\ s[i] \in 1..n
    BY <1>1, <1>4, <1>5
  <2>2. CASE j <= Len(s)
    BY <1>1, <1>4, <1>5, <2>1, <2>2
  <2>3. CASE ~ (j <= Len(s))
    <3>1. t[j] = n + 1
      BY <1>4, <2>1, <2>3
    <3> QED BY <2>1, <3>1
  <2> QED BY <2>2, <2>3
<1>6. Rising(t, n + 1)
  BY <1>4, <1>5 DEF Rising
<1> QED BY <1>6 DEF t

LEMMA CountNext ==
  ASSUME NEW n \in Nat
  PROVE  Append([i \in 1..n |-> i], n + 1) = [i \in 1..(n + 1) |-> i]
<1> DEFINE s == [i \in 1..n |-> i]
           t == [i \in 1..(n + 1) |-> i]
           m == n + 1
<1>1. s \in Seq(Nat) /\ Len(s) = n /\ \A i \in 1..n : s[i] = i
  OBVIOUS
<1>2. m \in Nat /\ t \in Seq(Nat) /\ Len(t) = m /\ \A i \in 1..m : t[i] = i
  OBVIOUS
<1> HIDE DEF s, t
<1>3. Append(s, m) \in Seq(Nat) /\ Len(Append(s, m)) = n + 1
      /\ \A i \in 1..(n + 1) : Append(s, m)[i] = IF i <= n THEN s[i] ELSE m
  <2> HIDE DEF m
  <2> QED BY <1>1, <1>2
<1>4. \A i \in 1..(n + 1) : Append(s, m)[i] = t[i]
  BY <1>1, <1>2, <1>3
<1>5. Append(s, m) = t
  BY <1>2, <1>3, <1>4, SeqEqual
<1> QED BY <1>5 DEF s, t, m

-----------------------------------------------------------------------------
(* open() and close().                                                     *)

Kinds == {"serial", "tcp", "websocket", "process", "ssh", "pty", "jlink", "pwserial", "pwsocket"}

IsOpenWith(handle) ==
  CASE tkind \in {"serial", "tcp", "websocket"} -> handle.fd
    [] tkind \in Processes -> handle.proc = "running"
    [] tkind = "jlink" -> handle.fd /\ handle.peer = "ok"
    [] tkind = "pwserial" -> handle.fd /\ handle.worker = "alive"
    [] tkind = "pwsocket" -> handle.worker = "alive"

\* Nothing is held, but by a serial Pigweed transport whose worker ended by itself.
FreeWith(handle, died) ==
  \/ ~ handle.fd /\ handle.proc # "running" /\ handle.worker # "alive"
  \/ died /\ tkind = "pwserial"

\* A handle with these fields.
Has(g, fd, peer, proc, worker, errors) ==
  /\ g \in HandleType
  /\ g.fd <=> fd
  /\ g.peer = peer /\ g.proc = proc /\ g.worker = worker /\ g.errors = errors

LEMMA HandleFields ==
  ASSUME NEW handle \in HandleType
  PROVE  /\ handle.fd \in BOOLEAN /\ handle.peer \in {"ok", "lost"} /\ handle.errors \in Nat
         /\ handle.proc \in {"none", "running", "exited"}
         /\ handle.worker \in {"none", "alive", "dead"}
BY DEF HandleType

LEMMA HandleChanged ==
  ASSUME NEW g \in HandleType
  PROVE  /\ Has([g EXCEPT !.fd = TRUE, !.peer = "ok"], TRUE, "ok", g.proc, g.worker, g.errors)
         /\ Has([g EXCEPT !.fd = FALSE, !.peer = "ok"], FALSE, "ok", g.proc, g.worker, g.errors)
         /\ Has([g EXCEPT !.fd = FALSE, !.worker = "none"],
                FALSE, g.peer, g.proc, "none", g.errors)
         /\ \A p \in {"none", "running", "exited"} :
              Has([g EXCEPT !.proc = p], g.fd, g.peer, p, g.worker, g.errors)
         /\ \A w \in {"none", "alive", "dead"} :
              Has([g EXCEPT !.worker = w], g.fd, g.peer, g.proc, w, g.errors)
         /\ \A p \in {"ok", "lost"} :
              Has([g EXCEPT !.peer = p], g.fd, p, g.proc, g.worker, g.errors)
         /\ \A n \in Nat :
              Has([g EXCEPT !.errors = n], g.fd, g.peer, g.proc, g.worker, n)
<1>1. Has([g EXCEPT !.fd = TRUE, !.peer = "ok"], TRUE, "ok", g.proc, g.worker, g.errors)
  BY DEF Has, HandleType
<1>2. Has([g EXCEPT !.fd = FALSE, !.peer = "ok"], FALSE, "ok", g.proc, g.worker, g.errors)
  BY DEF Has, HandleType
<1>3. Has([g EXCEPT !.fd = FALSE, !.worker = "none"], FALSE, g.peer, g.proc, "none", g.errors)
  BY DEF Has, HandleType
<1>4. \A p \in {"none", "running", "exited"} :
        Has([g EXCEPT !.proc = p], g.fd, g.peer, p, g.worker, g.errors)
  BY DEF Has, HandleType
<1>5. \A w \in {"none", "alive", "dead"} :
        Has([g EXCEPT !.worker = w], g.fd, g.peer, g.proc, w, g.errors)
  BY DEF Has, HandleType
<1>6. \A p \in {"ok", "lost"} :
        Has([g EXCEPT !.peer = p], g.fd, p, g.proc, g.worker, g.errors)
  BY DEF Has, HandleType
<1>7. \A n \in Nat : Has([g EXCEPT !.errors = n], g.fd, g.peer, g.proc, g.worker, n)
  BY DEF Has, HandleType
<1> QED BY <1>1, <1>2, <1>3, <1>4, <1>5, <1>6, <1>7

\* The handles that open() and close() leave.
LEMMA HandlesLeft ==
  ASSUME h \in HandleType
  PROVE  /\ Has(OpenHandle, TRUE, "ok", h.proc, h.worker, h.errors)
         /\ Has(Popen, TRUE, "ok", "running", h.worker, h.errors)
         /\ h.worker = "none" =>
              Has(ClientStart(OpenHandle), TRUE, "ok", h.proc, "alive", h.errors)
         /\ Has(ClientStart([OpenHandle EXCEPT !.worker = "none"]),
                TRUE, "ok", h.proc, "alive", h.errors)
         /\ Has([h EXCEPT !.fd = FALSE, !.worker = "none"],
                FALSE, h.peer, h.proc, "none", h.errors)
         /\ Has(ClosedHandle, FALSE, "ok", h.proc, h.worker, h.errors)
         /\ Has([ClosedHandle EXCEPT !.proc = "none"],
                FALSE, "ok", "none", h.worker, h.errors)
         /\ Has([ClosedHandle EXCEPT !.proc = "exited"],
                FALSE, "ok", "exited", h.worker, h.errors)
         /\ Has([[h EXCEPT !.worker = "none"] EXCEPT !.fd = FALSE, !.peer = "ok"],
                FALSE, "ok", h.proc, "none", h.errors)
<1> DEFINE o == OpenHandle
           c == ClosedHandle
           n == [o EXCEPT !.worker = "none"]
           j == [h EXCEPT !.worker = "none"]
<1>1. Has(o, TRUE, "ok", h.proc, h.worker, h.errors)
  BY HandleChanged DEF OpenHandle
<1>2. Has(c, FALSE, "ok", h.proc, h.worker, h.errors)
  BY HandleChanged DEF ClosedHandle
<1>3. /\ Has(j, h.fd, h.peer, h.proc, "none", h.errors)
      /\ Has([h EXCEPT !.fd = FALSE, !.worker = "none"],
             FALSE, h.peer, h.proc, "none", h.errors)
  BY HandleChanged
<1>4. o \in HandleType /\ c \in HandleType /\ j \in HandleType
  BY <1>1, <1>2, <1>3 DEF Has
<1>5. Has(Popen, TRUE, "ok", "running", h.worker, h.errors)
  <2>1. Popen = [o EXCEPT !.proc = "running"]
    BY DEF Popen
  <2> HIDE DEF o
  <2>2. Has(Popen, o.fd, o.peer, "running", o.worker, o.errors)
    BY <1>4, <2>1, HandleChanged
  <2> QED BY <1>1, <2>2 DEF Has
<1>6. h.worker = "none" => Has(ClientStart(o), TRUE, "ok", h.proc, "alive", h.errors)
  <2> HIDE DEF o
  <2>1. Has([o EXCEPT !.worker = "alive"], o.fd, o.peer, o.proc, "alive", o.errors)
    BY <1>4, HandleChanged
  <2> QED BY <1>1, <2>1 DEF Has, ClientStart
<1>7. Has(n, TRUE, "ok", h.proc, "none", h.errors)
  <2> HIDE DEF o
  <2>1. Has(n, o.fd, o.peer, o.proc, "none", o.errors)
    BY <1>4, HandleChanged
  <2> QED BY <1>1, <2>1 DEF Has
<1>8. Has(ClientStart(n), TRUE, "ok", h.proc, "alive", h.errors)
  <2> HIDE DEF n
  <2>1. Has([n EXCEPT !.worker = "alive"], n.fd, n.peer, n.proc, "alive", n.errors)
    <3>1. n \in HandleType
      BY <1>7 DEF Has
    <3> QED BY <3>1, HandleChanged
  <2> QED BY <1>7, <2>1 DEF Has, ClientStart
<1>9. /\ Has([c EXCEPT !.proc = "none"], FALSE, "ok", "none", h.worker, h.errors)
      /\ Has([c EXCEPT !.proc = "exited"], FALSE, "ok", "exited", h.worker, h.errors)
  <2> HIDE DEF c
  <2>1. /\ Has([c EXCEPT !.proc = "none"], c.fd, c.peer, "none", c.worker, c.errors)
        /\ Has([c EXCEPT !.proc = "exited"], c.fd, c.peer, "exited", c.worker, c.errors)
    BY <1>4, HandleChanged
  <2> QED BY <1>2, <2>1 DEF Has
<1>10. Has([j EXCEPT !.fd = FALSE, !.peer = "ok"], FALSE, "ok", h.proc, "none", h.errors)
  <2> HIDE DEF j
  <2>1. Has([j EXCEPT !.fd = FALSE, !.peer = "ok"], FALSE, "ok", j.proc, j.worker, j.errors)
    BY <1>4, HandleChanged
  <2> QED BY <1>3, <2>1 DEF Has
<1> QED BY <1>1, <1>2, <1>3, <1>5, <1>6, <1>8, <1>9, <1>10

LEMMA OperationEnds ==
  ASSUME NEW g
  PROVE  /\ OpOk(g).h = g /\ OpOk(g).ok = TRUE
         /\ OpRaises(g).h = g /\ OpRaises(g).ok = FALSE
BY DEF OpOk, OpRaises

Outcome(r) ==
  /\ r.ok \in BOOLEAN /\ r.h \in HandleType /\ HandleOK(r.h, tlog.died)
  /\ r.h.errors = h.errors

LEMMA OpenWorks ==
  ASSUME tkind \in Kinds, h \in HandleType, HandleOK(h, tlog.died), NEW r \in transport_open
  PROVE  /\ Outcome(r)
         /\ r.ok /\ tkind # "ssh" => IsOpenWith(r.h)
<1> USE DEF Outcome, HandleOK, IsOpenWith, Processes, Pigweed
<1>1. CASE is_open
  <2>1. r = OpOk(h)
    BY <1>1 DEF transport_open
  <2>2. r.ok = TRUE /\ r.h = h
    BY <2>1, OperationEnds
  <2> QED BY <1>1, <2>2 DEF is_open, WorkerAlive, Kinds
<1>2. CASE ~ is_open
  <2>1. r \in DoOpen
    BY <1>2 DEF transport_open
  <2>2. CASE tkind \in {"serial", "tcp", "websocket", "jlink"}
    <3>1. r = OpOk(OpenHandle) \/ r = OpRaises(h)
      BY <2>1, <2>2 DEF DoOpen, SerialOpen, TcpOpen, WebSocketOpen, JLinkOpen, NeedsLink
    <3>2. (r.ok = TRUE /\ r.h = OpenHandle) \/ (r.ok = FALSE /\ r.h = h)
      BY <3>1, OperationEnds
    <3>3. Has(OpenHandle, TRUE, "ok", h.proc, h.worker, h.errors)
      BY HandlesLeft
    <3> QED BY <2>2, <3>2, <3>3 DEF Has
  <2>3. CASE tkind \in {"process", "ssh", "pty"}
    <3>1. r = OpOk(Popen) \/ (tkind = "ssh" /\ r = OpOk(h))
      BY <2>1, <2>3 DEF DoOpen, ProcessOpen, PtyOpen, SshOpen
    <3>2. r.ok = TRUE /\ (r.h = Popen \/ (tkind = "ssh" /\ r.h = h))
      BY <3>1, OperationEnds
    <3>3. Has(Popen, TRUE, "ok", "running", h.worker, h.errors)
      BY HandlesLeft
    <3> QED BY <2>3, <3>2, <3>3 DEF Has
  <2>4. CASE tkind = "pwserial"
    <3> DEFINE x == ClientStart(OpenHandle)
    <3>1. \/ r = OpRaises(h)
          \/ ~ h.fd /\ r = OpOk(ClientStart(OpenHandle))
      BY <2>1, <2>4 DEF DoOpen, PwSerialOpen, NeedsLink
    <3>2. h.fd \/ h.worker = "none"
      BY <2>4
    <3>3. \/ r.ok = FALSE /\ r.h = h
          \/ h.worker = "none" /\ r.ok = TRUE /\ r.h = x
      BY <3>1, <3>2, OperationEnds
    <3>4. h.worker = "none" => Has(x, TRUE, "ok", h.proc, "alive", h.errors)
      BY HandlesLeft
    <3> HIDE DEF x
    <3> QED BY <2>4, <3>3, <3>4 DEF Has
  <2>5. CASE tkind = "pwsocket"
    <3> DEFINE x == ClientStart([OpenHandle EXCEPT !.worker = "none"])
               y == [h EXCEPT !.fd = FALSE, !.worker = "none"]
    <3>1. r = OpOk(x) \/ r = OpRaises(y)
      BY <2>1, <2>5 DEF DoOpen, PwSocketOpen
    <3>2. Has(x, TRUE, "ok", h.proc, "alive", h.errors) /\ Has(y, FALSE, h.peer, h.proc, "none", h.errors)
      BY HandlesLeft
    <3> HIDE DEF x, y
    <3>3. (r.ok = TRUE /\ r.h = x) \/ (r.ok = FALSE /\ r.h = y)
      BY <3>1, OperationEnds
    <3> QED BY <2>5, <3>2, <3>3 DEF Has
  <2> QED BY <2>2, <2>3, <2>4, <2>5 DEF Kinds
<1> QED BY <1>1, <1>2

LEMMA CloseWorks ==
  ASSUME tkind \in Kinds, h \in HandleType, HandleOK(h, tlog.died), NEW r \in transport_close
  PROVE  /\ Outcome(r)
         /\ r.ok => FreeWith(r.h, tlog.died)
<1> USE DEF Outcome, HandleOK, FreeWith, Processes, Pigweed
<1> DEFINE c == ClosedHandle
<1>0. Has(c, FALSE, "ok", h.proc, h.worker, h.errors)
  BY HandlesLeft
<1>1. CASE tkind \in {"process", "ssh", "pty"}
  <2> DEFINE x == [c EXCEPT !.proc = "none"]
             y == [c EXCEPT !.proc = "exited"]
  <2>1. r \in CloseProcess(c)
    BY <1>1 DEF transport_close, ProcessClose, PtyClose
  <2>2. (c.proc # "running" /\ r = OpOk(c)) \/ r = OpOk(x) \/ r = OpRaises(y)
    <3> HIDE DEF c
    <3> QED BY <2>1 DEF CloseProcess
  <2>3. Has(x, FALSE, "ok", "none", h.worker, h.errors) /\ Has(y, FALSE, "ok", "exited", h.worker, h.errors)
    BY HandlesLeft
  <2> HIDE DEF x, y, c
  <2>4. \/ c.proc # "running" /\ r.ok = TRUE /\ r.h = c
        \/ r.ok = TRUE /\ r.h = x
        \/ r.ok = FALSE /\ r.h = y
    BY <2>2, OperationEnds
  <2> QED BY <1>0, <1>1, <2>3, <2>4 DEF Has
<1>2. CASE tkind = "jlink"
  <2>1. r = OpOk(c)
    BY <1>2 DEF transport_close, JLinkClose
  <2> HIDE DEF c
  <2>2. r.ok = TRUE /\ r.h = c
    BY <2>1, OperationEnds
  <2> QED BY <1>0, <1>2, <2>2 DEF Has
<1>3. CASE tkind \in {"serial", "tcp", "websocket", "pwserial", "pwsocket"} /\ ~ is_open
  <2>1. r = OpOk(h)
    BY <1>3 DEF transport_close
  <2>2. r.ok = TRUE /\ r.h = h
    BY <2>1, OperationEnds
  <2>3. h.fd \in BOOLEAN /\ h.worker \in {"none", "alive", "dead"}
    BY HandleFields
  <2> QED BY <1>3, <2>2, <2>3 DEF is_open, WorkerAlive
<1>4. CASE tkind \in {"serial", "tcp", "websocket"} /\ is_open
  <2>1. r = OpOk(c) \/ r = OpRaises(h)
    BY <1>4 DEF transport_close, SerialClose, TcpClose, WebSocketClose
  <2> HIDE DEF c
  <2>2. (r.ok = TRUE /\ r.h = c) \/ (r.ok = FALSE /\ r.h = h)
    BY <2>1, OperationEnds
  <2> QED BY <1>0, <1>4, <2>2 DEF Has
<1>5. CASE tkind \in {"pwserial", "pwsocket"} /\ is_open
  <2> DEFINE joined == [h EXCEPT !.worker = "none"]
             x == [joined EXCEPT !.fd = FALSE, !.peer = "ok"]
  <2>1. r \in {IF e.ok THEN OpOk([e.h EXCEPT !.fd = FALSE, !.peer = "ok"]) ELSE e : e \in ClientClose}
    BY <1>5 DEF transport_close, PwSerialClose, PwSocketClose
  <2>2. \A e \in ClientClose : (e.ok /\ e.h = joined) \/ (~ e.ok /\ e = OpRaises(h))
    BY DEF ClientClose, OpOk, OpRaises
  <2>3. r = OpOk(x) \/ r = OpRaises(h)
    BY <2>1, <2>2
  <2>4. Has(x, FALSE, "ok", h.proc, "none", h.errors)
    BY HandlesLeft
  <2> HIDE DEF x
  <2>5. (r.ok = TRUE /\ r.h = x) \/ (r.ok = FALSE /\ r.h = h)
    BY <2>3, OperationEnds
  <2> QED BY <1>5, <2>4, <2>5 DEF Has
<1> QED BY <1>1, <1>2, <1>3, <1>4, <1>5 DEF Kinds

-----------------------------------------------------------------------------
(* The rest of the state.                                                  *)

\* A log with these fields.
LogHas(g, mode, sent, row, did, dropped, died, opened) ==
  /\ g \in TlogType
  /\ g.mode = mode /\ g.sent = sent /\ g.row = row /\ g.did = did
  /\ (g.dropped <=> dropped) /\ (g.died <=> died) /\ (g.opened <=> opened)

LEMMA LogFields ==
  ASSUME NEW g \in TlogType
  PROVE  /\ g.auto \in BOOLEAN /\ g.mode \in {"running", "reopening", "failed"} /\ g.sent \in Nat
         /\ g.losses \in Nat /\ g.commands \in Nat /\ g.row \in Nat
         /\ g.did \in {"none", "open", "closed"} /\ g.dropped \in BOOLEAN /\ g.died \in BOOLEAN
         /\ g.opened \in BOOLEAN
BY DEF TlogType

LEMMA LogCounts ==
  ASSUME NEW g \in TlogType
  PROVE  /\ LogHas([g EXCEPT !.sent = @ + 1],
                   g.mode, g.sent + 1, g.row, g.did, g.dropped, g.died, g.opened)
         /\ LogHas([g EXCEPT !.losses = @ + 1],
                   g.mode, g.sent, g.row, g.did, g.dropped, g.died, g.opened)
         /\ LogHas([g EXCEPT !.commands = @ + 1],
                   g.mode, g.sent, g.row, g.did, g.dropped, g.died, g.opened)
         /\ LogHas([g EXCEPT !.row = 0],
                   g.mode, g.sent, 0, g.did, g.dropped, g.died, g.opened)
         /\ LogHas([g EXCEPT !.row = @ + 1],
                   g.mode, g.sent, g.row + 1, g.did, g.dropped, g.died, g.opened)
<1>1. LogHas([g EXCEPT !.sent = @ + 1],
             g.mode, g.sent + 1, g.row, g.did, g.dropped, g.died, g.opened)
  BY DEF LogHas, TlogType
<1>2. LogHas([g EXCEPT !.losses = @ + 1],
             g.mode, g.sent, g.row, g.did, g.dropped, g.died, g.opened)
  BY DEF LogHas, TlogType
<1>3. LogHas([g EXCEPT !.commands = @ + 1],
             g.mode, g.sent, g.row, g.did, g.dropped, g.died, g.opened)
  BY DEF LogHas, TlogType
<1>4. LogHas([g EXCEPT !.row = 0], g.mode, g.sent, 0, g.did, g.dropped, g.died, g.opened)
  BY DEF LogHas, TlogType
<1>5. LogHas([g EXCEPT !.row = @ + 1],
             g.mode, g.sent, g.row + 1, g.did, g.dropped, g.died, g.opened)
  BY DEF LogHas, TlogType
<1> QED BY <1>1, <1>2, <1>3, <1>4, <1>5

LEMMA LogMode ==
  ASSUME NEW g \in TlogType
  PROVE  /\ \A m \in {"running", "reopening", "failed"} :
              LogHas([g EXCEPT !.mode = m],
                     m, g.sent, g.row, g.did, g.dropped, g.died, g.opened)
         /\ LogHas([g EXCEPT !.died = TRUE],
                   g.mode, g.sent, g.row, g.did, g.dropped, TRUE, g.opened)
<1>1. \A m \in {"running", "reopening", "failed"} :
        LogHas([g EXCEPT !.mode = m], m, g.sent, g.row, g.did, g.dropped, g.died, g.opened)
  BY DEF LogHas, TlogType
<1>2. LogHas([g EXCEPT !.died = TRUE],
             g.mode, g.sent, g.row, g.did, g.dropped, TRUE, g.opened)
  BY DEF LogHas, TlogType
<1> QED BY <1>1, <1>2

LEMMA LogAfterOpen ==
  ASSUME NEW g \in TlogType, NEW m \in {"running", "reopening", "failed"},
         NEW b \in BOOLEAN, NEW o \in BOOLEAN
  PROVE  LogHas([g EXCEPT !.mode = m, !.did = "open", !.dropped = b, !.opened = o],
                m, g.sent, g.row, "open", b, g.died, o)
BY DEF LogHas, TlogType

LEMMA LogAfterClose ==
  ASSUME NEW g \in TlogType, NEW m \in {"running", "reopening", "failed"},
         NEW d \in {"none", "open", "closed"}, NEW b \in BOOLEAN
  PROVE  LogHas([g EXCEPT !.mode = m, !.did = d, !.dropped = b],
                m, g.sent, g.row, d, b, g.died, g.opened)
BY DEF LogHas, TlogType

LEMMA LogAfterLoss ==
  ASSUME NEW g \in TlogType, NEW n \in Nat, NEW b \in BOOLEAN
  PROVE  LogHas([g EXCEPT !.losses = n, !.dropped = b],
                g.mode, g.sent, g.row, g.did, b, g.died, g.opened)
BY DEF LogHas, TlogType

-----------------------------------------------------------------------------
(* The messages.                                                           *)

LEMMA MessagesCut ==
  ASSUME TransportsTyped, TransportsTyped', MessagesOK, NEW rest \in Seq(Nat),
         Messages = Messages' \o rest, tlog'.sent = tlog.sent,
         tlog.dropped \/ rest # <<>> => tlog'.dropped
  PROVE  MessagesOK'
<1>1. /\ delivered' \in Seq(Nat) /\ logq' \in Seq(Nat) /\ inbound' \in Seq(Nat)
      /\ tlog \in TlogType
  BY DEF TransportsTyped
<1>2. tlog.sent \in Nat
  BY <1>1, LogFields
<1>3. Messages' \in Seq(Nat)
  BY <1>1 DEF Messages
<1> HIDE DEF Messages
<1> DEFINE s == Messages'
<1>4. Rising(s, tlog.sent)
  <2>1. s \in Seq(Nat) /\ Rising(s \o rest, tlog.sent)
    BY <1>3 DEF MessagesOK
  <2> HIDE DEF s
  <2> QED BY <1>2, <2>1, RisingPrefix
<1>5. rest = <<>> => Messages' = Messages
  <2>1. s \in Seq(Nat) /\ (rest = <<>> => Messages = s \o <<>>)
    BY <1>3
  <2> HIDE DEF s
  <2>2. s \o <<>> = s
    BY <2>1
  <2> QED BY <2>1, <2>2 DEF s
<1>6. Rising(Messages', tlog'.sent)
  BY <1>4
<1>7. ~ tlog'.dropped => Messages' = [i \in 1..tlog'.sent |-> i]
  BY <1>5 DEF MessagesOK
<1> QED BY <1>6, <1>7 DEF MessagesOK, Rising

LEMMA MessagesSame ==
  ASSUME MessagesOK, Messages' = Messages, tlog'.sent = tlog.sent,
         tlog.dropped => tlog'.dropped
  PROVE  MessagesOK'
BY DEF MessagesOK, Rising

LEMMA AppendLast ==
  ASSUME NEW S, NEW a \in Seq(S), NEW b \in Seq(S), NEW x \in S
  PROVE  a \o Append(b, x) = Append(a \o b, x)
<1>1. <<x>> \in Seq(S) /\ a \o b \in Seq(S)
  OBVIOUS
<1>2. Append(b, x) = b \o <<x>>
  BY AppendIsConcat
<1>3. Append(a \o b, x) = (a \o b) \o <<x>>
  BY <1>1, AppendIsConcat
<1>4. (a \o b) \o <<x>> = a \o (b \o <<x>>)
  BY <1>1, ConcatAssociative
<1> QED BY <1>2, <1>3, <1>4

-----------------------------------------------------------------------------
(* The steps of the other end and of the worker.                           *)

LEMMA DeviceSendsKeeps ==
  ASSUME TransportsInv, DeviceSends
  PROVE  TransportsInv'
<1> USE DEF TransportsInv
<1> DEFINE n == tlog.sent
<1>1. /\ tkind' = tkind /\ tlink' = tlink /\ h' = h /\ logq' = logq /\ delivered' = delivered
      /\ open_event' = open_event /\ inbound' = Append(inbound, n + 1)
      /\ tlog' = [tlog EXCEPT !.sent = @ + 1]
  BY DEF DeviceSends
<1>2. tlog \in TlogType /\ delivered \in Seq(Nat) /\ logq \in Seq(Nat) /\ inbound \in Seq(Nat)
  BY DEF TransportsTyped
<1>3. LogHas(tlog', tlog.mode, n + 1, tlog.row, tlog.did, tlog.dropped, tlog.died, tlog.opened)
  BY <1>1, <1>2, LogCounts
<1>4. n \in Nat
  BY <1>2, LogFields
<1>5. TransportsTyped'
  BY <1>1, <1>2, <1>3, <1>4 DEF TransportsTyped, LogHas
<1>6. HandleOK(h, tlog.died)' /\ QueueOK' /\ ErrorsOK' /\ ClosedIsFree' /\ OpenedIsOpen'
  BY <1>1, <1>3 DEF HandleOK, QueueOK, ErrorsOK, ClosedIsFree, OpenedIsOpen, LogHas, WorkerAlive
<1>7. Messages' = Append(Messages, n + 1)
  <2> DEFINE a == delivered \o logq
             x == n + 1
  <2>1. a \in Seq(Nat) /\ x \in Nat
    BY <1>2, <1>4
  <2> HIDE DEF a, x
  <2>2. a \o Append(inbound, x) = Append(a \o inbound, x)
    BY <1>2, <2>1, AppendLast
  <2> QED BY <1>1, <2>2 DEF Messages, a, x
<1>8. MessagesOK'
  <2>1. tlog'.sent = n + 1 /\ (tlog'.dropped <=> tlog.dropped)
    BY <1>3 DEF LogHas
  <2>2. Rising(Append(Messages, n + 1), n + 1)
    BY <1>4, RisingNext DEF MessagesOK
  <2>3. ~ tlog'.dropped => Messages' = [i \in 1..(n + 1) |-> i]
    BY <1>4, <1>7, <2>1, CountNext DEF MessagesOK
  <2>4. Rising(Messages', tlog'.sent)
    BY <1>7, <2>1, <2>2
  <2>5. ~ tlog'.dropped => Messages' = [i \in 1..tlog'.sent |-> i]
    BY <2>1, <2>3
  <2> QED BY <2>4, <2>5 DEF MessagesOK, Rising
<1> QED BY <1>5, <1>6, <1>8

LEMMA OtherEndKeeps ==
  ASSUME TransportsInv, OtherEndLeaves \/ OtherEndReturns \/ ProcessExits \/ WorkerFails
  PROVE  TransportsInv'
<1> USE DEF TransportsInv
<1>1. /\ tkind' = tkind /\ inbound' = inbound /\ logq' = logq /\ delivered' = delivered
      /\ open_event' = open_event /\ tlink' \in {"up", "down"}
  BY DEF OtherEndLeaves, OtherEndReturns, ProcessExits, WorkerFails, TransportsTyped
<1>2. /\ tlog \in TlogType /\ h \in HandleType
  BY DEF TransportsTyped
<1> DEFINE worker == h.worker = "alive" /\ h'.worker = "dead"
<1>3. /\ LogHas(tlog', tlog.mode, tlog.sent, tlog.row, tlog.did, tlog.dropped, tlog'.died, tlog.opened)
      /\ tlog.died => tlog'.died
      /\ worker => tlog'.died
  <2>1. CASE OtherEndLeaves
    <3>1. h'.worker = h.worker /\ tlog' = [tlog EXCEPT !.losses = @ + 1]
      BY <1>2, <2>1, HandleChanged DEF OtherEndLeaves, Has
    <3>2. LogHas([tlog EXCEPT !.losses = @ + 1], tlog.mode, tlog.sent, tlog.row, tlog.did,
                 tlog.dropped, tlog.died, tlog.opened)
      BY <1>2, LogCounts
    <3> QED BY <3>1, <3>2 DEF LogHas
  <2>2. CASE OtherEndReturns \/ ProcessExits
    <3>1. tlog' = tlog /\ h'.worker = h.worker
      <4>1. CASE OtherEndReturns
        BY <4>1 DEF OtherEndReturns
      <4>2. CASE ProcessExits
        <5>1. tlog' = tlog /\ h' = [h EXCEPT !.proc = "exited"]
          BY <4>2 DEF ProcessExits
        <5>2. Has([h EXCEPT !.proc = "exited"], h.fd, h.peer, "exited", h.worker, h.errors)
          BY <1>2, HandleChanged
        <5> QED BY <5>1, <5>2 DEF Has
      <4> QED BY <2>2, <4>1, <4>2
    <3>2. LogHas(tlog, tlog.mode, tlog.sent, tlog.row, tlog.did, tlog.dropped, tlog.died,
                 tlog.opened)
      BY <1>2 DEF LogHas
    <3> QED BY <3>1, <3>2
  <2>3. CASE WorkerFails
    <3>1. tlog' = [tlog EXCEPT !.died = TRUE]
      BY <2>3 DEF WorkerFails
    <3>2. LogHas([tlog EXCEPT !.died = TRUE], tlog.mode, tlog.sent, tlog.row, tlog.did,
                 tlog.dropped, TRUE, tlog.opened)
      BY <1>2, LogMode
    <3> QED BY <3>1, <3>2 DEF LogHas
  <2> QED BY <2>1, <2>2, <2>3
<1>4. /\ h' \in HandleType /\ (h'.fd <=> h.fd) /\ h'.errors = h.errors
      /\ \/ h'.proc = h.proc /\ h'.worker = h.worker
         \/ h'.proc = "exited" /\ h.proc = "running" /\ h'.worker = h.worker
         \/ worker /\ h'.proc = h.proc /\ tkind = "pwserial"
  <2>1. CASE OtherEndLeaves
    BY <1>2, <2>1, HandleChanged DEF OtherEndLeaves, Has
  <2>2. CASE OtherEndReturns
    BY <1>2, <2>2 DEF OtherEndReturns
  <2>3. CASE ProcessExits
    <3>1. h' = [h EXCEPT !.proc = "exited"] /\ h.proc = "running"
      BY <2>3 DEF ProcessExits
    <3>2. Has([h EXCEPT !.proc = "exited"], h.fd, h.peer, "exited", h.worker, h.errors)
      BY <1>2, HandleChanged
    <3> QED BY <3>1, <3>2 DEF Has
  <2>4. CASE WorkerFails
    <3>1. h' = [h EXCEPT !.worker = "dead"] /\ tkind = "pwserial" /\ h.worker = "alive"
      BY <2>4 DEF WorkerFails, WorkerAlive
    <3>2. Has([h EXCEPT !.worker = "dead"], h.fd, h.peer, h.proc, "dead", h.errors)
      BY <1>2, HandleChanged
    <3> QED BY <3>1, <3>2 DEF Has
  <2> QED BY <2>1, <2>2, <2>3, <2>4
<1>5. TransportsTyped'
  BY <1>1, <1>3, <1>4 DEF TransportsTyped, LogHas
<1>6. HandleOK(h, tlog.died)'
  BY <1>1, <1>3, <1>4 DEF HandleOK, Pigweed
<1>7. QueueOK' /\ ErrorsOK' /\ OpenedIsOpen'
  BY <1>1, <1>3, <1>4 DEF QueueOK, ErrorsOK, OpenedIsOpen, LogHas
<1>8. ClosedIsFree'
  BY <1>1, <1>3, <1>4 DEF ClosedIsFree, LogHas, WorkerAlive
<1>9. MessagesOK'
  BY <1>1, <1>3, MessagesSame DEF Messages, LogHas
<1> QED BY <1>5, <1>6, <1>7, <1>8, <1>9

LEMMA ThreeParts ==
  ASSUME NEW d \in Seq(Nat), NEW l \in Seq(Nat), NEW i \in Seq(Nat)
  PROVE  (d \o l) \o i = d \o (l \o i)
<1> DEFINE S == Nat
<1>1. d \in Seq(S) /\ l \in Seq(S) /\ i \in Seq(S)
  OBVIOUS
<1> HIDE DEF S
<1> QED BY <1>1, ConcatAssociative, SMTT(40)

LEMMA WorkerReadsKeeps ==
  ASSUME TransportsInv, WorkerReads
  PROVE  TransportsInv'
<1> USE DEF TransportsInv
<1>1. /\ UNCHANGED <<tkind, tlink, h, delivered, open_event, tlog>>
      /\ logq' = Append(logq, Head(inbound)) /\ inbound' = Tail(inbound) /\ inbound # <<>>
      /\ WorkerAlive
  BY DEF WorkerReads
<1>2. delivered \in Seq(Nat) /\ logq \in Seq(Nat) /\ inbound \in Seq(Nat)
  BY DEF TransportsTyped
<1>3. /\ logq' \in Seq(Nat) /\ inbound' \in Seq(Nat) /\ logq' \o inbound' = logq \o inbound
  <2>1. inbound # <<>>
    BY <1>1
  <2>2. /\ Append(logq, Head(inbound)) \o Tail(inbound) = logq \o inbound
        /\ Append(logq, Head(inbound)) \in Seq(Nat) /\ Tail(inbound) \in Seq(Nat)
    BY <1>2, <2>1, HeadMoves
  <2> QED BY <1>1, <2>2
<1>4. Messages' = Messages
  <2>1. (delivered \o logq) \o inbound = delivered \o (logq \o inbound)
    BY <1>2, ThreeParts
  <2>2. (delivered \o logq') \o inbound' = delivered \o (logq' \o inbound')
    <3> DEFINE l == logq'
               i == inbound'
    <3>1. delivered \in Seq(Nat) /\ l \in Seq(Nat) /\ i \in Seq(Nat)
      BY <1>2, <1>3
    <3> HIDE DEF l, i
    <3>2. (delivered \o l) \o i = delivered \o (l \o i)
      BY <3>1, ThreeParts
    <3> QED BY <3>2 DEF l, i
  <2>3. (delivered \o logq') \o inbound' = delivered \o (logq \o inbound)
    BY <1>3, <2>2
  <2>4. (delivered \o logq') \o inbound' = (delivered \o logq) \o inbound
    BY <2>1, <2>3
  <2> QED BY <1>1, <2>4 DEF Messages
<1>5. MessagesOK'
  BY <1>1, <1>4, MessagesSame
<1>6. TransportsTyped'
  BY <1>1, <1>3 DEF TransportsTyped
<1>7. HandleOK(h, tlog.died)' /\ QueueOK' /\ ErrorsOK' /\ ClosedIsFree' /\ OpenedIsOpen'
  BY <1>1 DEF HandleOK, QueueOK, ErrorsOK, ClosedIsFree, OpenedIsOpen, WorkerAlive
<1> QED BY <1>5, <1>6, <1>7

-----------------------------------------------------------------------------
(* open() and close(), by a command or by the loop.                        *)

LEMMA ChangeDiscards ==
  ASSUME TransportsTyped, NEW g \in HandleType, Discard(g), delivered' = delivered
  PROVE  /\ logq' \in Seq(Nat) /\ inbound' \in Seq(Nat)
         /\ logq = <<>> => logq' = <<>>
         /\ \E rest \in Seq(Nat) :
              Messages = Messages' \o rest /\ (tlog.dropped \/ rest # <<>> => LosesUnread(g))
<1> DEFINE same == g.fd = h.fd /\ g.worker = h.worker /\ g.proc = h.proc
           rest == logq \o inbound
<1>1. delivered \in Seq(Nat) /\ logq \in Seq(Nat) /\ inbound \in Seq(Nat)
  BY DEF TransportsTyped
<1>2. CASE same
  <2>1. logq' = logq /\ inbound' = inbound
    BY <1>2 DEF Discard
  <2>2. Messages \in Seq(Nat) /\ Messages' = Messages
    BY <1>1, <2>1 DEF Messages
  <2>3. <<>> \in Seq(Nat) /\ Messages = Messages' \o <<>>
    BY <2>2
  <2>4. tlog.dropped \/ <<>> # <<>> => LosesUnread(g)
    BY DEF LosesUnread
  <2> QED BY <1>1, <2>1, <2>3, <2>4
<1>3. CASE ~ same
  <2>1. logq' = <<>> /\ inbound' = <<>>
    BY <1>3 DEF Discard
  <2>2. rest \in Seq(Nat) /\ Messages = delivered \o rest
    <3>1. rest \in Seq(Nat)
      BY <1>1
    <3>2. (delivered \o logq) \o inbound = delivered \o (logq \o inbound)
      BY <1>1, ThreeParts
    <3> QED BY <3>1, <3>2 DEF Messages
  <2>3. Messages' = delivered
    <3>1. Messages' = (delivered \o <<>>) \o <<>>
      BY <2>1 DEF Messages
    <3> QED BY <1>1, <3>1
  <2>4. rest # <<>> => inbound \o logq # <<>>
    <3>1. inbound \o logq = <<>> => inbound = <<>> /\ logq = <<>>
      BY <1>1, ConcatEmptySeq
    <3> QED BY <1>1, <3>1
  <2>5. tlog.dropped \/ rest # <<>> => LosesUnread(g)
    BY <1>3, <2>4 DEF LosesUnread
  <2>6. <<>> \in Seq(Nat)
    OBVIOUS
  <2> HIDE DEF rest
  <2> QED BY <2>1, <2>2, <2>3, <2>5, <2>6
<1> QED BY <1>2, <1>3

\* A log that a command or the loop may pass to open() or close().
NextLog(next) ==
  /\ next \in TlogType
  /\ next.sent = tlog.sent /\ next.row = tlog.row
  /\ (next.died <=> tlog.died) /\ (next.opened <=> tlog.opened)

LEMMA OpenKeeps ==
  ASSUME TransportsInv, tlog.mode # "failed", NEW next, NextLog(next), OpenTransport(next)
  PROVE  TransportsInv'
<1> USE DEF TransportsInv
<1> USE TransportsAssumption
<1>1. tkind \in Kinds /\ h \in HandleType /\ tlog \in TlogType /\ open_event \in BOOLEAN
  BY DEF TransportsTyped, Kinds
<1>2. PICK r \in transport_open :
        /\ UNCHANGED <<tkind, tlink, delivered>>
        /\ h' = r.h /\ Discard(r.h) /\ open_event' = (IF r.ok THEN TRUE ELSE open_event)
        /\ tlog' = [next EXCEPT !.mode = IF r.ok THEN "running" ELSE "failed", !.did = "open",
                                !.dropped = LosesUnread(r.h), !.opened = r.ok => is_open']
  BY DEF OpenTransport
<1>3. Outcome(r) /\ (r.ok /\ tkind # "ssh" => IsOpenWith(r.h))
  BY <1>1, OpenWorks
<1>4. tkind' = tkind /\ tlink' = tlink /\ delivered' = delivered /\ h' = r.h
  BY <1>2
<1>5. is_open' <=> IsOpenWith(r.h)
  BY <1>1, <1>4 DEF is_open, IsOpenWith, WorkerAlive, Processes, Pigweed, Kinds
<1> DEFINE m == IF r.ok THEN "running" ELSE "failed"
           b == LosesUnread(r.h)
           o == r.ok => is_open'
<1>6. b \in BOOLEAN /\ o \in BOOLEAN /\ m \in {"running", "reopening", "failed"}
      /\ (o \/ tkind = "ssh")
  <2>1. b \in BOOLEAN
    BY <1>1, LogFields DEF LosesUnread
  <2>2. m \in {"running", "reopening", "failed"}
    OBVIOUS
  <2>3. o \in BOOLEAN
    OBVIOUS
  <2>4. o \/ tkind = "ssh"
    BY <1>3, <1>5
  <2> QED BY <2>1, <2>2, <2>3, <2>4
<1>7. tlog' = [next EXCEPT !.mode = m, !.did = "open", !.dropped = b, !.opened = o]
  BY <1>2
<1> HIDE DEF m, b, o
<1>8. LogHas(tlog', m, tlog.sent, tlog.row, "open", b, tlog.died, o)
  <2>1. next \in TlogType /\ next.sent = tlog.sent /\ next.row = tlog.row /\ (next.died <=> tlog.died)
    BY DEF NextLog
  <2>2. LogHas([next EXCEPT !.mode = m, !.did = "open", !.dropped = b, !.opened = o],
               m, next.sent, next.row, "open", b, next.died, o)
    BY <1>6, <2>1, LogAfterOpen
  <2> QED BY <1>7, <2>1, <2>2 DEF LogHas
<1>9. Discard(r.h) /\ r.h \in HandleType
  BY <1>2, <1>3 DEF Outcome
<1>10. /\ logq' \in Seq(Nat) /\ inbound' \in Seq(Nat)
       /\ logq = <<>> => logq' = <<>>
       /\ \E rest \in Seq(Nat) :
            Messages = Messages' \o rest /\ (tlog.dropped \/ rest # <<>> => LosesUnread(r.h))
  BY <1>4, <1>9, ChangeDiscards
<1>11. TransportsTyped'
  <2>1. open_event' \in BOOLEAN
    BY <1>1, <1>2
  <2>2. tlog' \in TlogType /\ h' \in HandleType
    BY <1>4, <1>8, <1>9 DEF LogHas
  <2> QED BY <1>4, <1>10, <2>1, <2>2 DEF TransportsTyped
<1>12. MessagesOK'
  <2>1. PICK rest \in Seq(Nat) :
          Messages = Messages' \o rest /\ (tlog.dropped \/ rest # <<>> => LosesUnread(r.h))
    BY <1>10
  <2>2. tlog'.sent = tlog.sent /\ (tlog.dropped \/ rest # <<>> => tlog'.dropped)
    BY <1>8, <2>1 DEF LogHas, b
  <2> QED BY <1>11, <2>1, <2>2, MessagesCut
<1>13. HandleOK(h, tlog.died)'
  <2>1. HandleOK(r.h, tlog.died)
    BY <1>3 DEF Outcome
  <2>2. tlog'.died <=> tlog.died
    BY <1>8 DEF LogHas
  <2> QED BY <1>4, <2>1, <2>2 DEF HandleOK, Pigweed, Processes
<1>14. QueueOK'
  BY <1>4, <1>10 DEF QueueOK, Pigweed
<1>15. ErrorsOK'
  <2>1. h.errors \in Nat /\ tlog.row \in Nat /\ h'.errors = h.errors /\ tlog'.row = tlog.row
    BY <1>1, <1>3, <1>4, <1>8, HandleFields, LogFields DEF Outcome, LogHas
  <2>2. h.errors <= MaxReadErrors /\ tlog.row <= h.errors
    BY DEF ErrorsOK
  <2> QED BY <2>1, <2>2 DEF ErrorsOK
<1>16. ClosedIsFree' /\ OpenedIsOpen'
  BY <1>4, <1>6, <1>8 DEF ClosedIsFree, OpenedIsOpen, LogHas
<1> QED BY <1>11, <1>12, <1>13, <1>14, <1>15, <1>16

LEMMA CloseKeeps ==
  ASSUME TransportsInv, tlog.mode # "failed", NEW next, NextLog(next), CloseTransport(next)
  PROVE  TransportsInv'
<1> USE DEF TransportsInv
<1> USE TransportsAssumption
<1>1. tkind \in Kinds /\ h \in HandleType /\ tlog \in TlogType
  BY DEF TransportsTyped, Kinds
<1>2. PICK r \in transport_close :
        /\ h' = r.h /\ Discard(r.h) /\ open_event' = FALSE
        /\ tlog' = [next EXCEPT !.mode = IF r.ok THEN @ ELSE "failed",
                                !.did = IF r.ok THEN "closed" ELSE "none",
                                !.dropped = LosesUnread(r.h)]
        /\ UNCHANGED <<tkind, tlink, delivered>>
  BY DEF CloseTransport
<1>3. Outcome(r) /\ (r.ok => FreeWith(r.h, tlog.died))
  BY <1>1, CloseWorks
<1>4. tkind' = tkind /\ tlink' = tlink /\ delivered' = delivered /\ h' = r.h
  BY <1>2
<1>5. /\ next \in TlogType /\ next.sent = tlog.sent /\ next.row = tlog.row
      /\ (next.died <=> tlog.died) /\ (next.opened <=> tlog.opened)
  BY DEF NextLog
<1> DEFINE m == IF r.ok THEN next.mode ELSE "failed"
           d == IF r.ok THEN "closed" ELSE "none"
           b == LosesUnread(r.h)
<1>6. b \in BOOLEAN /\ d \in {"none", "open", "closed"} /\ m \in {"running", "reopening", "failed"}
  BY <1>1, <1>5, LogFields DEF LosesUnread
<1>7. tlog' = [next EXCEPT !.mode = m, !.did = d, !.dropped = b]
  BY <1>2
<1>8. LogHas(tlog', m, tlog.sent, tlog.row, d, b, tlog.died, tlog.opened)
  <2> HIDE DEF m, d, b
  <2>1. LogHas([next EXCEPT !.mode = m, !.did = d, !.dropped = b],
               m, next.sent, next.row, d, b, next.died, next.opened)
    BY <1>5, <1>6, LogAfterClose
  <2> QED BY <1>5, <1>7, <2>1 DEF LogHas
<1>9. Discard(r.h) /\ r.h \in HandleType
  BY <1>2, <1>3 DEF Outcome
<1>10. /\ logq' \in Seq(Nat) /\ inbound' \in Seq(Nat)
       /\ logq = <<>> => logq' = <<>>
       /\ \E rest \in Seq(Nat) :
            Messages = Messages' \o rest /\ (tlog.dropped \/ rest # <<>> => LosesUnread(r.h))
  BY <1>4, <1>9, ChangeDiscards
<1>11. TransportsTyped'
  <2>1. open_event' \in BOOLEAN
    BY <1>2
  <2>2. tlog' \in TlogType /\ h' \in HandleType
    BY <1>4, <1>8, <1>9 DEF LogHas
  <2> QED BY <1>4, <1>10, <2>1, <2>2 DEF TransportsTyped
<1>12. MessagesOK'
  <2>1. PICK rest \in Seq(Nat) :
          Messages = Messages' \o rest /\ (tlog.dropped \/ rest # <<>> => LosesUnread(r.h))
    BY <1>10
  <2>2. tlog'.sent = tlog.sent /\ (tlog.dropped \/ rest # <<>> => tlog'.dropped)
    BY <1>8, <2>1 DEF LogHas
  <2> QED BY <1>11, <2>1, <2>2, MessagesCut
<1>13. HandleOK(h, tlog.died)'
  <2>1. HandleOK(r.h, tlog.died)
    BY <1>3 DEF Outcome
  <2>2. tlog'.died <=> tlog.died
    BY <1>8 DEF LogHas
  <2> QED BY <1>4, <2>1, <2>2 DEF HandleOK, Pigweed, Processes
<1>14. QueueOK'
  BY <1>4, <1>10 DEF QueueOK, Pigweed
<1>15. ErrorsOK'
  <2>1. h.errors \in Nat /\ tlog.row \in Nat /\ h'.errors = h.errors /\ tlog'.row = tlog.row
    BY <1>1, <1>3, <1>4, <1>8, HandleFields, LogFields DEF Outcome, LogHas
  <2>2. h.errors <= MaxReadErrors /\ tlog.row <= h.errors
    BY DEF ErrorsOK
  <2> QED BY <2>1, <2>2 DEF ErrorsOK
<1>16. OpenedIsOpen'
  BY <1>4, <1>8 DEF OpenedIsOpen, LogHas
<1>17. ClosedIsFree'
  <2>1. tlog'.did = "closed" => FreeWith(r.h, tlog.died)
    BY <1>3, <1>8 DEF LogHas
  <2>2. tlog'.died <=> tlog.died
    BY <1>8 DEF LogHas
  <2>3. FreeWith(r.h, tlog.died) =>
          (~ h'.fd /\ h'.proc # "running" /\ h'.worker # "alive") \/ (tlog'.died /\ tkind' = "pwserial")
    BY <1>4, <2>2 DEF FreeWith
  <2> QED BY <2>1, <2>3 DEF ClosedIsFree, WorkerAlive
<1> QED BY <1>11, <1>12, <1>13, <1>14, <1>15, <1>16, <1>17

LEMMA CommandKeeps ==
  ASSUME TransportsInv, CommandOpen \/ CommandClose
  PROVE  TransportsInv'
<1> DEFINE next == [tlog EXCEPT !.commands = @ + 1]
<1>1. tlog \in TlogType /\ tlog.mode = "running"
  BY DEF TransportsInv, TransportsTyped, CommandOpen, CommandClose, CommandComes
<1>2. NextLog(next)
  <2>1. LogHas(next, tlog.mode, tlog.sent, tlog.row, tlog.did, tlog.dropped, tlog.died,
               tlog.opened)
    BY <1>1, LogCounts
  <2> HIDE DEF next
  <2> QED BY <2>1 DEF LogHas, NextLog
<1>3. OpenTransport(next) \/ CloseTransport(next)
  BY DEF CommandOpen, CommandClose
<1> HIDE DEF next
<1> QED BY <1>1, <1>2, <1>3, OpenKeeps, CloseKeeps

LEMMA LoopOpensKeeps ==
  ASSUME TransportsInv, ClosedUnexpectedly \/ Reopens
  PROVE  TransportsInv'
<1>1. tlog \in TlogType /\ tlog.mode # "failed"
  BY DEF TransportsInv, TransportsTyped, ClosedUnexpectedly, Reopens
<1>2. CASE ClosedUnexpectedly
  <2> DEFINE m == IF tlog.auto THEN "reopening" ELSE "running"
             next == [tlog EXCEPT !.mode = m]
  <2>1. CloseTransport(next)
    BY <1>2 DEF ClosedUnexpectedly
  <2>2. NextLog(next)
    <3>1. m \in {"running", "reopening", "failed"}
      OBVIOUS
    <3> HIDE DEF m
    <3>2. LogHas(next, m, tlog.sent, tlog.row, tlog.did, tlog.dropped, tlog.died, tlog.opened)
      BY <1>1, <3>1, LogMode
    <3> HIDE DEF next
    <3> QED BY <3>2 DEF LogHas, NextLog
  <2> HIDE DEF next
  <2> QED BY <1>1, <2>1, <2>2, CloseKeeps
<1>3. CASE Reopens
  <2>1. NextLog(tlog)
    BY <1>1 DEF NextLog
  <2>2. OpenTransport(tlog)
    BY <1>3 DEF Reopens
  <2> QED BY <1>1, <2>1, <2>2, OpenKeeps
<1> QED BY <1>2, <1>3

-----------------------------------------------------------------------------
(* The reads.                                                              *)

\* A message moves from the queue it is read from to what was delivered.
LEMMA ReadMoves ==
  ASSUME TransportsTyped, logq' \in Seq(Nat), inbound' \in Seq(Nat),
         NEW q \in Seq(Nat), ReadsFrom(q),
         \/ q = logq /\ logq' = Tail(q) /\ inbound' = inbound
         \/ q = inbound /\ inbound' = Tail(q) /\ logq = <<>> /\ logq' = <<>>
  PROVE  delivered' \in Seq(Nat) /\ Messages' = Messages
<1>1. delivered \in Seq(Nat) /\ logq \in Seq(Nat) /\ inbound \in Seq(Nat)
  BY DEF TransportsTyped
<1>2. q # <<>> /\ delivered' = Append(delivered, Head(q))
  BY DEF ReadsFrom
<1>3. /\ Append(delivered, Head(q)) \o Tail(q) = delivered \o q
      /\ Append(delivered, Head(q)) \in Seq(Nat) /\ Tail(q) \in Seq(Nat)
  BY <1>1, <1>2, HeadMoves
<1>4. delivered' \in Seq(Nat) /\ delivered' \o Tail(q) = delivered \o q
  BY <1>2, <1>3
<1>5. CASE q = logq /\ logq' = Tail(q) /\ inbound' = inbound
  BY <1>4, <1>5 DEF Messages
<1>6. CASE q = inbound /\ inbound' = Tail(q) /\ logq = <<>> /\ logq' = <<>>
  <2>1. delivered \o logq = delivered /\ delivered' \o logq' = delivered'
    BY <1>1, <1>4, <1>6
  <2> QED BY <1>4, <1>6, <2>1 DEF Messages
<1> QED BY <1>4, <1>5, <1>6

LEMMA PlainReadKeeps ==
  ASSUME TransportsInv, ReadPlain \/ ReadLogQueue
  PROVE  TransportsInv'
<1> USE DEF TransportsInv
<1>1. /\ tkind' = tkind /\ tlink' = tlink /\ h' = h /\ tlog' = tlog /\ open_event' = TRUE
  BY DEF ReadPlain, ReadLogQueue
<1>2. delivered \in Seq(Nat) /\ logq \in Seq(Nat) /\ inbound \in Seq(Nat)
  BY DEF TransportsTyped
<1>3. \/ /\ ReadsFrom(logq) /\ logq' = Tail(logq) /\ inbound' = inbound /\ tkind \in Pigweed
      \/ /\ ReadsFrom(inbound) /\ inbound' = Tail(inbound) /\ logq = <<>> /\ logq' = <<>>
  BY DEF ReadPlain, ReadLogQueue, QueueOK
<1>4. logq' \in Seq(Nat) /\ inbound' \in Seq(Nat)
  <2>1. CASE ReadsFrom(logq) /\ logq' = Tail(logq) /\ inbound' = inbound
    <3>1. logq # <<>>
      BY <2>1 DEF ReadsFrom
    <3>2. Tail(logq) \in Seq(Nat)
      BY <1>2, <3>1, HeadMoves
    <3> QED BY <1>2, <2>1, <3>2
  <2>2. CASE ReadsFrom(inbound) /\ inbound' = Tail(inbound) /\ logq = <<>> /\ logq' = <<>>
    <3>1. inbound # <<>>
      BY <2>2 DEF ReadsFrom
    <3>2. Tail(inbound) \in Seq(Nat)
      BY <1>2, <3>1, HeadMoves
    <3> QED BY <1>2, <2>2, <3>2
  <2> QED BY <1>3, <2>1, <2>2
<1>5. delivered' \in Seq(Nat) /\ Messages' = Messages
  <2>1. CASE ReadsFrom(logq) /\ logq' = Tail(logq) /\ inbound' = inbound
    BY <1>2, <1>4, <2>1, ReadMoves
  <2>2. CASE ReadsFrom(inbound) /\ inbound' = Tail(inbound) /\ logq = <<>> /\ logq' = <<>>
    BY <1>2, <1>4, <2>2, ReadMoves
  <2> QED BY <1>3, <2>1, <2>2
<1>6. TransportsTyped'
  BY <1>1, <1>4, <1>5 DEF TransportsTyped
<1>7. MessagesOK'
  BY <1>1, <1>5, MessagesSame
<1>8. HandleOK(h, tlog.died)' /\ QueueOK' /\ ErrorsOK' /\ ClosedIsFree' /\ OpenedIsOpen'
  BY <1>1, <1>3 DEF HandleOK, QueueOK, ErrorsOK, ClosedIsFree, OpenedIsOpen, WorkerAlive
<1> QED BY <1>6, <1>7, <1>8

LEMMA TcpResetKeeps ==
  ASSUME TransportsInv, TcpReset
  PROVE  TransportsInv'
<1> USE DEF TransportsInv
<1>1. /\ UNCHANGED <<tkind, tlink, h, inbound, logq, delivered, open_event>>
      /\ tlog' = [tlog EXCEPT !.mode = "failed"]
  BY DEF TcpReset
<1>2. tlog \in TlogType /\ tlog.mode = "running" /\ h \in HandleType
  BY DEF TransportsTyped, TcpReset, ReadPossible
<1>3. LogHas(tlog', "failed", tlog.sent, tlog.row, tlog.did, tlog.dropped, tlog.died,
             tlog.opened)
  BY <1>1, <1>2, LogMode
<1>4. TransportsTyped'
  BY <1>1, <1>3 DEF TransportsTyped, LogHas
<1>5. MessagesOK'
  BY <1>1, <1>3, MessagesSame DEF LogHas, Messages
<1>6. HandleOK(h, tlog.died)' /\ QueueOK' /\ ClosedIsFree' /\ OpenedIsOpen'
  BY <1>1, <1>3 DEF HandleOK, QueueOK, ClosedIsFree, OpenedIsOpen, WorkerAlive, LogHas
<1>7. ErrorsOK'
  <2>1. h.errors \in Nat /\ h' = h /\ tlog'.row = tlog.row
    BY <1>1, <1>2, <1>3, HandleFields DEF LogHas
  <2>2. h.errors <= MaxReadErrors /\ tlog.row <= h.errors /\ tlog.row <= MaxReadErrors
    BY <1>2 DEF ErrorsOK
  <2> QED BY <2>1, <2>2, TransportsAssumption DEF ErrorsOK
<1> QED BY <1>4, <1>5, <1>6, <1>7

LEMMA SerialIsOpen ==
  ASSUME tkind = "serial", h \in HandleType, is_open
  PROVE  h.fd
<1>1. h.fd \in BOOLEAN
  BY HandleFields
<1>2. tkind \in {"serial", "tcp", "websocket"} /\ tkind \notin Processes
      /\ tkind \notin {"jlink", "pwserial", "pwsocket"}
  BY DEF Processes
<1> QED BY <1>1, <1>2 DEF is_open

LEMMA SerialReadKeeps ==
  ASSUME TransportsInv, SerialRead
  PROVE  TransportsInv'
<1> USE DEF TransportsInv
<1> DEFINE n == IF h.errors > 0 THEN h.errors - 1 ELSE 0
<1>1. /\ tkind' = tkind /\ tlink' = tlink /\ logq' = logq /\ open_event' = TRUE
      /\ h' = [h EXCEPT !.errors = n] /\ tlog' = [tlog EXCEPT !.row = 0]
      /\ tkind = "serial" /\ tlog.mode = "running" /\ h.fd
      /\ \/ ReadsFrom(inbound) /\ inbound' = Tail(inbound)
         \/ inbound' = inbound /\ delivered' = delivered
  <2>1. /\ tkind' = tkind /\ tlink' = tlink /\ logq' = logq /\ open_event' = TRUE
        /\ h' = [h EXCEPT !.errors = n] /\ tlog' = [tlog EXCEPT !.row = 0]
        /\ tkind = "serial" /\ ReadPossible
    BY DEF SerialRead, SerialReadOk
  <2>2. \/ ReadsFrom(inbound) /\ inbound' = Tail(inbound)
        \/ inbound' = inbound /\ delivered' = delivered
    BY DEF SerialRead
  <2>3. tlog.mode = "running" /\ h.fd
    BY <2>1, SerialIsOpen DEF ReadPossible, TransportsTyped
  <2> QED BY <2>1, <2>2, <2>3
<1>2. /\ tlog \in TlogType /\ h \in HandleType
      /\ delivered \in Seq(Nat) /\ logq \in Seq(Nat) /\ inbound \in Seq(Nat)
  BY DEF TransportsTyped
<1>3. h.errors \in Nat /\ n \in Nat /\ n <= h.errors
  BY <1>2, HandleFields
<1>4. Has(h', h.fd, h.peer, h.proc, h.worker, n)
  <2> HIDE DEF n
  <2>1. Has([h EXCEPT !.errors = n], h.fd, h.peer, h.proc, h.worker, n)
    BY <1>2, <1>3, HandleChanged
  <2> QED BY <1>1, <2>1
<1>5. LogHas(tlog', tlog.mode, tlog.sent, 0, tlog.did, tlog.dropped, tlog.died, tlog.opened)
  <2>1. LogHas([tlog EXCEPT !.row = 0], tlog.mode, tlog.sent, 0, tlog.did, tlog.dropped,
               tlog.died, tlog.opened)
    BY <1>2, LogCounts
  <2> QED BY <1>1, <2>1
<1> HIDE DEF n
<1>6. logq = <<>> /\ logq' = <<>>
  BY <1>1 DEF QueueOK, Pigweed
<1>7. inbound' \in Seq(Nat)
  <2>1. CASE ReadsFrom(inbound) /\ inbound' = Tail(inbound)
    <3>1. inbound # <<>>
      BY <2>1 DEF ReadsFrom
    <3>2. Tail(inbound) \in Seq(Nat)
      BY <1>2, <3>1, HeadMoves
    <3> QED BY <2>1, <3>2
  <2> QED BY <1>1, <1>2, <2>1
<1>8. delivered' \in Seq(Nat) /\ Messages' = Messages
  <2>1. CASE ReadsFrom(inbound) /\ inbound' = Tail(inbound)
    BY <1>2, <1>6, <1>7, <2>1, ReadMoves
  <2>2. CASE inbound' = inbound /\ delivered' = delivered
    BY <1>1, <1>2, <2>2 DEF Messages
  <2> QED BY <1>1, <2>1, <2>2
<1>9. TransportsTyped'
  BY <1>1, <1>2, <1>4, <1>5, <1>7, <1>8 DEF TransportsTyped, Has, LogHas
<1>10. MessagesOK'
  <2>1. tlog'.sent = tlog.sent /\ (tlog.dropped => tlog'.dropped)
    BY <1>5 DEF LogHas
  <2> QED BY <1>8, <2>1, MessagesSame
<1>11. HandleOK(h, tlog.died)' /\ QueueOK'
  BY <1>1, <1>4, <1>6 DEF HandleOK, QueueOK, Pigweed, Processes, Has
<1>12. ClosedIsFree' /\ OpenedIsOpen'
  BY <1>1, <1>4, <1>5 DEF ClosedIsFree, OpenedIsOpen, WorkerAlive, Has, LogHas
<1>13. ErrorsOK'
  <2>1. h'.errors = n /\ tlog'.row = 0 /\ tlog'.mode = "running"
    BY <1>1, <1>4, <1>5 DEF Has, LogHas
  <2>2. h.errors <= MaxReadErrors
    BY <1>1 DEF ErrorsOK
  <2> QED BY <1>3, <2>1, <2>2, TransportsAssumption DEF ErrorsOK
<1> QED BY <1>9, <1>10, <1>11, <1>12, <1>13

\* The handle and the log after a serial read that failed.
LEMMA SerialFailure ==
  ASSUME TransportsTyped, SerialReadFails
  PROVE  /\ h' \in HandleType /\ h'.proc = h.proc /\ h'.worker = h.worker
         /\ h'.errors = h.errors + 1
         /\ \E m \in {"running", "failed"} :
              /\ LogHas(tlog', m, tlog.sent, IF m = "running" THEN tlog.row + 1 ELSE tlog.row,
                        tlog.did, tlog.dropped \/ inbound # <<>>, tlog.died, tlog.opened)
              /\ m = "running" => h'.errors <= MaxReadErrors
<1> DEFINE after == SerialReadError(h)
           reopens == after.errors <= MaxReadErrors
           k == IF h.peer = "lost" THEN tlog.losses ELSE tlog.losses + 1
           b == tlog.dropped \/ inbound # <<>>
           next == [tlog EXCEPT !.losses = k, !.dropped = b]
           again == [next EXCEPT !.row = @ + 1]
           ends == [next EXCEPT !.mode = "failed"]
           reopened == [after EXCEPT !.peer = "ok"]
           gone == [after EXCEPT !.fd = FALSE, !.peer = "ok"]
<1>1. tlog.mode = "running" /\ h \in HandleType /\ tlog \in TlogType
  BY DEF TransportsTyped, SerialReadFails, ReadPossible
<1>2. \/ reopens /\ h' = reopened /\ tlog' = again
      \/ h' = gone /\ tlog' = ends
      \/ h' = after /\ tlog' = ends
  BY DEF SerialReadFails
<1>3. h.errors \in Nat /\ tlog.losses \in Nat /\ tlog.row \in Nat /\ tlog.dropped \in BOOLEAN
  BY <1>1, HandleFields, LogFields
<1>4. k \in Nat /\ b \in BOOLEAN
  BY <1>3
<1>5. Has(after, h.fd, h.peer, h.proc, h.worker, h.errors + 1)
  <2> DEFINE e == h.errors + 1
  <2>1. after = [h EXCEPT !.errors = e]
    BY DEF SerialReadError
  <2>2. e \in Nat
    BY <1>3
  <2> HIDE DEF e, after
  <2>3. Has([h EXCEPT !.errors = e], h.fd, h.peer, h.proc, h.worker, e)
    BY <1>1, <2>2, HandleChanged
  <2> QED BY <2>1, <2>3 DEF e
<1> HIDE DEF after, k, b
<1>6. LogHas(next, tlog.mode, tlog.sent, tlog.row, tlog.did, b, tlog.died, tlog.opened)
  BY <1>1, <1>4, LogAfterLoss
<1> HIDE DEF next
<1>7. next \in TlogType
  BY <1>6 DEF LogHas
<1>8. /\ LogHas(again, "running", tlog.sent, tlog.row + 1, tlog.did, b, tlog.died, tlog.opened)
      /\ LogHas(ends, "failed", tlog.sent, tlog.row, tlog.did, b, tlog.died, tlog.opened)
  <2>1. LogHas(again, next.mode, next.sent, next.row + 1, next.did, next.dropped, next.died,
               next.opened)
    BY <1>7, LogCounts
  <2>2. LogHas(ends, "failed", next.sent, next.row, next.did, next.dropped, next.died,
               next.opened)
    BY <1>7, LogMode
  <2> HIDE DEF again, ends
  <2> QED BY <1>1, <1>6, <2>1, <2>2 DEF LogHas
<1>9. after \in HandleType
  BY <1>5 DEF Has
<1>10. /\ Has(reopened, after.fd, "ok", after.proc, after.worker, after.errors)
       /\ Has(gone, FALSE, "ok", after.proc, after.worker, after.errors)
  BY <1>9, HandleChanged
<1> HIDE DEF again, ends, reopened, gone
<1>11. /\ h' \in HandleType /\ h'.proc = h.proc /\ h'.worker = h.worker
       /\ h'.errors = h.errors + 1
  BY <1>2, <1>5, <1>10 DEF Has
<1>12. CASE reopens /\ h' = reopened /\ tlog' = again
  <2>1. h'.errors <= MaxReadErrors
    BY <1>10, <1>12 DEF Has
  <2>2. LogHas(tlog', "running", tlog.sent, tlog.row + 1, tlog.did, b, tlog.died, tlog.opened)
    BY <1>8, <1>12
  <2> QED BY <1>11, <2>1, <2>2 DEF b
<1>13. CASE tlog' = ends
  <2>1. LogHas(tlog', "failed", tlog.sent, tlog.row, tlog.did, b, tlog.died, tlog.opened)
    BY <1>8, <1>13
  <2> QED BY <1>11, <2>1 DEF b
<1> QED BY <1>2, <1>12, <1>13

LEMMA SerialReadFailsKeeps ==
  ASSUME TransportsInv, SerialReadFails
  PROVE  TransportsInv'
<1> USE DEF TransportsInv
<1>1. /\ tkind' = tkind /\ tlink' = tlink /\ logq' = logq /\ delivered' = delivered
      /\ open_event' = open_event /\ inbound' = <<>>
      /\ tkind = "serial" /\ tlog.mode = "running" /\ h.fd
  <2>1. /\ tkind' = tkind /\ tlink' = tlink /\ logq' = logq /\ delivered' = delivered
        /\ open_event' = open_event /\ inbound' = <<>> /\ tkind = "serial" /\ ReadPossible
    BY DEF SerialReadFails
  <2>2. tlog.mode = "running" /\ h.fd
    BY <2>1, SerialIsOpen DEF ReadPossible, TransportsTyped
  <2> QED BY <2>1, <2>2
<1>2. /\ tlog \in TlogType /\ h \in HandleType
      /\ delivered \in Seq(Nat) /\ logq \in Seq(Nat) /\ inbound \in Seq(Nat)
  BY DEF TransportsTyped
<1>3. /\ h' \in HandleType /\ h'.proc = h.proc /\ h'.worker = h.worker
      /\ h'.errors = h.errors + 1
  BY SerialFailure
<1>4. PICK m \in {"running", "failed"} :
        /\ LogHas(tlog', m, tlog.sent, IF m = "running" THEN tlog.row + 1 ELSE tlog.row,
                  tlog.did, tlog.dropped \/ inbound # <<>>, tlog.died, tlog.opened)
        /\ m = "running" => h'.errors <= MaxReadErrors
  BY SerialFailure
<1>5. logq = <<>> /\ logq' = <<>> /\ h.worker = "none"
  BY <1>1 DEF QueueOK, HandleOK, Pigweed
<1>6. TransportsTyped'
  <2>1. inbound' \in Seq(Nat)
    BY <1>1
  <2> QED BY <1>1, <1>2, <1>3, <1>4, <2>1 DEF TransportsTyped, LogHas
<1>7. MessagesOK'
  <2>1. Messages = Messages' \o inbound
    <3>1. Messages' = delivered
      BY <1>1, <1>2, <1>5 DEF Messages
    <3>2. delivered \o logq = delivered
      BY <1>2, <1>5
    <3> QED BY <3>1, <3>2 DEF Messages
  <2>2. tlog'.sent = tlog.sent /\ (tlog.dropped \/ inbound # <<>> => tlog'.dropped)
    BY <1>4 DEF LogHas
  <2> QED BY <1>2, <1>6, <2>1, <2>2, MessagesCut
<1>8. HandleOK(h, tlog.died)' /\ QueueOK'
  BY <1>1, <1>3, <1>5 DEF HandleOK, QueueOK, Pigweed, Processes
<1>9. tlog.did # "closed"
  BY <1>1 DEF ClosedIsFree
<1>10. ClosedIsFree' /\ OpenedIsOpen'
  BY <1>1, <1>4, <1>9 DEF ClosedIsFree, OpenedIsOpen, LogHas
<1>11. ErrorsOK'
  <2>1. h.errors \in Nat /\ tlog.row \in Nat
    BY <1>2, HandleFields, LogFields
  <2>2. h.errors <= MaxReadErrors /\ tlog.row <= h.errors /\ tlog.row <= MaxReadErrors
    BY <1>1 DEF ErrorsOK
  <2>3. tlog'.mode = m /\ tlog'.row = IF m = "running" THEN tlog.row + 1 ELSE tlog.row
    BY <1>4 DEF LogHas
  <2>4. CASE m = "running"
    BY <1>3, <1>4, <2>1, <2>2, <2>3, <2>4, TransportsAssumption DEF ErrorsOK
  <2>5. CASE m = "failed"
    BY <1>3, <2>1, <2>2, <2>3, <2>5, TransportsAssumption DEF ErrorsOK
  <2> QED BY <2>4, <2>5
<1> QED BY <1>6, <1>7, <1>8, <1>10, <1>11

-----------------------------------------------------------------------------
(* The theorem.                                                            *)

LEMMA TransportsStart ==
  ASSUME TransportsInit
  PROVE  TransportsInv
<1>1. /\ tkind \in TransportKinds /\ tlink = "up"
      /\ h = [fd |-> FALSE, peer |-> "ok", proc |-> "none", worker |-> "none", errors |-> 0]
      /\ inbound = <<>> /\ logq = <<>> /\ delivered = <<>> /\ open_event = FALSE
  BY DEF TransportsInit
<1>2. PICK auto \in BOOLEAN :
        tlog = [auto |-> auto, mode |-> "running", sent |-> 0, losses |-> 0, commands |-> 0, row |-> 0,
                did |-> "none", dropped |-> FALSE, died |-> FALSE, opened |-> TRUE]
  BY DEF TransportsInit
<1>3. h \in HandleType /\ ~ h.fd /\ h.proc = "none" /\ h.worker = "none" /\ h.errors = 0
  BY <1>1 DEF HandleType
<1>4. /\ tlog \in TlogType /\ tlog.mode = "running" /\ tlog.sent = 0 /\ tlog.row = 0
      /\ tlog.did = "none" /\ tlog.opened
  BY <1>2 DEF TlogType
<1>5. TransportsTyped
  <2>1. <<>> \in Seq(Nat)
    OBVIOUS
  <2> QED BY <1>1, <1>3, <1>4, <2>1 DEF TransportsTyped
<1>6. HandleOK(h, tlog.died) /\ QueueOK /\ ErrorsOK /\ ClosedIsFree /\ OpenedIsOpen
  BY <1>1, <1>3, <1>4, TransportsAssumption
     DEF HandleOK, QueueOK, ErrorsOK, ClosedIsFree, OpenedIsOpen
<1>7. MessagesOK
  <2>1. Messages = <<>>
    BY <1>1 DEF Messages
  <2>2. Rising(<<>>, 0)
    <3>1. <<>> \in Seq(1..0) /\ DOMAIN <<>> = {}
      OBVIOUS
    <3> QED BY <3>1 DEF Rising
  <2>3. [i \in 1..0 |-> i] = <<>>
    <3> DEFINE e == [i \in 1..0 |-> i]
    <3>1. e \in Seq(Nat) /\ Len(e) = 0
      OBVIOUS
    <3> HIDE DEF e
    <3>2. e = <<>>
      BY <3>1, EmptySeq
    <3> QED BY <3>2 DEF e
  <2> QED BY <1>4, <2>1, <2>2, <2>3 DEF MessagesOK
<1> QED BY <1>5, <1>6, <1>7 DEF TransportsInv

LEMMA TransportsStep ==
  ASSUME TransportsInv, [TransportsNext]_trVars
  PROVE  TransportsInv'
<1>1. CASE UNCHANGED trVars
  <2>1. /\ tkind' = tkind /\ tlink' = tlink /\ h' = h /\ inbound' = inbound /\ logq' = logq
        /\ delivered' = delivered /\ open_event' = open_event /\ tlog' = tlog
    BY <1>1 DEF trVars
  <2>2. TransportsTyped' /\ HandleOK(h, tlog.died)' /\ QueueOK' /\ ErrorsOK'
    BY <2>1 DEF TransportsInv, TransportsTyped, HandleOK, QueueOK, ErrorsOK
  <2>3. ClosedIsFree' /\ OpenedIsOpen'
    BY <2>1 DEF TransportsInv, ClosedIsFree, OpenedIsOpen, WorkerAlive
  <2>4. MessagesOK'
    BY <2>1, MessagesSame DEF TransportsInv, Messages
  <2> QED BY <2>2, <2>3, <2>4 DEF TransportsInv
<1>2. CASE TransportsNext
  BY <1>2, DeviceSendsKeeps, OtherEndKeeps, WorkerReadsKeeps, CommandKeeps, LoopOpensKeeps,
     PlainReadKeeps, TcpResetKeeps, SerialReadKeeps, SerialReadFailsKeeps DEF TransportsNext
<1> QED BY <1>1, <1>2

LEMMA TransportsInvImplies ==
  ASSUME TransportsInv
  PROVE  NothingHeldOrLost
<1> USE DEF TransportsInv
<1>1. /\ tlog \in TlogType /\ h \in HandleType /\ tlink \in {"up", "down"}
      /\ open_event \in BOOLEAN
      /\ delivered \in Seq(Nat) /\ logq \in Seq(Nat) /\ inbound \in Seq(Nat)
  BY DEF TransportsTyped
<1>2. TransportsTypeOK
  <2>1. WorkerAlive => h.fd
    BY DEF WorkerAlive, HandleOK
  <2>2. tlog.mode \in {"running", "reopening", "failed"}
    BY <1>1, LogFields
  <2> QED BY <1>1, <2>1, <2>2, HandleFields DEF TransportsTypeOK
<1>3. ReadsWhatWasSent
  <2>1. tlog.sent \in Nat /\ delivered \o logq \in Seq(Nat)
    BY <1>1, LogFields
  <2>2. Rising(delivered \o logq, tlog.sent)
    <3> DEFINE a == delivered \o logq
    <3>1. a \in Seq(Nat) /\ Rising(a \o inbound, tlog.sent)
      BY <2>1 DEF MessagesOK, Messages
    <3> HIDE DEF a
    <3>2. Rising(a, tlog.sent)
      BY <1>1, <2>1, <3>1, RisingPrefix
    <3> QED BY <3>2 DEF a
  <2>3. Rising(delivered, tlog.sent)
    BY <1>1, <2>1, <2>2, RisingPrefix
  <2>4. ~ tlog.dropped => delivered \o logq \o inbound = [i \in 1..tlog.sent |-> i]
    BY DEF MessagesOK, Messages
  <2> QED BY <2>3, <2>4 DEF ReadsWhatWasSent, Rising
<1>4. ReadErrorsBounded
  <2>1. h.errors \in Nat
    BY <1>1, HandleFields
  <2> QED BY <2>1, TransportsAssumption DEF ErrorsOK, ReadErrorsBounded
<1> QED BY <1>2, <1>3, <1>4 DEF NothingHeldOrLost

\* After close() has returned a transport holds no port, socket, process or thread, open()
\* leaves it open, and what read() returns is what the device sent, in order and once, for
\* every kind of transport (transports/*.py, transport_process.py _do_work).
THEOREM TransportsHoldNothing == TransportsSpec => []NothingHeldOrLost
<1>1. TransportsInit => TransportsInv
  BY TransportsStart
<1>2. TransportsInv /\ [TransportsNext]_trVars => TransportsInv'
  BY TransportsStep
<1>3. TransportsInv => NothingHeldOrLost
  BY TransportsInvImplies
<1> QED BY <1>1, <1>2, <1>3, PTL DEF TransportsSpec

-----------------------------------------------------------------------------
(* The endpoints of a Matter node (MatterEndpoints).                       *)

\* Numbers that are not none have a least one.
LEMMA LeastElement ==
  ASSUME NEW T \in SUBSET Nat, T # {}
  PROVE  \E x \in T : \A y \in T : x <= y
<1> DEFINE R == OpToRel(<, Nat)
<1>1. IsWellFoundedOn(R, Nat)
  BY NatLessThanWellFounded
<1>2. \A x, y \in Nat : x < y => <<x, y>> \in R
  BY DEF OpToRel
<1> HIDE DEF R
<1>3. PICK x \in T : \A y \in T : ~ (<<y, x>> \in R)
  BY <1>1, WFMin
<1>4. \A y \in T : y \in Nat /\ x \in Nat /\ ~ (y < x)
  BY <1>2, <1>3
<1> QED BY <1>4

\* No device type ID has two classes.
LEMMA OneClassPerType ==
  ASSUME NEW c \in EndpointClasses, NEW d \in EndpointClasses, DeviceTypeId[c] = DeviceTypeId[d]
  PROVE  c = d
BY DEF EndpointClasses, DeviceTypeId, AirQualitySensorBase, ColorTemperatureLightBase,
  ContactSensorBase, DimmableLightBase, DoorLockBase, ExtendedColorLightBase, FanBase,
  FlowSensorBase, GenericSwitchBase, HeatingCoolingUnitBase, HumiditySensorBase,
  LightSensorBase, OccupancySensorBase, OnOffLightBase, OnOffLightSwitchBase,
  OnOffPluginUnitBase, PressureSensorBase, PumpBase, RoomAirConditionerBase, RootNodeBase,
  SpeakerBase, TemperatureSensorBase, ThermostatBase, WindowCoveringBase

\* Every alias is named for a class.
LEMMA AliasesAreClasses == Aliases \subseteq EndpointClasses
BY DEF Aliases, AliasesAToH, AliasesLToP, AliasesPToW, EndpointClasses, DeviceTypeId

\* The class of a device type ID.
LEMMA ClassOfType ==
  ASSUME NEW type, NEW c \in EndpointClasses
  PROVE  ClassOf(type) = c <=> DeviceTypeId[c] = type
<1>1. "unsupported" \notin EndpointClasses
  BY DEF EndpointClasses, DeviceTypeId
<1>2. CASE \E d \in EndpointClasses : DeviceTypeId[d] = type
  <2>1. /\ ClassOf(type) \in EndpointClasses /\ DeviceTypeId[ClassOf(type)] = type
    BY <1>2 DEF ClassOf
  <2> QED BY <2>1, OneClassPerType
<1>3. CASE ~ \E d \in EndpointClasses : DeviceTypeId[d] = type
  BY <1>1, <1>3 DEF ClassOf
<1> QED BY <1>2, <1>3

-----------------------------------------------------------------------------

\* The nodes, their endpoints, and the node of the device or controller.
NodesTyped ==
  /\ epVia \in {"pw_rpc", "chip_tool"}
  /\ epBoard \in [Nodes -> Seq(NodeEndpoint)] /\ epNext \in [Nodes -> Seq(NodeEndpoint)]
  /\ epNode \in Nodes \cup {NoNode} /\ epPaired \subseteq Nodes
  /\ epVia = "pw_rpc" => epNode \in Nodes

\* What a mapping is made of, also when it was cut short: clusters only of endpoints
\* whose class is known, and names only of such.
MapShaped(m) ==
  /\ DOMAIN m.clusters \subseteq DOMAIN m.classOf
  /\ \A c \in DOMAIN m.idOf : m.idOf[c] \in DOMAIN m.classOf

\* The mapping is of the first endpoints of the present node and firmware.
FetchedHere(m) ==
  /\ epNode \in Nodes
  /\ \E k \in 0..Len(Parts(epNode)), b \in BOOLEAN :
       /\ b => k < Len(Parts(epNode))
       /\ m = Fetched(epNode, k, b)

MapOK ==
  /\ MapShaped(epMap)
  /\ DOMAIN epMap.classOf # {} /\ ~ epOld => FetchedHere(epMap)

\* Every object was made from the mapping there is.
ObjectsOK ==
  /\ DOMAIN epObjects \subseteq DOMAIN epMap.clusters
  /\ \A id \in DOMAIN epObjects :
       epObjects[id] = [class |-> epMap.classOf[id], clusters |-> epMap.clusters[id],
                        of |-> epMap.of]

\* All reports in the file are of the subscription started last.
SubsOK ==
  /\ epSubs \in Nat /\ epSubNo \in Nat /\ epSubs <= epSubNo
  /\ epLog \in Seq(Nat) /\ \A i \in DOMAIN epLog : epLog[i] = epSubNo

EndpointsInv ==
  /\ NodesTyped /\ MapOK /\ ObjectsOK /\ SubsOK /\ NodeIsPaired
  /\ AliasFitsNode /\ ClusterFitsEndpoint /\ ReportsAreFresh

-----------------------------------------------------------------------------
LEMMA PartsAre ==
  ASSUME NodesTyped, NEW n \in Nodes
  PROVE  /\ Len(Parts(n)) \in Nat \ {0} /\ Len(Parts(n)) = Len(epBoard[n]) + 1
<1>1. epBoard[n] \in Seq(NodeEndpoint) /\ <<RootNode>> \in Seq({RootNode})
  BY DEF NodesTyped
<1>2. Len(<<RootNode>> \o epBoard[n]) = Len(<<RootNode>>) + Len(epBoard[n])
  <2> DEFINE S == NodeEndpoint \cup {RootNode}
  <2>1. epBoard[n] \in Seq(S) /\ <<RootNode>> \in Seq(S)
    BY <1>1
  <2> HIDE DEF S
  <2> QED BY <2>1
<1> QED BY <1>1, <1>2 DEF Parts

\* What a fetch of the first endpoints has found.
LEMMA FetchedClasses ==
  ASSUME NEW n, NEW k \in Nat, NEW b \in BOOLEAN, NEW m, m = Fetched(n, k, b)
  PROVE  /\ m.of = Here
         /\ DOMAIN m.classOf = IF b THEN 0 .. k ELSE 0 .. (k - 1)
         /\ \A i \in DOMAIN m.classOf : m.classOf[i] = ReadClass(n, i)
BY DEF Fetched

LEMMA FetchedClusters ==
  ASSUME NEW n, NEW k \in Nat, NEW b \in BOOLEAN, NEW m, m = Fetched(n, k, b)
  PROVE  /\ DOMAIN m.clusters = 0 .. (k - 1)
         /\ \A i \in DOMAIN m.clusters : m.clusters[i] = ReadClusters(n, i)
BY DEF Fetched

LEMMA FetchedNames ==
  ASSUME NEW n, NEW k \in Nat, NEW b \in BOOLEAN, NEW m, m = Fetched(n, k, b)
  PROVE  \A c \in DOMAIN m.idOf :
           /\ m.idOf[c] \in DOMAIN m.classOf /\ ReadClass(n, m.idOf[c]) = c
           /\ \A i \in DOMAIN m.classOf : ReadClass(n, i) = c => m.idOf[c] <= i
<1> DEFINE known == IF b THEN 0 .. k ELSE 0 .. (k - 1)
           class(c) == {i \in known : ReadClass(n, i) = c}
<1>1. /\ DOMAIN m.classOf = known
      /\ m.idOf = [c \in {ReadClass(n, i) : i \in known} |->
                     CHOOSE i \in class(c) : \A j \in class(c) : i <= j]
  BY DEF Fetched
<1>2. known \in SUBSET Nat
  OBVIOUS
<1> HIDE DEF known
<1>3. ASSUME NEW c \in DOMAIN m.idOf
      PROVE  /\ m.idOf[c] \in class(c) /\ \A j \in class(c) : m.idOf[c] <= j
  <2>1. c \in {ReadClass(n, i) : i \in known}
    BY <1>1, <1>3
  <2>2. class(c) \in SUBSET Nat /\ class(c) # {}
    BY <1>2, <2>1
  <2>3. m.idOf[c] = CHOOSE i \in class(c) : \A j \in class(c) : i <= j
    BY <1>1, <2>1
  <2> HIDE DEF class
  <2>4. \E i \in class(c) : \A j \in class(c) : i <= j
    BY <2>2, LeastElement
  <2> QED BY <2>3, <2>4
<1> QED BY <1>1, <1>3

\* The mapping of the present node, endpoint by endpoint.
LEMMA FetchedHereIs ==
  ASSUME NodesTyped, NEW m, FetchedHere(m)
  PROVE  LET last == Len(Parts(epNode)) - 1
         IN  /\ m.of = Here /\ MapShaped(m)
             /\ DOMAIN m.classOf \subseteq 0 .. last
             /\ \A i \in DOMAIN m.classOf : m.classOf[i] = ReadClass(epNode, i)
             /\ \A i \in DOMAIN m.clusters : m.clusters[i] = ReadClusters(epNode, i)
             /\ \A c \in DOMAIN m.idOf :
                  /\ ReadClass(epNode, m.idOf[c]) = c
                  /\ \A i \in 0 .. last : ReadClass(epNode, i) = c => m.idOf[c] <= i
<1> DEFINE L == Len(Parts(epNode))
<1>1. PICK k \in 0..L, b \in BOOLEAN : (b => k < L) /\ m = Fetched(epNode, k, b)
  BY DEF FetchedHere
<1>2. epNode \in Nodes
  BY DEF FetchedHere
<1>3. L \in Nat
  BY <1>2, PartsAre
<1> HIDE DEF L
<1>4. k \in Nat /\ b \in BOOLEAN /\ m = Fetched(epNode, k, b)
  BY <1>1, <1>3
<1>5. /\ m.of = Here
      /\ DOMAIN m.classOf = IF b THEN 0 .. k ELSE 0 .. (k - 1)
      /\ \A i \in DOMAIN m.classOf : m.classOf[i] = ReadClass(epNode, i)
  BY <1>4, FetchedClasses
<1>6. /\ DOMAIN m.clusters = 0 .. (k - 1)
      /\ \A i \in DOMAIN m.clusters : m.clusters[i] = ReadClusters(epNode, i)
  BY <1>4, FetchedClusters
<1>7. \A c \in DOMAIN m.idOf :
        /\ m.idOf[c] \in DOMAIN m.classOf /\ ReadClass(epNode, m.idOf[c]) = c
        /\ \A i \in DOMAIN m.classOf : ReadClass(epNode, i) = c => m.idOf[c] <= i
  BY <1>4, FetchedNames
<1>8. /\ DOMAIN m.clusters \subseteq DOMAIN m.classOf
      /\ DOMAIN m.classOf \subseteq 0 .. (L - 1)
      /\ \A i \in 0 .. (L - 1), j \in DOMAIN m.classOf : i \notin DOMAIN m.classOf => j <= i
  BY <1>1, <1>3, <1>4, <1>5, <1>6
<1>9. \A c \in DOMAIN m.idOf : \A i \in 0 .. (L - 1) :
        ReadClass(epNode, i) = c => m.idOf[c] <= i
  BY <1>7, <1>8
<1>10. MapShaped(m)
  BY <1>7, <1>8 DEF MapShaped
<1> QED BY <1>5, <1>6, <1>7, <1>8, <1>9, <1>10 DEF L

\* The mappings after an access to them are of the present node, or as old as before.
LEMMA AccessFetches ==
  ASSUME NodesTyped, MapOK, epNode # NoNode, NEW m \in MapsAfter \cup MapsAfterFailure
  PROVE  /\ MapShaped(m)
         /\ DOMAIN m.classOf # {} /\ ~ epOld => FetchedHere(m)
         /\ DOMAIN epMap.classOf # {} => m = epMap
         /\ DOMAIN epMap.classOf = {} /\ DOMAIN m.classOf # {} => FetchedHere(m)
<1> DEFINE L == Len(Parts(epNode))
<1>0. epNode \in Nodes
  BY DEF NodesTyped
<1>1. L \in Nat \ {0}
  BY <1>0, PartsAre
<1>2. CASE m = epMap /\ DOMAIN epMap.classOf # {}
  BY <1>2 DEF MapOK
<1>3. CASE DOMAIN epMap.classOf = {} /\ m = EmptyMap
  BY <1>3 DEF EmptyMap, NoFunction, MapShaped
<1>4. CASE DOMAIN epMap.classOf = {} /\ m = Fetched(epNode, L, FALSE)
  <2>0. L \in 0..L /\ FALSE \in BOOLEAN
    BY <1>1
  <2>1. FetchedHere(m)
    BY <1>0, <1>4, <2>0 DEF FetchedHere
  <2> QED BY <1>4, <2>1, FetchedHereIs
<1>5. CASE /\ DOMAIN epMap.classOf = {}
           /\ \E k \in 0 .. (L - 1), b \in BOOLEAN : m = Fetched(epNode, k, b)
  <2>1. PICK k \in 0 .. (L - 1), b \in BOOLEAN : m = Fetched(epNode, k, b)
    BY <1>5
  <2>2. k \in 0..L /\ k < L
    BY <1>1, <2>1
  <2>3. FetchedHere(m)
    BY <1>0, <2>1, <2>2 DEF FetchedHere
  <2> QED BY <1>5, <2>3, FetchedHereIs
<1>6. CASE m \in MapsAfter
  BY <1>2, <1>4, <1>6 DEF MapsAfter
<1>7. CASE m \in MapsAfterFailure
  <2>1. DOMAIN epMap.classOf = {}
    BY <1>7 DEF MapsAfterFailure
  <2>2. m = EmptyMap \/ \E k \in 0 .. (L - 1), b \in BOOLEAN : m = Fetched(epNode, k, b)
    <3>1. m \in {EmptyMap} \cup {Fetched(epNode, k, b) : k \in 0 .. (L - 1), b \in BOOLEAN}
      BY <1>7, <2>1 DEF MapsAfterFailure
    <3> HIDE DEF L
    <3> QED BY <3>1
  <2> QED BY <1>3, <1>5, <2>1, <2>2
<1> QED BY <1>6, <1>7

-----------------------------------------------------------------------------
nodeVars == <<epVia, epBoard, epVersion, epNode>>

\* As long as the node stays as it is, so does what a mapping of it says.
LEMMA NodeStays ==
  ASSUME UNCHANGED nodeVars
  PROVE  Here' = Here /\ Parts(epNode)' = Parts(epNode) /\ Implemented' = Implemented
BY DEF nodeVars, Here, Parts, Implemented

LEMMA MapOfNode ==
  ASSUME UNCHANGED nodeVars, NEW m, FetchedHere(m), epMap' = m
  PROVE  FetchedHere(epMap)'
<1>1. UNCHANGED <<epVia, epBoard, epVersion, epNode>>
  BY DEF nodeVars
<1>2. PICK k \in 0..Len(Parts(epNode)), b \in BOOLEAN :
         /\ epNode \in Nodes /\ (b => k < Len(Parts(epNode)))
         /\ m = Fetched(epNode, k, b)
  BY DEF FetchedHere
<1>3. Fetched(epNode, k, b)' = Fetched(epNode, k, b)
  <2> DEFINE known == IF b THEN 0 .. k ELSE 0 .. (k - 1)
             ids == 0 .. (k - 1)
             class(c) == {i \in known : ReadClass(epNode, i) = c}
             names == {ReadClass(epNode, i) : i \in known}
             cl == [i \in known |-> ReadClass(epNode, i)]
             id == [c \in names |-> CHOOSE i \in class(c) : \A j \in class(c) : i <= j]
             cs == [i \in ids |-> ReadClusters(epNode, i)]
  <2>1. Fetched(epNode, k, b) = [of |-> Here, classOf |-> cl, idOf |-> id, clusters |-> cs]
    BY DEF Fetched
  <2>2. Fetched(epNode, k, b)' = [of |-> Here', classOf |-> cl', idOf |-> id', clusters |-> cs']
    BY DEF Fetched
  <2>3. cl' = cl
    BY <1>1 DEF Parts, ReadClass
  <2>4. cs' = cs
    BY <1>1 DEF Parts, ReadClusters, Implemented
  <2>5. names' = names
    BY <1>1 DEF Parts, ReadClass
  <2>6. \A c : class(c)' = class(c)
    BY <1>1 DEF Parts, ReadClass
  <2>7. id' = id
    <3> HIDE DEF names, class
    <3> QED BY <2>5, <2>6
  <2>8. Here' = Here
    BY NodeStays
  <2> HIDE DEF cl, cs, id
  <2> QED BY <2>1, <2>2, <2>3, <2>4, <2>7, <2>8
<1>4. Parts(epNode)' = Parts(epNode)
  BY NodeStays
<1> QED BY <1>1, <1>2, <1>3, <1>4 DEF FetchedHere

\* An error or nothing returned is no wrong answer.
LEMMA NothingToSay ==
  ASSUME epGot'.what \in {"nothing", "error"}
  PROVE  AliasFitsNode' /\ ClusterFitsEndpoint' /\ ReportsAreFresh'
BY DEF AliasFitsNode, ClusterFitsEndpoint, ReportsAreFresh

\* get(): the object is that of the mapping.
LEMMA GetWithAnswers ==
  ASSUME MapOK, ObjectsOK, NEW m, MapShaped(m), DOMAIN epMap.classOf # {} => m = epMap,
         NEW id, NEW alias, GetWith(m, id, alias), epMap' = m
  PROVE  /\ ObjectsOK'
         /\ \/ epGot'.what = "error"
            \/ /\ id \in DOMAIN m.clusters
               /\ epGot' = [what |-> "endpoint", id |-> id, alias |-> alias,
                            is |-> [class |-> m.classOf[id], clusters |-> m.clusters[id],
                                    of |-> m.of]]
<1> DEFINE made(i) == [class |-> m.classOf[i], clusters |-> m.clusters[i], of |-> m.of]
           object == IF id \in DOMAIN epObjects THEN epObjects[id] ELSE made(id)
<1>1. /\ DOMAIN epObjects \subseteq DOMAIN m.clusters
      /\ \A i \in DOMAIN epObjects : epObjects[i] = made(i)
  BY DEF ObjectsOK, MapOK, MapShaped
<1>2. CASE epGot' = Failed("DeviceError") /\ UNCHANGED epObjects
  BY <1>1, <1>2 DEF Failed, ObjectsOK
<1>3. CASE epGot' = Failed("KeyError") /\ UNCHANGED epObjects
  BY <1>1, <1>3 DEF Failed, ObjectsOK
<1>4. CASE /\ id \in DOMAIN epObjects \cup DOMAIN m.clusters
           /\ epObjects' = [i \in DOMAIN epObjects \cup {id} |->
                              IF i = id THEN object ELSE epObjects[i]]
           /\ epGot' = [what |-> "endpoint", id |-> id, is |-> object, alias |-> alias]
  <2>1. object = made(id) /\ id \in DOMAIN m.clusters
    BY <1>1, <1>4
  <2>2. /\ DOMAIN epObjects' = DOMAIN epObjects \cup {id}
        /\ \A i \in DOMAIN epObjects' : epObjects'[i] = made(i)
    BY <1>1, <1>4, <2>1
  <2>3. ObjectsOK'
    BY <1>1, <2>1, <2>2 DEF ObjectsOK
  <2>4. epGot' = [what |-> "endpoint", id |-> id, alias |-> alias, is |-> made(id)]
    BY <1>4, <2>1
  <2> QED BY <2>1, <2>3, <2>4
<1> QED BY <1>2, <1>3, <1>4 DEF GetWith

\* An access keeps the mapping that of the node.
LEMMA AccessKeepsMap ==
  ASSUME EndpointsInv, epNode # NoNode, NEW m \in MapsAfter \cup MapsAfterFailure, epMap' = m,
         UNCHANGED nodeVars, epOld' = epOld
  PROVE  MapOK'
<1>1. MapShaped(m) /\ (DOMAIN m.classOf # {} /\ ~ epOld => FetchedHere(m))
  BY AccessFetches DEF EndpointsInv
<1>2. MapShaped(epMap)'
  BY <1>1 DEF MapShaped
<1>3. FetchedHere(m) => FetchedHere(epMap)'
  BY MapOfNode
<1> QED BY <1>1, <1>2, <1>3 DEF MapOK

\* What does not touch the accessor, the subscriptions or the fabric.
LEMMA AccessKeepsRest ==
  ASSUME EndpointsInv, UNCHANGED <<boardVars, controllerVars, subVars, epVia>>
  PROVE  NodesTyped' /\ SubsOK' /\ NodeIsPaired'
BY DEF EndpointsInv, NodesTyped, SubsOK, NodeIsPaired, boardVars, controllerVars, subVars

\* Each operation keeps the invariant: an access that fails first.
LEMMA FetchFailsKeeps == ASSUME EndpointsInv, FetchFails PROVE EndpointsInv'
<1>1. /\ UNCHANGED <<boardVars, controllerVars, subVars, epVia, epObjects, epOld>>
      /\ epNode # NoNode /\ epMap' \in MapsAfterFailure /\ epGot' = Failed("DeviceError")
  BY DEF FetchFails, Operation, Accessible
<1>2. UNCHANGED nodeVars
  BY <1>1 DEF nodeVars, boardVars, controllerVars
<1>3. PICK m \in MapsAfterFailure : epMap' = m
  BY <1>1
<1>4. MapOK'
  BY <1>1, <1>2, <1>3, AccessKeepsMap
<1>5. ObjectsOK'
  <2>1. DOMAIN epMap.classOf = {}
    BY <1>3 DEF MapsAfterFailure
  <2>2. DOMAIN epObjects = {}
    BY <2>1 DEF EndpointsInv, MapOK, MapShaped, ObjectsOK
  <2> QED BY <1>1, <2>2 DEF ObjectsOK
<1>6. epGot'.what = "error"
  BY <1>1 DEF Failed
<1> QED BY <1>1, <1>4, <1>5, <1>6, AccessKeepsRest, NothingToSay DEF EndpointsInv

\* Whatever asks for an endpoint object gets one of the mapping.
LEMMA AskedFor ==
  ASSUME EndpointsInv, epNode # NoNode, NEW m \in MapsAfter, epMap' = m,
         NEW id, NEW alias, GetWith(m, id, alias),
         UNCHANGED <<boardVars, controllerVars, subVars, epVia, epOld>>,
         alias # "none" =>
           alias \in Aliases /\ alias \in DOMAIN m.idOf /\ id = m.idOf[alias]
  PROVE  EndpointsInv'
<1> DEFINE last == Len(Parts(epNode)) - 1
<1>1. UNCHANGED nodeVars
  BY DEF nodeVars, boardVars, controllerVars
<1>2. /\ NodesTyped /\ MapOK /\ ObjectsOK
      /\ MapShaped(m) /\ (DOMAIN epMap.classOf # {} => m = epMap)
      /\ DOMAIN m.classOf # {} /\ ~ epOld => FetchedHere(m)
  BY AccessFetches DEF EndpointsInv
<1>3. /\ ObjectsOK'
      /\ \/ epGot'.what = "error"
         \/ /\ id \in DOMAIN m.clusters
            /\ epGot' = [what |-> "endpoint", id |-> id, alias |-> alias,
                         is |-> [class |-> m.classOf[id], clusters |-> m.clusters[id],
                                 of |-> m.of]]
  BY <1>2, GetWithAnswers
<1>4. MapOK'
  BY <1>1, AccessKeepsMap
<1>5. NodesTyped' /\ SubsOK' /\ NodeIsPaired'
  BY AccessKeepsRest
<1>6. CASE epGot'.what = "error"
  BY <1>3, <1>4, <1>5, <1>6, NothingToSay DEF EndpointsInv
<1>7. CASE /\ id \in DOMAIN m.clusters
           /\ epGot' = [what |-> "endpoint", id |-> id, alias |-> alias,
                        is |-> [class |-> m.classOf[id], clusters |-> m.clusters[id],
                                of |-> m.of]]
  <2>1. ClusterFitsEndpoint' /\ ReportsAreFresh'
    BY <1>7 DEF ClusterFitsEndpoint, ReportsAreFresh
  <2>2. ASSUME alias # "none", ~ epOld
        PROVE  /\ id \in 0..last /\ Parts(epNode)[id + 1].type = DeviceTypeId[alias]
               /\ \A i \in 0..last : Parts(epNode)[i + 1].type = DeviceTypeId[alias] => id <= i
               /\ m.classOf[id] = alias /\ m.of = Here
    <3>1. alias \in EndpointClasses
      BY <2>2, AliasesAreClasses
    <3>2. id \in DOMAIN m.classOf
      BY <1>2, <1>7 DEF MapShaped
    <3>3. FetchedHere(m)
      BY <1>2, <2>2, <3>2
    <3>4. /\ m.of = Here /\ DOMAIN m.classOf \subseteq 0..last
          /\ \A i \in DOMAIN m.classOf : m.classOf[i] = ReadClass(epNode, i)
          /\ ReadClass(epNode, id) = alias
          /\ \A i \in 0..last : ReadClass(epNode, i) = alias => id <= i
      BY <1>2, <2>2, <3>3, FetchedHereIs
    <3>5. \A i : ReadClass(epNode, i) = alias <=> Parts(epNode)[i + 1].type = DeviceTypeId[alias]
      BY <3>1, ClassOfType DEF ReadClass
    <3> HIDE DEF last
    <3> QED BY <3>2, <3>4, <3>5
  <2>3. AliasFitsNode'
    <3>1. /\ Here' = Here /\ Parts(epNode)' = Parts(epNode) /\ epOld' = epOld
          /\ epGot'.alias = alias /\ epGot'.id = id
          /\ epGot'.is.class = m.classOf[id] /\ epGot'.is.of = m.of
      BY <1>1, <1>7, NodeStays
    <3> QED BY <2>2, <3>1 DEF AliasFitsNode
  <2> QED BY <1>3, <1>4, <1>5, <2>1, <2>3 DEF EndpointsInv
<1> QED BY <1>3, <1>6, <1>7

\* get(), and the aliases.
LEMMA GetKeeps == ASSUME EndpointsInv, NEW id, Get(id) PROVE EndpointsInv'
<1>1. /\ UNCHANGED <<boardVars, controllerVars, subVars, epVia, epOld>> /\ epNode # NoNode
      /\ \E m \in MapsAfter : epMap' = m /\ GetWith(m, id, "none")
  BY DEF Get, Operation, Accessible
<1>2. PICK m \in MapsAfter : epMap' = m /\ GetWith(m, id, "none")
  BY <1>1
<1> QED BY <1>1, <1>2, AskedFor

LEMMA AliasKeeps == ASSUME EndpointsInv, NEW c, Alias(c) PROVE EndpointsInv'
<1>1. /\ UNCHANGED <<boardVars, controllerVars, subVars, epVia, epOld>> /\ epNode # NoNode
      /\ c \in Aliases
      /\ \E m \in MapsAfter :
           /\ epMap' = m
           /\ IF c \in DOMAIN m.idOf THEN GetWith(m, m.idOf[c], c)
              ELSE epGot' = Failed("DeviceError") /\ UNCHANGED epObjects
  BY DEF Alias, Operation, Accessible
<1>2. PICK m \in MapsAfter :
        /\ epMap' = m
        /\ IF c \in DOMAIN m.idOf THEN GetWith(m, m.idOf[c], c)
           ELSE epGot' = Failed("DeviceError") /\ UNCHANGED epObjects
  BY <1>1
<1>3. CASE c \in DOMAIN m.idOf
  <2>1. GetWith(m, m.idOf[c], c)
    BY <1>2, <1>3
  <2> QED BY <1>1, <1>2, <1>3, <2>1, AskedFor
<1>4. CASE epGot' = Failed("DeviceError") /\ UNCHANGED epObjects
  <2>1. UNCHANGED nodeVars
    BY <1>1 DEF nodeVars, boardVars, controllerVars
  <2>2. MapOK'
    BY <1>1, <1>2, <2>1, AccessKeepsMap
  <2>3. DOMAIN epMap.classOf # {} => m = epMap
    BY <1>1, AccessFetches DEF EndpointsInv
  <2>4. DOMAIN epMap.classOf = {} => DOMAIN epObjects = {}
    BY DEF EndpointsInv, MapOK, MapShaped, ObjectsOK
  <2>5. ObjectsOK'
    BY <1>2, <1>4, <2>3, <2>4 DEF EndpointsInv, ObjectsOK
  <2>6. epGot'.what = "error"
    BY <1>4 DEF Failed
  <2> QED BY <1>1, <2>2, <2>5, <2>6, AccessKeepsRest, NothingToSay DEF EndpointsInv
<1> QED BY <1>2, <1>3, <1>4

\* What the accessor holds stays right as long as it and the node stay as they are.
LEMMA AccessorStays ==
  ASSUME EndpointsInv, UNCHANGED <<accessorVars, nodeVars>>
  PROVE  MapOK' /\ ObjectsOK'
<1>1. UNCHANGED <<epMap, epObjects, epOld>> /\ UNCHANGED nodeVars
  BY DEF accessorVars
<1>2. ObjectsOK' /\ MapShaped(epMap)'
  BY <1>1 DEF EndpointsInv, MapOK, MapShaped, ObjectsOK
<1>3. FetchedHere(epMap) => FetchedHere(epMap)'
  BY <1>1, MapOfNode
<1> QED BY <1>1, <1>2, <1>3 DEF EndpointsInv, MapOK

\* Nor does the mapping of a node matter once it is marked as outdated.
LEMMA OutdatedStays ==
  ASSUME EndpointsInv, Outdated, UNCHANGED <<epMap, epObjects>>
  PROVE  MapOK' /\ ObjectsOK'
BY DEF EndpointsInv, Outdated, MapOK, MapShaped, ObjectsOK

\* After reset() there is nothing that could be wrong.
LEMMA ResetHolds ==
  ASSUME Reset PROVE MapOK' /\ ObjectsOK'
<1>1. DOMAIN NoFunction = {}
  BY DEF NoFunction
<1>2. /\ epMap'.classOf = NoFunction /\ epMap'.idOf = NoFunction
      /\ epMap'.clusters = NoFunction /\ epObjects' = NoFunction
  BY DEF Reset, EmptyMap
<1> QED BY <1>1, <1>2 DEF MapOK, MapShaped, ObjectsOK

LEMMA ClusterKeeps == ASSUME EndpointsInv, NEW id, NEW cluster, Cluster(id, cluster) PROVE EndpointsInv'
<1>1. /\ UNCHANGED <<boardVars, controllerVars, subVars, epVia, accessorVars>>
      /\ id \in DOMAIN epObjects
      /\ epGot' = IF cluster \notin epObjects[id].clusters THEN Failed("DeviceError")
                  ELSE [what |-> "cluster", id |-> id, cluster |-> cluster, of |-> epObjects[id].of]
  BY DEF Cluster, Operation
<1>2. UNCHANGED nodeVars
  BY <1>1 DEF nodeVars, boardVars, controllerVars
<1>3. MapOK' /\ ObjectsOK'
  BY <1>1, <1>2, AccessorStays
<1>4. NodesTyped' /\ SubsOK' /\ NodeIsPaired'
  BY <1>1, AccessKeepsRest
<1>5. CASE cluster \notin epObjects[id].clusters
  <2>1. epGot'.what = "error"
    BY <1>1, <1>5 DEF Failed
  <2> QED BY <1>3, <1>4, <2>1, NothingToSay DEF EndpointsInv
<1>6. CASE cluster \in epObjects[id].clusters
  <2>1. epGot' = [what |-> "cluster", id |-> id, cluster |-> cluster, of |-> epObjects[id].of]
    BY <1>1, <1>6
  <2>2. AliasFitsNode' /\ ReportsAreFresh'
    BY <2>1 DEF AliasFitsNode, ReportsAreFresh
  <2>3. /\ id \in DOMAIN epMap.clusters /\ id \in DOMAIN epMap.classOf
        /\ epObjects[id].clusters = epMap.clusters[id] /\ epObjects[id].of = epMap.of
    BY <1>1 DEF EndpointsInv, MapOK, MapShaped, ObjectsOK
  <2>4. ASSUME ~ epOld
        PROVE  /\ cluster \in Parts(epNode)[id + 1].servers /\ cluster \in Implemented
               /\ epObjects[id].of = Here
    <3>1. FetchedHere(epMap) /\ NodesTyped
      BY <2>3, <2>4 DEF EndpointsInv, MapOK
    <3>2. epMap.of = Here /\ epMap.clusters[id] = ReadClusters(epNode, id)
      BY <2>3, <3>1, FetchedHereIs
    <3> QED BY <1>6, <2>3, <3>2 DEF ReadClusters
  <2>5. /\ Here' = Here /\ Parts(epNode)' = Parts(epNode) /\ Implemented' = Implemented
        /\ epOld' = epOld
    BY <1>1, <1>2, NodeStays DEF accessorVars
  <2>6. epGot'.id = id /\ epGot'.cluster = cluster /\ epGot'.of = epObjects[id].of
    BY <2>1
  <2>7. ClusterFitsEndpoint'
    BY <2>4, <2>5, <2>6 DEF ClusterFitsEndpoint
  <2> QED BY <1>3, <1>4, <2>2, <2>7 DEF EndpointsInv
<1> QED BY <1>5, <1>6

LEMMA ResetEndpointsKeeps == ASSUME EndpointsInv, ResetEndpoints PROVE EndpointsInv'
<1>1. /\ UNCHANGED <<boardVars, controllerVars, subVars, epVia>> /\ Reset /\ epGot' = Nothing
  BY DEF ResetEndpoints, Operation
<1> QED BY <1>1, ResetHolds, AccessKeepsRest, NothingToSay DEF EndpointsInv, Nothing

\* The firmware of one node is replaced; the rest is as before.
LEMMA InstallKeeps ==
  ASSUME EndpointsInv, Install(epNode), epVia = "pw_rpc", UNCHANGED <<epVia, controllerVars, subVars>>
  PROVE  NodesTyped' /\ SubsOK' /\ NodeIsPaired'
<1>1. NodesTyped /\ SubsOK /\ NodeIsPaired
  BY DEF EndpointsInv
<1>2. /\ epBoard' = [epBoard EXCEPT ![epNode] = epNext[epNode]] /\ UNCHANGED epNext
      /\ UNCHANGED <<epVia, epNode, epPaired, epUnsure, epSubs, epLog, epSubNo>>
  BY DEF Install, controllerVars, subVars
<1>3. epBoard' \in [Nodes -> Seq(NodeEndpoint)]
  BY <1>1, <1>2 DEF NodesTyped
<1> QED BY <1>1, <1>2, <1>3 DEF NodesTyped, SubsOK, NodeIsPaired

\* The upgrade, and one that fails at its last step.
LEMMA SampleAppUpgradeKept == ASSUME EndpointsInv, SampleAppUpgrade PROVE EndpointsInv'
<1>1. /\ UNCHANGED <<controllerVars, subVars, epVia>> /\ Reset /\ epGot' = Nothing
      /\ Install(epNode) /\ epVia = "pw_rpc"
  BY DEF SampleAppUpgrade, Operation
<1> QED BY <1>1, ResetHolds, InstallKeeps, NothingToSay DEF EndpointsInv, Nothing

LEMMA SampleAppUpgradeFailsKeeps == ASSUME EndpointsInv, SampleAppUpgradeFails PROVE EndpointsInv'
<1>1. /\ UNCHANGED <<controllerVars, subVars, epVia, epMap, epObjects>> /\ Outdated
      /\ epGot' = Failed("DeviceError") /\ Install(epNode) /\ epVia = "pw_rpc"
  BY DEF SampleAppUpgradeFails, Operation
<1> QED BY <1>1, OutdatedStays, InstallKeeps, NothingToSay DEF EndpointsInv, Failed

\* Nodes join and leave; the answer may be lost.
LEMMA CommissionKeeps == ASSUME EndpointsInv, NEW n \in Nodes, Commission(n) PROVE EndpointsInv'
<1>1. /\ UNCHANGED <<epVia, boardVars, subVars, epMap, epObjects, epUnsure>>
      /\ epVia = "chip_tool" /\ epPaired' = epPaired \cup {n} /\ epNode' = n
      /\ IF epNode = n THEN UNCHANGED epOld ELSE Outdated
      /\ epGot' = Nothing
  BY DEF Commission, Operation
<1>2. MapOK' /\ ObjectsOK'
  <2>1. CASE epNode = n
    <3>1. UNCHANGED <<accessorVars, nodeVars>>
      BY <1>1, <2>1 DEF accessorVars, nodeVars, boardVars
    <3> QED BY <3>1, AccessorStays
  <2>2. CASE epNode # n
    BY <1>1, <2>2, OutdatedStays
  <2> QED BY <2>1, <2>2
<1>3. NodesTyped' /\ SubsOK' /\ NodeIsPaired'
  BY <1>1 DEF EndpointsInv, NodesTyped, SubsOK, NodeIsPaired, boardVars, subVars
<1> QED BY <1>1, <1>2, <1>3, NothingToSay DEF EndpointsInv, Nothing

LEMMA CommissionFailsKeeps ==
  ASSUME EndpointsInv, NEW n \in Nodes, CommissionFails(n) PROVE EndpointsInv'
<1>1. /\ UNCHANGED <<epVia, boardVars, subVars, accessorVars, epNode, epUnsure>>
      /\ epVia = "chip_tool" /\ epPaired' \in {epPaired, epPaired \cup {n}}
      /\ epGot' = Failed("DeviceError")
  BY DEF CommissionFails, Operation
<1>2. UNCHANGED <<accessorVars, nodeVars>>
  BY <1>1 DEF nodeVars, boardVars
<1>3. NodesTyped' /\ SubsOK' /\ NodeIsPaired'
  BY <1>1 DEF EndpointsInv, NodesTyped, SubsOK, NodeIsPaired, boardVars, subVars
<1> QED BY <1>1, <1>2, <1>3, AccessorStays, NothingToSay DEF EndpointsInv, Failed

LEMMA DecommissionKeeps == ASSUME EndpointsInv, Decommission PROVE EndpointsInv'
<1>1. /\ UNCHANGED <<epVia, boardVars, subVars, epMap, epObjects, epUnsure>>
      /\ epVia = "chip_tool" /\ epPaired' = epPaired \ {epNode} /\ epNode' = NoNode
      /\ Outdated /\ epGot' = Nothing
  BY DEF Decommission, Operation
<1>2. NodesTyped' /\ SubsOK' /\ NodeIsPaired'
  BY <1>1 DEF EndpointsInv, NodesTyped, SubsOK, NodeIsPaired, boardVars, subVars
<1> QED BY <1>1, <1>2, OutdatedStays, NothingToSay DEF EndpointsInv, Nothing

LEMMA DecommissionFailsKeeps == ASSUME EndpointsInv, DecommissionFails PROVE EndpointsInv'
<1>1. /\ UNCHANGED <<epVia, boardVars, subVars, accessorVars, epNode>>
      /\ epVia = "chip_tool" /\ epPaired' \in {epPaired, epPaired \ {epNode}}
      /\ epUnsure' = (epUnsure \/ epPaired' # epPaired) /\ epGot' = Failed("DeviceError")
  BY DEF DecommissionFails, Operation
<1>2. UNCHANGED <<accessorVars, nodeVars>>
  BY <1>1 DEF nodeVars, boardVars
<1>3. NodesTyped' /\ SubsOK'
  BY <1>1 DEF EndpointsInv, NodesTyped, SubsOK, boardVars, subVars
<1>4. NodeIsPaired'
  BY <1>1 DEF EndpointsInv, NodeIsPaired
<1> QED BY <1>1, <1>2, <1>3, <1>4, AccessorStays, NothingToSay DEF EndpointsInv, Failed

LEMMA ControllerFactoryResetKeeps ==
  ASSUME EndpointsInv, ControllerFactoryReset PROVE EndpointsInv'
<1>1. /\ UNCHANGED <<epVia, boardVars, accessorVars, epNode, epSubs, epSubNo>>
      /\ epVia = "chip_tool" /\ epPaired' = {} /\ epUnsure' = (epUnsure \/ epNode # NoNode)
      /\ epLog' = <<>> /\ epGot' = Nothing
  BY DEF ControllerFactoryReset, Operation
<1>2. UNCHANGED <<accessorVars, nodeVars>>
  BY <1>1 DEF nodeVars, boardVars
<1>3. NodesTyped' /\ SubsOK'
  BY <1>1 DEF EndpointsInv, NodesTyped, SubsOK, boardVars
<1>4. NodeIsPaired'
  BY <1>1 DEF EndpointsInv, NodeIsPaired
<1> QED BY <1>1, <1>2, <1>3, <1>4, AccessorStays, NothingToSay DEF EndpointsInv, Nothing

\* The operations on the subscription leave the accessor and the node alone.
LEMMA SubscriptionsKeep ==
  ASSUME EndpointsInv, UNCHANGED <<epVia, boardVars, controllerVars, accessorVars>>
  PROVE  MapOK' /\ ObjectsOK' /\ NodesTyped' /\ NodeIsPaired'
<1>1. UNCHANGED <<accessorVars, nodeVars>>
  BY DEF nodeVars, boardVars, controllerVars
<1>2. NodesTyped' /\ NodeIsPaired'
  BY DEF EndpointsInv, NodesTyped, NodeIsPaired, boardVars, controllerVars
<1> QED BY <1>1, <1>2, AccessorStays

LEMMA StartSubscriptionKeeps == ASSUME EndpointsInv, StartSubscription PROVE EndpointsInv'
<1>1. /\ UNCHANGED <<epVia, boardVars, controllerVars, accessorVars>> /\ epGot' = Nothing
      /\ epSubNo' = epSubNo + 1 /\ epSubs' = epSubs + 1 /\ epLog' = <<>>
  BY DEF StartSubscription, Operation
<1>2. SubsOK'
  BY <1>1 DEF EndpointsInv, SubsOK
<1> QED BY <1>1, <1>2, SubscriptionsKeep, NothingToSay DEF EndpointsInv, Nothing

LEMMA ReportKeeps == ASSUME EndpointsInv, Report PROVE EndpointsInv'
<1>1. /\ UNCHANGED <<boardVars, controllerVars, accessorVars, epVia, epGot, epSubs, epSubNo>>
      /\ epLog' = Append(epLog, epSubNo)
  BY DEF Report
<1>2. SubsOK'
  <2>1. epLog \in Seq(Nat) /\ epSubNo \in Nat /\ \A i \in 1..Len(epLog) : epLog[i] = epSubNo
    BY DEF EndpointsInv, SubsOK
  <2>2. epLog' \in Seq(Nat) /\ \A i \in 1..Len(epLog') : epLog'[i] = epSubNo
    BY <1>1, <2>1
  <2> QED BY <1>1, <2>2 DEF EndpointsInv, SubsOK
<1>3. UNCHANGED nodeVars
  BY <1>1 DEF nodeVars, boardVars, controllerVars
<1>4. /\ Here' = Here /\ Parts(epNode)' = Parts(epNode) /\ Implemented' = Implemented
      /\ epOld' = epOld /\ epGot' = epGot /\ epSubNo' = epSubNo
  BY <1>1, <1>3, NodeStays DEF accessorVars
<1>5. AliasFitsNode' /\ ClusterFitsEndpoint' /\ ReportsAreFresh'
  <2>1. AliasFitsNode'
    BY <1>4 DEF EndpointsInv, AliasFitsNode
  <2>2. ClusterFitsEndpoint'
    BY <1>4 DEF EndpointsInv, ClusterFitsEndpoint
  <2>3. ReportsAreFresh'
    BY <1>4 DEF EndpointsInv, ReportsAreFresh
  <2> QED BY <2>1, <2>2, <2>3
<1> QED BY <1>1, <1>2, <1>5, SubscriptionsKeep DEF EndpointsInv

LEMMA StopSubscriptionKeeps == ASSUME EndpointsInv, StopSubscription PROVE EndpointsInv'
<1>1. /\ UNCHANGED <<epVia, boardVars, controllerVars, accessorVars, epSubNo>>
      /\ epSubs' = 0 /\ epGot' = [what |-> "reports", list |-> epLog] /\ epLog' = <<>>
  BY DEF StopSubscription, Operation
<1>2. SubsOK'
  BY <1>1 DEF EndpointsInv, SubsOK
<1>3. AliasFitsNode' /\ ClusterFitsEndpoint'
  BY <1>1 DEF AliasFitsNode, ClusterFitsEndpoint
<1>4. ReportsAreFresh'
  BY <1>1 DEF EndpointsInv, SubsOK, ReportsAreFresh
<1> QED BY <1>1, <1>2, <1>3, <1>4, SubscriptionsKeep DEF EndpointsInv

LEMMA CloseControllerKeeps == ASSUME EndpointsInv, CloseController PROVE EndpointsInv'
<1>1. /\ UNCHANGED <<epVia, boardVars, controllerVars, accessorVars, epLog, epSubNo>>
      /\ epSubs' = 0 /\ epGot' = Nothing
  BY DEF CloseController, Operation
<1>2. SubsOK'
  BY <1>1 DEF EndpointsInv, SubsOK
<1> QED BY <1>1, <1>2, SubscriptionsKeep, NothingToSay DEF EndpointsInv, Nothing

\* And so does doing nothing.
LEMMA EndpointsStutter == ASSUME EndpointsInv, UNCHANGED epVars PROVE EndpointsInv'
<1>1. UNCHANGED <<boardVars, controllerVars, subVars, accessorVars, epVia, epGot>>
  BY DEF epVars, boardVars, controllerVars, subVars, accessorVars
<1>2. UNCHANGED nodeVars
  BY <1>1 DEF nodeVars, boardVars, controllerVars
<1>3. /\ Here' = Here /\ Parts(epNode)' = Parts(epNode) /\ Implemented' = Implemented
      /\ epOld' = epOld /\ epGot' = epGot /\ epSubNo' = epSubNo
  BY <1>1, <1>2, NodeStays DEF accessorVars, subVars
<1>4. AliasFitsNode'
  BY <1>3 DEF EndpointsInv, AliasFitsNode
<1>5. ClusterFitsEndpoint'
  BY <1>3 DEF EndpointsInv, ClusterFitsEndpoint
<1>6. ReportsAreFresh'
  BY <1>3 DEF EndpointsInv, ReportsAreFresh
<1> QED BY <1>1, <1>4, <1>5, <1>6, SubscriptionsKeep, AccessKeepsRest DEF EndpointsInv

-----------------------------------------------------------------------------
\* The devices and nodes there may be at the beginning have the invariant.
LEMMA EndpointsBegin == EndpointsInit => EndpointsInv
<1> SUFFICES ASSUME EndpointsInit PROVE EndpointsInv
  OBVIOUS
<1>1. PICK layout \in Layouts, n \in Nodes :
        /\ epBoard = [k \in Nodes |-> IF k = n THEN layout[1] ELSE layout[2]]
        /\ epNext  = [k \in Nodes |-> IF k = n THEN layout[2] ELSE layout[1]]
        /\ epNode \in IF epVia = "pw_rpc" THEN {n} ELSE {n, NoNode}
        /\ epPaired = {epNode} \ {NoNode}
  BY DEF EndpointsInit
<1>2. layout[1] \in Seq(NodeEndpoint) /\ layout[2] \in Seq(NodeEndpoint)
  BY EndpointsAssumption
<1>3. NodesTyped
  BY <1>1, <1>2, EndpointsAssumption DEF NodesTyped, EndpointsInit
<1>4. NodeIsPaired
  BY <1>1 DEF NodeIsPaired
<1>5. DOMAIN NoFunction = {}
  BY DEF NoFunction
<1>6. /\ epMap.classOf = NoFunction /\ epMap.idOf = NoFunction
      /\ epMap.clusters = NoFunction /\ epObjects = NoFunction /\ epGot.what = "nothing"
      /\ epSubs = 0 /\ epLog = <<>> /\ epSubNo = 0
  BY DEF EndpointsInit, EmptyMap, Nothing
<1>7. MapOK /\ ObjectsOK
  BY <1>5, <1>6 DEF MapOK, MapShaped, ObjectsOK
<1>8. SubsOK
  BY <1>6 DEF SubsOK
<1>9. AliasFitsNode /\ ClusterFitsEndpoint /\ ReportsAreFresh
  BY <1>6 DEF AliasFitsNode, ClusterFitsEndpoint, ReportsAreFresh
<1> QED BY <1>3, <1>4, <1>7, <1>8, <1>9 DEF EndpointsInv

\* Every step keeps it.
LEMMA EndpointsStep == ASSUME EndpointsInv, [EndpointsNext]_epVars PROVE EndpointsInv'
<1>1. CASE FetchFails \/ ResetEndpoints \/ SampleAppUpgrade \/ SampleAppUpgradeFails
  BY <1>1, FetchFailsKeeps, ResetEndpointsKeeps, SampleAppUpgradeKept, SampleAppUpgradeFailsKeeps
<1>2. CASE Decommission \/ DecommissionFails \/ ControllerFactoryReset
  BY <1>2, DecommissionKeeps, DecommissionFailsKeeps, ControllerFactoryResetKeeps
<1>3. CASE StartSubscription \/ Report \/ StopSubscription \/ CloseController
  BY <1>3, StartSubscriptionKeeps, ReportKeeps, StopSubscriptionKeeps, CloseControllerKeeps
<1>4. CASE EndpointsDone \/ UNCHANGED epVars
  BY <1>4, EndpointsStutter DEF EndpointsDone
<1>5. CASE \E n \in Nodes : Commission(n) \/ CommissionFails(n)
  BY <1>5, CommissionKeeps, CommissionFailsKeeps
<1>6. CASE \E id \in 0..3 : Get(id)
  BY <1>6, GetKeeps
<1>7. CASE \E c \in {ReadClass(n, i) : n \in Nodes, i \in 0..1} : Alias(c)
  BY <1>7, AliasKeeps
<1>8. CASE \E id \in DOMAIN epObjects : \E c \in SUPPORTED_CLUSTERS_PW_RPC : Cluster(id, c)
  BY <1>8, ClusterKeeps
<1> QED BY <1>1, <1>2, <1>3, <1>4, <1>5, <1>6, <1>7, <1>8 DEF EndpointsNext

\* Whatever a user does with the endpoints of a device, or with the nodes of a
\* controller, upgrades, lost answers and resets included: an alias is the first
\* endpoint of its type that the node has now, a cluster one it serves, the
\* mappings of another node or firmware are known to be old, the node id names a
\* paired node, and a subscription's reports are its own.
THEOREM EndpointsStayTheNodes == EndpointsSpec => []EndpointsAreTheNodes
<1>1. EndpointsInv => EndpointsAreTheNodes
  <2> SUFFICES ASSUME EndpointsInv PROVE EndpointsAreTheNodes
    OBVIOUS
  <2>1. EndpointsTypeOK
    BY DEF EndpointsInv, NodesTyped, MapOK, MapShaped, SubsOK, EndpointsTypeOK
  <2>2. MappingIsOfNode
    <3>1. NodesTyped /\ MapOK
      BY DEF EndpointsInv
    <3>2. FetchedHere(epMap) => epMap.of = Here
      BY <3>1, FetchedHereIs
    <3> QED BY <3>1, <3>2 DEF MapOK, MappingIsOfNode
  <2> QED BY <2>1, <2>2 DEF EndpointsInv, EndpointsAreTheNodes
<1> QED BY <1>1, EndpointsBegin, EndpointsStep, PTL DEF EndpointsSpec

-----------------------------------------------------------------------------
(* The OpenThread command line of a board (Wpan).                          *)

\* A command after which the board boots and prints no answer.
Boots(c) == c.op \in BootCommands

\* The commands the methods send: those that replace a value, and the others.
PutCommands ==
  {Put("setting", "1"), Put("setting", "2"), Put("buffer", "none"), Put("buffer", "new"),
   Put("active", "new"), Put("ifconfig", "up"), Put("ifconfig", "down"), Put("omr", "yes"),
   Put("omr", "no"), Put("role", "detached"), Put("role", "disabled"), Put("diag", "on"),
   Put("diag", "off"), Put("udp", "open"), Put("udp", "bound"), Put("udp", "closed"),
   Put("maddr", "in")}
OtherCommands ==
  {udp_send, [op |-> "dataset_init", item |-> "buffer", val |-> "none"],
   [op |-> "dataset_commit", item |-> "active", val |-> "none"],
   [op |-> "locale", item |-> "diag", val |-> "none"],
   [op |-> "factoryreset", item |-> "role", val |-> "none"],
   [op |-> "reset", item |-> "role", val |-> "none"]}

\* The items of a board, all commands, and what an answer may hold.
ItemNames == {"role", "ifconfig", "buffer", "active", "udp", "diag", "setting", "maddr", "omr"}
CliCommands == {CliGet(i) : i \in ItemNames} \cup PutCommands \cup OtherCommands
ItemValues == StateStr \cup Dataset \cup
  {"up", "down", "closed", "open", "bound", "on", "off", "1", "2", "in", "out", "full", "yes", "no"}
Values == ItemValues \cup {"text", "garbage", "raised", "empty"}
Lines == [cmd : CliCommands \cup {Datagram.cmd}, ok : BOOLEAN, val : Values]

\* What the steps of every method have in common: the program waits for every
\* answer but that of a command that boots the board, and looks at the answer
\* to a query.
WellMade(s) ==
  /\ s.cmd \in CliCommands /\ s.tries \in {1, MaxTries}
  /\ s.accept \subseteq {"yes", "leader", "disabled", "in"}
  /\ (s.read = "sent") <=> Boots(s.cmd)
  /\ s.read = "sent" => s.accept = {}
  /\ s.cmd.op = "get" => s.read \in {"int", "str", "found", "last", "checked"}
  /\ s.cmd.op = "put" => s.read \in {"ignored", "datagram"}
  /\ s.read \in {"int", "str", "found", "last", "checked", "ignored", "sent", "datagram"}

\* The methods the properties name.
ByName == [udp_send_msg |-> udp_send_msg, udp_receive_msg |-> udp_receive_msg,
           get_device_locale |-> get_device_locale, factory_reset |-> factory_reset,
           add_multicast |-> add_multicast_address_and_verify, omr_addresses |-> omr_addresses]

\* No method ends with waiting for a datagram.
EndsWithAnswer(m) == \A i \in 1..Len(m.steps) : m.steps[i].read = "datagram" => i # Len(m.steps)

\* What the methods have in common.
MethodOK(m) ==
  /\ (m.steps # <<>>) <=> (Len(m.steps) \in Nat \ {0})
  /\ \A i \in 1..Len(m.steps) : WellMade(m.steps[i])
  /\ EndsWithAnswer(m)
  /\ \A n \in DOMAIN ByName : m.name = n => m = ByName[n]
  /\ m.guarded # {} => m = udp_send_msg

\* What the variables hold.
CallRecord == [m : WpanMethods, pc : Nat \ {0}, try : Nat, err : BOOLEAN, val : Values,
               at : {"idle", "send", "wait", "over"}]
HistRecord == [calls : Nat, datagrams : Nat, stale : BOOLEAN, noisy : BOOLEAN, lost : BOOLEAN,
               pending : BOOLEAN, seen : SUBSET ItemValues, before : {"closed", "open", "bound"}]

\* The types; a method has a step to do, and waits for no answer of a command that boots the board.
WpTypes ==
  /\ ncp \in NcpItems /\ cli \in Seq(CliCommands) /\ wire \in Seq(Lines)
  /\ wcall \in CallRecord /\ whist \in HistRecord
  /\ wcall.m.steps # <<>> => wcall.pc \in 1..Len(wcall.m.steps)
  /\ wcall.m.steps = <<>> => wcall.at \in {"idle", "over"}
  /\ Waits => Now.read # "sent"

\* The commands a board never refuses.
AlwaysObeyed(c) == c.op = "get" \/ (c.op = "put" /\ (c.item = "diag" \/ c.val = "closed"))
\* The answer to the command in progress, and nothing sent since: it still holds.
Settled(l) ==
  /\ cli = <<>>
  /\ AlwaysObeyed(Now.cmd) => l.ok
  /\ Now.cmd.op = "get" => l.val \in whist.seen /\ (Now.cmd.item # "role" => l.val = ncp[Now.cmd.item])
  /\ Now.cmd.op # "get" => l.val = "none"
  /\ Now.cmd.op = "put" /\ Now.cmd.item # "role" /\ l.ok => ncp[Now.cmd.item] = Now.cmd.val

\* While a command waits and nothing old can be in the way: only the command itself and boots
\* are in front of the board, and every status line printed is that of the command.
WaitInv ==
  Waits =>
    /\ Now.cmd.op = "get" => ncp[Now.cmd.item] \in whist.seen
    /\ ~whist.noisy => \A i \in 1..Len(wire) : ~IsDatagram(wire[i])
    /\ ~whist.stale =>
         /\ \A i \in 1..Len(cli) : Boots(cli[i]) \/ (i = Len(cli) /\ cli[i] = Now.cmd)
         /\ \A i \in 1..Len(wire) : IsDatagram(wire[i]) \/ Settled(wire[i])

\* What a returned method says is what the board said, or does, after the last command.
OverInv ==
  Returned /\ wcall.m.steps # <<>> =>
    /\ wcall.pc = Len(wcall.m.steps) \/ wcall.m.name = "omr_addresses"
    /\ (Now.accept # {} /\ wcall.m.name # "omr_addresses") => wcall.val \in Now.accept
    /\ ~whist.stale =>
         /\ (Now.cmd.op = "get" /\ wcall.val # "empty" /\ (~whist.noisy \/ Now.read = "checked")) =>
              wcall.val \in whist.seen /\ (Now.cmd.item # "role" => cli = <<>> /\ ncp[Now.cmd.item] = wcall.val)
         /\ (Now.cmd.op = "put" /\ Now.cmd.item # "role" /\ (~whist.noisy \/ AlwaysObeyed(Now.cmd))) =>
              cli = <<>> /\ ncp[Now.cmd.item] = Now.cmd.val
         /\ wcall.m.name = "factory_reset" => cli = <<>>

\* factory_reset sends nothing but its reset before it asks for the role, so that the board
\* answers when it has been reset.
FactoryInv ==
  wcall.m.name = "factory_reset" /\ ~whist.pending =>
    /\ \A i \in 1..Len(cli) : cli[i] \in {factory_reset.steps[1].cmd, CliGet("role")}
    /\ wcall.pc = 1 => (wcall.at = "send" /\ cli = <<>>)
    /\ wcall.pc = 2 => \/ ncp.active = "none" /\ ncp.role = "disabled" /\ ncp.udp = "closed"
                       \/ cli # <<>> /\ cli[1] = factory_reset.steps[1].cmd

\* udp_send_msg: a socket that was closed before is closed at the end, on every path.
SocketInv ==
  wcall.m.name = "udp_send_msg" /\ ~whist.stale /\ ~whist.lost /\ ~whist.pending =>
    /\ \A i \in 1..Len(cli) : ~Boots(cli[i])
    /\ whist.before = "closed" =>
         /\ wcall.pc = 1 /\ wcall.at = "send" => cli = <<>> /\ ncp.udp = "closed"
         /\ (wcall.pc = 1 /\ Waits) =>
              /\ (cli # <<>> => ncp.udp = "closed")
              /\ (\A i \in 1..Len(wire) : wire[i].ok)
         /\ wcall.at = "over" => cli = <<>> /\ ncp.udp = "closed"

\* The inductive invariant.
WpanInv == WpTypes /\ WaitInv /\ OverInv /\ FactoryInv /\ SocketInv

\* The methods that ask are such methods.
LEMMA QueryOK ==
  ASSUME NEW item \in ItemNames, NEW read \in {"int", "str", "found", "last", "checked"}
  PROVE  MethodOK(Query(item, read))
<1>1. CliGet(item) \in CliCommands /\ ~Boots(CliGet(item))
  BY DEF CliCommands, Boots, BootCommands, CliGet
<1>2. WellMade(CliStep(CliGet(item), read))
  BY <1>1 DEF WellMade, CliStep, CliGet
<1> QED BY <1>2 DEF MethodOK, Query, WpanMethod, ByName, EndsWithAnswer, CliStep

\* The kinds of commands.
LEMMA OpsAre ==
  /\ \A i \in ItemNames : CliGet(i).op = "get" /\ CliGet(i).item = i
  /\ \A c \in PutCommands : c.op = "put" /\ ~Boots(c)
  /\ \A c \in OtherCommands : c.op \notin {"get", "put"}
<1>1. \A i \in ItemNames : CliGet(i).op = "get" /\ CliGet(i).item = i
  BY DEF CliGet
<1>2. \A c \in PutCommands : c.op = "put" /\ ~Boots(c)
  BY DEF PutCommands, Put, Boots, BootCommands
<1>3. \A c \in OtherCommands : c.op \notin {"get", "put"}
  BY DEF OtherCommands, udp_send
<1> QED BY <1>1, <1>2, <1>3

\* The methods that tell.
LEMMA TellOK ==
  ASSUME NEW c \in PutCommands \cup OtherCommands, ~Boots(c)
  PROVE  MethodOK(Tell(c))
<1>1. c \in CliCommands /\ c.op # "get"
  BY OpsAre DEF CliCommands
<1>2. WellMade(CliStep(c, "ignored"))
  BY <1>1 DEF WellMade, CliStep
<1> QED BY <1>2 DEF MethodOK, Tell, WpanMethod, ByName, EndsWithAnswer, CliStep

\* Every method that asks.
LEMMA QueriesOK ==
  /\ MethodOK(ncp_channel) /\ MethodOK(network_node_type) /\ MethodOK(thread_neighbor_table)
  /\ MethodOK(thread_network_data) /\ MethodOK(ncp_counter_tx_err_cca)
  /\ MethodOK(thread_child_table) /\ MethodOK(scan_energy) /\ MethodOK(get_ifconfig_state)
  /\ MethodOK(srp_client_get_server) /\ MethodOK(active_operational_dataset)
  /\ MethodOK(network_data) /\ MethodOK(ping) /\ MethodOK(ipaddr_mleid)
  /\ MethodOK(tcp_benchmark_result) /\ MethodOK(radio_stats) /\ MethodOK(csl_channel)
  /\ MethodOK(dns_client_config) /\ MethodOK(dns_client_browse_services)
  /\ MethodOK(get_srp_client_services) /\ MethodOK(dns_client_resolve_host)
  /\ MethodOK(dns_client_resolve_service) /\ MethodOK(is_dns_compression_enabled)
  /\ MethodOK(get_srp_client_host)
<1>1. \A item \in ItemNames : \A read \in {"int", "str", "found", "last", "checked"} :
         MethodOK(Query(item, read))
  BY QueryOK
<1> QED BY <1>1 DEF ItemNames, ncp_channel, network_node_type, thread_neighbor_table,
    thread_network_data, ncp_counter_tx_err_cca, thread_child_table, scan_energy,
    get_ifconfig_state, srp_client_get_server, active_operational_dataset, network_data,
    ping, ipaddr_mleid, tcp_benchmark_result, radio_stats, csl_channel, dns_client_config,
    dns_client_browse_services, get_srp_client_services, dns_client_resolve_host,
    dns_client_resolve_service, is_dns_compression_enabled, get_srp_client_host

\* Every method that tells.
LEMMA TellsOK ==
  /\ MethodOK(set_router_selection_jitter) /\ MethodOK(set_region) /\ MethodOK(dataset_init)
  /\ MethodOK(dataset_clear) /\ MethodOK(dataset_commit) /\ MethodOK(set_mode)
  /\ MethodOK(ifconfig_up) /\ MethodOK(ifconfig_down) /\ MethodOK(add_prefix)
  /\ MethodOK(remove_prefix) /\ MethodOK(add_allowlist) /\ MethodOK(srp_client_stop)
  /\ MethodOK(thread_start) /\ MethodOK(thread_stop) /\ MethodOK(set_dataset_string)
  /\ MethodOK(set_dataset_buffer) /\ MethodOK(enable_border_routing)
  /\ MethodOK(set_poll_period) /\ MethodOK(udp_open) /\ MethodOK(udp_bind)
  /\ MethodOK(udp_close) /\ MethodOK(tcp_connect) /\ MethodOK(set_csl_channel)
  /\ MethodOK(dns_client_set_config) /\ MethodOK(srp_client_autostart)
  /\ MethodOK(srp_client_add_service) /\ MethodOK(srp_client_remove_host)
<1>1. \A c \in PutCommands \cup OtherCommands : ~Boots(c) => MethodOK(Tell(c))
  BY TellOK
<1>2. \A c \in PutCommands : MethodOK(Tell(c))
  BY <1>1 DEF PutCommands, Put, Boots, BootCommands
<1>3. MethodOK(dataset_init) /\ MethodOK(dataset_commit)
  BY <1>1 DEF OtherCommands, Boots, BootCommands, dataset_init, dataset_commit
<1> QED BY <1>2, <1>3 DEF PutCommands, set_router_selection_jitter, set_region,
    dataset_clear, set_mode, ifconfig_up, ifconfig_down, add_prefix,
    remove_prefix, add_allowlist, srp_client_stop, thread_start, thread_stop,
    set_dataset_string, set_dataset_buffer, enable_border_routing, set_poll_period, udp_open,
    udp_bind, udp_close, tcp_connect, set_csl_channel, dns_client_set_config,
    srp_client_autostart, srp_client_add_service, srp_client_remove_host

\* The methods that open a socket, which all close it with the last step.
LEMMA SocketMethodsOK ==
  /\ MethodOK(udp_send_msg)
  /\ MethodOK(udp_receive_msg)
  /\ MethodOK(get_device_locale)
<1>1. \A c \in PutCommands \cup OtherCommands : \A read \in {"ignored", "datagram"} :
        ~Boots(c) => WellMade(CliStep(c, read))
  BY OpsAre DEF WellMade, CliStep, CliCommands
<1>2. \A c \in PutCommands : \A read \in {"ignored", "datagram"} : WellMade(CliStep(c, read))
  BY <1>1 DEF PutCommands, Put, Boots, BootCommands
<1>3. WellMade(CliStep(udp_send, "ignored"))
  BY <1>1 DEF OtherCommands, Boots, BootCommands, udp_send
<1>4. WellMade(CliStep([op |-> "locale", item |-> "diag", val |-> "none"], "ignored"))
  BY <1>1 DEF OtherCommands, Boots, BootCommands
<1>5. MethodOK(udp_send_msg)
  <2>1. /\ WellMade(CliStep(Put("udp", "open"), "ignored"))
        /\ WellMade(CliStep(Put("udp", "bound"), "ignored"))
        /\ WellMade(CliStep(Put("udp", "closed"), "ignored"))
    BY <1>2 DEF PutCommands
  <2>2. EndsWithAnswer(udp_send_msg)
    BY DEF EndsWithAnswer, udp_send_msg, WpanMethod, CliStep, Retried, open_udp_and_bind
  <2> QED BY <2>2, <2>1, <1>3 DEF MethodOK, udp_send_msg, open_udp_and_bind, ByName
<1>6. MethodOK(udp_receive_msg)
  <2>1. /\ WellMade(CliStep(Put("udp", "open"), "ignored"))
        /\ WellMade(CliStep(Put("udp", "bound"), "datagram"))
        /\ WellMade(CliStep(Put("udp", "closed"), "ignored"))
    BY <1>2 DEF PutCommands
  <2>2. EndsWithAnswer(udp_receive_msg)
    BY DEF EndsWithAnswer, udp_receive_msg, WpanMethod, CliStep, Retried, open_udp_and_bind
  <2> QED BY <2>2, <2>1 DEF MethodOK, udp_receive_msg, WpanMethod, ByName
<1>7. MethodOK(get_device_locale)
  <2>1. /\ WellMade(CliStep(Put("diag", "on"), "ignored"))
        /\ WellMade(CliStep(Put("diag", "off"), "ignored"))
    BY <1>2 DEF PutCommands
  <2>2. EndsWithAnswer(get_device_locale)
    BY DEF EndsWithAnswer, get_device_locale, WpanMethod, CliStep, Retried, open_udp_and_bind
  <2> QED BY <2>2, <2>1, <1>4 DEF MethodOK, get_device_locale, WpanMethod, ByName
<1> QED BY <1>5, <1>6, <1>7

\* The methods of several commands.
LEMMA OtherMethodsOK ==
  /\ MethodOK(thread_leader_address) /\ MethodOK(enable_allowlist)
  /\ MethodOK(omr_addresses) /\ MethodOK(wait_for_state({"leader"}))
  /\ MethodOK(factory_reset) /\ MethodOK(reset)
  /\ MethodOK(add_multicast_address_and_verify)
<1>1. \A item \in ItemNames : \A read \in {"int", "str", "found", "last", "checked"} :
        \A accept \in {{}, {"yes"}, {"leader"}, {"disabled"}, {"in"}} :
          /\ WellMade(CliStep(CliGet(item), read))
          /\ WellMade([CliStep(CliGet(item), read) EXCEPT !.accept = accept])
          /\ WellMade(Retried(CliGet(item), read, accept))
  BY DEF WellMade, CliStep, Retried, CliCommands, CliGet, Boots, BootCommands
<1>2. \A c \in PutCommands : WellMade(CliStep(c, "ignored"))
  BY DEF WellMade, CliStep, CliCommands, PutCommands, Put, Boots, BootCommands
<1>3. \A c \in OtherCommands : Boots(c) => WellMade(CliStep(c, "sent"))
  BY DEF WellMade, CliStep, CliCommands, OtherCommands, Boots, BootCommands, udp_send
<1>4. MethodOK(thread_leader_address)
  BY DEF MethodOK, thread_leader_address, WpanMethod, ByName, EndsWithAnswer
<1>5. MethodOK(enable_allowlist)
  <2>1. /\ WellMade(CliStep(CliGet("setting"), "int"))
        /\ WellMade(CliStep(Put("setting", "2"), "ignored"))
    BY <1>1, <1>2 DEF PutCommands, ItemNames
  <2>2. EndsWithAnswer(enable_allowlist)
    BY DEF EndsWithAnswer, enable_allowlist, WpanMethod, CliStep, Retried, open_udp_and_bind
  <2> QED BY <2>2, <2>1 DEF MethodOK, enable_allowlist, WpanMethod, ByName
<1>6. MethodOK(omr_addresses)
  <2>1. /\ WellMade(Retried(CliGet("omr"), "checked", {"yes"}))
        /\ WellMade(Retried(CliGet("ifconfig"), "checked", {}))
    BY <1>1 DEF ItemNames
  <2>2. EndsWithAnswer(omr_addresses)
    BY DEF EndsWithAnswer, omr_addresses, WpanMethod, CliStep, Retried, open_udp_and_bind
  <2> QED BY <2>2, <2>1 DEF MethodOK, omr_addresses, WpanMethod, ByName
<1>7. MethodOK(wait_for_state({"leader"}))
  <2>1. WellMade(Retried(CliGet("role"), "str", {"leader"}))
    BY <1>1 DEF ItemNames
  <2>2. EndsWithAnswer(wait_for_state({"leader"}))
    BY DEF EndsWithAnswer, wait_for_state, WpanMethod, CliStep, Retried, open_udp_and_bind
  <2> QED BY <2>2, <2>1 DEF MethodOK, wait_for_state, WpanMethod, ByName
<1>8. MethodOK(factory_reset)
  <2>1. /\ WellMade(CliStep([op |-> "factoryreset", item |-> "role", val |-> "none"], "sent"))
        /\ WellMade(Retried(CliGet("role"), "str", {"disabled"}))
    BY <1>1, <1>3 DEF ItemNames, OtherCommands, Boots, BootCommands
  <2>2. EndsWithAnswer(factory_reset)
    BY DEF EndsWithAnswer, factory_reset, WpanMethod, CliStep, Retried, open_udp_and_bind
  <2> QED BY <2>2, <2>1 DEF MethodOK, factory_reset, WpanMethod, ByName
<1>9. MethodOK(reset)
  <2>1. WellMade(CliStep([op |-> "reset", item |-> "role", val |-> "none"], "sent"))
    BY <1>3 DEF OtherCommands, Boots, BootCommands
  <2>2. EndsWithAnswer(reset)
    BY DEF EndsWithAnswer, reset, WpanMethod, CliStep, Retried, open_udp_and_bind
  <2> QED BY <2>2, <2>1 DEF MethodOK, reset, WpanMethod, ByName
<1>10. MethodOK(add_multicast_address_and_verify)
  <2>1. /\ WellMade(CliStep(Put("maddr", "in"), "ignored"))
        /\ WellMade([CliStep(CliGet("maddr"), "checked") EXCEPT !.accept = {"in"}])
    BY <1>1, <1>2 DEF PutCommands, ItemNames
  <2>2. EndsWithAnswer(add_multicast_address_and_verify)
    BY DEF EndsWithAnswer, add_multicast_address_and_verify, WpanMethod, CliStep, Retried, open_udp_and_bind
  <2> QED BY <2>2, <2>1 DEF MethodOK, add_multicast_address_and_verify, add_ipmaddr, ipmaddress, WpanMethod, ByName
<1> QED BY <1>4, <1>5, <1>6, <1>7, <1>8, <1>9, <1>10

\* All of them.
LEMMA MethodsOK == ASSUME NEW m \in WpanMethods PROVE MethodOK(m)
<1>1. \A x \in WpanMethods : MethodOK(x)
  BY QueriesOK, TellsOK, SocketMethodsOK, OtherMethodsOK, Zenon DEF WpanMethods
<1> QED BY <1>1

-----------------------------------------------------------------------------
(* The board.                                                              *)

\* A board whose item was replaced is a board.
LEMMA PutStays ==
  ASSUME NEW n \in NcpItems, NEW c \in PutCommands
  PROVE  [n EXCEPT ![c.item] = c.val] \in NcpItems /\ [n EXCEPT ![c.item] = c.val][c.item] = c.val
<1>1. c.item \in ItemNames /\ ItemNames = DOMAIN n
  BY DEF PutCommands, Put, ItemNames, NcpItems
<1>2. /\ n.role \in StateStr /\ n.ifconfig \in {"up", "down"} /\ n.buffer \in Dataset
      /\ n.active \in Dataset /\ n.udp \in {"closed", "open", "bound"} /\ n.diag \in {"on", "off"}
      /\ n.setting \in {"1", "2"} /\ n.maddr \in {"in", "out", "full"} /\ n.omr \in {"yes", "no"}
  BY DEF NcpItems
<1>3. /\ c.item = "role" => c.val \in StateStr
      /\ c.item = "ifconfig" => c.val \in {"up", "down"}
      /\ c.item = "buffer" => c.val \in Dataset
      /\ c.item = "active" => c.val \in Dataset
      /\ c.item = "udp" => c.val \in {"closed", "open", "bound"}
      /\ c.item = "diag" => c.val \in {"on", "off"}
      /\ c.item = "setting" => c.val \in {"1", "2"}
      /\ c.item = "maddr" => c.val \in {"in", "out", "full"}
      /\ c.item = "omr" => c.val \in {"yes", "no"}
  BY DEF PutCommands, Put, StateStr, Dataset
<1> DEFINE e == [n EXCEPT ![c.item] = c.val]
<1>4. /\ DOMAIN e = ItemNames /\ e[c.item] = c.val
      /\ \A i \in ItemNames : i # c.item => e[i] = n[i]
  BY <1>1
<1>5. n = [i \in ItemNames |-> n[i]]
  BY <1>1 DEF NcpItems, ItemNames
<1>6. e = [i \in ItemNames |-> e[i]]
  BY <1>5, <1>1
<1>7. /\ e.role \in StateStr /\ e.ifconfig \in {"up", "down"} /\ e.buffer \in Dataset
      /\ e.active \in Dataset /\ e.udp \in {"closed", "open", "bound"} /\ e.diag \in {"on", "off"}
      /\ e.setting \in {"1", "2"} /\ e.maddr \in {"in", "out", "full"} /\ e.omr \in {"yes", "no"}
  BY <1>1, <1>2, <1>3, <1>4 DEF ItemNames
<1> HIDE DEF e
<1>8. e \in NcpItems
  BY <1>6, <1>7 DEF NcpItems, ItemNames
<1> QED BY <1>4, <1>8 DEF e

\* Commands and boots leave a board a board; what a command prints, and what holds after it.
LEMMA BoardKeeps ==
  ASSUME NEW n \in NcpItems, NEW c \in CliCommands
  PROVE  /\ CliObeyed(n, c) \in NcpItems
         /\ Rebooted(n) \in NcpItems /\ FactoryNew \in NcpItems
         /\ Printed(n, c) \in Lines /\ Printed(n, c).cmd = c /\ ~IsDatagram(Printed(n, c))
         /\ Printed(n, c).ok = Obeys(n, c)
         /\ AlwaysObeyed(c) => Obeys(n, c)
         /\ c.op = "get" => CliObeyed(n, c) = n /\ Printed(n, c).val = n[c.item]
         /\ c.op # "get" => Printed(n, c).val = "none"
         /\ c.op = "put" => CliObeyed(n, c)[c.item] = c.val /\ CliObeyed(n, c) = [n EXCEPT ![c.item] = c.val]
<1>1. FactoryNew \in NcpItems /\ Rebooted(n) \in NcpItems
  BY DEF FactoryNew, Rebooted, NcpItems, StateStr, Dataset
<1>2. c.op = "put" => c \in PutCommands
  BY OpsAre DEF CliCommands
<1>3. c.op = "put" => CliObeyed(n, c) = [n EXCEPT ![c.item] = c.val]
  BY DEF CliObeyed
<1>4. c.op = "put" => CliObeyed(n, c) \in NcpItems /\ CliObeyed(n, c)[c.item] = c.val
  BY <1>2, <1>3, PutStays
<1>5. c.op # "put" => CliObeyed(n, c) \in NcpItems
  BY DEF CliObeyed, NcpItems
<1>6. c.op = "get" => c.item \in ItemNames /\ n[c.item] \in ItemValues
  <2>1. \A i \in ItemNames : n[i] \in ItemValues
    BY DEF ItemNames, NcpItems, ItemValues
  <2> QED BY <2>1, OpsAre DEF CliCommands
<1>7. c.op = "get" => CliObeyed(n, c) = n /\ Obeys(n, c)
  BY DEF CliObeyed, Obeys
<1>8. AlwaysObeyed(c) => Obeys(n, c)
  <2>1. c \in PutCommands /\ c.val = "closed" => c.item = "udp"
    BY DEF PutCommands, Put
  <2> QED BY <1>2, <1>7, <2>1 DEF AlwaysObeyed, Obeys
<1>9. c.op # "datagram" /\ Obeys(n, c) \in BOOLEAN
  <2>1. c \in OtherCommands => c.op # "datagram"
    BY DEF OtherCommands, udp_send
  <2>2. c.op # "datagram"
    BY <2>1, OpsAre DEF CliCommands
  <2>3. Obeys(n, c) \in BOOLEAN
    BY DEF Obeys
  <2> QED BY <2>2, <2>3
<1>10. Printed(n, c) = [cmd |-> c, ok |-> Obeys(n, c), val |-> IF c.op = "get" THEN n[c.item] ELSE "none"]
  BY <1>7, <1>9 DEF Printed
<1>11. Printed(n, c) \in Lines /\ Printed(n, c).cmd = c /\ ~IsDatagram(Printed(n, c))
  BY <1>6, <1>9, <1>10 DEF Lines, IsDatagram, Values, ItemValues, Dataset
<1>12. Printed(n, c).ok = Obeys(n, c) /\ (c.op = "get" => Printed(n, c).val = n[c.item])
       /\ (c.op # "get" => Printed(n, c).val = "none")
  BY <1>10
<1> QED BY <1>1, <1>3, <1>4, <1>5, <1>7, <1>8, <1>11, <1>12

\* The step in progress is a step of a method of the code.
LEMMA NowIs ==
  ASSUME WpTypes, wcall.m.steps # <<>>
  PROVE  /\ WellMade(Now) /\ MethodOK(wcall.m) /\ Now.cmd \in CliCommands
         /\ Now.cmd.op = "get" => Now.cmd.item \in ItemNames
         /\ Now.cmd.op = "put" => Now.cmd \in PutCommands
         /\ wcall.pc \in 1..Len(wcall.m.steps) /\ wcall.m \in WpanMethods
<1>1. wcall.pc \in 1..Len(wcall.m.steps) /\ wcall.m \in WpanMethods
  BY DEF WpTypes, CallRecord
<1>2. MethodOK(wcall.m)
  BY <1>1, MethodsOK
<1>3. WellMade(Now)
  BY <1>1, <1>2 DEF MethodOK, Now
<1> QED BY <1>1, <1>2, <1>3, OpsAre DEF WellMade, CliCommands

-----------------------------------------------------------------------------
(* The program.                                                            *)

\* An answer the step is content with.
GoodAnswer(v) == v # "raised" /\ (Now.accept = {} \/ v \in Now.accept)

\* What follows an answer, or the lack of one: the next step, another attempt, the step that
\* closes the socket, or the end of the method.
LEMMA StepOverIs ==
  ASSUME WpTypes, wcall.at \in {"send", "wait"}, NEW v \in Values, StepOver(v)
  PROVE  /\ wcall' \in CallRecord /\ wcall'.m = wcall.m /\ wcall.m.steps # <<>>
         /\ wcall'.pc \in 1..Len(wcall.m.steps) /\ wcall'.at \in {"send", "over"}
         /\ GoodAnswer(v) =>
              /\ wcall'.err = wcall.err /\ wcall'.val = v
              /\ wcall'.at = "over" => wcall'.pc = wcall.pc /\ wcall.pc = Len(wcall.m.steps)
              /\ wcall'.at = "send" => wcall'.pc = wcall.pc + 1
         /\ ~GoodAnswer(v) =>
              \/ wcall'.at = "send" /\ wcall'.pc = wcall.pc
              \/ wcall'.at = "send" /\ wcall.pc \in wcall.m.guarded /\ wcall'.pc = Len(wcall.m.steps)
              \/ /\ wcall'.at = "over" /\ wcall'.pc = wcall.pc /\ wcall.pc \notin wcall.m.guarded
                 /\ IF wcall.m.name = "omr_addresses" THEN wcall'.val = "empty" ELSE wcall'.err
<1>1. /\ wcall.m.steps # <<>> /\ wcall.pc \in 1..Len(wcall.m.steps) /\ wcall \in CallRecord
      /\ Len(wcall.m.steps) \in Nat
  BY DEF WpTypes
<1> DEFINE good == GoodAnswer(v)
            retried == ~good /\ wcall.try < Now.tries
            closing == ~good /\ wcall.pc \in wcall.m.guarded
            gaveUp == ~good /\ wcall.m.name = "omr_addresses"
            next == IF closing THEN Len(wcall.m.steps) ELSE wcall.pc + 1
            over == ~retried /\ ~closing /\ (~good \/ next > Len(wcall.m.steps))
<1>2. wcall' = [wcall EXCEPT
           !.try = IF retried THEN @ + 1 ELSE 1,
           !.pc = IF retried \/ over THEN @ ELSE next,
           !.err = @ \/ (~retried /\ ~good /\ ~gaveUp),
           !.val = IF gaveUp THEN "empty" ELSE v,
           !.at = IF over THEN "over" ELSE "send"]
  BY DEF StepOver, GoodAnswer
<1>3. /\ good \in BOOLEAN /\ retried \in BOOLEAN /\ closing \in BOOLEAN /\ gaveUp \in BOOLEAN
      /\ over \in BOOLEAN /\ next \in Nat \ {0}
  BY <1>1 DEF CallRecord, GoodAnswer
<1>4. /\ wcall'.m = wcall.m
      /\ wcall'.pc = IF retried \/ over THEN wcall.pc ELSE next
      /\ wcall'.err = (wcall.err \/ (~retried /\ ~good /\ ~gaveUp))
      /\ wcall'.val = IF gaveUp THEN "empty" ELSE v
      /\ wcall'.at = IF over THEN "over" ELSE "send"
  BY <1>1, <1>2 DEF CallRecord
<1>5. wcall' \in CallRecord
  <2>1. (IF gaveUp THEN "empty" ELSE v) \in Values
    BY DEF Values
  <2>2. (IF retried THEN wcall.try + 1 ELSE 1) \in Nat /\ (wcall.err \/ (~retried /\ ~good /\ ~gaveUp)) \in BOOLEAN
    BY <1>1, <1>3 DEF CallRecord
  <2>3. (IF over THEN "over" ELSE "send") \in {"idle", "send", "wait", "over"}
    OBVIOUS
  <2>4. (IF retried \/ over THEN wcall.pc ELSE next) \in Nat \ {0}
    BY <1>1, <1>3 DEF CallRecord
  <2> HIDE DEF good, retried, closing, gaveUp, next, over
  <2> QED BY <1>1, <1>2, <2>1, <2>2, <2>3, <2>4 DEF CallRecord
<1>6. ASSUME GoodAnswer(v)
      PROVE  /\ wcall'.err = wcall.err /\ wcall'.val = v
             /\ wcall'.at = "over" => wcall'.pc = wcall.pc /\ wcall.pc = Len(wcall.m.steps)
             /\ wcall'.at = "send" => wcall'.pc = wcall.pc + 1 /\ wcall.pc < Len(wcall.m.steps)
  <2>1. good /\ ~retried /\ ~closing /\ ~gaveUp /\ next = wcall.pc + 1
        /\ (over <=> next > Len(wcall.m.steps))
    BY <1>6
  <2>2. wcall.err \in BOOLEAN
    BY <1>1 DEF CallRecord
  <2> HIDE DEF good, retried, closing, gaveUp, next, over
  <2> QED BY <1>1, <1>4, <2>1, <2>2
<1>7. ASSUME ~GoodAnswer(v)
      PROVE  \/ wcall'.at = "send" /\ wcall'.pc = wcall.pc
             \/ wcall'.at = "send" /\ wcall.pc \in wcall.m.guarded /\ wcall'.pc = Len(wcall.m.steps)
             \/ /\ wcall'.at = "over" /\ wcall'.pc = wcall.pc /\ wcall.pc \notin wcall.m.guarded
                /\ IF wcall.m.name = "omr_addresses" THEN wcall'.val = "empty" ELSE wcall'.err
  <2>1. /\ ~good /\ (closing <=> wcall.pc \in wcall.m.guarded)
        /\ (over <=> ~retried /\ ~closing) /\ (closing => next = Len(wcall.m.steps))
        /\ (gaveUp <=> wcall.m.name = "omr_addresses")
    BY <1>7
  <2> HIDE DEF good, retried, closing, gaveUp, next, over
  <2>2. CASE retried
    BY <1>4, <2>1, <2>2
  <2>3. CASE ~retried /\ closing
    BY <1>4, <2>1, <2>3
  <2>4. CASE ~retried /\ ~closing
    BY <1>4, <2>1, <2>4
  <2> QED BY <2>2, <2>3, <2>4
<1>8. wcall'.at \in {"send", "over"}
  BY <1>4
<1> HIDE DEF good, retried, closing, gaveUp, next, over
<1>9. wcall'.pc \in 1..Len(wcall.m.steps)
  <2>1. CASE GoodAnswer(v)
    BY <1>1, <1>6, <1>8, <2>1
  <2>2. CASE ~GoodAnswer(v)
    BY <1>1, <1>7, <2>2
  <2> QED BY <2>1, <2>2
<1> QED BY <1>1, <1>4, <1>5, <1>6, <1>7, <1>8, <1>9

\* call_command takes the lines up to the first that ends the command.
LEMMA AnswerIs ==
  ASSUME WpTypes, Waits, Ended
  PROVE  \E k \in 1..Len(wire) :
           /\ IsEnd(wire[k]) /\ \A j \in 1..(k - 1) : ~IsEnd(wire[j])
           /\ call_command \in Values
           /\ call_command \in {"raised", Garbage, wire[k].val}
           /\ (Now.read = "datagram") => call_command = wire[k].val
           /\ (Now.read = "ignored" /\ wire[k].ok) => call_command = wire[k].val
           /\ (Now.read # "datagram" /\ Now.read # "ignored" /\ ~IsDatagram(wire[1]) /\ call_command # "raised") =>
                k = 1 /\ call_command = wire[1].val
           /\ (Now.read # "datagram" /\ ~IsDatagram(wire[1]) /\ call_command # "raised") => k = 1 /\ wire[1].ok
           /\ (Now.read = "checked" /\ call_command # "raised") => ~IsDatagram(wire[1])
<1> DEFINE I == {i \in 1..Len(wire) : IsEnd(wire[i])}
<1>1. I # {} /\ I \in SUBSET Nat /\ wire \in Seq(Lines)
  BY DEF Ended, WpTypes
<1>2. \E x \in I : \A y \in I : x <= y
  BY <1>1, LeastElement
<1> DEFINE k == SelectInSeq(wire, IsEnd)
<1>3. k \in I /\ \A y \in I : k <= y
  BY <1>1, <1>2 DEF SelectInSeq, Min
<1>5. Captured = SubSeq(wire, 1, k)
  BY DEF Captured
<1> HIDE DEF k
<1>4. k \in 1..Len(wire) /\ IsEnd(wire[k]) /\ \A j \in 1..(k - 1) : ~IsEnd(wire[j])
  <2>1. k \in 1..Len(wire) /\ IsEnd(wire[k]) /\ Len(wire) \in Nat
    BY <1>1, <1>3
  <2>2. ASSUME NEW j \in 1..(k - 1) PROVE ~IsEnd(wire[j])
    <3>1. j \in 1..Len(wire) /\ ~(k <= j)
      BY <2>1
    <3> QED BY <1>3, <3>1
  <2> QED BY <2>1, <2>2
<1>6. Len(Captured) = k /\ Captured[k] = wire[k] /\ Head(Captured) = wire[1]
  <2>1. Captured \in Seq(Lines) /\ Len(Captured) = k /\ \A i \in 1..k : Captured[i] = wire[i]
    BY <1>1, <1>4, <1>5
  <2>2. Captured # <<>>
    BY <1>4, <2>1
  <2> QED BY <1>4, <2>1, <2>2, HeadTailProperties
<1>7. wire[k] \in Lines /\ wire[1] \in Lines /\ wire[k].val \in Values
  <2>1. 1 \in 1..Len(wire) /\ k \in 1..Len(wire)
    BY <1>1, <1>4
  <2>2. \A i \in 1..Len(wire) : wire[i] \in Lines
    BY <1>1
  <2> QED BY <2>1, <2>2 DEF Lines
<1>8. Garbage \in Values /\ "raised" \in Values
  BY DEF Garbage, Values
<1>9. Now.read # "datagram" /\ ~IsDatagram(wire[1]) => k = 1
  BY <1>4 DEF IsEnd
<1> DEFINE first == Head(Captured)
            last == Captured[Len(Captured)]
<1>10. call_command =
         IF Now.read = "datagram" THEN last.val
         ELSE IF ~IsDatagram(first) THEN IF last.ok THEN last.val ELSE "raised"
         ELSE CASE Now.read = "ignored" \/ (Now.read \in {"found", "last"} /\ last.ok) -> last.val
                [] Now.read = "str" -> Garbage
                [] OTHER -> "raised"
  BY DEF call_command
<1>11. last = wire[k] /\ first = wire[1]
  BY <1>6
<1> HIDE DEF first, last
<1>12. /\ IsEnd(wire[k]) /\ \A j \in 1..(k - 1) : ~IsEnd(wire[j])
       /\ call_command \in Values
       /\ call_command \in {"raised", Garbage, wire[k].val}
       /\ (Now.read = "datagram") => call_command = wire[k].val
       /\ (Now.read = "ignored" /\ wire[k].ok) => call_command = wire[k].val
       /\ (Now.read # "datagram" /\ Now.read # "ignored" /\ ~IsDatagram(wire[1]) /\ call_command # "raised") =>
            k = 1 /\ call_command = wire[1].val
       /\ (Now.read # "datagram" /\ ~IsDatagram(wire[1]) /\ call_command # "raised") => k = 1 /\ wire[1].ok
       /\ (Now.read = "checked" /\ call_command # "raised") => ~IsDatagram(wire[1])
  BY <1>4, <1>7, <1>8, <1>9, <1>10, <1>11
<1> HIDE DEF I
<1> QED BY <1>4, <1>12

\* A method with the name of one of these is that one.
LEMMA Named ==
  ASSUME WpTypes
  PROVE  /\ wcall.m.name = "udp_send_msg" => wcall.m = udp_send_msg
         /\ wcall.m.name = "udp_receive_msg" => wcall.m = udp_receive_msg
         /\ wcall.m.name = "get_device_locale" => wcall.m = get_device_locale
         /\ wcall.m.name = "factory_reset" => wcall.m = factory_reset
         /\ wcall.m.name = "add_multicast" => wcall.m = add_multicast_address_and_verify
         /\ wcall.m.name = "omr_addresses" => wcall.m = omr_addresses
         /\ wcall.m.guarded # {} => wcall.m = udp_send_msg
<1>1. MethodOK(wcall.m)
  BY MethodsOK DEF WpTypes, CallRecord
<1> QED BY <1>1 DEF MethodOK, ByName

\* A method begins.
LEMMA StartKeeps ==
  ASSUME WpanInv, NEW m \in WpanMethods, WpanStart(m)
  PROVE  WpanInv'
<1>1. /\ UNCHANGED <<ncp, cli, wire>>
      /\ wcall' = [m |-> m, pc |-> 1, try |-> 1, err |-> FALSE, val |-> "none",
                   at |-> IF m.steps = <<>> THEN "over" ELSE "send"]
      /\ whist' = [whist EXCEPT !.calls = @ + 1, !.noisy = FALSE, !.before = ncp.udp,
                                !.lost = FALSE, !.seen = {}, !.pending = cli # <<>>]
      /\ WpTypes
  BY DEF WpanStart, WpanInv
<1>2. MethodOK(m)
  BY MethodsOK
<1>3. whist' \in HistRecord /\ (whist'.pending <=> cli # <<>>) /\ whist'.before = ncp.udp
  <2>1. /\ whist \in HistRecord /\ ncp.udp \in {"closed", "open", "bound"} /\ (cli # <<>>) \in BOOLEAN
        /\ {} \in SUBSET ItemValues
    BY <1>1 DEF WpTypes, NcpItems
  <2> DEFINE b == cli # <<>>
  <2>2. whist' = [whist EXCEPT !.calls = @ + 1, !.noisy = FALSE, !.before = ncp.udp,
                               !.lost = FALSE, !.seen = {}, !.pending = b]
    BY <1>1
  <2> HIDE DEF b
  <2>3. b \in BOOLEAN
    BY <2>1 DEF b
  <2>4. whist' \in HistRecord
    <3>1. whist.calls + 1 \in Nat /\ whist.datagrams \in Nat /\ whist.stale \in BOOLEAN
      BY <2>1 DEF HistRecord
    <3>2. whist' = [calls |-> whist.calls + 1, datagrams |-> whist.datagrams, stale |-> whist.stale,
                    noisy |-> FALSE, lost |-> FALSE, pending |-> b, seen |-> {}, before |-> ncp.udp]
      BY <2>1, <2>2 DEF HistRecord
    <3> QED BY <3>1, <3>2, <2>1, <2>3 DEF HistRecord
  <2>5. whist'.pending = b /\ whist'.before = ncp.udp
    BY <2>1, <2>2 DEF HistRecord
  <2> QED BY <2>4, <2>5 DEF b
<1>4. wcall' \in CallRecord
  BY <1>1 DEF CallRecord, Values, ItemValues, Dataset
<1>5. m.steps # <<>> => 1 \in 1..Len(m.steps)
  <2>1. m.steps # <<>> => Len(m.steps) \in Nat \ {0}
    BY <1>2, Zenon DEF MethodOK
  <2> QED BY <2>1
<1>6. WpTypes'
  BY <1>1, <1>3, <1>4, <1>5 DEF WpTypes, Waits
<1>7. WaitInv' /\ OverInv'
  BY <1>1 DEF WaitInv, OverInv, Waits, Returned
<1>8. FactoryInv'
  <2>1. m.name = "factory_reset" => m = factory_reset /\ m.steps # <<>>
    <3>1. m.name = "factory_reset" => m = factory_reset
      BY <1>2 DEF MethodOK, ByName
    <3>2. factory_reset.steps # <<>>
      BY DEF factory_reset, WpanMethod
    <3> QED BY <3>1, <3>2
  <2> QED
    <3>1. ASSUME wcall'.m.name = "factory_reset", ~whist'.pending
          PROVE  wcall'.pc = 1 /\ wcall'.at = "send" /\ cli' = <<>>
      BY <1>1, <1>3, <2>1, <3>1
    <3> QED BY <3>1 DEF FactoryInv
<1>9. SocketInv'
  <2>1. m.name = "udp_send_msg" => m = udp_send_msg /\ m.steps # <<>>
    <3>1. m.name = "udp_send_msg" => m = udp_send_msg
      BY <1>2 DEF MethodOK, ByName
    <3>2. udp_send_msg.steps # <<>>
      BY DEF udp_send_msg, open_udp_and_bind
    <3> QED BY <3>1, <3>2
  <2> QED
    <3>1. ASSUME wcall'.m.name = "udp_send_msg", ~whist'.pending
          PROVE  /\ wcall'.pc = 1 /\ wcall'.at = "send" /\ cli' = <<>>
                 /\ whist'.before = "closed" => ncp'.udp = "closed"
      BY <1>1, <1>3, <2>1, <3>1
    <3> QED BY <3>1 DEF SocketInv, Waits
<1> QED BY <1>6, <1>7, <1>8, <1>9 DEF WpanInv

\* The values of a board may be printed.
LEMMA ItemIsValue ==
  ASSUME NEW n \in NcpItems, NEW i \in ItemNames
  PROVE  n[i] \in ItemValues
BY DEF ItemNames, NcpItems, ItemValues

\* What a query may return grows with what the board's item was.
LEMMA SeenGrows ==
  ASSUME WpTypes, ncp' \in NcpItems, wcall' = wcall,
         whist' = [whist EXCEPT !.seen = @ \cup Watched(ncp')]
  PROVE  /\ whist' \in HistRecord /\ whist.seen \subseteq whist'.seen
         /\ Waits /\ Now.cmd.op = "get" => ncp'[Now.cmd.item] \in whist'.seen
         /\ whist'.calls = whist.calls /\ whist'.datagrams = whist.datagrams
         /\ whist'.stale = whist.stale /\ whist'.noisy = whist.noisy /\ whist'.lost = whist.lost
         /\ whist'.pending = whist.pending /\ whist'.before = whist.before
         /\ Now' = Now /\ Waits' = Waits
<1>1. whist \in HistRecord
  BY DEF WpTypes
<1>2. Waits => wcall.m.steps # <<>>
  BY DEF WpTypes, Waits
<1>3. Waits /\ Now.cmd.op = "get" => ncp'[Now.cmd.item] \in ItemValues
  BY <1>2, NowIs, ItemIsValue
<1>4. Watched(ncp') \subseteq ItemValues
  BY <1>3 DEF Watched
<1> DEFINE w == Watched(ncp')
<1>5. w \subseteq ItemValues /\ whist' = [whist EXCEPT !.seen = whist.seen \cup w]
  BY <1>4
<1> HIDE DEF w
<1>6. whist' \in HistRecord /\ whist'.seen = whist.seen \cup w
  BY <1>1, <1>5 DEF HistRecord
<1>7. Waits /\ Now.cmd.op = "get" => ncp'[Now.cmd.item] \in w
  BY DEF w, Watched
<1>8. Now' = Now /\ Waits' = Waits
  BY DEF Now, Waits
<1> QED BY <1>1, <1>5, <1>6, <1>7, <1>8 DEF HistRecord

\* The board handles a command.
LEMMA HandlesKeeps == ASSUME WpanInv, NcpHandles PROVE WpanInv'
<1>a. PICK c : c = cli[1]
  OBVIOUS
<1>b. PICK p : p = Printed(ncp, c)
  OBVIOUS
<1>1. /\ WpTypes /\ WaitInv /\ OverInv /\ FactoryInv /\ SocketInv
  BY DEF WpanInv
<1>2. /\ cli # <<>> /\ Head(cli) = c /\ c \in CliCommands /\ ~Boots(c)
      /\ cli' = Tail(cli) /\ cli' \in Seq(CliCommands) /\ Len(cli) \in Nat \ {0}
      /\ Len(cli') = Len(cli) - 1 /\ \A i \in 1..Len(cli') : cli'[i] = cli[i + 1]
  <2>1. cli \in Seq(CliCommands) /\ cli # <<>> /\ cli' = Tail(cli) /\ Head(cli).op \notin BootCommands
    BY <1>1 DEF NcpHandles, WpTypes
  <2>2. Head(cli) = c /\ c \in CliCommands /\ Len(cli) \in Nat \ {0}
    BY <2>1, <1>a
  <2> QED BY <2>1, <2>2, HeadTailProperties DEF Boots
<1>3. /\ ncp' = IF Obeys(ncp, c) THEN CliObeyed(ncp, c) ELSE ncp
      /\ wire' = Prints(p) /\ wcall' = wcall
      /\ whist' = [whist EXCEPT !.seen = @ \cup Watched(ncp')]
  BY <1>2, <1>b DEF NcpHandles
<1>4. /\ ncp' \in NcpItems /\ p \in Lines /\ p.cmd = c /\ ~IsDatagram(p)
      /\ p.ok = Obeys(ncp, c) /\ (AlwaysObeyed(c) => Obeys(ncp, c))
      /\ c.op = "get" => ncp' = ncp /\ p.val = ncp[c.item]
      /\ c.op # "get" => p.val = "none"
      /\ c.op = "put" /\ Obeys(ncp, c) => ncp'[c.item] = c.val
  <2>1. ncp \in NcpItems
    BY <1>1 DEF WpTypes
  <2> QED BY <2>1, <1>2, <1>3, <1>b, BoardKeeps
<1>5. /\ whist' \in HistRecord /\ whist.seen \subseteq whist'.seen
      /\ Waits /\ Now.cmd.op = "get" => ncp'[Now.cmd.item] \in whist'.seen
      /\ whist'.stale = whist.stale /\ whist'.noisy = whist.noisy /\ whist'.lost = whist.lost
      /\ whist'.pending = whist.pending /\ whist'.before = whist.before
      /\ Now' = Now /\ Waits' = Waits
  BY <1>1, <1>3, <1>4, SeenGrows
<1>6. /\ wire \in Seq(Lines) /\ wire' \in Seq(Lines)
      /\ Waits => Len(wire') = Len(wire) + 1 /\ wire'[Len(wire) + 1] = p
                  /\ \A i \in 1..Len(wire) : wire'[i] = wire[i]
      /\ ~Waits => wire' = wire
  BY <1>1, <1>3, <1>4 DEF WpTypes, Prints
<1>7. WpTypes'
  BY <1>1, <1>2, <1>3, <1>4, <1>5, <1>6 DEF WpTypes
<1>8. WaitInv'
  <2>1. ASSUME Waits, ~whist.stale
        PROVE  /\ cli' = <<>> /\ c = Now.cmd
               /\ \A i \in 1..Len(wire) : IsDatagram(wire[i])
    <3>1. Len(cli) = 1 /\ c = Now.cmd
      <4>1. 1 \in 1..Len(cli) /\ ~Boots(cli[1]) /\ cli[1] = c
        BY <1>2, <1>a
      <4> QED BY <1>1, <2>1, <4>1 DEF WaitInv
    <3>2. cli' = <<>>
      BY <1>2, <3>1
    <3> QED BY <1>1, <1>2, <2>1, <3>1, <3>2 DEF WaitInv, Settled
  <2>2. ASSUME Waits, ~whist.stale
        PROVE  Settled(p)'
    <3> USE <2>1, <2>2
    <3>1. cli' = <<>> /\ c = Now.cmd
      OBVIOUS
    <3>2. AlwaysObeyed(Now.cmd) => p.ok
      BY <3>1, <1>4
    <3>3. Now.cmd.op = "get" => ncp' = ncp /\ p.val = ncp[Now.cmd.item] /\ p.val \in whist'.seen
      BY <3>1, <1>4, <1>5
    <3>4. Now.cmd.op # "get" => p.val = "none"
      BY <3>1, <1>4
    <3>5. Now.cmd.op = "put" /\ p.ok => ncp'[Now.cmd.item] = Now.cmd.val
      BY <3>1, <1>4
    <3> QED BY <3>1, <3>2, <3>3, <3>4, <3>5, <1>5 DEF Settled
  <2> QED
    <3>1. ASSUME Waits, ~whist.noisy, NEW i \in 1..Len(wire') PROVE ~IsDatagram(wire'[i])
      BY <1>1, <1>4, <1>6, <3>1 DEF WaitInv
    <3>2. ASSUME Waits, ~whist.stale, NEW i \in 1..Len(wire')
          PROVE  IsDatagram(wire'[i]) \/ (Settled(wire[i]))'
      <4>1. CASE i = Len(wire) + 1
        BY <1>6, <2>2, <3>2, <4>1
      <4>2. CASE i # Len(wire) + 1
        BY <1>6, <2>1, <3>2, <4>2
      <4> QED BY <4>1, <4>2
    <3>3. ASSUME Waits, ~whist.stale PROVE Len(cli') = 0
      BY <2>1, <3>3
    <3> QED BY <1>5, <3>1, <3>2, <3>3 DEF WaitInv, IsDatagram
<1>9. OverInv'
  BY <1>1, <1>2, <1>3, <1>5 DEF OverInv, Returned, Waits
<1>10. FactoryInv'
  <2>1. ASSUME wcall.m.name = "factory_reset", ~whist.pending
        PROVE  /\ \A i \in 1..Len(cli') : cli'[i] \in {factory_reset.steps[1].cmd, CliGet("role")}
               /\ wcall.pc # 1
               /\ wcall.pc = 2 => ncp'.active = "none" /\ ncp'.role = "disabled" /\ ncp'.udp = "closed"
    <3>1. /\ \A i \in 1..Len(cli) : cli[i] \in {factory_reset.steps[1].cmd, CliGet("role")}
          /\ wcall.pc # 1
          /\ wcall.pc = 2 => \/ ncp.active = "none" /\ ncp.role = "disabled" /\ ncp.udp = "closed"
                             \/ cli # <<>> /\ cli[1] = factory_reset.steps[1].cmd
      BY <1>1, <1>2, <2>1 DEF FactoryInv
    <3>2. Boots(factory_reset.steps[1].cmd) /\ CliGet("role").op = "get"
      BY DEF Boots, BootCommands, factory_reset, WpanMethod, CliStep, CliGet
    <3>3. c = CliGet("role")
      BY <1>2, <1>a, <3>1, <3>2
    <3> QED BY <1>2, <1>4, <1>a, <3>1, <3>2, <3>3
  <2> QED BY <1>3, <1>5, <2>1 DEF FactoryInv
<1>11. SocketInv'
  <2>1. ASSUME wcall.m.name = "udp_send_msg", ~whist.stale, ~whist.lost, ~whist.pending
        PROVE  /\ \A i \in 1..Len(cli') : ~Boots(cli'[i])
               /\ whist.before = "closed" =>
                    /\ ~(wcall.pc = 1 /\ wcall.at = "send")
                    /\ (wcall.pc = 1 /\ Waits) =>
                         /\ cli' # <<>> => ncp'.udp = "closed"
                         /\ \A i \in 1..Len(wire') : wire'[i].ok
                    /\ wcall.at # "over"
    <3>1. \A i \in 1..Len(cli') : ~Boots(cli'[i])
      BY <1>1, <1>2, <2>1 DEF SocketInv
    <3>2. whist.before = "closed" => ~(wcall.pc = 1 /\ wcall.at = "send") /\ wcall.at # "over"
      BY <1>1, <1>2, <2>1 DEF SocketInv
    <3>3. ASSUME whist.before = "closed", wcall.pc = 1, Waits
          PROVE  cli' = <<>> /\ p.ok /\ \A i \in 1..Len(wire) : wire[i].ok
      <4>1. ncp.udp = "closed" /\ \A i \in 1..Len(wire) : wire[i].ok
        BY <1>1, <1>2, <2>1, <3>3 DEF SocketInv
      <4>2. Len(cli) = 1 /\ c = Now.cmd
        <5>1. 1 \in 1..Len(cli) /\ ~Boots(cli[1]) /\ cli[1] = c
          BY <1>2, <1>a
        <5> QED BY <1>1, <2>1, <3>3, <5>1 DEF WaitInv
      <4>3. Now.cmd = Put("udp", "open")
        BY <1>1, <2>1, <3>3, Named DEF Now, udp_send_msg, open_udp_and_bind, CliStep
      <4>4. Obeys(ncp, c)
        BY <4>1, <4>2, <4>3 DEF Obeys, Put
      <4> QED BY <1>2, <1>4, <4>1, <4>2, <4>4
    <3> QED BY <1>6, <3>1, <3>2, <3>3
  <2> QED BY <1>3, <1>5, <2>1 DEF SocketInv
<1> QED BY <1>7, <1>8, <1>9, <1>10, <1>11 DEF WpanInv

\* The board boots.
LEMMA BootsKeeps == ASSUME WpanInv, NcpBoots PROVE WpanInv'
<1>a. PICK c : c = cli[1]
  OBVIOUS
<1>1. /\ WpTypes /\ WaitInv /\ OverInv /\ FactoryInv /\ SocketInv
  BY DEF WpanInv
<1>2. /\ cli # <<>> /\ c \in CliCommands /\ Boots(c) /\ cli[1] = c /\ 1 \in 1..Len(cli)
      /\ cli' \in Seq(CliCommands) /\ Len(cli) \in Nat \ {0}
      /\ cli' # <<>> => Len(cli') = Len(cli) - 1 /\ \A i \in 1..Len(cli') : cli'[i] = cli[i + 1]
      /\ Head(cli) = c /\ Len(cli') \in Nat
  <2>1. cli \in Seq(CliCommands) /\ cli # <<>> /\ cli' \in {Tail(cli), <<>>} /\ Head(cli).op \in BootCommands
    BY <1>1 DEF NcpBoots, WpTypes
  <2>2. Head(cli) = c /\ c \in CliCommands /\ Len(cli) \in Nat \ {0}
    BY <2>1, <1>a
  <2>3. /\ Tail(cli) \in Seq(CliCommands) /\ Len(Tail(cli)) = Len(cli) - 1
        /\ \A i \in 1..Len(Tail(cli)) : Tail(cli)[i] = cli[i + 1]
    BY <2>1, HeadTailProperties
  <2>4. Boots(c) /\ 1 \in 1..Len(cli)
    BY <2>1, <2>2 DEF Boots
  <2>5. CASE cli' = <<>>
    BY <2>1, <2>2, <2>4, <2>5, <1>a
  <2>6. CASE cli' = Tail(cli)
    BY <2>1, <2>2, <2>3, <2>4, <2>6, <1>a
  <2> QED BY <2>1, <2>5, <2>6
<1>3. /\ ncp' = IF c.op = "reset" THEN Rebooted(ncp) ELSE FactoryNew
      /\ wire' = wire /\ wcall' = wcall
      /\ whist' = [whist EXCEPT !.seen = @ \cup Watched(ncp')]
  BY <1>2 DEF NcpBoots
<1>4. ncp' \in NcpItems
  BY <1>1, <1>2, <1>3, BoardKeeps DEF WpTypes
<1>5. /\ whist' \in HistRecord /\ whist.seen \subseteq whist'.seen
      /\ Waits /\ Now.cmd.op = "get" => ncp'[Now.cmd.item] \in whist'.seen
      /\ whist'.stale = whist.stale /\ whist'.noisy = whist.noisy /\ whist'.lost = whist.lost
      /\ whist'.pending = whist.pending /\ whist'.before = whist.before
      /\ Now' = Now /\ Waits' = Waits
  BY <1>1, <1>3, <1>4, SeenGrows
<1>6. WpTypes'
  BY <1>1, <1>2, <1>3, <1>4, <1>5 DEF WpTypes
<1>7. WaitInv'
  <2>1. ASSUME Waits, ~whist.stale, NEW i \in 1..Len(cli')
        PROVE  Boots(cli'[i]) \/ (i = Len(cli') /\ cli'[i] = Now.cmd)
    <3>1. cli' # <<>>
      BY <1>2, <2>1
    <3>2. i + 1 \in 1..Len(cli) /\ cli'[i] = cli[i + 1] /\ (i + 1 = Len(cli) => i = Len(cli'))
      BY <1>2, <2>1, <3>1
    <3> QED BY <1>1, <2>1, <3>2 DEF WaitInv
  <2>2. ASSUME Waits, ~whist.stale, NEW i \in 1..Len(wire)
        PROVE  IsDatagram(wire[i])
    BY <1>1, <1>2, <2>2 DEF WaitInv, Settled
  <2> QED
    <3>1. Waits /\ ~whist.noisy => \A i \in 1..Len(wire) : ~IsDatagram(wire[i])
      BY <1>1 DEF WaitInv
    <3> QED BY <1>3, <1>5, <2>1, <2>2, <3>1 DEF WaitInv, Boots, IsDatagram
<1>8. OverInv'
  BY <1>1, <1>2, <1>3, <1>5 DEF OverInv, Returned, Waits
<1>9. FactoryInv'
  <2>1. ASSUME wcall.m.name = "factory_reset", ~whist.pending
        PROVE  /\ \A i \in 1..Len(cli') : cli'[i] \in {factory_reset.steps[1].cmd, CliGet("role")}
               /\ wcall.pc # 1
               /\ ncp'.active = "none" /\ ncp'.role = "disabled" /\ ncp'.udp = "closed"
    <3>1. /\ \A i \in 1..Len(cli) : cli[i] \in {factory_reset.steps[1].cmd, CliGet("role")}
          /\ wcall.pc # 1
      BY <1>1, <1>2, <2>1 DEF FactoryInv
    <3>2. factory_reset.steps[1].cmd.op = "factoryreset" /\ CliGet("role").op = "get"
      BY DEF factory_reset, WpanMethod, CliStep, CliGet
    <3>3. c = factory_reset.steps[1].cmd
      BY <1>2, <3>1, <3>2 DEF Boots, BootCommands
    <3>4. ncp' = FactoryNew
      BY <1>3, <3>2, <3>3
    <3>5. \A i \in 1..Len(cli') : cli'[i] \in {factory_reset.steps[1].cmd, CliGet("role")}
      <4>1. CASE cli' = <<>>
        BY <4>1
      <4>2. CASE cli' # <<>>
        BY <1>2, <3>1, <4>2
      <4> QED BY <4>1, <4>2
    <3> QED BY <3>1, <3>4, <3>5 DEF FactoryNew
  <2> QED BY <1>3, <1>5, <2>1 DEF FactoryInv
<1>10. SocketInv'
  BY <1>1, <1>2, <1>3, <1>5 DEF SocketInv
<1> QED BY <1>6, <1>7, <1>8, <1>9, <1>10 DEF WpanInv

\* The role changes by itself.
LEMMA RoleKeeps == ASSUME WpanInv, RoleChanges PROVE WpanInv'
<1>1. /\ WpTypes /\ WaitInv /\ OverInv /\ FactoryInv /\ SocketInv
  BY DEF WpanInv
<1>2. /\ ncp.role # "disabled" /\ UNCHANGED <<cli, wire, wcall>>
      /\ ncp' = [ncp EXCEPT !.role = IF @ = "detached" THEN "leader" ELSE "detached"]
      /\ whist' = [whist EXCEPT !.seen = @ \cup Watched(ncp')]
  BY DEF RoleChanges
<1>3. /\ ncp' \in NcpItems
      /\ ncp'.udp = ncp.udp /\ \A i \in ItemNames : i # "role" => ncp'[i] = ncp[i]
  BY <1>1, <1>2 DEF WpTypes, NcpItems, StateStr, ItemNames
<1>5. /\ whist' \in HistRecord /\ whist.seen \subseteq whist'.seen
      /\ Waits /\ Now.cmd.op = "get" => ncp'[Now.cmd.item] \in whist'.seen
      /\ whist'.stale = whist.stale /\ whist'.noisy = whist.noisy /\ whist'.lost = whist.lost
      /\ whist'.pending = whist.pending /\ whist'.before = whist.before
      /\ Now' = Now /\ Waits' = Waits
  BY <1>1, <1>2, <1>3, SeenGrows
<1>6. WpTypes'
  BY <1>1, <1>2, <1>3, <1>5 DEF WpTypes
<1>7. wcall.m.steps # <<>> =>
        /\ Now.cmd.op = "get" => Now.cmd.item \in ItemNames
        /\ Now.cmd.op = "put" => Now.cmd.item \in ItemNames
  <2>1. \A c \in PutCommands : c.item \in ItemNames
    BY DEF PutCommands, Put, ItemNames
  <2> QED BY <1>1, <2>1, NowIs
<1>8. WaitInv'
  <2>1. Waits => wcall.m.steps # <<>>
    BY <1>1 DEF WpTypes, Waits
  <2>2. ASSUME Waits, NEW i \in 1..Len(wire), Settled(wire[i])
        PROVE  Settled(wire[i])'
    BY <1>2, <1>3, <1>5, <1>7, <2>1, <2>2 DEF Settled
  <2> QED BY <1>1, <1>2, <1>5, <2>2 DEF WaitInv
<1>9. OverInv'
  <2>1. ASSUME Returned, wcall.m.steps # <<>>
        PROVE  /\ Now.cmd.op = "get" /\ Now.cmd.item # "role" => ncp'[Now.cmd.item] = ncp[Now.cmd.item]
               /\ Now.cmd.op = "put" /\ Now.cmd.item # "role" => ncp'[Now.cmd.item] = ncp[Now.cmd.item]
    BY <1>3, <1>7, <2>1
  <2> QED BY <1>1, <1>2, <1>5, <2>1 DEF OverInv, Returned
<1>10. FactoryInv' /\ SocketInv'
  BY <1>1, <1>2, <1>3, <1>5 DEF FactoryInv, SocketInv
<1> QED BY <1>6, <1>8, <1>9, <1>10 DEF WpanInv

\* A datagram is printed.
LEMMA DatagramKeeps == ASSUME WpanInv, DatagramArrives PROVE WpanInv'
<1>1. /\ WpTypes /\ WaitInv /\ OverInv /\ FactoryInv /\ SocketInv
  BY DEF WpanInv
<1>2. /\ wire' = Prints(Datagram) /\ UNCHANGED <<ncp, cli, wcall>>
      /\ whist' = [whist EXCEPT !.datagrams = @ + 1, !.noisy = @ \/ Waits]
  BY DEF DatagramArrives
<1>3. Datagram \in Lines /\ IsDatagram(Datagram) /\ Datagram.ok
  BY DEF Datagram, Lines, IsDatagram, Values
<1>4. /\ wire \in Seq(Lines) /\ wire' \in Seq(Lines)
      /\ Waits => Len(wire') = Len(wire) + 1 /\ wire'[Len(wire) + 1] = Datagram
                  /\ \A i \in 1..Len(wire) : wire'[i] = wire[i]
      /\ ~Waits => wire' = wire
  BY <1>1, <1>2, <1>3 DEF WpTypes, Prints
<1>5. /\ whist' \in HistRecord
      /\ whist'.stale = whist.stale /\ whist'.lost = whist.lost /\ whist'.seen = whist.seen
      /\ whist'.pending = whist.pending /\ whist'.before = whist.before
      /\ Now' = Now /\ Waits' = Waits
      /\ Waits => whist'.noisy
      /\ ~Waits => whist'.noisy = whist.noisy
  <2> DEFINE b == whist.noisy \/ Waits
  <2>1. whist' = [whist EXCEPT !.datagrams = whist.datagrams + 1, !.noisy = b]
    BY <1>2
  <2>2. b \in BOOLEAN /\ (Waits => b = TRUE) /\ (~Waits => b = whist.noisy)
    BY <1>1 DEF WpTypes, HistRecord
  <2>3. Now' = Now /\ Waits' = Waits
    BY <1>2 DEF Now, Waits
  <2> HIDE DEF b
  <2>4. whist \in HistRecord
    BY <1>1 DEF WpTypes
  <2>5. whist' \in HistRecord
    <3>1. whist.datagrams + 1 \in Nat
      BY <2>4 DEF HistRecord
    <3>2. whist' = [calls |-> whist.calls, datagrams |-> whist.datagrams + 1, stale |-> whist.stale,
                    noisy |-> b, lost |-> whist.lost, pending |-> whist.pending, seen |-> whist.seen,
                    before |-> whist.before]
      BY <2>1, <2>4 DEF HistRecord
    <3> QED BY <3>1, <3>2, <2>2, <2>4 DEF HistRecord
  <2>8. whist'.noisy = b
    BY <2>1, <2>4 DEF HistRecord
  <2>6. /\ whist'.stale = whist.stale /\ whist'.lost = whist.lost /\ whist'.seen = whist.seen
        /\ whist'.pending = whist.pending /\ whist'.before = whist.before
    BY <2>1, <2>4 DEF HistRecord
  <2>7. (Waits => whist'.noisy) /\ (~Waits => whist'.noisy = whist.noisy)
    BY <2>2, <2>8
  <2> QED BY <2>3, <2>5, <2>6, <2>7
<1>6. WpTypes'
  BY <1>1, <1>2, <1>4, <1>5 DEF WpTypes
<1>7. WaitInv'
  <2>1. ASSUME Waits, ~whist.stale, NEW i \in 1..Len(wire')
        PROVE  IsDatagram(wire'[i]) \/ (Settled(wire[i]))'
    <3>1. CASE i = Len(wire) + 1
      BY <1>3, <1>4, <2>1, <3>1
    <3>2. CASE i # Len(wire) + 1
      <4>1. i \in 1..Len(wire) /\ wire'[i] = wire[i]
        BY <1>4, <2>1, <3>2
      <4>2. IsDatagram(wire[i]) \/ Settled(wire[i])
        BY <1>1, <2>1, <4>1 DEF WaitInv
      <4> QED BY <1>2, <1>5, <4>1, <4>2 DEF Settled
    <3> QED BY <3>1, <3>2
  <2>2. Waits => (Now.cmd.op = "get" => ncp[Now.cmd.item] \in whist.seen)
    BY <1>1 DEF WaitInv
  <2>3. ASSUME Waits, ~whist.stale, NEW i \in 1..Len(cli)
        PROVE  Boots(cli[i]) \/ (i = Len(cli) /\ cli[i] = Now.cmd)
    BY <1>1, <2>3 DEF WaitInv
  <2> QED BY <1>2, <1>5, <2>1, <2>2, <2>3 DEF WaitInv, IsDatagram
<1>8. OverInv'
  BY <1>1, <1>2, <1>5 DEF OverInv, Returned, Waits
<1>9. FactoryInv'
  BY <1>1, <1>2, <1>5 DEF FactoryInv
<1>10. SocketInv'
  <2>1. ASSUME Waits, \A i \in 1..Len(wire) : wire[i].ok, NEW i \in 1..Len(wire')
        PROVE  wire'[i].ok
    BY <1>3, <1>4, <2>1
  <2> QED BY <1>1, <1>2, <1>5, <2>1 DEF SocketInv
<1> QED BY <1>6, <1>7, <1>8, <1>9, <1>10 DEF WpanInv

\* Whether the program has left commands that it does not wait for.
LEMMA SendIs ==
  ASSUME WpTypes, SendCommand
  PROVE  /\ wcall.m.steps # <<>> /\ cli' = Append(cli, Now.cmd) /\ cli' \in Seq(CliCommands)
         /\ cli \in Seq(CliCommands) /\ Len(cli') = Len(cli) + 1 /\ cli'[Len(cli) + 1] = Now.cmd
         /\ \A i \in 1..Len(cli) : cli'[i] = cli[i]
         /\ whist' \in HistRecord
         /\ ~whist'.stale => ~whist.stale /\ \A i \in 1..Len(cli) : Boots(cli[i])
         /\ Now.cmd.op = "get" => ncp[Now.cmd.item] \in whist'.seen
         /\ whist'.noisy = whist.noisy /\ whist'.lost = whist.lost
         /\ whist'.pending = whist.pending /\ whist'.before = whist.before
<1>1. /\ wcall.at = "send" /\ cli' = Append(cli, Now.cmd)
      /\ whist' = [whist EXCEPT !.stale = @ \/ \E i \in 1..Len(cli) : cli[i].op \notin BootCommands,
                                !.seen = IF Now.cmd.op = "get" THEN {ncp[Now.cmd.item]} ELSE {}]
  BY DEF SendCommand
<1>2. wcall.m.steps # <<>> /\ whist \in HistRecord /\ cli \in Seq(CliCommands) /\ ncp \in NcpItems
  BY <1>1 DEF WpTypes
<1>3. Now.cmd \in CliCommands /\ (Now.cmd.op = "get" => Now.cmd.item \in ItemNames)
  BY <1>2, NowIs
<1> DEFINE b == whist.stale \/ \E i \in 1..Len(cli) : cli[i].op \notin BootCommands
            w == IF Now.cmd.op = "get" THEN {ncp[Now.cmd.item]} ELSE {}
<1>4. b \in BOOLEAN /\ (~b => ~whist.stale /\ \A i \in 1..Len(cli) : Boots(cli[i]))
  BY <1>2 DEF HistRecord, Boots
<1>5. w \in SUBSET ItemValues /\ (Now.cmd.op = "get" => ncp[Now.cmd.item] \in w)
  BY <1>2, <1>3, ItemIsValue
<1>6. whist' = [whist EXCEPT !.stale = b, !.seen = w]
  BY <1>1
<1> HIDE DEF b, w
<1>7. whist' = [calls |-> whist.calls, datagrams |-> whist.datagrams, stale |-> b,
                noisy |-> whist.noisy, lost |-> whist.lost, pending |-> whist.pending, seen |-> w,
                before |-> whist.before]
  BY <1>2, <1>6 DEF HistRecord
<1>8. whist' \in HistRecord
  BY <1>2, <1>4, <1>5, <1>7 DEF HistRecord
<1>9. /\ whist'.stale = b /\ whist'.seen = w /\ whist'.noisy = whist.noisy /\ whist'.lost = whist.lost
      /\ whist'.pending = whist.pending /\ whist'.before = whist.before
  BY <1>7
<1>10. /\ cli' \in Seq(CliCommands) /\ Len(cli') = Len(cli) + 1 /\ cli'[Len(cli) + 1] = Now.cmd
       /\ \A i \in 1..Len(cli) : cli'[i] = cli[i]
  BY <1>1, <1>2, <1>3
<1>11. ~whist'.stale => ~whist.stale /\ \A i \in 1..Len(cli) : Boots(cli[i])
  BY <1>4, <1>9
<1> QED BY <1>1, <1>2, <1>5, <1>8, <1>9, <1>10, <1>11

\* The steps of factory_reset.
LEMMA FactorySteps ==
  /\ Len(factory_reset.steps) = 2 /\ factory_reset.guarded = {}
  /\ factory_reset.steps[1].read = "sent" /\ factory_reset.steps[1].accept = {}
  /\ factory_reset.steps[2].read = "str" /\ factory_reset.steps[2].cmd = CliGet("role")
BY DEF factory_reset, WpanMethod, CliStep, Retried

\* The steps of udp_send_msg.
LEMMA SocketSteps ==
  /\ Len(udp_send_msg.steps) = 4 /\ udp_send_msg.guarded = {2, 3}
  /\ \A i \in 1..4 : udp_send_msg.steps[i].read = "ignored" /\ udp_send_msg.steps[i].accept = {}
  /\ udp_send_msg.steps[1].cmd = Put("udp", "open")
  /\ udp_send_msg.steps[4].cmd = Put("udp", "closed")
BY DEF udp_send_msg, open_udp_and_bind, CliStep

\* A command that boots the board: the method goes on at once.
LEMMA SendAndGoOn ==
  ASSUME WpanInv, SendCommand, Now.read = "sent"
  PROVE  WpanInv'
<1>1. /\ WpTypes /\ WaitInv /\ OverInv /\ FactoryInv /\ SocketInv
  BY DEF WpanInv
<1>2. /\ wcall.at = "send" /\ wire' = <<>> /\ ncp' = ncp /\ StepOver("none")
  BY DEF SendCommand
<1>3. WellMade(Now) /\ Boots(Now.cmd) /\ Now.accept = {} /\ wcall.pc \in 1..Len(wcall.m.steps)
  BY <1>1, SendIs, NowIs DEF WellMade
<1>4. GoodAnswer("none")
  BY <1>3 DEF GoodAnswer
<1>5. "none" \in Values
  BY DEF Values, ItemValues, Dataset
<1>6. /\ wcall' \in CallRecord /\ wcall'.m = wcall.m /\ wcall.m.steps # <<>>
      /\ wcall'.pc \in 1..Len(wcall.m.steps) /\ wcall'.at \in {"send", "over"}
      /\ wcall'.at = "over" => wcall'.pc = wcall.pc /\ wcall.pc = Len(wcall.m.steps)
      /\ wcall'.at = "send" => wcall'.pc = wcall.pc + 1
  BY <1>1, <1>2, <1>4, <1>5, StepOverIs
<1>7. ~Waits'
  BY <1>6 DEF Waits
<1>8. WpTypes'
  BY <1>1, <1>2, <1>6, <1>7, SendIs DEF WpTypes
<1>9. WaitInv'
  BY <1>7 DEF WaitInv
<1>10. wcall.m.name = "factory_reset" => wcall.pc = 1 /\ wcall.m = factory_reset
  BY <1>1, <1>3, Named, FactorySteps DEF Now
<1>11. OverInv'
  <2>1. ASSUME Returned'
        PROVE  /\ wcall'.pc = Len(wcall'.m.steps) /\ Now' = Now
               /\ wcall'.m.name # "factory_reset"
    BY <1>6, <1>10, <2>1, FactorySteps DEF Returned, Now
  <2>2. Now.cmd.op # "get" /\ Now.cmd.op # "put"
    BY <1>3 DEF Boots, BootCommands
  <2> QED BY <1>3, <2>1, <2>2 DEF OverInv
<1>12. FactoryInv'
  <2>1. ASSUME wcall.m.name = "factory_reset", ~whist.pending
        PROVE  /\ \A i \in 1..Len(cli') : cli'[i] \in {factory_reset.steps[1].cmd, CliGet("role")}
               /\ wcall'.pc = 2 /\ cli' # <<>> /\ cli'[1] = factory_reset.steps[1].cmd
    <3>1. cli = <<>>
      BY <1>1, <1>10, <2>1 DEF FactoryInv
    <3>2. Len(cli') = 1 /\ cli'[1] = factory_reset.steps[1].cmd
      BY <1>1, <1>10, <2>1, <3>1, SendIs DEF Now
    <3>3. wcall'.pc = 2
      BY <1>6, <1>10, <2>1, FactorySteps
    <3> QED BY <3>2, <3>3
  <2> QED BY <1>1, <1>6, <2>1, SendIs DEF FactoryInv
<1>13. SocketInv'
  <2>1. wcall.m.name # "udp_send_msg"
    BY <1>1, <1>3, Named, SocketSteps DEF Now
  <2> QED BY <1>6, <2>1 DEF SocketInv
<1> QED BY <1>8, <1>9, <1>11, <1>12, <1>13 DEF WpanInv

\* Any other command is.
LEMMA SendAndWait ==
  ASSUME WpanInv, SendCommand, Now.read # "sent"
  PROVE  WpanInv'
<1>1. /\ WpTypes /\ WaitInv /\ OverInv /\ FactoryInv /\ SocketInv
  BY DEF WpanInv
<1>2. /\ wcall.at = "send" /\ wire' = <<>> /\ ncp' = ncp
      /\ wcall' = [wcall EXCEPT !.at = "wait"] /\ wcall \in CallRecord
  BY <1>1 DEF SendCommand, WpTypes
<1>3. /\ wcall' \in CallRecord /\ wcall'.m = wcall.m /\ wcall'.pc = wcall.pc /\ wcall'.at = "wait"
      /\ wcall'.err = wcall.err
  BY <1>2 DEF CallRecord
<1>4. Now' = Now /\ Waits' /\ ~Returned'
  BY <1>3 DEF Now, Waits, Returned
<1>5. WellMade(Now) /\ ~Boots(Now.cmd) /\ wcall.pc \in 1..Len(wcall.m.steps)
  BY <1>1, SendIs, NowIs DEF WellMade
<1>6. WpTypes'
  BY <1>1, <1>2, <1>3, <1>4, <1>5, SendIs DEF WpTypes
<1>7. WaitInv'
  <2>1. ASSUME ~whist'.stale, NEW i \in 1..Len(cli')
        PROVE  Boots(cli'[i]) \/ (i = Len(cli') /\ cli'[i] = Now.cmd)
    <3>1. i \in 1..Len(cli) \/ i = Len(cli) + 1
      BY <1>1, SendIs, <2>1
    <3> QED BY <1>1, <2>1, <3>1, SendIs
  <2>2. Len(wire') = 0
    BY <1>2
  <2> QED BY <1>1, <1>2, <1>4, <2>1, <2>2, SendIs DEF WaitInv, Boots
<1>8. OverInv'
  BY <1>4 DEF OverInv
<1>9. FactoryInv'
  <2>1. ASSUME wcall.m.name = "factory_reset", ~whist.pending
        PROVE  /\ \A i \in 1..Len(cli') : cli'[i] \in {factory_reset.steps[1].cmd, CliGet("role")}
               /\ wcall.pc # 1
               /\ \/ ncp.active = "none" /\ ncp.role = "disabled" /\ ncp.udp = "closed"
                  \/ cli' # <<>> /\ cli'[1] = factory_reset.steps[1].cmd
    <3>1. wcall.m = factory_reset /\ wcall.pc = 2 /\ Now.cmd = CliGet("role")
      BY <1>1, <1>5, <2>1, Named, FactorySteps DEF Now
    <3>2. /\ \A i \in 1..Len(cli) : cli[i] \in {factory_reset.steps[1].cmd, CliGet("role")}
          /\ \/ ncp.active = "none" /\ ncp.role = "disabled" /\ ncp.udp = "closed"
             \/ cli # <<>> /\ cli[1] = factory_reset.steps[1].cmd
      BY <1>1, <2>1, <3>1 DEF FactoryInv
    <3>3. \A i \in 1..Len(cli') : cli'[i] \in {factory_reset.steps[1].cmd, CliGet("role")}
      <4>1. \A i \in 1..Len(cli') : i \in 1..Len(cli) \/ i = Len(cli) + 1
        BY <1>1, SendIs
      <4> QED BY <1>1, <3>1, <3>2, <4>1, SendIs
    <3>4. cli # <<>> => cli' # <<>> /\ cli'[1] = cli[1]
      <4>1. cli # <<>> => 1 \in 1..Len(cli) /\ Len(cli') # 0
        BY <1>1, SendIs
      <4> QED BY <1>1, <4>1, SendIs
    <3> QED BY <3>1, <3>2, <3>3, <3>4
  <2> QED BY <1>1, <1>2, <1>3, <2>1, SendIs DEF FactoryInv
<1>10. SocketInv'
  <2>1. ASSUME wcall.m.name = "udp_send_msg", ~whist'.stale, ~whist.lost, ~whist.pending
        PROVE  /\ \A i \in 1..Len(cli') : ~Boots(cli'[i])
               /\ whist.before = "closed" /\ wcall.pc = 1 => ncp.udp = "closed"
    <3>1. ~whist.stale
      BY <1>1, <2>1, SendIs
    <3>2. \A i \in 1..Len(cli) : ~Boots(cli[i])
      BY <1>1, <2>1, <3>1 DEF SocketInv
    <3>3. \A i \in 1..Len(cli') : i \in 1..Len(cli) \/ i = Len(cli) + 1
      BY <1>1, SendIs
    <3>4. \A i \in 1..Len(cli') : ~Boots(cli'[i])
      BY <1>1, <1>5, <3>2, <3>3, SendIs
    <3> QED BY <1>1, <1>2, <2>1, <3>1, <3>4 DEF SocketInv
  <2>2. Len(wire') = 0
    BY <1>2
  <2>3. /\ whist'.lost = whist.lost /\ whist'.pending = whist.pending /\ whist'.before = whist.before
    BY <1>1, SendIs
  <2> QED BY <1>2, <1>3, <2>1, <2>2, <2>3 DEF SocketInv, Boots
<1> QED BY <1>6, <1>7, <1>8, <1>9, <1>10 DEF WpanInv

\* A command is sent.
LEMMA SendKeeps == ASSUME WpanInv, SendCommand PROVE WpanInv'
BY SendAndGoOn, SendAndWait

\* A step that is over leaves the factory reset where it was.
LEMMA FactoryGoesOn ==
  ASSUME WpanInv, Waits, NEW v \in Values, StepOver(v), UNCHANGED <<ncp, cli>>,
         whist'.pending = whist.pending
  PROVE  FactoryInv'
<1>1. WpTypes /\ FactoryInv
  BY DEF WpanInv
<1>2. /\ wcall'.m = wcall.m /\ wcall'.pc \in 1..Len(wcall.m.steps)
      /\ wcall'.pc = wcall.pc \/ wcall'.pc = wcall.pc + 1 \/ wcall'.pc = Len(wcall.m.steps)
  BY <1>1, StepOverIs DEF Waits
<1>3. ASSUME wcall.m.name = "factory_reset", ~whist.pending
      PROVE  wcall.pc = 2 /\ wcall'.pc = 2
  <2>1. wcall.m = factory_reset /\ Len(wcall.m.steps) = 2 /\ wcall.pc \in 1..2 /\ wcall.pc # 1
    <3>1. wcall.m = factory_reset /\ wcall.m.steps # <<>>
      BY <1>1, <1>3, Named DEF WpTypes, Waits
    <3> QED BY <1>1, <1>3, <3>1, FactorySteps DEF FactoryInv, Waits, WpTypes
  <2> QED BY <1>2, <2>1
<1> QED BY <1>1, <1>2, <1>3 DEF FactoryInv

\* No answer comes in time.
LEMMA NoAnswerKeeps == ASSUME WpanInv, NoAnswer PROVE WpanInv'
<1>1. /\ WpTypes /\ WaitInv /\ OverInv /\ FactoryInv /\ SocketInv
  BY DEF WpanInv
<1>2. /\ Waits /\ StepOver("raised") /\ UNCHANGED <<ncp, cli, wire>>
      /\ whist' = [whist EXCEPT !.lost = TRUE] /\ "raised" \in Values /\ ~GoodAnswer("raised")
  BY DEF NoAnswer, Values, GoodAnswer
<1>3. /\ wcall' \in CallRecord /\ wcall'.m = wcall.m /\ wcall.m.steps # <<>>
      /\ wcall'.pc \in 1..Len(wcall.m.steps) /\ wcall'.at \in {"send", "over"}
      /\ wcall'.at = "over" =>
           /\ wcall'.pc = wcall.pc
           /\ IF wcall.m.name = "omr_addresses" THEN wcall'.val = "empty" ELSE wcall'.err
  BY <1>1, <1>2, StepOverIs DEF Waits
<1>4. whist' \in HistRecord /\ whist'.lost /\ whist'.pending = whist.pending
  BY <1>1, <1>2 DEF WpTypes, HistRecord
<1>5. ~Waits'
  BY <1>3 DEF Waits
<1>6. WpTypes' /\ WaitInv' /\ SocketInv'
  BY <1>1, <1>2, <1>3, <1>4, <1>5 DEF WpTypes, WaitInv, SocketInv
<1>7. OverInv'
  <2>1. ASSUME Returned'
        PROVE  /\ wcall.m.name = "omr_addresses" /\ wcall'.val = "empty" /\ Now' = Now
               /\ Now.cmd.op = "get"
    <3>1. wcall.m.name = "omr_addresses" /\ wcall'.val = "empty" /\ wcall'.pc = wcall.pc
      BY <1>3, <2>1 DEF Returned
    <3>2. wcall.m = omr_addresses /\ Len(omr_addresses.steps) = 2
      BY <1>1, <3>1, Named DEF omr_addresses, WpanMethod
    <3>3. omr_addresses.steps[1].cmd.op = "get" /\ omr_addresses.steps[2].cmd.op = "get"
      BY DEF omr_addresses, WpanMethod, Retried, CliGet
    <3> QED BY <1>3, <3>1, <3>2, <3>3 DEF Now
  <2> QED BY <1>3, <2>1 DEF OverInv
<1>8. FactoryInv'
  BY <1>2, <1>4, FactoryGoesOn
<1> QED BY <1>6, <1>7, <1>8 DEF WpanInv

\* The answer to a command is that command's, when nothing else was to come.
LEMMA Taken ==
  ASSUME WpanInv, Waits, Ended, ~whist.stale, Now.read # "datagram"
  PROVE  /\ cli = <<>> /\ call_command \in Values
         /\ Now.cmd.op = "get" /\ call_command # "raised" /\ (~whist.noisy \/ Now.read = "checked") =>
              /\ call_command \in whist.seen
              /\ Now.cmd.item # "role" => call_command = ncp[Now.cmd.item]
         /\ Now.cmd.op = "put" /\ Now.cmd.item # "role" =>
              /\ AlwaysObeyed(Now.cmd) => ncp[Now.cmd.item] = Now.cmd.val
              /\ call_command # "raised" /\ ~whist.noisy => ncp[Now.cmd.item] = Now.cmd.val
         /\ Now.cmd.op # "get" /\ Now.read = "ignored" /\ (\A i \in 1..Len(wire) : wire[i].ok) =>
              call_command = "none"
<1>1. /\ WpTypes /\ WaitInv
  BY DEF WpanInv
<1>2. PICK k \in 1..Len(wire) :
        /\ IsEnd(wire[k])
        /\ call_command \in Values
        /\ (Now.read = "ignored" /\ wire[k].ok) => call_command = wire[k].val
        /\ (Now.read # "datagram" /\ Now.read # "ignored" /\ ~IsDatagram(wire[1]) /\ call_command # "raised") =>
             k = 1 /\ call_command = wire[1].val
        /\ (Now.read # "datagram" /\ ~IsDatagram(wire[1]) /\ call_command # "raised") => k = 1 /\ wire[1].ok
        /\ (Now.read = "checked" /\ call_command # "raised") => ~IsDatagram(wire[1])
  BY <1>1, AnswerIs
<1>3. ~IsDatagram(wire[k])
  BY <1>2 DEF IsEnd
<1>4. Settled(wire[k])
  BY <1>1, <1>2, <1>3 DEF WaitInv
<1>5. ~whist.noisy => ~IsDatagram(wire[1])
  <2>1. 1 \in 1..Len(wire)
    BY <1>1, <1>2 DEF WpTypes
  <2> QED BY <1>1, <2>1 DEF WaitInv
<1>6. WellMade(Now)
  BY <1>1, NowIs DEF WpTypes, Waits
<1>7. Now.cmd.op = "get" => Now.read # "ignored"
  BY <1>6 DEF WellMade
<1> QED BY <1>2, <1>4, <1>5, <1>7 DEF Settled

\* The program takes the answer.
LEMMA TakeKeeps == ASSUME WpanInv, TakeAnswer PROVE WpanInv'
<1> DEFINE v == call_command
<1>1. /\ WpTypes /\ WaitInv /\ OverInv /\ FactoryInv /\ SocketInv
  BY DEF WpanInv
<1>2. /\ Waits /\ Ended /\ StepOver(v) /\ UNCHANGED <<ncp, cli, wire, whist>>
  BY DEF TakeAnswer
<1>3. v \in Values
  BY <1>1, <1>2, AnswerIs
<1>4. /\ wcall' \in CallRecord /\ wcall'.m = wcall.m /\ wcall.m.steps # <<>>
      /\ wcall'.pc \in 1..Len(wcall.m.steps) /\ wcall'.at \in {"send", "over"}
      /\ GoodAnswer(v) =>
           /\ wcall'.val = v
           /\ wcall'.at = "over" => wcall'.pc = wcall.pc /\ wcall.pc = Len(wcall.m.steps)
           /\ wcall'.at = "send" => wcall'.pc = wcall.pc + 1
      /\ ~GoodAnswer(v) =>
           \/ wcall'.at = "send" /\ wcall'.pc = wcall.pc
           \/ wcall'.at = "send" /\ wcall.pc \in wcall.m.guarded /\ wcall'.pc = Len(wcall.m.steps)
           \/ /\ wcall'.at = "over" /\ wcall'.pc = wcall.pc /\ wcall.pc \notin wcall.m.guarded
              /\ IF wcall.m.name = "omr_addresses" THEN wcall'.val = "empty" ELSE wcall'.err
  BY <1>1, <1>2, <1>3, StepOverIs DEF Waits
<1>5. ~Waits' /\ WpTypes' /\ WaitInv'
  BY <1>1, <1>2, <1>4 DEF Waits, WpTypes, WaitInv
<1>6. FactoryInv'
  BY <1>2, <1>3, FactoryGoesOn
<1>7. /\ WellMade(Now) /\ EndsWithAnswer(wcall.m) /\ wcall.pc \in 1..Len(wcall.m.steps)
  BY <1>1, <1>4, NowIs DEF MethodOK
<1> HIDE DEF v
<1>8. OverInv'
  <2>1. CASE ~GoodAnswer(v)
    <3>1. ASSUME Returned'
          PROVE  /\ wcall.m.name = "omr_addresses" /\ wcall'.val = "empty" /\ Now' = Now
                 /\ Now.cmd.op = "get"
      <4>1. wcall.m.name = "omr_addresses" /\ wcall'.val = "empty" /\ wcall'.pc = wcall.pc
        BY <1>4, <2>1, <3>1 DEF Returned
      <4>2. wcall.m = omr_addresses /\ Len(omr_addresses.steps) = 2
        BY <1>1, <4>1, Named DEF omr_addresses, WpanMethod
      <4>3. omr_addresses.steps[1].cmd.op = "get" /\ omr_addresses.steps[2].cmd.op = "get"
        BY DEF omr_addresses, WpanMethod, Retried, CliGet
      <4> QED BY <1>4, <1>7, <4>1, <4>2, <4>3 DEF Now
    <3> QED BY <1>4, <3>1 DEF OverInv
  <2>2. CASE GoodAnswer(v)
    <3>1. ASSUME Returned'
          PROVE  /\ Now' = Now /\ wcall.pc = Len(wcall.m.steps) /\ wcall'.pc = wcall.pc /\ wcall'.val = v
                 /\ v # "raised" /\ (Now.accept # {} => v \in Now.accept)
                 /\ Now.read # "datagram"
      <4>1. /\ wcall.pc = Len(wcall.m.steps) /\ wcall'.pc = wcall.pc /\ wcall'.val = v
        BY <1>4, <2>2, <3>1 DEF Returned
      <4>2. Now.read # "datagram"
        BY <1>7, <4>1 DEF EndsWithAnswer, Now
      <4> QED BY <1>4, <2>2, <4>1, <4>2 DEF Now, GoodAnswer
    <3>2. ASSUME Returned', ~whist.stale
          PROVE  /\ cli = <<>>
                 /\ Now.cmd.op = "get" /\ (~whist.noisy \/ Now.read = "checked") =>
                      /\ v \in whist.seen
                      /\ Now.cmd.item # "role" => v = ncp[Now.cmd.item]
                 /\ Now.cmd.op = "put" /\ Now.cmd.item # "role" /\ (~whist.noisy \/ AlwaysObeyed(Now.cmd)) =>
                      ncp[Now.cmd.item] = Now.cmd.val
      BY <1>2, <3>1, <3>2, Taken DEF v
    <3> QED BY <1>2, <1>4, <3>1, <3>2 DEF OverInv
  <2> QED BY <2>1, <2>2
<1>9. SocketInv'
  <2>1. ASSUME wcall.m.name = "udp_send_msg", ~whist.stale, ~whist.lost, ~whist.pending
        PROVE  /\ \A i \in 1..Len(cli) : ~Boots(cli[i])
               /\ whist.before = "closed" =>
                    /\ wcall'.pc # 1
                    /\ wcall'.at = "over" => cli = <<>> /\ ncp.udp = "closed"
    <3>1. wcall.m = udp_send_msg /\ Len(wcall.m.steps) = 4 /\ wcall.pc \in 1..4
      BY <1>1, <1>7, <2>1, Named, SocketSteps
    <3>2. Now.read = "ignored" /\ Now.accept = {}
      BY <3>1, SocketSteps DEF Now
    <3>3. ASSUME whist.before = "closed", wcall.pc = 1
          PROVE  GoodAnswer(v)
      <4>1. \A i \in 1..Len(wire) : wire[i].ok
        BY <1>1, <1>2, <2>1, <3>3 DEF SocketInv
      <4>2. Now.cmd.op = "put"
        BY <3>1, <3>3, SocketSteps DEF Now, Put
      <4>3. v = "none"
        BY <1>2, <2>1, <3>2, <4>1, <4>2, Taken DEF v
      <4> QED BY <3>2, <4>3 DEF GoodAnswer
    <3>4. ASSUME whist.before = "closed" PROVE wcall'.pc # 1
      <4>1. CASE GoodAnswer(v)
        BY <1>4, <3>1, <4>1
      <4>2. CASE ~GoodAnswer(v)
        BY <1>4, <3>1, <3>3, <3>4, <4>2
      <4> QED BY <4>1, <4>2
    <3>5. ASSUME whist.before = "closed", wcall'.at = "over"
          PROVE  cli = <<>> /\ ncp.udp = "closed"
      <4>1. wcall.pc = 4
        <5>1. CASE GoodAnswer(v)
          BY <1>4, <3>1, <3>5, <5>1
        <5>2. CASE ~GoodAnswer(v)
          BY <1>4, <3>1, <3>3, <3>5, <5>2, SocketSteps
        <5> QED BY <5>1, <5>2
      <4>2. Now.cmd = Put("udp", "closed")
        BY <3>1, <4>1, SocketSteps DEF Now
      <4>3. Now.cmd.op = "put" /\ Now.cmd.item = "udp" /\ Now.cmd.val = "closed" /\ AlwaysObeyed(Now.cmd)
        BY <4>2 DEF Put, AlwaysObeyed
      <4> QED BY <1>2, <2>1, <3>2, <4>3, Taken
    <3>6. \A i \in 1..Len(cli) : ~Boots(cli[i])
      BY <1>1, <2>1 DEF SocketInv
    <3> QED BY <3>4, <3>5, <3>6
  <2> QED BY <1>2, <1>4, <1>5, <2>1 DEF SocketInv
<1> QED BY <1>5, <1>6, <1>8, <1>9 DEF WpanInv

\* The beginning has the invariant.
LEMMA WpanBegins == WpanInit => WpanInv
<1> SUFFICES ASSUME WpanInit PROVE WpanInv
  OBVIOUS
<1>1. /\ cli = <<>> /\ wire = <<>> /\ wcall = WpanIdle /\ whist = WpanNew
  BY DEF WpanInit
<1>2. ncp \in NcpItems
  <2>1. FactoryNew \in NcpItems
    BY DEF FactoryNew, NcpItems, StateStr, Dataset
  <2>2. [FactoryNew EXCEPT !.role = "leader", !.ifconfig = "up", !.active = "old", !.setting = "2"]
          \in NcpItems
    BY DEF FactoryNew, NcpItems, StateStr, Dataset
  <2>3. [FactoryNew EXCEPT !.ifconfig = "up", !.udp = "bound", !.maddr = "full"] \in NcpItems
    BY DEF FactoryNew, NcpItems, StateStr, Dataset
  <2> QED BY <2>1, <2>2, <2>3 DEF WpanInit
<1>3. /\ wcall.at = "idle" /\ wcall.m = thread_leader_address /\ thread_leader_address.steps = <<>>
      /\ wcall.m.name = "unimplemented"
  BY <1>1 DEF WpanIdle, thread_leader_address, WpanMethod
<1>4. wcall \in CallRecord
  BY <1>1 DEF WpanIdle, CallRecord, WpanMethods, Values, ItemValues, Dataset
<1>5. whist \in HistRecord
  BY <1>1 DEF WpanNew, HistRecord
<1>6. WpTypes
  BY <1>1, <1>2, <1>3, <1>4, <1>5 DEF WpTypes, Waits
<1> QED BY <1>3, <1>6 DEF WpanInv, WaitInv, OverInv, FactoryInv, SocketInv, Waits, Returned

\* Doing nothing keeps it.
LEMMA WpanStutter == ASSUME WpanInv, UNCHANGED wpVars PROVE WpanInv'
<1>1. UNCHANGED <<ncp, cli, wire, wcall, whist>>
  BY DEF wpVars
<1>2. WpTypes'
  BY <1>1 DEF WpanInv, WpTypes, Waits, Now
<1>3. WaitInv'
  BY <1>1 DEF WpanInv, WaitInv, Waits, Now, Settled
<1>4. OverInv'
  BY <1>1 DEF WpanInv, OverInv, Returned, Now
<1>5. FactoryInv' /\ SocketInv'
  BY <1>1 DEF WpanInv, FactoryInv, SocketInv, Waits
<1> QED BY <1>2, <1>3, <1>4, <1>5 DEF WpanInv

\* Every step keeps it.
LEMMA WpanKeeps == ASSUME WpanInv, [WpanNext]_wpVars PROVE WpanInv'
<1>1. ASSUME NEW m \in WpanMethods, WpanStart(m) PROVE WpanInv'
  BY <1>1, StartKeeps
<1>2. CASE SendCommand
  BY <1>2, SendKeeps
<1>3. CASE TakeAnswer
  BY <1>3, TakeKeeps
<1>4. CASE NoAnswer
  BY <1>4, NoAnswerKeeps
<1>5. CASE NcpHandles
  BY <1>5, HandlesKeeps
<1>6. CASE NcpBoots
  BY <1>6, BootsKeeps
<1>7. CASE RoleChanges
  BY <1>7, RoleKeeps
<1>8. CASE DatagramArrives
  BY <1>8, DatagramKeeps
<1>9. CASE UNCHANGED wpVars
  BY <1>9, WpanStutter
<1> QED BY <1>1, <1>2, <1>3, <1>4, <1>5, <1>6, <1>7, <1>8, <1>9 DEF WpanNext, WpanStep, WpanBoard, WpanDone

\* The invariant gives the property.
LEMMA InStep == WpanInv => CliIsInStep
<1> SUFFICES ASSUME WpanInv PROVE CliIsInStep
  OBVIOUS
<1>1. /\ WpTypes /\ OverInv /\ FactoryInv /\ SocketInv
  BY DEF WpanInv
<1>2. WpanTypeOK
  BY <1>1 DEF WpTypes, CallRecord, WpanTypeOK
<1>3. AnswersAreTrue
  BY <1>1 DEF OverInv, AnswersAreTrue, Undisturbed
<1>4. SocketIsClosed
  <2>1. ASSUME Returned, ~whist.stale, wcall.m.name = "udp_receive_msg"
        PROVE  ncp.udp = "closed"
    <3>1. wcall.m = udp_receive_msg
      BY <1>1, <2>1, Named
    <3>2. /\ udp_receive_msg.steps # <<>> /\ Len(udp_receive_msg.steps) = 4
          /\ udp_receive_msg.steps[4].cmd = Put("udp", "closed")
      BY DEF udp_receive_msg, WpanMethod, CliStep
    <3>3. wcall.pc = 4
      BY <1>1, <2>1, <3>1, <3>2 DEF OverInv
    <3>4. Now.cmd = Put("udp", "closed")
      BY <3>1, <3>2, <3>3 DEF Now
    <3>5. Now.cmd.op = "put" /\ Now.cmd.item = "udp" /\ Now.cmd.val = "closed" /\ AlwaysObeyed(Now.cmd)
      BY <3>4 DEF Put, AlwaysObeyed
    <3> QED BY <1>1, <2>1, <3>1, <3>2, <3>5 DEF OverInv
  <2>2. ASSUME wcall.at = "over", ~whist.stale, ~whist.lost, ~whist.pending, whist.before = "closed",
               wcall.m.name = "udp_send_msg"
        PROVE  ncp.udp = "closed"
    BY <1>1, <2>2 DEF SocketInv
  <2> QED BY <2>1, <2>2 DEF SocketIsClosed, Returned
<1>5. DiagIsLeft
  <2>1. ASSUME Returned, ~whist.stale, wcall.m.name = "get_device_locale"
        PROVE  ncp.diag = "off"
    <3>1. wcall.m = get_device_locale
      BY <1>1, <2>1, Named
    <3>2. /\ get_device_locale.steps # <<>> /\ Len(get_device_locale.steps) = 3
          /\ get_device_locale.steps[3].cmd = Put("diag", "off")
      BY DEF get_device_locale, WpanMethod, CliStep
    <3>3. wcall.pc = 3
      BY <1>1, <2>1, <3>1, <3>2 DEF OverInv
    <3>4. Now.cmd = Put("diag", "off")
      BY <3>1, <3>2, <3>3 DEF Now
    <3>5. Now.cmd.op = "put" /\ Now.cmd.item = "diag" /\ Now.cmd.val = "off" /\ AlwaysObeyed(Now.cmd)
      BY <3>4 DEF Put, AlwaysObeyed
    <3> QED BY <1>1, <2>1, <3>1, <3>2, <3>5 DEF OverInv
  <2> QED BY <2>1 DEF DiagIsLeft
<1>6. ResetIsOver
  <2>1. ASSUME Returned, ~whist.stale, ~whist.pending, wcall.m.name = "factory_reset"
        PROVE  ncp.active = "none" /\ ncp.role = "disabled" /\ ncp.udp = "closed"
    <3>1. wcall.m = factory_reset /\ wcall.m.steps # <<>>
      BY <1>1, <2>1, Named, FactorySteps
    <3>2. wcall.pc = 2 /\ cli = <<>>
      BY <1>1, <2>1, <3>1, FactorySteps DEF OverInv
    <3> QED BY <1>1, <2>1, <3>2 DEF FactoryInv
  <2> QED BY <2>1 DEF ResetIsOver
<1>7. MulticastIsAdded
  <2>1. ASSUME Returned, ~whist.stale, wcall.m.name = "add_multicast"
        PROVE  ncp.maddr = "in"
    <3>1. wcall.m = add_multicast_address_and_verify
      BY <1>1, <2>1, Named
    <3>2. /\ add_multicast_address_and_verify.steps # <<>>
          /\ Len(add_multicast_address_and_verify.steps) = 2
          /\ add_multicast_address_and_verify.steps[2].cmd = CliGet("maddr")
          /\ add_multicast_address_and_verify.steps[2].read = "checked"
          /\ add_multicast_address_and_verify.steps[2].accept = {"in"}
      BY DEF add_multicast_address_and_verify, WpanMethod, CliStep, ipmaddress
    <3>3. wcall.pc = 2
      BY <1>1, <2>1, <3>1, <3>2 DEF OverInv
    <3>4. Now.cmd = CliGet("maddr") /\ Now.read = "checked" /\ Now.accept = {"in"}
      BY <3>1, <3>2, <3>3 DEF Now
    <3>5. Now.cmd.op = "get" /\ Now.cmd.item = "maddr"
      BY <3>4 DEF CliGet
    <3>6. wcall.val = "in"
      BY <1>1, <2>1, <3>1, <3>2, <3>4 DEF OverInv
    <3> QED BY <1>1, <2>1, <3>1, <3>2, <3>4, <3>5, <3>6 DEF OverInv
  <2> QED BY <2>1 DEF MulticastIsAdded
<1> QED BY <1>2, <1>3, <1>4, <1>5, <1>6, <1>7 DEF CliIsInStep

\* For any number of calls, attempts and datagrams: what a query of WpanNrfOt returns was true of
\* the board during the query and what a setter sets is set, unless an answer that was given up
\* was still to come or a datagram arrived (call_command); udp_send_msg closes the socket it
\* opened, on every path, and udp_receive_msg the one it reads; get_device_locale has left the
\* diagnostics; a board on which factory_reset returned has forgotten its network; and
\* add_multicast_address_and_verify returns only when the board has the address.
THEOREM CliStaysInStep == WpanSpec => []CliIsInStep
<1>1. WpanInit => WpanInv
  BY WpanBegins
<1>2. WpanInv /\ [WpanNext]_wpVars => WpanInv'
  BY WpanKeeps
<1> QED BY <1>1, <1>2, InStep, PTL DEF WpanSpec

=============================================================================
