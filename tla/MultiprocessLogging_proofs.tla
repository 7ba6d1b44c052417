--------------------- MODULE MultiprocessLogging_proofs ----------------------
(***************************************************************************)
(* Proofs about MultiprocessLogging, for any handlers, records and calls.  *)
(***************************************************************************)
EXTENDS MultiprocessLogging, SequenceTheorems, FiniteSetTheorems, TLAPS

\* The numbers of the records in a buffer; the sentinels have number 0.
Numbers(s) == {s[i].id : i \in DOMAIN s} \ {0}

\* No record is in the buffer twice.
Distinct(s) ==
  \A i, j \in DOMAIN s : s[i].id = s[j].id /\ s[i].id # 0 => i = j

Handling(n) == tpc = "handle" /\ record = n

\* Whether a handler that got these records got record n, and got it once.
Heard(s, n) == \E i \in DOMAIN s : s[i] = n
HeardOnce(s, n) == \E i \in DOMAIN s : s[i] = n /\ \A j \in DOMAIN s : s[j] = n => j = i

\* The sentinel is the last item of the main process and the only one of its
\* kind: it is in the feeder's buffer or in the pipe, and then behind every
\* record of the main process that is not handled.
InPlace(s) ==
  \/ /\ mainBuf # <<>> /\ mainBuf[Len(mainBuf)] = s
     /\ \A i \in DOMAIN mainBuf : mainBuf[i] = s => i = Len(mainBuf)
     /\ \A i \in DOMAIN pipe : pipe[i] # s
  \/ /\ mainBuf = <<>>
     /\ \E k \in DOMAIN pipe :
          /\ pipe[k] = s
          /\ \A i \in DOMAIN pipe : pipe[i] = s => i = k
          /\ \A n \in fromMain \ done :
               Handling(n) \/ \E i \in DOMAIN pipe : i < k /\ pipe[i].id = n

OnlyRecords(s) == \A i \in DOMAIN s : s[i].kind = "record"
Absent(s) == (\A i \in DOMAIN mainBuf : mainBuf[i] # s) /\ (\A i \in DOMAIN pipe : pipe[i] # s)

-----------------------------------------------------------------------------
\* Every record is in one place: a buffer, the thread's hands, or handled.
RecordInv ==
  /\ Distinct(mainBuf) /\ Distinct(childBuf) /\ Distinct(pipe)
  /\ Numbers(mainBuf) \cap Numbers(childBuf) = {}
  /\ Numbers(mainBuf) \cap Numbers(pipe) = {}
  /\ Numbers(childBuf) \cap Numbers(pipe) = {}
  /\ Numbers(mainBuf) \cup Numbers(childBuf) \cup Numbers(pipe) \subseteq 1..logged
  /\ tpc = "handle" => record \in 1..logged

\* What is still to be handled was heard by nobody.
HeardInv ==
  /\ \A h \in Handlers : \A i \in DOMAIN got[h] :
       /\ got[h][i] <= logged
       /\ got[h][i] \notin Numbers(mainBuf) \cup Numbers(childBuf) \cup Numbers(pipe)
  /\ tpc = "handle" => record \notin Numbers(mainBuf) \cup Numbers(childBuf) \cup Numbers(pipe)

\* The thread's walk: the handlers before its position heard the record, the
\* others did not, unless the list was cut under it.
WalkInv ==
  /\ IsInjective(handlers)
  /\ tpc = "handle" /\ ~cut =>
       /\ index <= Len(handlers)
       /\ \A k \in DOMAIN handlers : k <= index => HeardOnce(got[handlers[k]], record)
       /\ \A h \in Handlers :
            Heard(got[h], record) => \E k \in DOMAIN handlers : k <= index /\ handlers[k] = h

\* The thread runs from the switch on.
EnabledInv == enabled = FALSE <=> tpc = "none"

\* No record of the main process is lost.
NoLossInv ==
  \A n \in fromMain \ done : Handling(n) \/ n \in Numbers(mainBuf) \cup Numbers(pipe)

\* Where the sentinels are.
SyncInv ==
  /\ OnlyRecords(childBuf)
  /\ ~overtaken /\ mpc # "sync" => Absent(Sync) /\ (syncEvent => mpc = "clear")
  /\ ~overtaken /\ mpc = "sync" =>
       IF syncEvent THEN Absent(Sync) /\ fromMain \subseteq done ELSE InPlace(Sync)
StopInv ==
  /\ ~stopped => Absent(Terminate) /\ tpc # "ended" /\ mpc # "stop"
  /\ mpc = "stop" => IF tpc = "ended" THEN fromMain \subseteq done ELSE InPlace(Terminate)

-----------------------------------------------------------------------------
(* Buffers.                                                                *)

LEMMA ItemTypes ==
  /\ Sync \in Items /\ Terminate \in Items /\ Sync.id = 0 /\ Terminate.id = 0
  /\ Sync # Terminate /\ Sync.kind = "sync" /\ Terminate.kind = "terminate"
  /\ \A n \in 1..MaxRecords : /\ Record(n) \in Items /\ Record(n).id = n
                              /\ Record(n).kind = "record"
                              /\ Record(n) # Sync /\ Record(n) # Terminate
  /\ \A e \in Items : /\ e.id \in 0..MaxRecords
                      /\ e.kind \in {"record", "sync", "terminate"}
                      /\ e.kind = "record" <=> e.id # 0
                      /\ e.kind = "sync" <=> e = Sync
                      /\ e.kind = "terminate" <=> e = Terminate
  BY LoggingAssumption DEF Items, Sync, Terminate, Record

\* An item put at the end of a buffer.
LEMMA PutInBuffer ==
  ASSUME NEW s \in Seq(Items), NEW e \in Items
  PROVE  /\ Append(s, e) \in Seq(Items) /\ Len(Append(s, e)) = Len(s) + 1
         /\ Append(s, e) # <<>> /\ DOMAIN s = 1..Len(s) /\ Len(s) \in Nat
         /\ DOMAIN Append(s, e) = 1..(Len(s) + 1)
         /\ \A i \in 1..Len(s) : Append(s, e)[i] = s[i]
         /\ Append(s, e)[Len(s) + 1] = e
         /\ Numbers(Append(s, e)) = Numbers(s) \cup ({e.id} \ {0})
         /\ Distinct(s) /\ e.id \notin Numbers(s) => Distinct(Append(s, e))
<1> DEFINE t == Append(s, e)
<1>1. /\ t \in Seq(Items) /\ Len(t) = Len(s) + 1 /\ t # <<>> /\ Len(s) \in Nat
      /\ \A i \in 1..Len(s) : t[i] = s[i]
      /\ t[Len(s) + 1] = e
  OBVIOUS
<1>2. DOMAIN s = 1..Len(s) /\ DOMAIN t = 1..(Len(s) + 1)
  BY <1>1
<1> HIDE DEF t
<1>3. Numbers(t) \subseteq Numbers(s) \cup ({e.id} \ {0})
  <2> SUFFICES ASSUME NEW i \in 1..(Len(s) + 1), t[i].id # 0
               PROVE  t[i].id \in Numbers(s) \cup ({e.id} \ {0})
    BY <1>2 DEF Numbers
  <2>1. CASE i = Len(s) + 1
    BY <2>1, <1>1
  <2>2. CASE i # Len(s) + 1
    <3>1. i \in 1..Len(s)
      BY <2>2, <1>1
    <3> QED BY <3>1, <1>1, <1>2 DEF Numbers
  <2> QED BY <2>1, <2>2
<1>4. Numbers(s) \subseteq Numbers(t)
  <2> SUFFICES ASSUME NEW i \in 1..Len(s), s[i].id # 0 PROVE s[i].id \in Numbers(t)
    BY <1>2 DEF Numbers
  <2>1. i \in 1..(Len(s) + 1) /\ t[i] = s[i]
    BY <1>1
  <2> QED BY <2>1, <1>2 DEF Numbers
<1>5. e.id # 0 => e.id \in Numbers(t)
  <2>1. Len(s) + 1 \in 1..(Len(s) + 1)
    BY <1>1
  <2> QED BY <2>1, <1>1, <1>2 DEF Numbers
<1>6. ASSUME Distinct(s), e.id \notin Numbers(s) PROVE Distinct(t)
  <2> SUFFICES ASSUME NEW i \in 1..(Len(s) + 1), NEW j \in 1..(Len(s) + 1),
                      t[i].id = t[j].id, t[i].id # 0
               PROVE  i = j
    BY <1>2 DEF Distinct
  <2>0. \A k \in 1..(Len(s) + 1) : k \in 1..Len(s) \/ k = Len(s) + 1
    BY <1>1
  <2>1. \A k \in 1..Len(s) : s[k].id # 0 => s[k].id \in Numbers(s)
    BY <1>2 DEF Numbers
  <2>2. CASE i \in 1..Len(s) /\ j \in 1..Len(s)
    BY <2>2, <1>6, <1>1, <1>2 DEF Distinct
  <2>3. CASE i \in 1..Len(s) /\ j = Len(s) + 1
    BY <2>3, <2>1, <1>1, <1>6
  <2>4. CASE i = Len(s) + 1 /\ j \in 1..Len(s)
    BY <2>4, <2>1, <1>1, <1>6
  <2> QED BY <2>0, <2>2, <2>3, <2>4
<1> QED BY <1>1, <1>2, <1>3, <1>4, <1>5, <1>6 DEF t

\* The first item taken from a buffer.
LEMMA TakeFromBuffer ==
  ASSUME NEW s \in Seq(Items), s # <<>>
  PROVE  /\ Head(s) \in Items /\ Tail(s) \in Seq(Items) /\ Head(s) = s[1]
         /\ Len(s) \in Nat /\ Len(s) > 0 /\ Len(Tail(s)) = Len(s) - 1
         /\ DOMAIN s = 1..Len(s) /\ DOMAIN Tail(s) = 1..(Len(s) - 1)
         /\ \A i \in 1..(Len(s) - 1) : Tail(s)[i] = s[i + 1]
         /\ Numbers(s) = Numbers(Tail(s)) \cup ({Head(s).id} \ {0})
         /\ Distinct(s) => Distinct(Tail(s)) /\ Head(s).id \notin Numbers(Tail(s))
<1> DEFINE t == Tail(s)
<1>1. /\ Head(s) \in Items /\ t \in Seq(Items) /\ Head(s) = s[1]
      /\ Len(s) \in Nat /\ Len(s) > 0 /\ Len(t) = Len(s) - 1
      /\ \A i \in 1..Len(t) : t[i] = s[i + 1]
  BY HeadTailProperties
<1>2. DOMAIN s = 1..Len(s) /\ DOMAIN t = 1..(Len(s) - 1)
  BY <1>1
<1> HIDE DEF t
<1>3. Numbers(t) \subseteq Numbers(s)
  <2> SUFFICES ASSUME NEW i \in 1..(Len(s) - 1), t[i].id # 0 PROVE t[i].id \in Numbers(s)
    BY <1>2 DEF Numbers
  <2>1. i + 1 \in 1..Len(s) /\ t[i] = s[i + 1]
    BY <1>1
  <2> QED BY <2>1, <1>2 DEF Numbers
<1>4. Head(s).id # 0 => Head(s).id \in Numbers(s)
  <2>1. 1 \in 1..Len(s)
    BY <1>1
  <2> QED BY <2>1, <1>1, <1>2 DEF Numbers
<1>5. Numbers(s) \subseteq Numbers(t) \cup ({Head(s).id} \ {0})
  <2> SUFFICES ASSUME NEW i \in 1..Len(s), s[i].id # 0
               PROVE  s[i].id \in Numbers(t) \cup ({Head(s).id} \ {0})
    BY <1>2 DEF Numbers
  <2>1. CASE i = 1
    BY <2>1, <1>1
  <2>2. CASE i # 1
    <3>1. i - 1 \in 1..(Len(s) - 1) /\ t[i - 1] = s[i]
      BY <2>2, <1>1
    <3> QED BY <3>1, <1>2 DEF Numbers
  <2> QED BY <2>1, <2>2
<1>6. ASSUME Distinct(s) PROVE Distinct(t)
  <2> SUFFICES ASSUME NEW i \in 1..(Len(s) - 1), NEW j \in 1..(Len(s) - 1),
                      t[i].id = t[j].id, t[i].id # 0
               PROVE  i = j
    BY <1>2 DEF Distinct
  <2>1. /\ i + 1 \in 1..Len(s) /\ j + 1 \in 1..Len(s)
        /\ t[i] = s[i + 1] /\ t[j] = s[j + 1]
    BY <1>1
  <2>2. i + 1 = j + 1
    BY <2>1, <1>6, <1>2 DEF Distinct
  <2> QED BY <2>2
<1>7. ASSUME Distinct(s), Head(s).id \in Numbers(t) PROVE FALSE
  <2>1. PICK i \in 1..(Len(s) - 1) : t[i].id = Head(s).id /\ t[i].id # 0
    BY <1>7, <1>2 DEF Numbers
  <2>2. i + 1 \in 1..Len(s) /\ 1 \in 1..Len(s) /\ s[i + 1].id = s[1].id /\ s[1].id # 0
    BY <2>1, <1>1
  <2>3. i + 1 = 1
    BY <2>2, <1>7, <1>2 DEF Distinct
  <2> QED BY <2>3
<1> QED BY <1>1, <1>2, <1>3, <1>4, <1>5, <1>6, <1>7 DEF t

\* The list of handlers without the handler at one position.
LEMMA RemovedHandler ==
  ASSUME NEW i \in DOMAIN handlers, handlers \in Seq(Handlers), IsInjective(handlers)
  PROVE  RemoveAt(handlers, i) \in Seq(Handlers) /\ IsInjective(RemoveAt(handlers, i))
<1> DEFINE n == Len(handlers)
           a == SubSeq(handlers, 1, i - 1)
           b == SubSeq(handlers, i + 1, n)
           At(k) == IF k <= i - 1 THEN k ELSE k + 1
<1>1. /\ n \in Nat /\ DOMAIN handlers = 1..n /\ i \in 1..n /\ i - 1 \in 0..n /\ i + 1 \in 1..(n + 1)
      /\ \A k \in 1..n : handlers[k] \in Handlers
  OBVIOUS
<1>2. /\ a \in Seq(Handlers) /\ Len(a) = i - 1
      /\ \A k \in 1..(i - 1) : a[k] = handlers[k]
  <2>1. \A k \in 1..(i - 1) : handlers[k] \in Handlers
    BY <1>1
  <2> QED BY <2>1, <1>1, SubSeqProperties
<1>3. /\ b \in Seq(Handlers) /\ Len(b) = n - i
      /\ \A k \in 1..(n - i) : b[k] = handlers[i + k]
  <2>1. \A k \in (i + 1)..n : handlers[k] \in Handlers
    BY <1>1
  <2>2. /\ b \in Seq(Handlers) /\ Len(b) = n - (i + 1) + 1
        /\ \A k \in 1..(n - (i + 1) + 1) : b[k] = handlers[(i + 1) + k - 1]
    <3>1. IF i + 1 <= n THEN n - (i + 1) + 1 = n - i ELSE i = n
      BY <1>1
    <3> QED BY <2>1, <3>1, <1>1, SubSeqProperties
  <2>3. n - (i + 1) + 1 = n - i /\ \A k \in 1..(n - i) : (i + 1) + k - 1 = i + k
    BY <1>1
  <2> HIDE DEF b
  <2> QED BY <2>2, <2>3
<1> HIDE DEF a, b
<1>4. /\ a \o b \in Seq(Handlers) /\ Len(a \o b) = n - 1
      /\ \A k \in 1..(n - 1) : (a \o b)[k] = handlers[At(k)]
  <2>1. /\ a \o b \in Seq(Handlers) /\ Len(a \o b) = Len(a) + Len(b)
        /\ \A k \in 1..(Len(a) + Len(b)) :
             (a \o b)[k] = IF k <= Len(a) THEN a[k] ELSE b[k - Len(a)]
    BY <1>2, <1>3, ConcatProperties
  <2>2. Len(a) + Len(b) = n - 1
    BY <1>1, <1>2, <1>3
  <2>3. ASSUME NEW k \in 1..(n - 1) PROVE (a \o b)[k] = handlers[At(k)]
    <3>1. CASE k <= i - 1
      BY <3>1, <2>1, <2>2, <1>1, <1>2
    <3>2. CASE ~(k <= i - 1)
      <4>1. k - (i - 1) \in 1..(n - i) /\ i + (k - (i - 1)) = k + 1
        BY <3>2, <1>1
      <4> QED BY <4>1, <3>2, <2>1, <2>2, <1>1, <1>2, <1>3, ZenonT(40)
    <3> QED BY <3>1, <3>2
  <2> QED BY <2>1, <2>2, <2>3
<1>5. \A j, k \in 1..(n - 1) : At(j) \in 1..n /\ (At(j) = At(k) => j = k)
  BY <1>1
<1> HIDE DEF At
<1>6. IsInjective(a \o b)
  <2>1. DOMAIN (a \o b) = 1..(n - 1)
    BY <1>4, <1>1
  <2> QED BY <2>1, <1>4, <1>5, <1>1 DEF IsInjective
<1>7. RemoveAt(handlers, i) = a \o b
  BY DEF RemoveAt, a, b
<1> QED BY <1>4, <1>6, <1>7

-----------------------------------------------------------------------------
(* Types.                                                                  *)

LEMMA InitTypes == Init => TypeOK /\ RecordInv
<1> SUFFICES ASSUME Init PROVE TypeOK /\ RecordInv
  OBVIOUS
<1>1. TypeOK
  <2>1. /\ <<>> \in Seq(Items) /\ 0 \in 0..MaxRecords /\ {} \subseteq 1..logged
        /\ 0 \in 0..MaxSyncs /\ 0 \in 0..MaxRemoves /\ 0 \in 0..0
        /\ [h \in Handlers |-> <<>>] \in [Handlers -> Seq(1..MaxRecords)]
    BY LoggingAssumption
  <2> QED BY <2>1, LoggingAssumption DEF Init, TypeOK
<1>2. Numbers(<<>>) = {} /\ Distinct(<<>>)
  BY DEF Numbers, Distinct
<1>3. RecordInv
  BY <1>2 DEF Init, RecordInv
<1> QED BY <1>1, <1>3

\* Every step keeps the types.
LEMMA NextTypes ==
  ASSUME TypeOK, RecordInv, IsInjective(handlers), [Next]_vars
  PROVE  TypeOK'
<1> USE DEF TypeOK
<1>0. /\ handlers \in Seq(Handlers) /\ logged \in Nat /\ MaxRecords \in Nat
      /\ MaxSyncs \in Nat /\ MaxRemoves \in Nat
  BY LoggingAssumption
<1>1. CASE LogFromMain
  <2>1. logged' = logged + 1 /\ logged' \in 1..MaxRecords
    BY <1>1, <1>0 DEF LogFromMain
  <2>2. mainBuf' \in Seq(Items)
    <3>1. Record(logged + 1) \in Items
      BY <2>1, ItemTypes
    <3>2. Append(mainBuf, Record(logged + 1)) \in Seq(Items)
      BY <3>1, PutInBuffer
    <3> QED BY <1>1, <3>2 DEF LogFromMain
  <2>3. got' \in [Handlers -> Seq(1..MaxRecords)]
    <3>1. CASE enabled
      BY <1>1, <3>1 DEF LogFromMain
    <3>2. CASE ~enabled
      <4>1. \A h \in Handlers : Append(got[h], logged + 1) \in Seq(1..MaxRecords)
        BY <1>1, <2>1
      <4>2. got' = [h \in Handlers |-> IF h \in Range(handlers)
                                       THEN Append(got[h], logged + 1) ELSE got[h]]
        BY <1>1, <3>2 DEF LogFromMain
      <4> QED BY <4>1, <4>2
    <3> QED BY <3>1, <3>2
  <2>4. /\ fromMain' \subseteq 1..logged' /\ done' \subseteq 1..logged' /\ record' \in 0..logged'
    <3>1. 1..logged \subseteq 1..logged' /\ logged + 1 \in 1..logged' /\ 0..logged \subseteq 0..logged'
      BY <2>1, <1>0
    <3>2. fromMain' = fromMain \cup {logged + 1} /\ record' = record
      BY <1>1 DEF LogFromMain, thread
    <3>3. done' = done \/ done' = done \cup {logged + 1}
      BY <1>1 DEF LogFromMain
    <3> QED BY <3>1, <3>2, <3>3
  <2> QED BY <1>1, <2>1, <2>2, <2>3, <2>4 DEF LogFromMain, thread
<1>2. CASE SwitchToMultiprocessLogging
  BY <1>2 DEF SwitchToMultiprocessLogging, queue
<1>3. CASE SyncCall
  <2>1. Append(mainBuf, Sync) \in Seq(Items)
    BY ItemTypes, PutInBuffer
  <2> QED BY <1>3, <2>1, <1>0 DEF SyncCall, thread
<1>4. CASE StopCall
  <2>1. Append(mainBuf, Terminate) \in Seq(Items)
    BY ItemTypes, PutInBuffer
  <2> QED BY <1>4, <2>1 DEF StopCall, thread
<1>5. CASE MainStep
  BY <1>5, ZenonT(40) DEF MainStep, SyncReturns, SyncTimesOut, SyncClears, StopReturns, StopTimesOut,
              queue, thread
<1>6. ASSUME NEW h \in Handlers, AddHandler(h) PROVE TypeOK'
  <2>1. Append(handlers, h) \in Seq(Handlers)
    OBVIOUS
  <2> QED BY <1>6, <2>1 DEF AddHandler, queue, thread
<1>7. ASSUME NEW h \in Handlers, RemoveHandler(h) PROVE TypeOK'
  <2>1. PICK i \in DOMAIN handlers : handlers' = RemoveAt(handlers, i)
    BY <1>7 DEF RemoveHandler
  <2>2. handlers' \in Seq(Handlers)
    BY <2>1, RemovedHandler
  <2> QED BY <1>7, <2>2, <1>0 DEF RemoveHandler, queue, thread
<1>8. CASE LogFromChild
  <2>1. logged' = logged + 1 /\ logged' \in 1..MaxRecords
    BY <1>8, <1>0 DEF LogFromChild
  <2>2. Record(logged + 1) \in Items
    BY <2>1, ItemTypes
  <2>3. Append(childBuf, Record(logged + 1)) \in Seq(Items)
    BY <2>2, PutInBuffer
  <2>4. /\ fromMain' \subseteq 1..logged' /\ done' \subseteq 1..logged' /\ record' \in 0..logged'
    BY <1>8, <2>1, <1>0 DEF LogFromChild, thread
  <2> QED BY <1>8, <2>1, <2>3, <2>4 DEF LogFromChild, thread
<1>9. CASE Feed
  <2>1. CASE mainBuf # <<>> /\ pipe' = Append(pipe, Head(mainBuf)) /\ mainBuf' = Tail(mainBuf)
             /\ UNCHANGED childBuf
    <3>1. Head(mainBuf) \in Items /\ Tail(mainBuf) \in Seq(Items)
      BY <2>1, TakeFromBuffer
    <3>2. Append(pipe, Head(mainBuf)) \in Seq(Items)
      BY <3>1, PutInBuffer
    <3> QED BY <1>9, <2>1, <3>1, <3>2 DEF Feed, thread
  <2>2. CASE childBuf # <<>> /\ pipe' = Append(pipe, Head(childBuf)) /\ childBuf' = Tail(childBuf)
             /\ UNCHANGED mainBuf
    <3>1. Head(childBuf) \in Items /\ Tail(childBuf) \in Seq(Items)
      BY <2>2, TakeFromBuffer
    <3>2. Append(pipe, Head(childBuf)) \in Seq(Items)
      BY <3>1, PutInBuffer
    <3> QED BY <1>9, <2>2, <3>1, <3>2 DEF Feed, thread
  <2> QED BY <1>9, <2>1, <2>2 DEF Feed
<1>10. CASE ThreadGets
  <2> DEFINE item == Head(pipe)
  <2>1. /\ item \in Items /\ Tail(pipe) \in Seq(Items)
        /\ Numbers(pipe) = Numbers(Tail(pipe)) \cup ({item.id} \ {0})
    BY <1>10, TakeFromBuffer DEF ThreadGets
  <2>2. Numbers(pipe) \subseteq 1..logged
    BY DEF RecordInv
  <2>3. item.id \in 0..logged /\ item.kind \in {"record", "sync", "terminate"}
    BY <2>1, <2>2, <1>0, ItemTypes
  <2>4. /\ pipe' = Tail(pipe) /\ record' = item.id /\ index' = 0 /\ cut' = FALSE
        /\ syncEvent' = (syncEvent \/ item.kind = "sync")
        /\ tpc' = CASE item.kind = "terminate" -> "ended"
                    [] item.kind = "sync" -> "get"
                    [] item.kind = "record" -> "handle"
        /\ UNCHANGED <<enabled, handlers, mainBuf, childBuf, logged, fromMain, got, done, mpc,
                 syncs, removes, stopped, overtaken>>
    BY <1>10 DEF ThreadGets
  <2> HIDE DEF item
  <2>5. tpc' \in {"get", "handle", "ended"}
    BY <2>3, <2>4
  <2>6. syncEvent' \in BOOLEAN
    BY <2>4
  <2> QED BY <2>1, <2>3, <2>4, <2>5, <2>6
<1>11. CASE ThreadHandles
  <2>1. index + 1 \in 1..Len(handlers) /\ handlers[index + 1] \in Handlers
    BY <1>11 DEF ThreadHandles, LastIndex
  <2>2. record \in 1..MaxRecords
    BY <1>11, <1>0 DEF ThreadHandles, RecordInv
  <2>3. got' \in [Handlers -> Seq(1..MaxRecords)]
    BY <1>11, <2>1, <2>2 DEF ThreadHandles
  <2> QED BY <1>11, <2>3, SMTT(40) DEF ThreadHandles, queue
<1>12. CASE ThreadHandled
  <2>1. done' \subseteq 1..logged
    BY <1>12, <1>0 DEF ThreadHandled, RecordInv
  <2> QED BY <1>12, <2>1, <1>0 DEF ThreadHandled, queue
<1>13. CASE UNCHANGED vars
  BY <1>13 DEF vars, queue, thread
<1> QED
  BY <1>1, <1>2, <1>3, <1>4, <1>5, <1>6, <1>7, <1>8, <1>9, <1>10, <1>11, <1>12, <1>13
     DEF Next, ThreadStep

-----------------------------------------------------------------------------
(* Every record is in one place.                                           *)

\* The records that are in a buffer.
Queued == Numbers(mainBuf) \cup Numbers(childBuf) \cup Numbers(pipe)

LEMMA NextRecords ==
  ASSUME TypeOK, RecordInv, HeardInv, [Next]_vars
  PROVE  RecordInv' /\ (tpc' = "handle" => record' \notin Queued')
<1>0. /\ logged \in Nat /\ MaxRecords \in Nat
      /\ mainBuf \in Seq(Items) /\ childBuf \in Seq(Items) /\ pipe \in Seq(Items)
  BY LoggingAssumption DEF TypeOK
<1> DEFINE Goal == RecordInv' /\ (tpc' = "handle" => record' \notin Queued')
<1>a. ASSUME UNCHANGED <<queue, thread, logged>> PROVE Goal
  BY <1>a DEF RecordInv, HeardInv, Queued, queue, thread
<1>b. ASSUME NEW e \in Items, mainBuf' = Append(mainBuf, e), UNCHANGED <<childBuf, pipe, thread>>,
             \/ e.id = 0 /\ UNCHANGED logged
             \/ e.id = logged + 1 /\ logged' = logged + 1
      PROVE Goal
  <2>1. /\ Numbers(mainBuf') = Numbers(mainBuf) \cup ({e.id} \ {0})
        /\ e.id \notin Numbers(mainBuf) => Distinct(mainBuf')
    BY <1>b, <1>0, PutInBuffer DEF RecordInv
  <2>2. Queued \subseteq 1..logged /\ 0 \notin 1..logged /\ logged + 1 \notin 1..logged
    BY <1>0 DEF RecordInv, Queued
  <2>3. e.id \notin Queued /\ ({e.id} \ {0}) \subseteq 1..logged'
        /\ 1..logged \subseteq 1..logged' /\ (tpc = "handle" => record # e.id)
    BY <1>b, <2>2, <1>0 DEF RecordInv
  <2> QED BY <1>b, <2>1, <2>2, <2>3 DEF RecordInv, HeardInv, Queued, thread
<1>1. CASE LogFromMain
  <2>1. CASE enabled
    <3>1. logged + 1 \in 1..MaxRecords
      BY <1>1, <1>0 DEF LogFromMain
    <3>2. Record(logged + 1) \in Items /\ Record(logged + 1).id = logged + 1
      BY <3>1, ItemTypes
    <3>3. /\ mainBuf' = Append(mainBuf, Record(logged + 1)) /\ logged' = logged + 1
          /\ UNCHANGED <<childBuf, pipe, thread>>
      BY <1>1, <2>1 DEF LogFromMain
    <3> QED BY <3>2, <3>3, <1>b
  <2>2. CASE ~enabled
    <3>1. 1..logged \subseteq 1..logged' /\ UNCHANGED <<queue, thread>>
      BY <1>1, <2>2, <1>0 DEF LogFromMain, queue
    <3> QED BY <3>1 DEF RecordInv, HeardInv, Queued, queue, thread
  <2> QED BY <2>1, <2>2
<1>2. CASE SwitchToMultiprocessLogging
  <2>1. UNCHANGED queue /\ logged' = logged /\ tpc' # "handle"
    BY <1>2 DEF SwitchToMultiprocessLogging
  <2> QED BY <2>1 DEF RecordInv, queue
<1>3. CASE SyncCall
  BY <1>3, <1>b, ItemTypes DEF SyncCall
<1>4. CASE StopCall
  BY <1>4, <1>b, ItemTypes DEF StopCall
<1>5. CASE MainStep
  BY <1>5, <1>a DEF MainStep, SyncReturns, SyncTimesOut, SyncClears, StopReturns, StopTimesOut
<1>6. ASSUME NEW h \in Handlers, AddHandler(h) \/ RemoveHandler(h) PROVE Goal
  BY <1>6, <1>a DEF AddHandler, RemoveHandler
<1>8. CASE LogFromChild
  <2> DEFINE e == Record(logged + 1)
  <2>1. logged + 1 \in 1..MaxRecords /\ logged' = logged + 1 /\ childBuf' = Append(childBuf, e)
        /\ UNCHANGED <<mainBuf, pipe, thread>>
    BY <1>8, <1>0 DEF LogFromChild
  <2>2. e \in Items /\ e.id = logged + 1
    BY <2>1, ItemTypes
  <2> HIDE DEF e
  <2>3. Queued \subseteq 1..logged /\ 0 \notin 1..logged /\ logged + 1 \notin 1..logged
        /\ 1..logged \subseteq 1..logged' /\ logged + 1 \in 1..logged'
    BY <1>0, <2>1 DEF RecordInv, Queued
  <2>4. /\ Numbers(childBuf') \subseteq Numbers(childBuf) \cup {logged + 1}
        /\ Distinct(childBuf')
    BY <2>1, <2>2, <2>3, <1>0, PutInBuffer DEF RecordInv, Queued
  <2>5. tpc = "handle" => record # logged + 1
    BY <1>0 DEF RecordInv
  <2> QED BY <2>1, <2>3, <2>4, <2>5 DEF RecordInv, HeardInv, Queued, thread
<1>9. CASE Feed
  <2>0. UNCHANGED <<thread, logged>>
    BY <1>9 DEF Feed
  <2>1. CASE mainBuf # <<>> /\ pipe' = Append(pipe, Head(mainBuf)) /\ mainBuf' = Tail(mainBuf)
             /\ UNCHANGED childBuf
    <3> DEFINE e == Head(mainBuf)
    <3>1. /\ e \in Items /\ Numbers(mainBuf) = Numbers(mainBuf') \cup ({e.id} \ {0})
          /\ Distinct(mainBuf') /\ e.id \notin Numbers(mainBuf')
      BY <2>1, <1>0, TakeFromBuffer DEF RecordInv
    <3>2. pipe' = Append(pipe, e)
      BY <2>1
    <3> HIDE DEF e
    <3>3. e.id \notin Numbers(pipe)
      BY <3>1 DEF RecordInv, Numbers
    <3>4. Numbers(pipe') = Numbers(pipe) \cup ({e.id} \ {0}) /\ Distinct(pipe')
      BY <3>1, <3>2, <3>3, <1>0, PutInBuffer DEF RecordInv
    <3> QED BY <2>0, <2>1, <3>1, <3>4 DEF RecordInv, HeardInv, Queued, thread
  <2>2. CASE childBuf # <<>> /\ pipe' = Append(pipe, Head(childBuf)) /\ childBuf' = Tail(childBuf)
             /\ UNCHANGED mainBuf
    <3> DEFINE e == Head(childBuf)
    <3>1. /\ e \in Items /\ Numbers(childBuf) = Numbers(childBuf') \cup ({e.id} \ {0})
          /\ Distinct(childBuf') /\ e.id \notin Numbers(childBuf')
      BY <2>2, <1>0, TakeFromBuffer DEF RecordInv
    <3>2. pipe' = Append(pipe, e)
      BY <2>2
    <3> HIDE DEF e
    <3>3. e.id \notin Numbers(pipe)
      BY <3>1 DEF RecordInv, Numbers
    <3>4. Numbers(pipe') = Numbers(pipe) \cup ({e.id} \ {0}) /\ Distinct(pipe')
      BY <3>1, <3>2, <3>3, <1>0, PutInBuffer DEF RecordInv
    <3> QED BY <2>0, <2>2, <3>1, <3>4 DEF RecordInv, HeardInv, Queued, thread
  <2> QED BY <1>9, <2>1, <2>2 DEF Feed
<1>10. CASE ThreadGets
  <2> DEFINE e == Head(pipe)
  <2>1. /\ e \in Items /\ Numbers(pipe) = Numbers(pipe') \cup ({e.id} \ {0})
        /\ Distinct(pipe') /\ e.id \notin Numbers(pipe')
    BY <1>10, <1>0, TakeFromBuffer DEF RecordInv, ThreadGets
  <2>2. /\ record' = e.id /\ UNCHANGED <<mainBuf, childBuf, logged>>
        /\ tpc' = "handle" => e.id # 0
    <3>1. e.kind # "record" => tpc' # "handle"
      BY <1>10, <2>1, ItemTypes DEF ThreadGets
    <3> QED BY <1>10, <3>1, <2>1, ItemTypes DEF ThreadGets
  <2> HIDE DEF e
  <2>3. e.id # 0 => e.id \in 1..logged /\ e.id \notin Queued'
    BY <2>1, <2>2 DEF RecordInv, Queued
  <2> QED BY <2>1, <2>2, <2>3 DEF RecordInv, Queued
<1>11. CASE ThreadHandles
  BY <1>11 DEF ThreadHandles, RecordInv, HeardInv, Queued, queue
<1>12. CASE ThreadHandled
  BY <1>12 DEF ThreadHandled, RecordInv, HeardInv, Queued, queue
<1>13. CASE UNCHANGED vars
  BY <1>13, <1>a DEF vars
<1> QED
  BY <1>1, <1>2, <1>3, <1>4, <1>5, <1>6, <1>8, <1>9, <1>10, <1>11, <1>12, <1>13
     DEF Next, ThreadStep

\* The buffers get only new records, so what was heard does not come again.
LEMMA QueuedGrows ==
  ASSUME TypeOK, RecordInv, [Next]_vars
  PROVE  Queued' \subseteq Queued \cup (1..logged' \ 1..logged)
<1>0. /\ logged \in Nat /\ MaxRecords \in Nat
      /\ mainBuf \in Seq(Items) /\ childBuf \in Seq(Items) /\ pipe \in Seq(Items)
  BY LoggingAssumption DEF TypeOK
<1>1. CASE LogFromMain \/ LogFromChild
  <2>1. logged + 1 \in 1..MaxRecords /\ logged' = logged + 1
    BY <1>1, <1>0 DEF LogFromMain, LogFromChild
  <2>2. Record(logged + 1) \in Items /\ Record(logged + 1).id = logged + 1
        /\ logged + 1 \in 1..logged' \ 1..logged
    BY <2>1, <1>0, ItemTypes
  <2>3. /\ mainBuf' = mainBuf \/ mainBuf' = Append(mainBuf, Record(logged + 1))
        /\ childBuf' = childBuf \/ childBuf' = Append(childBuf, Record(logged + 1))
        /\ pipe' = pipe
    BY <1>1 DEF LogFromMain, LogFromChild
  <2>4. /\ Numbers(mainBuf') \subseteq Numbers(mainBuf) \cup {logged + 1}
        /\ Numbers(childBuf') \subseteq Numbers(childBuf) \cup {logged + 1}
    <3>1. \A s \in Seq(Items) : Numbers(Append(s, Record(logged + 1)))
                                = Numbers(s) \cup ({Record(logged + 1).id} \ {0})
      BY <2>2, PutInBuffer
    <3>2. Numbers(Append(mainBuf, Record(logged + 1))) \subseteq Numbers(mainBuf) \cup {logged + 1}
      BY <3>1, <2>2, <1>0
    <3>3. Numbers(Append(childBuf, Record(logged + 1))) \subseteq Numbers(childBuf) \cup {logged + 1}
      BY <3>1, <2>2, <1>0
    <3> QED BY <2>3, <3>2, <3>3
  <2> QED BY <2>2, <2>3, <2>4 DEF Queued
<1>2. CASE SyncCall \/ StopCall
  <2>1. mainBuf' = Append(mainBuf, Sync) \/ mainBuf' = Append(mainBuf, Terminate)
    BY <1>2 DEF SyncCall, StopCall
  <2>2. Numbers(mainBuf') = Numbers(mainBuf)
    <3>1. Numbers(Append(mainBuf, Sync)) = Numbers(mainBuf) \cup ({Sync.id} \ {0})
      BY <1>0, ItemTypes, PutInBuffer
    <3>2. Numbers(Append(mainBuf, Terminate)) = Numbers(mainBuf) \cup ({Terminate.id} \ {0})
      BY <1>0, ItemTypes, PutInBuffer
    <3> QED BY <2>1, <3>1, <3>2, ItemTypes
  <2> QED BY <1>2, <2>2 DEF SyncCall, StopCall, Queued
<1>3. CASE Feed
  <2>1. CASE mainBuf # <<>> /\ pipe' = Append(pipe, Head(mainBuf)) /\ mainBuf' = Tail(mainBuf)
             /\ UNCHANGED childBuf
    <3>1. /\ Head(mainBuf) \in Items
          /\ Numbers(mainBuf) = Numbers(mainBuf') \cup ({Head(mainBuf).id} \ {0})
      BY <2>1, <1>0, TakeFromBuffer
    <3>2. Numbers(pipe') = Numbers(pipe) \cup ({Head(mainBuf).id} \ {0})
      BY <2>1, <3>1, <1>0, PutInBuffer
    <3> QED BY <2>1, <3>1, <3>2 DEF Queued
  <2>2. CASE childBuf # <<>> /\ pipe' = Append(pipe, Head(childBuf)) /\ childBuf' = Tail(childBuf)
             /\ UNCHANGED mainBuf
    <3>1. /\ Head(childBuf) \in Items
          /\ Numbers(childBuf) = Numbers(childBuf') \cup ({Head(childBuf).id} \ {0})
      BY <2>2, <1>0, TakeFromBuffer
    <3>2. Numbers(pipe') = Numbers(pipe) \cup ({Head(childBuf).id} \ {0})
      BY <2>2, <3>1, <1>0, PutInBuffer
    <3> QED BY <2>2, <3>1, <3>2 DEF Queued
  <2> QED BY <1>3, <2>1, <2>2 DEF Feed
<1>4. CASE ThreadGets
  <2>1. Numbers(pipe') \subseteq Numbers(pipe)
    BY <1>4, <1>0, TakeFromBuffer DEF ThreadGets
  <2> QED BY <1>4, <2>1 DEF ThreadGets, Queued
<1>5. CASE UNCHANGED queue
  BY <1>5 DEF queue, Queued
<1> QED
  BY <1>1, <1>2, <1>3, <1>4, <1>5
     DEF Next, ThreadStep, SwitchToMultiprocessLogging, MainStep, SyncReturns, SyncTimesOut,
         SyncClears, StopReturns, StopTimesOut, AddHandler, RemoveHandler, ThreadHandles,
         ThreadHandled, vars

\* What handlers got is old and no longer queued.
LEMMA NextHeard ==
  ASSUME TypeOK, RecordInv, HeardInv, [Next]_vars
  PROVE  HeardInv'
<1>0. /\ logged \in Nat /\ MaxRecords \in Nat /\ logged' \in Nat /\ logged <= logged'
      /\ got \in [Handlers -> Seq(1..MaxRecords)]
  <2>1. logged' = logged \/ logged' = logged + 1
    BY DEF Next, LogFromMain, LogFromChild, Feed, SyncCall, StopCall, ThreadStep, ThreadGets,
           SwitchToMultiprocessLogging, MainStep, SyncReturns, SyncTimesOut,
           SyncClears, StopReturns, StopTimesOut, AddHandler, RemoveHandler, ThreadHandles,
           ThreadHandled, vars
  <2> QED BY <2>1, LoggingAssumption DEF TypeOK
<1>1. /\ RecordInv' /\ (tpc' = "handle" => record' \notin Queued')
      /\ Queued' \subseteq Queued \cup (1..logged' \ 1..logged)
  BY NextRecords, QueuedGrows
<1>2. SUFFICES ASSUME NEW h \in Handlers, NEW i \in DOMAIN got'[h]
               PROVE  got'[h][i] <= logged' /\ got'[h][i] \notin Queued'
  BY <1>1 DEF HeardInv, Queued
<1>a. ASSUME i \in DOMAIN got[h], got'[h][i] = got[h][i]
      PROVE  got'[h][i] <= logged' /\ got'[h][i] \notin Queued'
  <2>1. got[h][i] <= logged /\ got[h][i] \notin Queued /\ got[h][i] \in 1..MaxRecords
    BY <1>a, <1>0 DEF HeardInv, Queued
  <2>2. got[h][i] \in 1..logged
    BY <2>1, <1>0
  <2> QED BY <1>a, <2>1, <2>2, <1>0, <1>1
<1>b. ASSUME NEW n \in 1..logged', n \notin Queued',
             \/ got'[h] = got[h]
             \/ got'[h] = Append(got[h], n)
      PROVE  got'[h][i] <= logged' /\ got'[h][i] \notin Queued'
  <2>1. CASE got'[h] = got[h]
    BY <2>1, <1>a
  <2>2. CASE got'[h] = Append(got[h], n)
    <3>1. /\ DOMAIN got'[h] = 1..(Len(got[h]) + 1) /\ DOMAIN got[h] = 1..Len(got[h])
          /\ got'[h][Len(got[h]) + 1] = n /\ Len(got[h]) \in Nat
          /\ \A j \in 1..Len(got[h]) : got'[h][j] = got[h][j]
      <4>1. got[h] \in Seq(1..MaxRecords) /\ n \in Nat
        BY <1>0
      <4> QED BY <2>2, <4>1
    <3>2. CASE i = Len(got[h]) + 1
      BY <3>1, <3>2, <1>b
    <3>3. CASE i # Len(got[h]) + 1
      <4>1. i \in 1..Len(got[h])
        BY <3>1, <3>3, <1>2
      <4> QED BY <4>1, <3>1, <1>a
    <3> QED BY <3>2, <3>3
  <2> QED BY <1>b, <2>1, <2>2
<1>3. CASE LogFromMain /\ ~enabled
  <2>1. /\ logged' = logged + 1 /\ Queued' = Queued
        /\ got' = [g \in Handlers |-> IF g \in Range(handlers)
                                      THEN Append(got[g], logged + 1) ELSE got[g]]
    BY <1>3 DEF LogFromMain, Queued
  <2>2. logged + 1 \in 1..logged' /\ logged + 1 \notin Queued'
    <3>1. Queued \subseteq 1..logged
      BY DEF RecordInv, Queued
    <3> QED BY <2>1, <3>1, <1>0
  <2>3. got'[h] = got[h] \/ got'[h] = Append(got[h], logged + 1)
    BY <2>1
  <2> QED BY <2>2, <2>3, <1>b
<1>4. CASE ThreadHandles
  <2>1. record \in 1..logged' /\ record \notin Queued'
    BY <1>4, <1>0 DEF ThreadHandles, RecordInv, HeardInv, Queued, queue
  <2>2. got'[h] = got[h] \/ got'[h] = Append(got[h], record)
    BY <1>4, <1>0 DEF ThreadHandles
  <2> QED BY <2>1, <2>2, <1>b
<1>5. CASE UNCHANGED got
  BY <1>5, <1>2, <1>a
<1> QED
  BY <1>3, <1>4, <1>5
     DEF Next, LogFromMain, LogFromChild, Feed, SyncCall, StopCall, ThreadStep, ThreadGets,
         SwitchToMultiprocessLogging, MainStep, SyncReturns, SyncTimesOut,
         SyncClears, StopReturns, StopTimesOut, AddHandler, RemoveHandler, ThreadHandled, vars

-----------------------------------------------------------------------------
(* The walk over the handlers.                                             *)

LEMMA NextWalk ==
  ASSUME TypeOK, RecordInv, HeardInv, EnabledInv, WalkInv, [Next]_vars
  PROVE  WalkInv'
<1>0. /\ handlers \in Seq(Handlers) /\ DOMAIN handlers = 1..Len(handlers)
      /\ Len(handlers) \in Nat /\ index \in Nat /\ IsInjective(handlers)
      /\ got \in [Handlers -> Seq(1..MaxRecords)]
      /\ \A k \in 1..Len(handlers) : handlers[k] \in Handlers
  BY DEF TypeOK, WalkInv
<1>a. ASSUME UNCHANGED <<handlers, thread, got, cut>> PROVE WalkInv'
  BY <1>a DEF WalkInv, thread
<1>b. ASSUME UNCHANGED handlers, tpc' # "handle" PROVE WalkInv'
  BY <1>b DEF WalkInv
<1>1. CASE LogFromMain
  <2>1. CASE UNCHANGED got
    BY <1>1, <2>1, <1>a DEF LogFromMain
  <2>2. CASE ~enabled
    \* the thread does not run
    <3>1. tpc # "handle"
      BY <2>2 DEF EnabledInv
    <3> QED BY <1>1, <3>1, <1>b DEF LogFromMain, thread
  <2> QED BY <1>1, <2>1, <2>2 DEF LogFromMain
<1>2. CASE SwitchToMultiprocessLogging
  BY <1>2, <1>b DEF SwitchToMultiprocessLogging
<1>3. ASSUME NEW h \in Handlers, AddHandler(h) PROVE WalkInv'
  <2>1. /\ handlers' = Append(handlers, h) /\ h \notin Range(handlers)
        /\ UNCHANGED <<thread, got, cut>>
    BY <1>3 DEF AddHandler
  <2>2. /\ DOMAIN handlers' = 1..(Len(handlers) + 1) /\ handlers'[Len(handlers) + 1] = h
        /\ Len(handlers') = Len(handlers) + 1
        /\ \A k \in 1..Len(handlers) : handlers'[k] = handlers[k] /\ handlers[k] # h
    <3>1. \A k \in 1..Len(handlers) : handlers[k] # h
      BY <2>1, <1>0 DEF Range
    <3> QED BY <2>1, <3>1, <1>0
  <2>3. IsInjective(handlers')
    <3>1. \A k \in 1..(Len(handlers) + 1) : k \in 1..Len(handlers) \/ k = Len(handlers) + 1
      BY <1>0
    <3> QED BY <2>2, <3>1, <1>0 DEF IsInjective
  <2>4. ASSUME tpc = "handle", ~cut
        PROVE  /\ index <= Len(handlers')
               /\ \A k \in DOMAIN handlers' : k <= index => HeardOnce(got[handlers'[k]], record)
               /\ \A g \in Handlers :
                    Heard(got[g], record) => \E k \in DOMAIN handlers' : k <= index /\ handlers'[k] = g
    <3>1. /\ index <= Len(handlers)
          /\ \A k \in 1..Len(handlers) : k <= index => HeardOnce(got[handlers[k]], record)
          /\ \A g \in Handlers :
               Heard(got[g], record) => \E k \in 1..Len(handlers) : k <= index /\ handlers[k] = g
      BY <2>4, <1>0 DEF WalkInv
    <3>2. \A k \in 1..(Len(handlers) + 1) : k <= index => k \in 1..Len(handlers)
      BY <3>1, <1>0
    <3>3. 1..Len(handlers) \subseteq 1..(Len(handlers) + 1)
      BY <1>0
    <3>4. index <= Len(handlers')
      BY <3>1, <2>2, <1>0
    <3>5. ASSUME NEW k \in DOMAIN handlers', k <= index
          PROVE  HeardOnce(got[handlers'[k]], record)
      <4>1. k \in 1..Len(handlers) /\ handlers'[k] = handlers[k]
        BY <3>5, <3>2, <2>2
      <4> QED BY <4>1, <3>1, <3>5
    <3>6. ASSUME NEW g \in Handlers, Heard(got[g], record)
          PROVE  \E k \in DOMAIN handlers' : k <= index /\ handlers'[k] = g
      <4>1. PICK k \in 1..Len(handlers) : k <= index /\ handlers[k] = g
        BY <3>1, <3>6
      <4> QED BY <4>1, <3>3, <2>2
    <3> QED BY <3>4, <3>5, <3>6
  <2> QED BY <2>1, <2>3, <2>4 DEF WalkInv, thread
<1>4. ASSUME NEW h \in Handlers, RemoveHandler(h) PROVE WalkInv'
  <2>1. PICK i \in DOMAIN handlers : handlers' = RemoveAt(handlers, i)
    BY <1>4 DEF RemoveHandler
  <2>2. IsInjective(handlers')
    BY <2>1, <1>0, RemovedHandler
  <2>3. tpc' = "handle" => cut'
    BY <1>4 DEF RemoveHandler, thread
  <2> QED BY <2>2, <2>3 DEF WalkInv
<1>5. CASE ThreadGets
  <2>1. /\ UNCHANGED <<handlers, got>> /\ index' = 0
        /\ tpc' = "handle" => record' # 0 /\ record' \in Numbers(pipe)
    <3>1. /\ Head(pipe) \in Items
          /\ Numbers(pipe) = Numbers(Tail(pipe)) \cup ({Head(pipe).id} \ {0})
      BY <1>5, TakeFromBuffer DEF ThreadGets, TypeOK
    <3>2. Head(pipe).kind # "record" => tpc' # "handle"
      BY <1>5, <3>1, ItemTypes DEF ThreadGets
    <3>3. record' = Head(pipe).id /\ UNCHANGED <<handlers, got>> /\ index' = 0
      BY <1>5 DEF ThreadGets
    <3> QED BY <3>1, <3>2, <3>3, ItemTypes
  <2>2. ASSUME tpc' = "handle", NEW g \in Handlers PROVE ~ Heard(got[g], record')
    BY <2>1, <2>2 DEF HeardInv, Heard
  <2>3. \A k \in DOMAIN handlers : ~ (k <= index')
    BY <2>1, <1>0
  <2> QED BY <2>1, <2>2, <2>3, <1>0 DEF WalkInv
<1>6. CASE ThreadHandles
  <2>1. /\ index + 1 \in 1..Len(handlers) /\ tpc = "handle" /\ index' = index + 1
        /\ got' = [got EXCEPT ![handlers[index + 1]] = Append(@, record)]
        /\ UNCHANGED <<handlers, tpc, record, cut>>
    BY <1>6, <1>0 DEF ThreadHandles, LastIndex
  <2> SUFFICES ASSUME ~cut
               PROVE  /\ index' <= Len(handlers)
                      /\ \A k \in 1..Len(handlers) :
                           k <= index' => HeardOnce(got'[handlers[k]], record)
                      /\ \A g \in Handlers : Heard(got'[g], record)
                           => \E k \in 1..Len(handlers) : k <= index' /\ handlers[k] = g
    BY <2>1, <1>0 DEF WalkInv
  <2> DEFINE a == handlers[index + 1]
  <2>2. a \in Handlers /\ got'[a] = Append(got[a], record)
        /\ \A g \in Handlers : g # a => got'[g] = got[g]
    BY <2>1, <1>0
  <2>3. \A k \in 1..Len(handlers) : handlers[k] = a => k = index + 1
    BY <2>1, <1>0 DEF IsInjective
  <2>4. /\ index <= Len(handlers)
        /\ \A k \in 1..Len(handlers) : k <= index => HeardOnce(got[handlers[k]], record)
        /\ \A g \in Handlers :
             Heard(got[g], record) => \E k \in 1..Len(handlers) : k <= index /\ handlers[k] = g
    BY <2>1, <1>0 DEF WalkInv
  <2>5. ~ Heard(got[a], record)
    <3>1. ~ (index + 1 <= index)
      BY <1>0
    <3> QED BY <2>2, <2>3, <2>4, <3>1
  <2>6. HeardOnce(got'[a], record)
    <3> DEFINE s == got[a]
               t == Append(s, record)
    <3>1. s \in Seq(1..MaxRecords) /\ record \in Nat
      BY <2>2, <1>0 DEF TypeOK
    <3>2. /\ Len(s) \in Nat /\ DOMAIN s = 1..Len(s) /\ DOMAIN t = 1..(Len(s) + 1)
          /\ t[Len(s) + 1] = record /\ \A j \in 1..Len(s) : t[j] = s[j]
      BY <3>1
    <3>3. \A j \in 1..Len(s) : s[j] # record
      BY <2>5, <3>2 DEF Heard
    <3>4. got'[a] = t
      BY <2>2
    <3> HIDE DEF t, s
    <3>5. ASSUME NEW j \in 1..(Len(s) + 1), t[j] = record PROVE j = Len(s) + 1
      <4>1. j \notin 1..Len(s)
        BY <3>2, <3>3, <3>5
      <4> QED BY <4>1, <3>2
    <3>6. Len(s) + 1 \in 1..(Len(s) + 1)
      BY <3>2
    <3> QED BY <3>2, <3>4, <3>5, <3>6 DEF HeardOnce
  <2>7. ASSUME NEW k \in 1..Len(handlers), k <= index' PROVE HeardOnce(got'[handlers[k]], record)
    <3>1. CASE k = index + 1
      BY <3>1, <2>6
    <3>2. CASE k # index + 1
      <4>1. k <= index /\ handlers[k] # a /\ handlers[k] \in Handlers
        BY <2>7, <3>2, <2>1, <2>3, <1>0
      <4>2. HeardOnce(got[handlers[k]], record) /\ got'[handlers[k]] = got[handlers[k]]
        BY <4>1, <2>4, <2>2
      <4> QED BY <4>2
    <3> QED BY <3>1, <3>2
  <2>8. ASSUME NEW g \in Handlers, Heard(got'[g], record)
        PROVE  \E k \in 1..Len(handlers) : k <= index' /\ handlers[k] = g
    <3>1. CASE g = a
      BY <3>1, <2>1, <1>0
    <3>2. CASE g # a
      <4>1. Heard(got[g], record)
        BY <3>2, <2>8, <2>2
      <4>2. PICK k \in 1..Len(handlers) : k <= index /\ handlers[k] = g
        BY <4>1, <2>4
      <4> QED BY <4>2, <2>1, <1>0
    <3> QED BY <3>1, <3>2
  <2> QED BY <2>1, <2>7, <2>8, <1>0
<1>7. CASE ThreadHandled
  BY <1>7, <1>b DEF ThreadHandled
<1>8. CASE SyncCall \/ StopCall \/ MainStep \/ LogFromChild \/ Feed \/ UNCHANGED vars
  BY <1>8, <1>a
     DEF SyncCall, StopCall, MainStep, SyncReturns, SyncTimesOut, SyncClears, StopReturns,
         StopTimesOut, LogFromChild, Feed, vars
<1> QED
  BY <1>1, <1>2, <1>3, <1>4, <1>5, <1>6, <1>7, <1>8 DEF Next, ThreadStep

-----------------------------------------------------------------------------
(* The sentinels.                                                          *)

\* A sentinel that is nowhere stays so until it is put.
LEMMA AbsentKept ==
  ASSUME TypeOK, OnlyRecords(childBuf), [Next]_vars, NEW s \in {Sync, Terminate}, Absent(s),
         ~(SyncCall /\ s = Sync), ~(StopCall /\ s = Terminate)
  PROVE  Absent(s)'
<1>0. /\ logged \in Nat /\ MaxRecords \in Nat /\ s \in Items /\ s.kind # "record"
      /\ mainBuf \in Seq(Items) /\ childBuf \in Seq(Items) /\ pipe \in Seq(Items)
  BY LoggingAssumption, ItemTypes DEF TypeOK
<1>a. ASSUME NEW b \in Seq(Items), NEW e \in Items, e # s, \A i \in DOMAIN b : b[i] # s
      PROVE  \A i \in DOMAIN Append(b, e) : Append(b, e)[i] # s
  <2>1. \A i \in 1..(Len(b) + 1) : i \in 1..Len(b) \/ i = Len(b) + 1
    OBVIOUS
  <2> QED BY <2>1, <1>a, PutInBuffer
<1>b. ASSUME NEW b \in Seq(Items), b # <<>>, \A i \in DOMAIN b : b[i] # s
      PROVE  Head(b) # s /\ \A i \in DOMAIN Tail(b) : Tail(b)[i] # s
  <2>1. \A i \in 1..(Len(b) - 1) : i + 1 \in 1..Len(b)
    OBVIOUS
  <2>2. 1 \in 1..Len(b) /\ DOMAIN b = 1..Len(b) /\ Head(b) = b[1]
    BY <1>b, TakeFromBuffer
  <2> QED BY <2>1, <2>2, <1>b, TakeFromBuffer
<1>1. CASE UNCHANGED queue
  BY <1>1 DEF queue, Absent
<1>2. CASE LogFromMain \/ SyncCall \/ StopCall
  <2>1. CASE UNCHANGED <<mainBuf, pipe>>
    BY <2>1 DEF Absent
  <2>2. CASE ~ UNCHANGED <<mainBuf, pipe>>
    <3>1. PICK e \in Items : e # s /\ mainBuf' = Append(mainBuf, e) /\ pipe' = pipe
      <4>1. CASE LogFromMain
        <5>1. logged + 1 \in 1..MaxRecords
          BY <4>1, <1>0 DEF LogFromMain
        <5>2. Record(logged + 1) \in Items /\ Record(logged + 1) # s
          BY <5>1, ItemTypes
        <5>3. mainBuf' = Append(mainBuf, Record(logged + 1)) /\ pipe' = pipe
          BY <4>1, <2>2 DEF LogFromMain
        <5> QED BY <5>2, <5>3
      <4>2. CASE SyncCall
        BY <4>2, ItemTypes DEF SyncCall
      <4>3. CASE StopCall
        BY <4>3, ItemTypes DEF StopCall
      <4> QED BY <1>2, <4>1, <4>2, <4>3
    <3>2. \A i \in DOMAIN Append(mainBuf, e) : Append(mainBuf, e)[i] # s
      BY <3>1, <1>0, <1>a DEF Absent
    <3> QED BY <3>1, <3>2 DEF Absent
  <2> QED BY <2>1, <2>2
<1>3. CASE LogFromChild
  BY <1>3 DEF LogFromChild, Absent
<1>4. CASE Feed
  <2>1. CASE mainBuf # <<>> /\ pipe' = Append(pipe, Head(mainBuf)) /\ mainBuf' = Tail(mainBuf)
    <3>1. Head(mainBuf) # s /\ \A i \in DOMAIN mainBuf' : mainBuf'[i] # s
      BY <2>1, <1>0, <1>b DEF Absent
    <3>2. Head(mainBuf) \in Items
      BY <2>1, <1>0, TakeFromBuffer
    <3>3. \A i \in DOMAIN pipe' : pipe'[i] # s
      BY <3>1, <3>2, <2>1, <1>0, <1>a DEF Absent
    <3> QED BY <3>1, <3>3 DEF Absent
  <2>2. CASE childBuf # <<>> /\ pipe' = Append(pipe, Head(childBuf)) /\ UNCHANGED mainBuf
    <3>1. Head(childBuf) \in Items /\ 1 \in DOMAIN childBuf /\ Head(childBuf) = childBuf[1]
      BY <2>2, <1>0, TakeFromBuffer
    <3>2. Head(childBuf) # s
      BY <3>1, <1>0 DEF OnlyRecords
    <3>3. \A i \in DOMAIN pipe' : pipe'[i] # s
      BY <3>1, <3>2, <2>2, <1>0, <1>a DEF Absent
    <3> QED BY <3>3, <2>2 DEF Absent
  <2> QED BY <1>4, <2>1, <2>2 DEF Feed
<1>5. CASE ThreadGets
  <2>1. pipe # <<>> /\ pipe' = Tail(pipe) /\ mainBuf' = mainBuf
    BY <1>5 DEF ThreadGets
  <2> QED BY <2>1, <1>0, <1>b DEF Absent
<1> QED
  BY <1>1, <1>2, <1>3, <1>4, <1>5
     DEF Next, ThreadStep, SwitchToMultiprocessLogging, MainStep, SyncReturns, SyncTimesOut,
         SyncClears, StopReturns, StopTimesOut, AddHandler, RemoveHandler, ThreadHandles,
         ThreadHandled, vars

\* A sentinel that was nowhere is in place once the main thread has put it.
LEMMA PutInPlace ==
  ASSUME TypeOK, NEW s \in {Sync, Terminate}, Absent(s),
         mainBuf' = Append(mainBuf, s), UNCHANGED pipe
  PROVE  InPlace(s)'
<1>1. s \in Items /\ mainBuf \in Seq(Items)
  BY ItemTypes DEF TypeOK
<1>2. /\ mainBuf' # <<>> /\ DOMAIN mainBuf' = 1..(Len(mainBuf) + 1) /\ Len(mainBuf) \in Nat
      /\ Len(mainBuf') = Len(mainBuf) + 1 /\ mainBuf'[Len(mainBuf) + 1] = s
      /\ \A i \in 1..Len(mainBuf) : mainBuf'[i] = mainBuf[i]
      /\ DOMAIN mainBuf = 1..Len(mainBuf)
  BY <1>1, PutInBuffer
<1>3. ASSUME NEW i \in 1..(Len(mainBuf) + 1), mainBuf'[i] = s PROVE i = Len(mainBuf) + 1
  <2>1. i \in 1..Len(mainBuf) \/ i = Len(mainBuf) + 1
    BY <1>2
  <2> QED BY <2>1, <1>2, <1>3 DEF Absent
<1> QED BY <1>2, <1>3 DEF Absent, InPlace

\* A record of the main process that is not handled is on its way.
LEMMA NextNoLoss ==
  ASSUME TypeOK, RecordInv, NoLossInv, EnabledInv, [Next]_vars
  PROVE  NoLossInv'
<1>0. /\ logged \in Nat /\ MaxRecords \in Nat
      /\ mainBuf \in Seq(Items) /\ childBuf \in Seq(Items) /\ pipe \in Seq(Items)
      /\ fromMain \subseteq 1..logged
  BY LoggingAssumption DEF TypeOK
<1>a. ASSUME UNCHANGED <<fromMain, done, tpc, record>>,
             Numbers(mainBuf) \cup Numbers(pipe) \subseteq Numbers(mainBuf') \cup Numbers(pipe')
      PROVE  NoLossInv'
  BY <1>a DEF NoLossInv, Handling
<1>1. CASE LogFromMain
  <2>1. CASE enabled
    <3>1. /\ logged + 1 \in 1..MaxRecords /\ fromMain' = fromMain \cup {logged + 1}
          /\ mainBuf' = Append(mainBuf, Record(logged + 1))
          /\ UNCHANGED <<pipe, done, tpc, record>>
      BY <1>1, <2>1, <1>0 DEF LogFromMain, thread
    <3>2. /\ Record(logged + 1) \in Items /\ Record(logged + 1).id = logged + 1
          /\ logged + 1 # 0
      BY <3>1, ItemTypes
    <3>3. Numbers(mainBuf') = Numbers(mainBuf) \cup {logged + 1}
      BY <3>1, <3>2, <1>0, PutInBuffer
    <3> QED BY <3>1, <3>3 DEF NoLossInv, Handling
  <2>2. CASE ~enabled
    BY <1>1, <2>2 DEF LogFromMain, NoLossInv, Handling, thread
  <2> QED BY <2>1, <2>2
<1>2. CASE SwitchToMultiprocessLogging
  <2>1. tpc # "handle"
    BY <1>2 DEF SwitchToMultiprocessLogging, EnabledInv
  <2> QED BY <1>2, <2>1 DEF SwitchToMultiprocessLogging, NoLossInv, Handling, queue
<1>3. CASE SyncCall
  <2>1. Numbers(mainBuf') = Numbers(mainBuf) \cup ({Sync.id} \ {0})
    BY <1>3, <1>0, ItemTypes, PutInBuffer DEF SyncCall
  <2> QED BY <1>3, <2>1, <1>a DEF SyncCall, thread
<1>4. CASE StopCall
  <2>1. Numbers(mainBuf') = Numbers(mainBuf) \cup ({Terminate.id} \ {0})
    BY <1>4, <1>0, ItemTypes, PutInBuffer DEF StopCall
  <2> QED BY <1>4, <2>1, <1>a DEF StopCall, thread
<1>5. CASE Feed
  <2>1. CASE mainBuf # <<>> /\ pipe' = Append(pipe, Head(mainBuf)) /\ mainBuf' = Tail(mainBuf)
    <3>1. /\ Head(mainBuf) \in Items
          /\ Numbers(mainBuf) = Numbers(mainBuf') \cup ({Head(mainBuf).id} \ {0})
      BY <2>1, <1>0, TakeFromBuffer
    <3>2. Numbers(pipe') = Numbers(pipe) \cup ({Head(mainBuf).id} \ {0})
      BY <2>1, <3>1, <1>0, PutInBuffer
    <3> QED BY <1>5, <3>1, <3>2, <1>a DEF Feed, thread
  <2>2. CASE childBuf # <<>> /\ pipe' = Append(pipe, Head(childBuf)) /\ UNCHANGED mainBuf
    <3>1. Head(childBuf) \in Items
      BY <2>2, <1>0, TakeFromBuffer
    <3>2. Numbers(pipe') = Numbers(pipe) \cup ({Head(childBuf).id} \ {0})
      BY <2>2, <3>1, <1>0, PutInBuffer
    <3> QED BY <1>5, <2>2, <3>2, <1>a DEF Feed, thread
  <2> QED BY <1>5, <2>1, <2>2 DEF Feed
<1>6. CASE ThreadGets
  <2> DEFINE e == Head(pipe)
  <2>1. /\ e \in Items /\ Numbers(pipe) = Numbers(pipe') \cup ({e.id} \ {0})
        /\ record' = e.id /\ tpc # "handle" /\ UNCHANGED <<mainBuf, fromMain, done>>
    BY <1>6, <1>0, TakeFromBuffer DEF ThreadGets
  <2>2. e.id # 0 => tpc' = "handle"
    <3>1. e.kind = "record" => tpc' = "handle"
      BY <1>6 DEF ThreadGets
    <3> QED BY <2>1, <3>1, ItemTypes
  <2> HIDE DEF e
  <2> QED BY <2>1, <2>2 DEF NoLossInv, Handling
<1>7. CASE ThreadHandles
  BY <1>7, <1>a DEF ThreadHandles, queue
<1>8. CASE ThreadHandled
  BY <1>8 DEF ThreadHandled, NoLossInv, Handling, queue
<1>9. CASE MainStep \/ UNCHANGED vars
  BY <1>9, <1>a DEF MainStep, SyncReturns, SyncTimesOut, SyncClears, StopReturns, StopTimesOut,
                    queue, thread, vars
<1>10. CASE LogFromChild
  BY <1>10, <1>a DEF LogFromChild, thread
<1>11. ASSUME NEW h \in Handlers, AddHandler(h) \/ RemoveHandler(h) PROVE NoLossInv'
  BY <1>11, <1>a DEF AddHandler, RemoveHandler, queue, thread
<1> QED
  BY <1>1, <1>2, <1>3, <1>4, <1>5, <1>6, <1>7, <1>8, <1>9, <1>10, <1>11 DEF Next, ThreadStep

\* While the main thread waits, its sentinel stays behind its records; when the
\* thread takes it, they are all handled.
LEMMA InPlaceKept ==
  ASSUME TypeOK, RecordInv, NoLossInv, OnlyRecords(childBuf),
         NEW s \in {Sync, Terminate}, InPlace(s), LogFromChild \/ Feed \/ ThreadStep
  PROVE  IF ThreadGets /\ Head(pipe) = s THEN Absent(s)' /\ fromMain \subseteq done
         ELSE InPlace(s)'
<1>0. /\ mainBuf \in Seq(Items) /\ childBuf \in Seq(Items) /\ pipe \in Seq(Items)
      /\ DOMAIN mainBuf = 1..Len(mainBuf) /\ DOMAIN pipe = 1..Len(pipe)
      /\ Len(mainBuf) \in Nat /\ Len(pipe) \in Nat
      /\ s \in Items /\ s.id = 0 /\ s.kind # "record"
      /\ fromMain' = fromMain /\ \A n \in fromMain : n # 0
  <2>1. fromMain' = fromMain
    BY DEF LogFromChild, Feed, ThreadStep, ThreadGets, ThreadHandles, ThreadHandled
  <2>2. fromMain \subseteq 1..logged /\ logged \in Nat
    BY LoggingAssumption DEF TypeOK
  <2> QED BY <2>1, <2>2, ItemTypes DEF TypeOK
<1>1. CASE LogFromChild
  <2>1. UNCHANGED <<mainBuf, pipe, done, tpc, record>> /\ ~ThreadGets
    <3>1. LogFromChild => logged' # logged
      BY <1>1, LoggingAssumption DEF LogFromChild, TypeOK
    <3>2. ThreadGets => logged' = logged
      BY DEF ThreadGets
    <3> QED BY <1>1, <3>1, <3>2 DEF LogFromChild, thread
  <2> QED BY <2>1, <1>0 DEF InPlace, Handling
<1>2. CASE Feed
  <2>0. UNCHANGED <<done, tpc, record>>
    BY <1>2 DEF Feed, thread
  <2>1. PICK e \in Items : pipe' = Append(pipe, e) /\
          \/ mainBuf # <<>> /\ mainBuf' = Tail(mainBuf) /\ e = Head(mainBuf)
          \/ mainBuf' = mainBuf /\ e # s
    <3>1. CASE mainBuf # <<>> /\ pipe' = Append(pipe, Head(mainBuf)) /\ mainBuf' = Tail(mainBuf)
      BY <3>1, <1>0, TakeFromBuffer
    <3>2. CASE childBuf # <<>> /\ pipe' = Append(pipe, Head(childBuf)) /\ UNCHANGED mainBuf
      <4>1. Head(childBuf) \in Items /\ 1 \in DOMAIN childBuf /\ Head(childBuf) = childBuf[1]
        BY <3>2, <1>0, TakeFromBuffer
      <4>2. Head(childBuf) # s
        BY <4>1, <1>0 DEF OnlyRecords
      <4> QED BY <3>2, <4>1, <4>2
    <3> QED BY <1>2, <3>1, <3>2 DEF Feed
  <2>2. /\ DOMAIN pipe' = 1..(Len(pipe) + 1) /\ pipe'[Len(pipe) + 1] = e
        /\ \A i \in 1..Len(pipe) : pipe'[i] = pipe[i]
        /\ \A i \in 1..(Len(pipe) + 1) : i \in 1..Len(pipe) \/ i = Len(pipe) + 1
        /\ 1..Len(pipe) \subseteq 1..(Len(pipe) + 1)
    BY <2>1, <1>0, PutInBuffer
  <2>3. ~ThreadGets
    <3>1. ThreadGets => Len(pipe') = Len(pipe) - 1
      BY <1>0, TakeFromBuffer DEF ThreadGets
    <3>2. Len(pipe') = Len(pipe) + 1
      BY <2>1, <1>0
    <3>3. \A l \in Nat : l - 1 # l + 1
      OBVIOUS
    <3> QED BY <3>1, <3>2, <3>3, <1>0, Zenon
  <2>4. CASE mainBuf' = mainBuf /\ e # s
    <3>1. CASE mainBuf # <<>>
      BY <3>1, <2>4, <2>2, <2>3, <1>0 DEF InPlace
    <3>2. CASE mainBuf = <<>>
      <4>1. PICK k \in 1..Len(pipe) :
              /\ pipe[k] = s
              /\ \A i \in 1..Len(pipe) : pipe[i] = s => i = k
              /\ \A n \in fromMain \ done :
                   Handling(n) \/ \E i \in 1..Len(pipe) : i < k /\ pipe[i].id = n
        BY <3>2, <1>0 DEF InPlace
      <4>2. k \in DOMAIN pipe' /\ pipe'[k] = s /\ \A i \in DOMAIN pipe' : pipe'[i] = s => i = k
        BY <4>1, <2>2, <2>4
      <4>3. \A n \in fromMain' \ done' :
              Handling(n)' \/ \E i \in DOMAIN pipe' : i < k /\ pipe'[i].id = n
        BY <4>1, <2>0, <2>2, <1>0, SMTT(40) DEF Handling
      <4> QED BY <4>2, <4>3, <3>2, <2>4, <2>3 DEF InPlace
    <3> QED BY <3>1, <3>2
  <2>5. CASE mainBuf # <<>> /\ mainBuf' = Tail(mainBuf) /\ e = Head(mainBuf)
    <3>1. /\ mainBuf[Len(mainBuf)] = s /\ \A i \in 1..Len(mainBuf) : mainBuf[i] = s => i = Len(mainBuf)
          /\ \A i \in 1..Len(pipe) : pipe[i] # s
      BY <2>5, <1>0 DEF InPlace
    <3>2. /\ e = mainBuf[1] /\ Len(mainBuf) > 0 /\ Len(mainBuf') = Len(mainBuf) - 1
          /\ DOMAIN mainBuf' = 1..(Len(mainBuf) - 1) /\ mainBuf' \in Seq(Items)
          /\ \A i \in 1..(Len(mainBuf) - 1) : mainBuf'[i] = mainBuf[i + 1]
      BY <2>5, <1>0, TakeFromBuffer
    <3>3. CASE Len(mainBuf) = 1
      <4>1. mainBuf' = <<>> /\ e = s
        BY <3>1, <3>2, <3>3
      <4>2. Numbers(mainBuf) = {}
        <5>1. \A i \in DOMAIN mainBuf : mainBuf[i].id = 0
          BY <3>1, <3>3, <1>0
        <5> QED BY <5>1 DEF Numbers
      <4>3. ASSUME NEW n \in fromMain' \ done', ~Handling(n)'
            PROVE  \E i \in DOMAIN pipe' : i < Len(pipe) + 1 /\ pipe'[i].id = n
        <5>1. n \in Numbers(pipe)
          BY <4>2, <4>3, <2>0, <1>0 DEF NoLossInv, Handling
        <5>2. PICK i \in 1..Len(pipe) : pipe[i].id = n
          BY <5>1, <1>0 DEF Numbers
        <5>3. i \in DOMAIN pipe' /\ pipe'[i].id = n /\ i < Len(pipe) + 1
          BY <5>2, <2>2, <1>0
        <5> QED BY <5>3
      <4>4. /\ Len(pipe) + 1 \in DOMAIN pipe' /\ pipe'[Len(pipe) + 1] = s
            /\ \A i \in DOMAIN pipe' : pipe'[i] = s => i = Len(pipe) + 1
        <5>1. Len(pipe) + 1 \in 1..(Len(pipe) + 1)
          BY <1>0
        <5>2. ASSUME NEW i \in DOMAIN pipe', pipe'[i] = s PROVE i = Len(pipe) + 1
          <6>1. i \notin 1..Len(pipe)
            BY <2>2, <3>1, <5>2
          <6> QED BY <6>1, <5>2, <2>2
        <5> QED BY <5>1, <5>2, <2>2, <4>1
      <4> QED BY <4>1, <4>3, <4>4, <2>3 DEF InPlace
    <3>4. CASE Len(mainBuf) # 1
      <4>1. Len(mainBuf) - 1 \in 1..(Len(mainBuf) - 1) /\ 1 \in 1..Len(mainBuf)
            /\ \A i \in 1..(Len(mainBuf) - 1) : i + 1 \in 1..Len(mainBuf)
        BY <3>2, <3>4, <1>0
      <4>2. e # s /\ mainBuf' # <<>> /\ mainBuf'[Len(mainBuf')] = s
        BY <4>1, <3>1, <3>2, <3>4, <1>0
      <4>3. \A i \in DOMAIN mainBuf' : mainBuf'[i] = s => i = Len(mainBuf')
        BY <4>1, <3>1, <3>2, <1>0
      <4>4. \A i \in DOMAIN pipe' : pipe'[i] # s
        BY <4>2, <3>1, <2>2
      <4> QED BY <4>2, <4>3, <4>4, <2>3 DEF InPlace
    <3> QED BY <3>3, <3>4
  <2> QED BY <2>1, <2>4, <2>5
<1>3. CASE ThreadGets
  <2> DEFINE e == Head(pipe)
  <2>1. /\ e \in Items /\ e = pipe[1] /\ Len(pipe) > 0 /\ DOMAIN pipe' = 1..(Len(pipe) - 1)
        /\ \A i \in 1..(Len(pipe) - 1) : pipe'[i] = pipe[i + 1] /\ i + 1 \in 1..Len(pipe)
        /\ 1 \in 1..Len(pipe) /\ tpc = "get" /\ record' = e.id
        /\ UNCHANGED <<mainBuf, done>>
    <3>1. pipe # <<>> /\ pipe' = Tail(pipe) /\ tpc = "get" /\ record' = e.id
          /\ UNCHANGED <<mainBuf, done>>
      BY <1>3 DEF ThreadGets
    <3> QED BY <3>1, <1>0, TakeFromBuffer
  <2>2. e.id # 0 => tpc' = "handle"
    <3>1. e.kind = "record" => tpc' = "handle"
      BY <1>3 DEF ThreadGets
    <3> QED BY <2>1, <3>1, ItemTypes
  <2> HIDE DEF e
  <2>3. CASE mainBuf # <<>>
    <3>1. e # s /\ \A i \in DOMAIN pipe' : pipe'[i] # s
      BY <2>1, <2>3, <1>0 DEF InPlace
    <3>2. InPlace(s)'
      BY <3>1, <2>1, <2>3, <1>0 DEF InPlace
    <3> QED BY <3>1, <3>2 DEF e
  <2>4. CASE mainBuf = <<>>
    <3>1. PICK k \in 1..Len(pipe) :
            /\ pipe[k] = s
            /\ \A i \in 1..Len(pipe) : pipe[i] = s => i = k
            /\ \A n \in fromMain \ done : \E i \in 1..Len(pipe) : i < k /\ pipe[i].id = n
      <4>1. PICK k \in DOMAIN pipe :
              /\ pipe[k] = s
              /\ \A i \in DOMAIN pipe : pipe[i] = s => i = k
              /\ \A n \in fromMain \ done :
                    Handling(n) \/ \E i \in DOMAIN pipe : i < k /\ pipe[i].id = n
        BY <2>4, <1>0, Zenon DEF InPlace
      <4>2. \A n : ~Handling(n)
        BY <2>1 DEF Handling
      <4>3. DOMAIN pipe = 1..Len(pipe)
        BY <1>0
      <4> QED BY <4>1, <4>2, <4>3
    <3>2. CASE e = s
      <4>1. k = 1
        BY <3>1, <3>2, <2>1
      <4>2. fromMain \subseteq done
        BY <3>1, <4>1
      <4>3. Absent(s)'
        <5>1. \A i \in 1..(Len(pipe) - 1) : i + 1 # 1
          BY <1>0
        <5>2. \A i \in DOMAIN pipe' : pipe'[i] # s
          BY <5>1, <3>1, <4>1, <2>1
        <5> QED BY <5>2, <2>1, <2>4 DEF Absent
      <4> QED BY <1>3, <3>2, <4>2, <4>3 DEF e
    <3>3. CASE e # s
      <4>1. k - 1 \in 1..(Len(pipe) - 1) /\ pipe'[k - 1] = s
        BY <3>1, <3>3, <2>1, <1>0
      <4>2. \A i \in DOMAIN pipe' : pipe'[i] = s => i = k - 1
        BY <3>1, <2>1, <1>0
      <4>3. ASSUME NEW n \in fromMain' \ done', ~Handling(n)'
            PROVE  \E i \in DOMAIN pipe' : i < k - 1 /\ pipe'[i].id = n
        <5>1. PICK i \in 1..Len(pipe) : i < k /\ pipe[i].id = n
          BY <3>1, <4>3, <2>1, <1>0
        <5>2. i # 1
          BY <5>1, <4>3, <2>1, <2>2, <1>0 DEF Handling
        <5>3. i - 1 \in 1..(Len(pipe) - 1) /\ pipe'[i - 1] = pipe[i] /\ i - 1 < k - 1
          BY <5>1, <5>2, <2>1, <3>1, <1>0
        <5> QED BY <5>1, <5>3, <2>1
      <4>4. InPlace(s)'
        BY <4>1, <4>2, <4>3, <2>1, <2>4 DEF InPlace
      <4> QED BY <4>4, <3>3 DEF e
    <3> QED BY <3>2, <3>3
  <2> QED BY <2>3, <2>4
<1>4. CASE ThreadHandles \/ ThreadHandled
  <2>1. UNCHANGED <<mainBuf, pipe>> /\ ~ThreadGets
        /\ \A n \in fromMain \ done' : n \in fromMain \ done /\ (Handling(n) => Handling(n)')
    BY <1>4 DEF ThreadHandles, ThreadHandled, ThreadGets, queue, Handling
  <2> QED BY <2>1, <1>0 DEF InPlace
<1> QED BY <1>1, <1>2, <1>3, <1>4 DEF ThreadStep

LEMMA OnlyRecordsKept ==
  ASSUME TypeOK, OnlyRecords(childBuf), [Next]_vars
  PROVE  OnlyRecords(childBuf)'
<1>0. childBuf \in Seq(Items) /\ logged \in Nat /\ MaxRecords \in Nat
  BY LoggingAssumption DEF TypeOK
<1>1. CASE LogFromChild
  <2> DEFINE e == Record(logged + 1)
  <2>1. logged + 1 \in 1..MaxRecords /\ childBuf' = Append(childBuf, e)
    BY <1>1, <1>0 DEF LogFromChild
  <2>2. e \in Items /\ e.kind = "record"
    BY <2>1, ItemTypes
  <2> HIDE DEF e
  <2>3. \A i \in 1..(Len(childBuf) + 1) : i \in 1..Len(childBuf) \/ i = Len(childBuf) + 1
    BY <1>0
  <2> QED BY <2>1, <2>2, <2>3, <1>0, PutInBuffer DEF OnlyRecords
<1>2. CASE childBuf # <<>> /\ childBuf' = Tail(childBuf)
  <2>1. \A i \in 1..(Len(childBuf) - 1) : i + 1 \in 1..Len(childBuf)
    BY <1>0
  <2> QED BY <2>1, <1>2, <1>0, TakeFromBuffer DEF OnlyRecords
<1>3. CASE UNCHANGED childBuf
  BY <1>3 DEF OnlyRecords
<1> QED
  BY <1>1, <1>2, <1>3
     DEF Next, ThreadStep, LogFromMain, SyncCall, StopCall, Feed, SwitchToMultiprocessLogging,
         MainStep, SyncReturns, SyncTimesOut, SyncClears, StopReturns, StopTimesOut, AddHandler,
         RemoveHandler, ThreadGets, ThreadHandles, ThreadHandled, queue, vars

\* What the thread does with a sentinel and with a record.
LEMMA WhatTheThreadGets ==
  ASSUME TypeOK, ThreadGets
  PROVE  /\ Head(pipe) = Sync => syncEvent' = TRUE
         /\ Head(pipe) # Sync => syncEvent' = syncEvent
         /\ syncEvent = TRUE => syncEvent' = TRUE
         /\ Head(pipe) = Terminate <=> tpc' = "ended"
         /\ UNCHANGED <<mpc, fromMain, done, overtaken, stopped, enabled>> /\ tpc = "get"
         /\ tpc' # "none"
         /\ Absent(Sync) => Head(pipe) # Sync
         /\ Absent(Terminate) => Head(pipe) # Terminate
<1> DEFINE e == Head(pipe)
<1>1. e \in Items /\ e = pipe[1] /\ 1 \in DOMAIN pipe
  BY TakeFromBuffer DEF ThreadGets, TypeOK
<1>2. /\ tpc' = CASE e.kind = "terminate" -> "ended"
                  [] e.kind = "sync" -> "get"
                  [] e.kind = "record" -> "handle"
      /\ syncEvent' = (syncEvent \/ e.kind = "sync")
      /\ UNCHANGED <<mpc, fromMain, done, overtaken, stopped, enabled>> /\ tpc = "get"
  BY DEF ThreadGets
<1>3. /\ e.kind \in {"record", "sync", "terminate"}
      /\ e.kind = "sync" <=> e = Sync
      /\ e.kind = "terminate" <=> e = Terminate
  BY <1>1, ItemTypes
<1>4. Absent(Sync) => e # Sync
  BY <1>1 DEF Absent
<1>5. Absent(Terminate) => e # Terminate
  BY <1>1 DEF Absent
<1>6. syncEvent \in BOOLEAN
  BY DEF TypeOK
<1> HIDE DEF e
<1>7. e = Terminate <=> tpc' = "ended"
  BY <1>2, <1>3
<1>8. tpc' # "none"
  BY <1>2, <1>3
<1>9. /\ e = Sync => syncEvent' = TRUE
      /\ e # Sync => syncEvent' = syncEvent
      /\ syncEvent = TRUE => syncEvent' = TRUE
  BY <1>2, <1>3, <1>6
<1> QED BY <1>2, <1>4, <1>5, <1>7, <1>8, <1>9 DEF e

LEMMA NextEnabled ==
  ASSUME TypeOK, EnabledInv, [Next]_vars
  PROVE  EnabledInv'
<1>1. CASE ThreadGets
  BY <1>1, WhatTheThreadGets DEF EnabledInv
<1>2. CASE ThreadHandles \/ ThreadHandled
  BY <1>2 DEF ThreadHandles, ThreadHandled, EnabledInv
<1>3. CASE SwitchToMultiprocessLogging
  BY <1>3 DEF SwitchToMultiprocessLogging, EnabledInv
<1>4. CASE UNCHANGED <<enabled, tpc>>
  BY <1>4 DEF EnabledInv
<1> QED
  BY <1>1, <1>2, <1>3, <1>4
     DEF Next, ThreadStep, LogFromMain, LogFromChild, SyncCall, StopCall, Feed, MainStep,
         SyncReturns, SyncTimesOut, SyncClears, StopReturns, StopTimesOut, AddHandler,
         RemoveHandler, thread, vars

\* sync() and its sentinel.
LEMMA NextSync ==
  ASSUME TypeOK, RecordInv, NoLossInv, SyncInv, [Next]_vars
  PROVE  SyncInv'
<1>0. /\ OnlyRecords(childBuf) /\ OnlyRecords(childBuf)'
      /\ syncEvent \in BOOLEAN /\ overtaken \in BOOLEAN
  BY OnlyRecordsKept DEF SyncInv, TypeOK
<1>1. SUFFICES ASSUME ~overtaken'
               PROVE  /\ mpc' # "sync" => Absent(Sync)' /\ (syncEvent' => mpc' = "clear")
                      /\ mpc' = "sync" => IF syncEvent'
                                          THEN Absent(Sync)' /\ fromMain' \subseteq done'
                                          ELSE InPlace(Sync)'
  BY <1>0 DEF SyncInv
<1>2. ~overtaken
  BY <1>1
     DEF Next, ThreadStep, LogFromMain, LogFromChild, SyncCall, StopCall, Feed, MainStep,
         SyncReturns, SyncTimesOut, SyncClears, StopReturns, StopTimesOut, AddHandler,
         SwitchToMultiprocessLogging, RemoveHandler, ThreadGets, ThreadHandles, ThreadHandled, vars
<1>3. /\ mpc # "sync" => Absent(Sync) /\ (syncEvent => mpc = "clear")
      /\ mpc = "sync" => IF syncEvent THEN Absent(Sync) /\ fromMain \subseteq done
                         ELSE InPlace(Sync)
  BY <1>2 DEF SyncInv
<1>4. CASE SyncCall
  <2>1. /\ mainBuf' = Append(mainBuf, Sync) /\ UNCHANGED <<pipe, syncEvent>>
        /\ mpc = "idle" /\ mpc' = "sync"
    BY <1>4 DEF SyncCall
  <2>2. Absent(Sync) /\ ~syncEvent
    BY <2>1, <1>3
  <2>3. InPlace(Sync)'
    BY <2>1, <2>2, PutInPlace
  <2> QED BY <2>1, <2>2, <2>3
<1>5. CASE SyncReturns \/ SyncTimesOut \/ SyncClears
  <2>1. UNCHANGED queue /\ mpc' # "sync" /\ Absent(Sync) /\ (syncEvent' => mpc' = "clear")
    BY <1>5, <1>1, <1>3 DEF SyncReturns, SyncTimesOut, SyncClears
  <2> QED BY <2>1 DEF queue, Absent
<1>6. CASE LogFromChild \/ Feed \/ ThreadStep
  <2>1. UNCHANGED <<mpc, fromMain>> /\ done \subseteq done'
    BY <1>6 DEF LogFromChild, Feed, ThreadStep, ThreadGets, ThreadHandles, ThreadHandled
  <2>2. ~ThreadGets => syncEvent' = syncEvent
    BY <1>6 DEF LogFromChild, Feed, ThreadStep, ThreadHandles, ThreadHandled
  <2>3. Absent(Sync) => Absent(Sync)'
    <3>1. CASE SyncCall
      BY <3>1, <2>1 DEF SyncCall
    <3>2. CASE ~SyncCall
      <4>1. ~(SyncCall /\ Sync = Sync) /\ ~(StopCall /\ Sync = Terminate)
        BY <3>2, ItemTypes
      <4> QED BY <4>1, <1>0, AbsentKept
    <3> QED BY <3>1, <3>2
  <2>4. Absent(Sync) => syncEvent' = syncEvent
    BY <2>2, WhatTheThreadGets
  <2>5. CASE mpc # "sync" \/ syncEvent
    BY <2>1, <2>3, <2>4, <2>5, <1>3
  <2>6. CASE mpc = "sync" /\ ~syncEvent
    <3>1. InPlace(Sync)
      BY <2>6, <1>3
    <3>2. IF ThreadGets /\ Head(pipe) = Sync THEN Absent(Sync)' /\ fromMain \subseteq done
          ELSE InPlace(Sync)'
      BY <3>1, <1>0, <1>6, InPlaceKept
    <3>3. CASE ThreadGets /\ Head(pipe) = Sync
      BY <3>2, <3>3, <2>1, <2>6, WhatTheThreadGets
    <3>4. CASE ~(ThreadGets /\ Head(pipe) = Sync)
      <4>1. syncEvent' = syncEvent
        BY <3>4, <2>2, WhatTheThreadGets
      <4> QED BY <4>1, <3>2, <3>4, <2>1, <2>6
    <3> QED BY <3>3, <3>4
  <2> QED BY <2>5, <2>6
<1>7. CASE mpc # "sync" /\ mpc' # "sync" /\ ~SyncCall /\ syncEvent' = syncEvent
           /\ (mpc = "clear" => mpc' = "clear")
  <2>1. ~(StopCall /\ Sync = Terminate)
    BY ItemTypes
  <2>2. Absent(Sync)'
    BY <2>1, <1>7, <1>0, <1>3, AbsentKept
  <2> QED BY <2>2, <1>3, <1>7
<1>8. CASE UNCHANGED <<mpc, queue, syncEvent, fromMain, done, thread>>
  <2>1. Absent(Sync)' = Absent(Sync) /\ InPlace(Sync)' = InPlace(Sync)
    BY <1>8 DEF queue, thread, Absent, InPlace, Handling
  <2> QED BY <2>1, <1>3, <1>8
<1>9. CASE LogFromMain \/ SwitchToMultiprocessLogging \/ StopCall \/ StopReturns \/ StopTimesOut
  BY <1>9, <1>4, <1>7 DEF LogFromMain, SwitchToMultiprocessLogging, StopCall, StopReturns, StopTimesOut
<1>10. ASSUME NEW h \in Handlers, AddHandler(h) \/ RemoveHandler(h)
       PROVE  UNCHANGED <<mpc, queue, syncEvent, fromMain, done, thread>>
  BY <1>10 DEF AddHandler, RemoveHandler
<1>11. CASE UNCHANGED vars
  BY <1>11, <1>8 DEF vars
<1> QED BY <1>4, <1>5, <1>6, <1>8, <1>9, <1>10, <1>11 DEF Next, MainStep

\* stop() and its sentinel.
LEMMA NextStop ==
  ASSUME TypeOK, RecordInv, NoLossInv, SyncInv, StopInv, [Next]_vars
  PROVE  StopInv'
<1>0. OnlyRecords(childBuf) /\ stopped \in BOOLEAN
  BY DEF SyncInv, TypeOK
<1>1. CASE StopCall
  <2>1. /\ mainBuf' = Append(mainBuf, Terminate) /\ UNCHANGED <<pipe, tpc>>
        /\ ~stopped /\ stopped'
    BY <1>1 DEF StopCall, thread
  <2>2. InPlace(Terminate)' /\ tpc' # "ended"
    BY <2>1, PutInPlace DEF StopInv
  <2> QED BY <2>1, <2>2 DEF StopInv
<1>2. CASE LogFromChild \/ Feed \/ ThreadStep
  <2>1. UNCHANGED <<mpc, fromMain, stopped>> /\ done \subseteq done'
    BY <1>2 DEF LogFromChild, Feed, ThreadStep, ThreadGets, ThreadHandles, ThreadHandled
  <2>2. ~ThreadGets /\ tpc # "ended" => tpc' # "ended"
    BY <1>2 DEF LogFromChild, Feed, ThreadStep, ThreadHandles, ThreadHandled, thread
  <2>3. ASSUME ~stopped PROVE Absent(Terminate)' /\ tpc' # "ended"
    <3>1. Absent(Terminate) /\ tpc # "ended" /\ ~StopCall
      BY <2>1, <2>3 DEF StopInv, StopCall
    <3>2. Absent(Terminate)'
      BY <3>1, <1>0, AbsentKept, ItemTypes
    <3> QED BY <3>1, <3>2, <2>2, WhatTheThreadGets
  <2>4. ASSUME mpc = "stop"
        PROVE  IF tpc' = "ended" THEN fromMain \subseteq done' ELSE InPlace(Terminate)'
    <3>1. CASE tpc = "ended"
      <4>1. fromMain \subseteq done
        BY <2>4, <3>1 DEF StopInv
      <4>2. tpc' = "ended"
        BY <1>2, <3>1 DEF LogFromChild, Feed, ThreadStep, ThreadGets, ThreadHandles, ThreadHandled,
                          thread
      <4> QED BY <4>1, <4>2, <2>1
    <3>2. CASE tpc # "ended"
      <4>1. InPlace(Terminate)
        BY <2>4, <3>2 DEF StopInv
      <4>2. IF ThreadGets /\ Head(pipe) = Terminate
            THEN Absent(Terminate)' /\ fromMain \subseteq done ELSE InPlace(Terminate)'
        BY <4>1, <1>0, <1>2, InPlaceKept
      <4>3. CASE ThreadGets /\ Head(pipe) = Terminate
        BY <4>2, <4>3, <2>1, WhatTheThreadGets
      <4>4. CASE ~(ThreadGets /\ Head(pipe) = Terminate)
        <5>1. tpc' # "ended"
          BY <4>4, <3>2, <2>2, WhatTheThreadGets
        <5> QED BY <5>1, <4>2, <4>4
      <4> QED BY <4>3, <4>4
    <3> QED BY <3>1, <3>2
  <2> QED BY <2>1, <2>3, <2>4 DEF StopInv
<1>3. CASE StopReturns \/ StopTimesOut
  <2>1. mpc = "stop" /\ mpc' # "stop" /\ stopped' = stopped
    BY <1>3 DEF StopReturns, StopTimesOut
  <2> QED BY <2>1 DEF StopInv
<1>4. CASE ~StopCall /\ mpc # "stop" /\ mpc' # "stop" /\ UNCHANGED stopped
           /\ (tpc # "ended" => tpc' # "ended")
  <2>1. ~stopped => Absent(Terminate)'
    BY <1>4, <1>0, AbsentKept, ItemTypes DEF StopInv
  <2> QED BY <2>1, <1>4 DEF StopInv
<1>5. CASE UNCHANGED <<mpc, queue, stopped, fromMain, done, thread>>
  <2>1. Absent(Terminate)' = Absent(Terminate) /\ InPlace(Terminate)' = InPlace(Terminate)
    BY <1>5 DEF queue, thread, Absent, InPlace, Handling
  <2> QED BY <2>1, <1>5 DEF StopInv, thread
<1>6. CASE LogFromMain \/ SwitchToMultiprocessLogging \/ SyncCall \/ SyncReturns \/ SyncTimesOut
           \/ SyncClears
  BY <1>6, <1>1, <1>4 DEF LogFromMain, SwitchToMultiprocessLogging, SyncCall, SyncReturns,
                          SyncTimesOut, SyncClears, thread
<1>7. ASSUME NEW h \in Handlers, AddHandler(h) \/ RemoveHandler(h)
      PROVE  UNCHANGED <<mpc, queue, stopped, fromMain, done, thread>>
  BY <1>7 DEF AddHandler, RemoveHandler
<1>8. CASE UNCHANGED vars
  BY <1>8, <1>5 DEF vars
<1> QED BY <1>1, <1>2, <1>3, <1>5, <1>6, <1>7, <1>8 DEF Next, MainStep

-----------------------------------------------------------------------------
Inv == TypeOK /\ RecordInv /\ HeardInv /\ WalkInv /\ EnabledInv /\ NoLossInv /\ SyncInv /\ StopInv

LEMMA InitInv == Init => Inv
<1> SUFFICES ASSUME Init PROVE Inv
  OBVIOUS
<1>1. TypeOK /\ RecordInv
  BY InitTypes
<1>2. Numbers(<<>>) = {} /\ OnlyRecords(<<>>)
  BY DEF Numbers, OnlyRecords
<1>3. HeardInv
  <2>1. \A h \in Handlers : DOMAIN got[h] = {}
    BY DEF Init
  <2> QED BY <2>1 DEF Init, HeardInv
<1>4. WalkInv /\ EnabledInv
  BY LoggingAssumption DEF Init, WalkInv, EnabledInv
<1>5. NoLossInv /\ SyncInv /\ StopInv
  BY <1>2 DEF Init, NoLossInv, SyncInv, StopInv, Absent
<1> QED BY <1>1, <1>3, <1>4, <1>5 DEF Inv

LEMMA Invariance == Spec => []Inv
<1>1. Inv /\ [Next]_vars => Inv'
  <2> SUFFICES ASSUME Inv, [Next]_vars PROVE Inv'
    OBVIOUS
  <2> USE DEF Inv
  <2>1. TypeOK'
    BY NextTypes DEF WalkInv
  <2>2. RecordInv' /\ HeardInv'
    BY NextRecords, NextHeard
  <2>3. WalkInv' /\ EnabledInv'
    BY NextWalk, NextEnabled
  <2>4. NoLossInv' /\ SyncInv' /\ StopInv'
    BY NextNoLoss, NextSync, NextStop
  <2> QED BY <2>1, <2>2, <2>3, <2>4
<1> QED BY <1>1, InitInv, PTL DEF Spec

\* Queues, lists, positions and records keep their types, for any number of
\* handlers, records, syncs and removals: no handler position lies outside the
\* list and no record is handled that was not logged.
THEOREM TypeCorrect == Spec => []TypeOK
<1>1. Inv => TypeOK
  BY DEF Inv
<1> QED BY <1>1, Invariance, PTL

\* sync() that returns without its warning and stop() that returns without its
\* error have waited for every record the main process had logged.
THEOREM WaitsForRecords == Spec => FlushedBeforeReturn
<1>1. Inv /\ SyncReturns => overtaken \/ fromMain \subseteq done
  BY DEF Inv, SyncInv, SyncReturns
<1>2. Inv /\ StopReturns => fromMain \subseteq done
  BY DEF Inv, StopInv, StopReturns
<1>3. Inv => [SyncReturns => overtaken \/ fromMain \subseteq done]_vars
  BY <1>1
<1>4. Inv => [StopReturns => fromMain \subseteq done]_vars
  BY <1>2
<1>5. Spec => SyncFlushes
  BY <1>3, Invariance, PTL DEF SyncFlushes
<1>6. Spec => StopDrains
  BY <1>4, Invariance, PTL DEF StopDrains
<1> QED BY <1>5, <1>6 DEF FlushedBeforeReturn

\* When the LoggingThread is through with a record, every handler in its list
\* has got it exactly once, whatever was added or removed before and during the
\* walk but a removal under the iteration.
THEOREM RecordsReachHandlers == Spec => HandlersGetEveryRecord
<1>1. ASSUME Inv, ThreadHandled, ~cut, NEW h \in Range(handlers)
      PROVE  Cardinality({i \in DOMAIN got[h] : got[h][i] = record}) = 1
  <2>1. /\ handlers \in Seq(Handlers) /\ tpc = "handle" /\ index >= Len(handlers)
        /\ index <= Len(handlers)
        /\ \A k \in DOMAIN handlers : k <= index => HeardOnce(got[handlers[k]], record)
    BY <1>1 DEF Inv, TypeOK, WalkInv, ThreadHandled, LastIndex
  <2>2. PICK k \in DOMAIN handlers : handlers[k] = h
    BY DEF Range
  <2>3. HeardOnce(got[h], record)
    <3>1. k <= index
      BY <2>1, <1>1 DEF Inv, TypeOK
    <3> QED BY <3>1, <2>1, <2>2
  <2>4. PICK i : {j \in DOMAIN got[h] : got[h][j] = record} = {i}
    BY <2>3 DEF HeardOnce
  <2> QED BY <2>4, FS_Singleton
<1>2. Inv => [ThreadHandled => cut \/ \A h \in Range(handlers) :
                Cardinality({i \in DOMAIN got[h] : got[h][i] = record}) = 1]_vars
  BY <1>1
<1> QED BY <1>2, Invariance, PTL DEF HandlersGetEveryRecord
===============================================================================
