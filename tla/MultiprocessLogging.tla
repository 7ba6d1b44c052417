------------------------- MODULE MultiprocessLogging -------------------------
(***************************************************************************)
(* GDM's logging once child processes exist (gazoo_device/                 *)
(* multiprocess_logging.py and gdm_logger.py): every process puts records  *)
(* on one queue through its own feeder thread, and a LoggingThread in the  *)
(* main process passes each record to the handlers.  The main thread can   *)
(* wait for its records (sync), stop the thread, and change the handlers   *)
(* while the thread walks over them.                                       *)
(***************************************************************************)
EXTENDS Naturals, Sequences, FiniteSets, SequencesExt

CONSTANTS
  Handlers,      \* logging handlers
  FirstHandlers, \* the top-level logger's handlers, a sequence
  MaxRecords,    \* bound: records logged by the main process and by children
  MaxSyncs,      \* bound: calls of sync()
  MaxRemoves     \* bound: calls of remove_handler()

ASSUME LoggingAssumption ==
  /\ FirstHandlers \in Seq(Handlers) /\ IsInjective(FirstHandlers) \* Logger.addHandler
  /\ MaxRecords \in Nat /\ MaxSyncs \in Nat /\ MaxRemoves \in Nat

VARIABLES
  enabled,       \* multiprocess logging is on
  handlers,      \* the logger's, then the LoggingThread's handler list
  mainBuf, childBuf, pipe, \* the logging queue: two feeder buffers and the pipe
  logged, fromMain,        \* number of records logged; those of the main process
  tpc, record, index,      \* the thread: state, current record, list position
  got, done,     \* handler -> records it handled; records passed to all handlers
  syncEvent,
  mpc, syncs, removes, stopped,
  overtaken,     \* history: a sync() gave up before the thread reached its sentinel
  cut            \* history: the list was cut while the thread passed on this record

queue  == <<mainBuf, childBuf, pipe>>
thread == <<tpc, record, index>>
vars == <<enabled, handlers, queue, logged, fromMain, thread, got, done, syncEvent,
          mpc, syncs, removes, stopped, overtaken, cut>>

Record(n) == [kind |-> "record", id |-> n]
Sync      == [kind |-> "sync", id |-> 0]
Terminate == [kind |-> "terminate", id |-> 0]

Init ==
  /\ enabled = FALSE /\ handlers = FirstHandlers
  /\ mainBuf = <<>> /\ childBuf = <<>> /\ pipe = <<>>
  /\ logged = 0 /\ fromMain = {}
  /\ tpc = "none" /\ record = 0 /\ index = 0
  /\ got = [h \in Handlers |-> <<>>] /\ done = {}
  /\ syncEvent = FALSE
  /\ mpc = "idle" /\ syncs = 0 /\ removes = 0 /\ stopped = FALSE
  /\ overtaken = FALSE /\ cut = FALSE

-----------------------------------------------------------------------------
(* The main thread.                                                        *)

\* A logger call: straight to the handlers, or onto the queue (QueueHandler.emit).
LogFromMain ==
  /\ mpc = "idle" /\ logged < MaxRecords
  /\ logged' = logged + 1
  /\ fromMain' = fromMain \cup {logged + 1}
  /\ IF enabled
     THEN mainBuf' = Append(mainBuf, Record(logged + 1)) /\ UNCHANGED <<got, done>>
     ELSE /\ got' = [h \in Handlers |-> IF h \in Range(handlers)
                                        THEN Append(got[h], logged + 1) ELSE got[h]]
          /\ done' = done \cup {logged + 1}
          /\ UNCHANGED mainBuf
  /\ UNCHANGED <<enabled, handlers, childBuf, pipe, thread, syncEvent, mpc, syncs,
                 removes, stopped, overtaken, cut>>

\* switch_to_multiprocess_logging: the handlers move to the thread, which starts.
SwitchToMultiprocessLogging ==
  /\ mpc = "idle" /\ ~enabled
  /\ enabled' = TRUE /\ tpc' = "get"
  /\ UNCHANGED <<handlers, queue, logged, fromMain, record, index, got, done, syncEvent,
                 mpc, syncs, removes, stopped, overtaken, cut>>

\* Its callers add only a handler that is not there (reenable_progress_messages).
AddHandler(h) ==
  /\ mpc = "idle" /\ h \notin Range(handlers)
  /\ handlers' = Append(handlers, h)
  /\ UNCHANGED <<enabled, queue, logged, fromMain, thread, got, done, syncEvent, mpc,
                 syncs, removes, stopped, overtaken, cut>>

\* list.remove() shifts the later handlers down, under a running iteration too.
RemoveHandler(h) ==
  /\ mpc = "idle" /\ removes < MaxRemoves /\ h \in Range(handlers)
  /\ removes' = removes + 1
  /\ \E i \in DOMAIN handlers : handlers[i] = h /\ handlers' = RemoveAt(handlers, i)
  /\ cut' = (tpc = "handle")
  /\ UNCHANGED <<enabled, queue, logged, fromMain, thread, got, done, syncEvent, mpc,
                 syncs, stopped, overtaken>>

IsAlive == tpc \in {"get", "handle"}

SyncCall ==
  /\ mpc = "idle" /\ syncs < MaxSyncs /\ IsAlive
  /\ syncs' = syncs + 1
  /\ mainBuf' = Append(mainBuf, Sync)
  /\ mpc' = "sync"
  /\ UNCHANGED <<enabled, handlers, childBuf, pipe, logged, fromMain, thread, got, done,
                 syncEvent, removes, stopped, overtaken, cut>>

\* Mutant: returns as soon as the sentinel is in the pipe.
SyncReturnsOnPut ==
  /\ mpc = "sync" /\ mainBuf = <<>>
  /\ mpc' = "clear"
  /\ UNCHANGED <<enabled, handlers, queue, logged, fromMain, thread, got, done, syncEvent,
                 syncs, removes, stopped, overtaken, cut>>

SyncReturns ==
  /\ mpc = "sync" /\ syncEvent
  /\ mpc' = "clear"
  /\ UNCHANGED <<enabled, handlers, queue, logged, fromMain, thread, got, done, syncEvent,
                 syncs, removes, stopped, overtaken, cut>>

SyncTimesOut == \* prints a warning
  /\ mpc = "sync" /\ ~syncEvent
  /\ mpc' = "clear" /\ overtaken' = TRUE
  /\ UNCHANGED <<enabled, handlers, queue, logged, fromMain, thread, got, done, syncEvent,
                 syncs, removes, stopped, cut>>

SyncClears ==
  /\ mpc = "clear"
  /\ syncEvent' = FALSE /\ mpc' = "idle"
  /\ UNCHANGED <<enabled, handlers, queue, logged, fromMain, thread, got, done, syncs,
                 removes, stopped, overtaken, cut>>

StopCall == \* once, from atexit
  /\ mpc = "idle" /\ enabled /\ ~stopped
  /\ stopped' = TRUE
  /\ mainBuf' = Append(mainBuf, Terminate)
  /\ mpc' = "stop"
  /\ UNCHANGED <<enabled, handlers, childBuf, pipe, logged, fromMain, thread, got, done,
                 syncEvent, syncs, removes, overtaken, cut>>

StopReturns ==
  /\ mpc = "stop" /\ tpc = "ended"
  /\ mpc' = "idle"
  /\ UNCHANGED <<enabled, handlers, queue, logged, fromMain, thread, got, done, syncEvent,
                 syncs, removes, stopped, overtaken, cut>>

StopTimesOut == \* RuntimeError
  /\ mpc = "stop" /\ tpc # "ended"
  /\ mpc' = "idle"
  /\ UNCHANGED <<enabled, handlers, queue, logged, fromMain, thread, got, done, syncEvent,
                 syncs, removes, stopped, overtaken, cut>>

-----------------------------------------------------------------------------
(* Child processes and feeder threads.                                     *)

\* Mutant: the child puts its record under the number before.
LogFromChildOffByOne ==
  /\ enabled /\ logged < MaxRecords
  /\ logged' = logged + 1
  /\ childBuf' = Append(childBuf, Record(logged))
  /\ UNCHANGED <<enabled, handlers, mainBuf, pipe, fromMain, thread, got, done, syncEvent,
                 mpc, syncs, removes, stopped, overtaken, cut>>

LogFromChild ==
  /\ enabled /\ logged < MaxRecords
  /\ logged' = logged + 1
  /\ childBuf' = Append(childBuf, Record(logged + 1))
  /\ UNCHANGED <<enabled, handlers, mainBuf, pipe, fromMain, thread, got, done, syncEvent,
                 mpc, syncs, removes, stopped, overtaken, cut>>

Feed ==
  /\ \/ /\ mainBuf # <<>> /\ pipe' = Append(pipe, Head(mainBuf))
        /\ mainBuf' = Tail(mainBuf) /\ UNCHANGED childBuf
     \/ /\ childBuf # <<>> /\ pipe' = Append(pipe, Head(childBuf))
        /\ childBuf' = Tail(childBuf) /\ UNCHANGED mainBuf
  /\ UNCHANGED <<enabled, handlers, logged, fromMain, thread, got, done, syncEvent, mpc,
                 syncs, removes, stopped, overtaken, cut>>

-----------------------------------------------------------------------------
(* The LoggingThread.                                                      *)

ThreadGets ==
  /\ tpc = "get" /\ pipe # <<>>
  /\ pipe' = Tail(pipe)
  /\ LET item == Head(pipe)
     IN /\ tpc' = CASE item.kind = "terminate" -> "ended"
                    [] item.kind = "sync" -> "get"
                    [] item.kind = "record" -> "handle"
        /\ syncEvent' = (syncEvent \/ item.kind = "sync")
        /\ record' = item.id /\ index' = 0 /\ cut' = FALSE
  /\ UNCHANGED <<enabled, handlers, mainBuf, childBuf, logged, fromMain, got, done, mpc,
                 syncs, removes, stopped, overtaken>>

\* Mutant: the last handler of the list is left out.
LastIndexExclusive == Len(handlers) - 1
LastIndex == Len(handlers)

\* for handler in handlers: the iterator is a position in the list as it is now.
ThreadHandles ==
  /\ tpc = "handle" /\ index < LastIndex
  /\ index' = index + 1
  /\ got' = [got EXCEPT ![handlers[index + 1]] = Append(@, record)]
  /\ UNCHANGED <<enabled, handlers, queue, logged, fromMain, tpc, record, done, syncEvent,
                 mpc, syncs, removes, stopped, overtaken, cut>>

ThreadHandled ==
  /\ tpc = "handle" /\ index >= LastIndex
  /\ tpc' = "get" /\ done' = done \cup {record} /\ record' = 0 /\ index' = 0
  /\ UNCHANGED <<enabled, handlers, queue, logged, fromMain, got, syncEvent, mpc, syncs,
                 removes, stopped, overtaken, cut>>

-----------------------------------------------------------------------------
ThreadStep == ThreadGets \/ ThreadHandles \/ ThreadHandled
MainStep == SyncReturns \/ SyncTimesOut \/ SyncClears \/ StopReturns \/ StopTimesOut
Next ==
  \/ LogFromMain \/ SwitchToMultiprocessLogging \/ SyncCall \/ StopCall \/ MainStep
  \/ \E h \in Handlers : AddHandler(h) \/ RemoveHandler(h)
  \/ LogFromChild \/ Feed \/ ThreadStep

Spec == Init /\ [][Next]_vars
FairSpec == Spec /\ WF_vars(ThreadStep) /\ WF_vars(Feed) /\ WF_vars(MainStep)

-----------------------------------------------------------------------------
Items == [kind : {"record"}, id : 1..MaxRecords] \cup {Sync, Terminate}

TypeOK ==
  /\ enabled \in BOOLEAN /\ stopped \in BOOLEAN /\ syncEvent \in BOOLEAN
  /\ handlers \in Seq(Handlers)
  /\ mainBuf \in Seq(Items) /\ childBuf \in Seq(Items) /\ pipe \in Seq(Items)
  /\ logged \in 0..MaxRecords /\ fromMain \subseteq 1..logged /\ done \subseteq 1..logged
  /\ tpc \in {"none", "get", "handle", "ended"} /\ record \in 0..logged /\ index \in Nat
  /\ got \in [Handlers -> Seq(1..MaxRecords)]
  /\ mpc \in {"idle", "sync", "clear", "stop"}
  /\ syncs \in 0..MaxSyncs /\ removes \in 0..MaxRemoves
  /\ overtaken \in BOOLEAN /\ cut \in BOOLEAN

\* When sync() returns without its warning, every record the main process had
\* logged was passed to the handlers, whatever the children log meanwhile; once
\* a sync() has timed out its sentinel may answer for a later one.
SyncFlushes == [][SyncReturns => overtaken \/ fromMain \subseteq done]_vars

\* When stop() returns, every record the main process had logged was handled.
StopDrains == [][StopReturns => fromMain \subseteq done]_vars

\* "The handler will receive messages that are placed on the shared queue":
\* when the thread is through with a record, every handler registered at that
\* moment has handled it, and handled it once, with handlers added and removed
\* at any time but a removal under the thread's own iteration.
HandlersGetEveryRecord ==
  [][ThreadHandled => cut \/ \A h \in Range(handlers) :
        Cardinality({i \in DOMAIN got[h] : got[h][i] = record}) = 1]_vars

\* Neither sync() nor stop() returns before the records logged before it were
\* handled.
FlushedBeforeReturn == SyncFlushes /\ StopDrains
=============================================================================
