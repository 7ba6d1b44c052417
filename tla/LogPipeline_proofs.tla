------------------------- MODULE LogPipeline_proofs --------------------------
(***************************************************************************)
(* Proofs about LogPipeline, for any log paths, sizes, lines and calls.    *)
(*                                                                         *)
(* The argument is about the chain of the log files in the order in which  *)
(* the writer opened them.  No variable holds it; the invariant says that  *)
(* there is one.                                                           *)
(***************************************************************************)
EXTENDS LogPipeline, Functions, FiniteSetTheorems, SequenceTheorems, TLAPS

FileNames == {n \in Seq(Bases \cup Nat) :
                n # <<>> /\ n[1] \in Bases /\ \A i \in 2..Len(n) : n[i] \in Nat}
Lines == [kind : {"log", "size", "rotate", "new"}, id : Nat]
IsLog(line) == line.kind = "log"
IsMarker(line) == line.kind \in {"rotate", "new"}

\* The files fs with the line numbers 1..w written to them, the last to file.
FilesOK(fs, file) ==
  /\ DOMAIN fs \subseteq FileNames /\ file \in DOMAIN fs
  /\ fs = [n \in DOMAIN fs |-> fs[n]] /\ \A n \in DOMAIN fs : fs[n] \in Seq(Lines)

\* Rotation counts up: the files of the current log are not later than it, and
\* a log path that has rotations has a file itself.
NotLater(m, n) ==
  Len(m) < Len(n) \/ (Len(m) = Len(n) /\ (Len(n) > 1 => m[Len(n)] <= n[Len(n)]))
RotationOK(fs, file) ==
  \A n \in DOMAIN fs : /\ Name(n[1]) \in DOMAIN fs
                       /\ n[1] = file[1] => NotLater(n, file)

\* ch is the chain: a marker ends each file but the last, and says which of the
\* two ways leads to the next.
ChainOK(fs, ch, file) ==
  /\ ch # <<>> /\ IsInjective(ch)
  /\ Range(ch) = DOMAIN fs /\ ch[Len(ch)] = file
  /\ \A i \in DOMAIN fs[file] : ~IsMarker(fs[file][i])
  /\ \A p \in 1..(Len(ch) - 1) :
       /\ fs[ch[p]] # <<>>
       /\ \A i \in DOMAIN fs[ch[p]] : IsMarker(fs[ch[p]][i]) <=> i = Len(fs[ch[p]])
       /\ IF fs[ch[p]][Len(fs[ch[p]])].kind = "rotate"
          THEN ch[p + 1] = GetNextLogFilename(ch[p])
          ELSE ch[p + 1] = Name(ch[p + 1][1])

\* The log lines stand in the chain in order, and all up to w are there.
OrderOK(fs, ch, w) ==
  /\ \A p, q \in DOMAIN ch : \A i \in DOMAIN fs[ch[p]], j \in DOMAIN fs[ch[q]] :
       /\ IsLog(fs[ch[p]][i]) /\ IsLog(fs[ch[q]][j]) /\ (p < q \/ (p = q /\ i < j))
       => fs[ch[p]][i].id < fs[ch[q]][j].id
  /\ \A p \in DOMAIN ch : \A i \in DOMAIN fs[ch[p]] :
       IsLog(fs[ch[p]][i]) => fs[ch[p]][i].id \in 1..w
  /\ \A x \in 1..w : \E p \in DOMAIN ch : \E i \in DOMAIN fs[ch[p]] : fs[ch[p]][i] = LogLine(x)

\* The filter is in the f-th file after pos lines: it has recorded what is
\* before, r lines.
PlaceOK(fs, ch, f, pos, r) ==
  /\ f \in DOMAIN ch /\ pos \in 0..Len(fs[ch[f]])
  /\ \A p \in DOMAIN ch : \A i \in DOMAIN fs[ch[p]] :
       IsLog(fs[ch[p]][i]) => (fs[ch[p]][i].id <= r <=> p < f \/ (p = f /\ i <= pos))

\* The log paths the filter was told and has not opened: those of the chain
\* behind it, in that order, and one that the writer is still to open.
Ahead(ch, f, n, new) == n = new \/ \E p \in DOMAIN ch : p > f /\ ch[p] = n
Before(ch, m, n) == \E p \in DOMAIN ch : ch[p] = m /\ \A q \in DOMAIN ch : ch[q] = n => p < q
IsNew(c) == c.cmd = "NEW_LOG_FILE"

PathsOK(ch, f, new, next, cs) ==
  /\ \A i \in DOMAIN next : Ahead(ch, f, next[i], new)
  /\ \A i, j \in DOMAIN next : i < j => Before(ch, next[j], next[i])
  /\ \A i \in DOMAIN cs : IsNew(cs[i]) => Ahead(ch, f, Name(cs[i].arg), new)
  /\ \A i, j \in DOMAIN cs :
       IsNew(cs[i]) /\ IsNew(cs[j]) /\ i < j => Before(ch, Name(cs[i].arg), Name(cs[j].arg))
  /\ \A i \in DOMAIN next, j \in DOMAIN cs :
       IsNew(cs[j]) => Before(ch, next[i], Name(cs[j].arg))
  /\ \A p \in DOMAIN ch : p > f /\ ch[p] = Name(ch[p][1]) =>
       \/ \E i \in DOMAIN next : next[i] = ch[p]
       \/ \E i \in DOMAIN cs : IsNew(cs[i]) /\ Name(cs[i].arg) = ch[p]
  /\ new # <<>> =>
       \/ \E i \in DOMAIN next : next[i] = new
       \/ \E i \in DOMAIN cs : IsNew(cs[i]) /\ Name(cs[i].arg) = new

-----------------------------------------------------------------------------
\* The log path that start_new_log asked for and the writer has not opened.
Asked == IF Name(target) \in DOMAIN files THEN <<>> ELSE Name(target)

WriterCmds == [cmd : {"MAX_LOG_SIZE"}, arg : MaxSizes] \cup [cmd : {"NEW_LOG_FILE"}, arg : Bases]
FilterCmds == [cmd : {"NEW_LOG_FILE", "ADD_NEW_FILTER"}, arg : Bases]
DataOK ==
  /\ produced \in 0..MaxLines /\ logQueue \in Seq(Nat) /\ wMax \in MaxSizes
  /\ wAlive \in BOOLEAN /\ fAlive \in BOOLEAN
  /\ wpc \in {"command", "line"} /\ fpc \in {"command", "read"}
  /\ mpc \in {"idle", "newFilter", "newWriter", "newFile", "writer", "filter"}
  /\ target \in Bases /\ calls \in 0..MaxCalls
  /\ wPipe \in Seq(WriterCmds) /\ wBuf \in Seq(WriterCmds)
  /\ fPipe \in Seq(FilterCmds) /\ fBuf \in Seq(FilterCmds)
  /\ fNext \in Seq({Name(b) : b \in Bases})
  /\ recorded \in Seq([events : FileNames, id : Nat])

QueueInv ==
  /\ Len(logQueue) <= produced
  /\ \A i \in DOMAIN logQueue : logQueue[i] = produced - Len(logQueue) + i
WrittenSoFar == produced - Len(logQueue)

\* start_new_log tells the filter, waits, tells the writer, waits: the writer
\* has at most one new path to open, and it is the one asked for.
NoNew(cs) == \A i \in DOMAIN cs : ~IsNew(cs[i])
OnlyNew(cs, b) ==
  \A i \in DOMAIN cs : IsNew(cs[i]) =>
    cs[i].arg = b /\ \A j \in DOMAIN cs : IsNew(cs[j]) => j = i

CallInv ==
  /\ mpc = "newFilter" => Name(target) \notin DOMAIN files
  /\ fAlive /\ wAlive /\ mpc \in {"idle", "writer", "filter"} => Name(target) \in DOMAIN files
  /\ ~fAlive /\ wAlive => fPipe # <<>>
  /\ wAlive => /\ OnlyNew(wPipe \o wBuf, target)
               /\ \/ NoNew(wPipe \o wBuf)
                  \/ mpc \in {"newWriter", "newFile"} /\ Name(target) \notin DOMAIN files

\* The files fs up to file are a chain with the lines 1..w, and the filter is in it.
InChain(fs, file, w, new) ==
  /\ FilesOK(fs, file) /\ RotationOK(fs, file)
  /\ \E ch \in Seq(FileNames) : \E f \in DOMAIN ch :
       /\ ChainOK(fs, ch, file) /\ OrderOK(fs, ch, w)
       /\ ch[f] = fFile /\ PlaceOK(fs, ch, f, fPos, Len(recorded))
       /\ fAlive => PathsOK(ch, f, new, fNext, fPipe \o fBuf)
ChainInv == InChain(files, wFile, WrittenSoFar, Asked)

EventsInv ==
  /\ fEvents = Name(fFile[1]) /\ Len(recorded) <= WrittenSoFar
  /\ EventsAreLogPrefix /\ EventsWithTheirLog

Inv == DataOK /\ QueueInv /\ CallInv /\ ChainInv /\ EventsInv

-----------------------------------------------------------------------------
(* File names.                                                             *)

LEMMA PlainName ==
  /\ \A b \in Bases : Name(b) \in FileNames /\ Name(b)[1] = b /\ Len(Name(b)) = 1 /\ Name(b) # <<>>
  /\ \A n \in FileNames : Len(n) = 1 <=> n = Name(n[1])
  /\ \A n \in FileNames : n # <<>> /\ Len(n) \in Nat /\ Len(n) > 0
<1>1. \A b \in Bases : Name(b) \in FileNames /\ Name(b)[1] = b /\ Len(Name(b)) = 1 /\ Name(b) # <<>>
  BY DEF Name, FileNames
<1>2. ASSUME NEW n \in FileNames
      PROVE  (Len(n) = 1 <=> n = Name(n[1])) /\ n # <<>> /\ Len(n) \in Nat /\ Len(n) > 0
  BY DEF Name, FileNames
<1> QED BY <1>1, <1>2

\* get_next_log_filename gives another name of the same log, later than all
\* that are not later than the name it is given.
LEMMA NextName ==
  ASSUME NEW n \in FileNames
  PROVE  /\ GetNextLogFilename(n) \in FileNames /\ GetNextLogFilename(n)[1] = n[1]
         /\ GetNextLogFilename(n) # Name(GetNextLogFilename(n)[1])
         /\ NotLater(n, GetNextLogFilename(n))
         /\ NotLater(GetNextLogFilename(n), GetNextLogFilename(n))
         /\ \A m \in FileNames : NotLater(m, n) =>
              m # GetNextLogFilename(n) /\ NotLater(m, GetNextLogFilename(n))
<1> DEFINE k == GetNextLogFilename(n)
<1>1. /\ n \in Seq(Bases \cup Nat) /\ Len(n) \in Nat /\ Len(n) > 0 /\ n[1] \in Bases
      /\ \A i \in 2..Len(n) : n[i] \in Nat /\ MaxSuffix \in Nat
  BY PipelineAssumption DEF FileNames
<1>2. CASE HasCounter(n)
  <2>1. k = [n EXCEPT ![Len(n)] = @ + 1] /\ Len(n) > 1
    BY <1>2 DEF GetNextLogFilename, HasCounter
  <2>2. Len(n) \in 2..Len(n) /\ n[Len(n)] \in Nat
    BY <1>1, <2>1
  <2>3. k \in Seq(Bases \cup Nat) /\ Len(k) = Len(n)
    BY <1>1, <2>1, <2>2
  <2>4. k[Len(n)] = n[Len(n)] + 1 /\ \A i \in 1..(Len(n) - 1) : k[i] = n[i]
    BY <1>1, <2>1, <2>2
  <2> HIDE DEF k
  <2>5. k \in FileNames
    <3>1. ASSUME NEW i \in 2..Len(k) PROVE k[i] \in Nat
      <4>1. CASE i = Len(n)
        BY <4>1, <2>2, <2>4
      <4>2. CASE i # Len(n)
        BY <4>2, <2>3, <2>4, <1>1, SMTT(40)
      <4> QED BY <4>1, <4>2
    <3>2. 1 \in 1..(Len(n) - 1) /\ k # <<>>
      BY <2>1, <2>3, <1>1
    <3> QED BY <3>1, <3>2, <2>3, <2>4, <1>1 DEF FileNames
  <2>6. k[1] = n[1]
    BY <2>1, <2>4, <1>1
  <2>7. NotLater(n, k) /\ NotLater(k, k)
    BY <2>2, <2>3, <2>4, <1>1 DEF NotLater
  <2>8. ASSUME NEW m \in FileNames, NotLater(m, n) PROVE m # k /\ NotLater(m, k)
    <3>1. Len(m) \in Nat
      BY PlainName
    <3>2. CASE Len(m) < Len(n)
      BY <3>1, <3>2, <2>3, <1>1 DEF NotLater
    <3>3. CASE Len(m) = Len(n)
      <4>1. m[Len(n)] <= n[Len(n)] /\ m[Len(n)] \in Nat
        BY <3>3, <2>8, <2>1, <2>2 DEF NotLater, FileNames
      <4> QED BY <3>3, <4>1, <2>2, <2>3, <2>4 DEF NotLater
    <3> QED BY <2>8, <3>2, <3>3 DEF NotLater
  <2>9. k # Name(k[1])
    <3>1. Len(k) # 1
      BY <2>1, <2>3, <1>1
    <3> QED BY <3>1, <2>5, PlainName
  <2> QED BY <2>5, <2>6, <2>7, <2>8, <2>9 DEF k
<1>3. CASE ~HasCounter(n)
  <2>1. k = Append(n, 1)
    BY <1>3 DEF GetNextLogFilename
  <2>2. /\ k \in Seq(Bases \cup Nat) /\ Len(k) = Len(n) + 1 /\ k[Len(n) + 1] = 1
        /\ \A i \in 1..Len(n) : k[i] = n[i]
    BY <1>1, <2>1
  <2> HIDE DEF k
  <2>3. k \in FileNames
    <3>1. ASSUME NEW i \in 2..Len(k) PROVE k[i] \in Nat
      <4>1. CASE i = Len(n) + 1
        BY <4>1, <2>2
      <4>2. CASE i # Len(n) + 1
        <5>1. i \in 2..Len(n) /\ i \in 1..Len(n)
          BY <4>2, <2>2, <1>1
        <5> QED BY <5>1, <2>2, <1>1
      <4> QED BY <4>1, <4>2
    <3>2. 1 \in 1..Len(n) /\ k # <<>>
      BY <2>2, <1>1
    <3> QED BY <3>1, <3>2, <2>2, <1>1 DEF FileNames
  <2>4. k[1] = n[1]
    BY <2>2, <1>1
  <2>5. NotLater(n, k) /\ NotLater(k, k)
    BY <2>2, <1>1 DEF NotLater
  <2>6. ASSUME NEW m \in FileNames, NotLater(m, n) PROVE m # k /\ NotLater(m, k)
    <3>1. Len(m) \in Nat /\ Len(m) <= Len(n)
      BY <2>6, PlainName, <1>1 DEF NotLater
    <3> QED BY <3>1, <2>2, <1>1 DEF NotLater
  <2>7. k # Name(k[1])
    BY <2>2, <2>3, <1>1, PlainName
  <2> QED BY <2>3, <2>4, <2>5, <2>6, <2>7 DEF k
<1> QED BY <1>2, <1>3

-----------------------------------------------------------------------------
(* What the writer does to the files.                                      *)

LEMMA WriteFacts ==
  ASSUME NEW fs, NEW file, FilesOK(fs, file), NEW line \in Lines
  PROVE  /\ FilesOK(Written(fs, file, line), file)
         /\ DOMAIN Written(fs, file, line) = DOMAIN fs
         /\ Written(fs, file, line)[file] = Append(fs[file], line)
         /\ \A n \in DOMAIN fs : n # file => Written(fs, file, line)[n] = fs[n]
<1>1. /\ file \in DOMAIN fs /\ DOMAIN fs \subseteq FileNames
      /\ fs = [n \in DOMAIN fs |-> fs[n]] /\ \A n \in DOMAIN fs : fs[n] \in Seq(Lines)
  BY DEF FilesOK
<1> DEFINE gs == Written(fs, file, line)
<1>2. gs = [n \in DOMAIN fs |-> IF n = file THEN Append(fs[file], line) ELSE fs[n]]
  BY <1>1 DEF Written
<1>3. Append(fs[file], line) \in Seq(Lines)
  BY <1>1
<1> HIDE DEF gs
<1>4. /\ DOMAIN gs = DOMAIN fs /\ gs[file] = Append(fs[file], line)
      /\ \A n \in DOMAIN fs : n # file => gs[n] = fs[n]
  BY <1>1, <1>2
<1>5. gs = [n \in DOMAIN gs |-> gs[n]]
  BY <1>2
<1>6. FilesOK(gs, file)
  BY <1>1, <1>3, <1>4, <1>5 DEF FilesOK
<1> QED BY <1>4, <1>6 DEF gs

LEMMA OpenFacts ==
  ASSUME NEW fs, NEW file, FilesOK(fs, file), NEW new \in FileNames, new \notin DOMAIN fs
  PROVE  /\ FilesOK(Opened(fs, new), new)
         /\ DOMAIN Opened(fs, new) = DOMAIN fs \cup {new}
         /\ Opened(fs, new)[new] = <<>>
         /\ \A n \in DOMAIN fs : Opened(fs, new)[n] = fs[n]
<1>1. /\ DOMAIN fs \subseteq FileNames /\ \A n \in DOMAIN fs : fs[n] \in Seq(Lines)
  BY DEF FilesOK
<1> DEFINE gs == Opened(fs, new)
<1>2. gs = [n \in DOMAIN fs \cup {new} |-> IF n \in DOMAIN fs THEN fs[n] ELSE <<>>]
  BY DEF Opened
<1> HIDE DEF gs
<1>3. /\ DOMAIN gs = DOMAIN fs \cup {new} /\ gs[new] = <<>> /\ gs = [n \in DOMAIN gs |-> gs[n]]
      /\ \A n \in DOMAIN fs : gs[n] = fs[n]
  BY <1>2
<1>4. <<>> \in Seq(Lines)
  OBVIOUS
<1>5. FilesOK(gs, new)
  BY <1>1, <1>3, <1>4 DEF FilesOK
<1> QED BY <1>3, <1>5 DEF gs

-----------------------------------------------------------------------------
(* The chain.                                                              *)

LEMMA ChainFacts ==
  ASSUME NEW fs, NEW file, FilesOK(fs, file), NEW ch \in Seq(FileNames), ChainOK(fs, ch, file)
  PROVE  /\ Len(ch) \in Nat /\ Len(ch) > 0 /\ DOMAIN ch = 1..Len(ch) /\ Len(ch) \in DOMAIN ch
         /\ \A p \in DOMAIN ch : ch[p] \in FileNames /\ ch[p] \in DOMAIN fs /\ fs[ch[p]] \in Seq(Lines)
         /\ \A p \in DOMAIN ch : ch[p] = file <=> p = Len(ch)
         /\ \A n \in DOMAIN fs : \E p \in DOMAIN ch : ch[p] = n
         /\ \A p, q \in DOMAIN ch : ch[p] = ch[q] => p = q
<1>1. Len(ch) \in Nat /\ Len(ch) > 0 /\ DOMAIN ch = 1..Len(ch) /\ Len(ch) \in 1..Len(ch)
  BY DEF ChainOK
<1>2. Range(ch) = DOMAIN fs /\ ch[Len(ch)] = file
  BY DEF ChainOK
<1>3. \A p, q \in DOMAIN ch : ch[p] = ch[q] => p = q
  BY DEF ChainOK, IsInjective
<1>4. \A p \in DOMAIN ch : ch[p] \in FileNames /\ ch[p] \in DOMAIN fs /\ fs[ch[p]] \in Seq(Lines)
  BY <1>1, <1>2 DEF Range, FilesOK
<1>5. \A n \in DOMAIN fs : \E p \in DOMAIN ch : ch[p] = n
  BY <1>2 DEF Range
<1> QED BY <1>1, <1>2, <1>3, <1>4, <1>5

\* A line appended to a text.
LEMMA AppendLine ==
  ASSUME NEW s \in Seq(Lines), NEW line \in Lines
  PROVE  /\ Len(Append(s, line)) = Len(s) + 1 /\ Len(s) \in Nat /\ Append(s, line) # <<>>
         /\ DOMAIN Append(s, line) = 1..(Len(s) + 1) /\ DOMAIN s = 1..Len(s)
         /\ Append(s, line)[Len(s) + 1] = line
         /\ \A i \in 1..Len(s) : Append(s, line)[i] = s[i]
         /\ \A i \in DOMAIN Append(s, line) : i \in DOMAIN s \/ i = Len(s) + 1
         /\ \A i \in DOMAIN s : i \in DOMAIN Append(s, line) /\ i < Len(s) + 1
  OBVIOUS

\* A log line or the max_log_size line goes to the end of the chain.
LEMMA ChainWrite ==
  ASSUME NEW fs, NEW file, FilesOK(fs, file), NEW ch \in Seq(FileNames), ChainOK(fs, ch, file),
         NEW w \in Nat, OrderOK(fs, ch, w),
         NEW line \in Lines, NEW v \in Nat,
         \/ line = LogLine(w + 1) /\ v = w + 1
         \/ line = MaxSizeLine /\ v = w,
         NEW gs, gs = Written(fs, file, line)
  PROVE  /\ ChainOK(gs, ch, file) /\ OrderOK(gs, ch, v)
         /\ \A f, pos : \A r \in 0..w : PlaceOK(fs, ch, f, pos, r) => PlaceOK(gs, ch, f, pos, r)
<1> DEFINE N == Len(ch)
           L == Len(fs[file])
<1>1. /\ N \in Nat /\ N > 0 /\ DOMAIN ch = 1..N /\ N \in DOMAIN ch
      /\ \A p \in DOMAIN ch : ch[p] \in FileNames /\ ch[p] \in DOMAIN fs /\ fs[ch[p]] \in Seq(Lines)
      /\ \A p \in DOMAIN ch : ch[p] = file <=> p = N
  BY ChainFacts
<1>2. /\ DOMAIN gs = DOMAIN fs /\ gs[file] = Append(fs[file], line)
      /\ \A n \in DOMAIN fs : n # file => gs[n] = fs[n]
  BY WriteFacts
<1>3. /\ fs[file] \in Seq(Lines)
      /\ \A p \in DOMAIN ch : p # N => gs[ch[p]] = fs[ch[p]]
      /\ ch[N] = file
  BY <1>1, <1>2
<1>4. /\ L \in Nat /\ DOMAIN gs[file] = 1..(L + 1) /\ DOMAIN fs[file] = 1..L
      /\ gs[file][L + 1] = line
      /\ \A i \in DOMAIN fs[file] : gs[file][i] = fs[file][i] /\ i \in DOMAIN gs[file] /\ i < L + 1
      /\ \A i \in DOMAIN gs[file] : i \in DOMAIN fs[file] \/ i = L + 1
      /\ L + 1 \in DOMAIN gs[file]
  BY <1>2, <1>3, AppendLine
<1>5. /\ ~IsMarker(line) /\ (IsLog(line) => line.id = w + 1 /\ v = w + 1) /\ 1..w \subseteq 1..v
      /\ v # w => IsLog(line) /\ line = LogLine(w + 1) /\ v = w + 1
  BY DEF LogLine, MaxSizeLine, IsMarker, IsLog
\* Every line of the new texts is an old line or the new one.
<1>6. ASSUME NEW p \in DOMAIN ch, NEW i \in DOMAIN gs[ch[p]]
      PROVE  \/ i \in DOMAIN fs[ch[p]] /\ gs[ch[p]][i] = fs[ch[p]][i]
             \/ p = N /\ i = L + 1 /\ gs[ch[p]][i] = line
  BY <1>3, <1>4
<1>7. ASSUME NEW p \in DOMAIN ch, NEW i \in DOMAIN fs[ch[p]]
      PROVE  i \in DOMAIN gs[ch[p]] /\ gs[ch[p]][i] = fs[ch[p]][i] /\ (p = N => i < L + 1)
  BY <1>3, <1>4
<1> HIDE DEF N, L
<1>8. ChainOK(gs, ch, file)
  <2>1. \A i \in DOMAIN gs[file] : ~IsMarker(gs[file][i])
    BY <1>4, <1>5 DEF ChainOK
  <2>2. \A p \in 1..(N - 1) : p \in DOMAIN ch /\ gs[ch[p]] = fs[ch[p]]
    BY <1>1, <1>3
  <2> QED BY <2>1, <2>2, <1>2, SMTT(40) DEF ChainOK, N
<1>9. OrderOK(gs, ch, v)
  <2>1. \A p \in DOMAIN ch : \A i \in DOMAIN fs[ch[p]] :
          IsLog(fs[ch[p]][i]) => fs[ch[p]][i].id \in 1..w
    BY DEF OrderOK
  <2>2. ASSUME NEW p \in DOMAIN ch, NEW q \in DOMAIN ch,
               NEW i \in DOMAIN gs[ch[p]], NEW j \in DOMAIN gs[ch[q]],
               IsLog(gs[ch[p]][i]), IsLog(gs[ch[q]][j]), p < q \/ (p = q /\ i < j)
        PROVE  gs[ch[p]][i].id < gs[ch[q]][j].id
    <3>1. CASE j \in DOMAIN fs[ch[q]] /\ gs[ch[q]][j] = fs[ch[q]][j]
      <4>1. i \in DOMAIN fs[ch[p]] /\ gs[ch[p]][i] = fs[ch[p]][i]
        <5>1. ~(p = N /\ i = L + 1)
          BY <2>2, <3>1, <1>1, <1>4, <1>7
        <5> QED BY <5>1, <1>6
      <4> QED BY <4>1, <3>1, <2>2 DEF OrderOK
    <3>2. CASE q = N /\ j = L + 1 /\ gs[ch[q]][j] = line
      <4>1. i \in DOMAIN fs[ch[p]] /\ gs[ch[p]][i] = fs[ch[p]][i]
        <5>1. ~(p = N /\ i = L + 1)
          BY <2>2, <3>2, <1>1, <1>4
        <5> QED BY <5>1, <1>6
      <4>2. gs[ch[p]][i].id \in 1..w /\ gs[ch[q]][j].id = w + 1
        BY <4>1, <3>2, <2>1, <2>2, <1>5
      <4> QED BY <4>2
    <3> QED BY <3>1, <3>2, <1>6
  <2>3. ASSUME NEW p \in DOMAIN ch, NEW i \in DOMAIN gs[ch[p]], IsLog(gs[ch[p]][i])
        PROVE  gs[ch[p]][i].id \in 1..v
    <3>1. CASE i \in DOMAIN fs[ch[p]] /\ gs[ch[p]][i] = fs[ch[p]][i]
      BY <3>1, <2>1, <2>3, <1>5
    <3>2. CASE gs[ch[p]][i] = line
      BY <3>2, <2>3, <1>5
    <3> QED BY <3>1, <3>2, <1>6
  <2>4. ASSUME NEW x \in 1..v
        PROVE  \E p \in DOMAIN ch : \E i \in DOMAIN gs[ch[p]] : gs[ch[p]][i] = LogLine(x)
    <3>1. CASE x \in 1..w
      <4>1. PICK p \in DOMAIN ch : \E i \in DOMAIN fs[ch[p]] : fs[ch[p]][i] = LogLine(x)
        BY <3>1 DEF OrderOK
      <4> QED BY <4>1, <1>7
    <3>2. CASE x \notin 1..w
      <4>1. v # w
        BY <3>2
      <4>2. x = w + 1 /\ line = LogLine(w + 1)
        BY <4>1, <3>2, <1>5
      <4> QED BY <4>2, <1>1, <1>3, <1>4
    <3> QED BY <3>1, <3>2
  <2> QED BY <2>2, <2>3, <2>4 DEF OrderOK
<1>10. ASSUME NEW f, NEW pos, NEW r \in 0..w, PlaceOK(fs, ch, f, pos, r)
       PROVE  PlaceOK(gs, ch, f, pos, r)
  <2>1. f \in DOMAIN ch /\ pos \in 0..Len(fs[ch[f]]) /\ fs[ch[f]] \in Seq(Lines)
    BY <1>1, <1>10 DEF PlaceOK
  <2>2. pos \in 0..Len(gs[ch[f]]) /\ (f = N => pos <= L)
    <3>1. CASE f = N
      <4>1. Len(gs[file]) = L + 1
        BY <1>2, <1>3, AppendLine DEF L
      <4> QED BY <4>1, <3>1, <2>1, <1>3, <1>4 DEF L
    <3>2. CASE f # N
      BY <3>2, <2>1, <1>3
    <3> QED BY <3>1, <3>2
  <2>3. ASSUME NEW p \in DOMAIN ch, NEW i \in DOMAIN gs[ch[p]], IsLog(gs[ch[p]][i])
        PROVE  gs[ch[p]][i].id <= r <=> p < f \/ (p = f /\ i <= pos)
    <3>1. CASE i \in DOMAIN fs[ch[p]] /\ gs[ch[p]][i] = fs[ch[p]][i]
      BY <3>1, <2>3, <1>10 DEF PlaceOK
    <3>2. CASE p = N /\ i = L + 1 /\ gs[ch[p]][i] = line
      <4>1. ~(gs[ch[p]][i].id <= r)
        BY <3>2, <2>3, <1>5
      <4>2. ~(p < f) /\ ~(p = f /\ i <= pos)
        BY <3>2, <2>1, <2>2, <1>1, <1>4
      <4> QED BY <4>1, <4>2
    <3> QED BY <3>1, <3>2, <1>6
  <2> QED BY <2>1, <2>2, <2>3 DEF PlaceOK
<1> QED BY <1>8, <1>9, <1>10

\* OrderOK is about the log lines and their places alone.
SameLines(fs, ch, gs, dh) ==
  /\ \A p \in DOMAIN dh : \A i \in DOMAIN gs[dh[p]] : IsLog(gs[dh[p]][i]) =>
       p \in DOMAIN ch /\ i \in DOMAIN fs[ch[p]] /\ gs[dh[p]][i] = fs[ch[p]][i]
  /\ \A p \in DOMAIN ch : \A i \in DOMAIN fs[ch[p]] :
       p \in DOMAIN dh /\ i \in DOMAIN gs[dh[p]] /\ gs[dh[p]][i] = fs[ch[p]][i]

LEMMA SameOrder ==
  ASSUME NEW fs, NEW ch, NEW gs, NEW dh, NEW w, SameLines(fs, ch, gs, dh), OrderOK(fs, ch, w)
  PROVE  OrderOK(gs, dh, w)
<1>1. ASSUME NEW p \in DOMAIN dh, NEW q \in DOMAIN dh,
             NEW i \in DOMAIN gs[dh[p]], NEW j \in DOMAIN gs[dh[q]],
             IsLog(gs[dh[p]][i]), IsLog(gs[dh[q]][j]), p < q \/ (p = q /\ i < j)
      PROVE  gs[dh[p]][i].id < gs[dh[q]][j].id
  BY <1>1 DEF OrderOK, SameLines
<1>2. ASSUME NEW p \in DOMAIN dh, NEW i \in DOMAIN gs[dh[p]], IsLog(gs[dh[p]][i])
      PROVE  gs[dh[p]][i].id \in 1..w
  BY <1>2 DEF OrderOK, SameLines
<1>3. ASSUME NEW x \in 1..w
      PROVE  \E p \in DOMAIN dh : \E i \in DOMAIN gs[dh[p]] : gs[dh[p]][i] = LogLine(x)
  <2>1. PICK p \in DOMAIN ch : \E i \in DOMAIN fs[ch[p]] : fs[ch[p]][i] = LogLine(x)
    BY DEF OrderOK, SameLines
  <2>2. PICK i \in DOMAIN fs[ch[p]] : fs[ch[p]][i] = LogLine(x)
    BY <2>1
  <2> QED BY <2>2 DEF SameLines
<1> QED BY <1>1, <1>2, <1>3 DEF OrderOK

\* A marker ends the last file, and the file it announces becomes the last.
Announces(marker, file, new) ==
  \/ marker = RotateLine /\ new = GetNextLogFilename(file)
  \/ marker = NewLogLine /\ new = Name(new[1])
Continued(fs, file, marker, new) == Opened(Written(fs, file, marker), new)

LEMMA ChainNext ==
  ASSUME NEW fs, NEW file, FilesOK(fs, file), NEW ch \in Seq(FileNames), ChainOK(fs, ch, file),
         NEW w \in Nat, OrderOK(fs, ch, w),
         NEW new \in FileNames, new \notin DOMAIN fs, NEW marker \in Lines,
         Announces(marker, file, new)
  PROVE  /\ FilesOK(Continued(fs, file, marker, new), new)
         /\ Append(ch, new) \in Seq(FileNames)
         /\ ChainOK(Continued(fs, file, marker, new), Append(ch, new), new)
         /\ OrderOK(Continued(fs, file, marker, new), Append(ch, new), w)
         /\ \A f, pos, r : PlaceOK(fs, ch, f, pos, r) =>
              PlaceOK(Continued(fs, file, marker, new), Append(ch, new), f, pos, r)
<1> DEFINE N == Len(ch)
           L == Len(fs[file])
           gs == Continued(fs, file, marker, new)
           dh == Append(ch, new)
<1>1. /\ N \in Nat /\ N > 0 /\ DOMAIN ch = 1..N /\ N \in DOMAIN ch
      /\ \A p \in DOMAIN ch : ch[p] \in FileNames /\ ch[p] \in DOMAIN fs /\ fs[ch[p]] \in Seq(Lines)
      /\ \A p \in DOMAIN ch : ch[p] = file <=> p = N
      /\ \A n \in DOMAIN fs : \E p \in DOMAIN ch : ch[p] = n
      /\ \A p, q \in DOMAIN ch : ch[p] = ch[q] => p = q
  BY ChainFacts
<1> DEFINE es == Written(fs, file, marker)
<1>2. /\ FilesOK(es, file) /\ DOMAIN es = DOMAIN fs /\ es[file] = Append(fs[file], marker)
      /\ \A n \in DOMAIN fs : n # file => es[n] = fs[n]
  BY WriteFacts
<1>3. gs = Opened(es, new) /\ dh = Append(ch, new)
  BY DEF Continued
<1> HIDE DEF es, gs
<1>4. /\ FilesOK(gs, new) /\ DOMAIN gs = DOMAIN fs \cup {new} /\ gs[new] = <<>>
      /\ \A n \in DOMAIN fs : gs[n] = es[n]
  <2>1. new \notin DOMAIN es
    BY <1>2
  <2>2. /\ FilesOK(Opened(es, new), new) /\ DOMAIN Opened(es, new) = DOMAIN es \cup {new}
        /\ Opened(es, new)[new] = <<>> /\ \A n \in DOMAIN es : Opened(es, new)[n] = es[n]
    BY <2>1, <1>2, OpenFacts
  <2> QED BY <2>2, <1>2, <1>3
<1>5. /\ dh \in Seq(FileNames) /\ Len(dh) = N + 1 /\ DOMAIN dh = 1..(N + 1) /\ dh[N + 1] = new
      /\ dh # <<>> /\ \A p \in DOMAIN ch : dh[p] = ch[p] /\ p \in DOMAIN dh /\ p < N + 1
      /\ \A p \in DOMAIN dh : p \in DOMAIN ch \/ p = N + 1
      /\ N + 1 \in DOMAIN dh
  BY <1>1
<1>6. /\ L \in Nat /\ fs[file] \in Seq(Lines) /\ DOMAIN fs[file] = 1..L
      /\ gs[file] # <<>> /\ Len(gs[file]) = L + 1 /\ DOMAIN gs[file] = 1..(L + 1)
      /\ gs[file][L + 1] = marker
      /\ \A i \in DOMAIN fs[file] : gs[file][i] = fs[file][i] /\ i \in DOMAIN gs[file]
      /\ \A i \in DOMAIN gs[file] : i \in DOMAIN fs[file] \/ i = L + 1
      /\ file \in DOMAIN fs
  <2>1. fs[file] \in Seq(Lines) /\ file \in DOMAIN fs
    BY <1>1
  <2>2. gs[file] = Append(fs[file], marker)
    BY <2>1, <1>2, <1>4
  <2> QED BY <2>1, <2>2, AppendLine
<1>7. ch[N] = file /\ \A p \in DOMAIN ch : p # N => gs[dh[p]] = fs[ch[p]]
  BY <1>1, <1>2, <1>4, <1>5
<1>8. IsMarker(marker) /\ ~IsLog(marker)
  BY DEF Announces, RotateLine, NewLogLine, IsMarker, IsLog
<1> HIDE DEF N, L, dh
\* The log lines are the same, in the same places.
<1>9. ASSUME NEW p \in DOMAIN dh, NEW i \in DOMAIN gs[dh[p]], IsLog(gs[dh[p]][i])
      PROVE  p \in DOMAIN ch /\ i \in DOMAIN fs[ch[p]] /\ gs[dh[p]][i] = fs[ch[p]][i]
  <2>1. CASE p = N + 1
    BY <2>1, <1>9, <1>4, <1>5
  <2>2. CASE p = N
    BY <2>2, <1>9, <1>5, <1>6, <1>7, <1>8
  <2>3. CASE p \in DOMAIN ch /\ p # N
    BY <2>3, <1>9, <1>7
  <2> QED BY <2>1, <2>2, <2>3, <1>5
<1>10. ASSUME NEW p \in DOMAIN ch, NEW i \in DOMAIN fs[ch[p]]
       PROVE  p \in DOMAIN dh /\ i \in DOMAIN gs[dh[p]] /\ gs[dh[p]][i] = fs[ch[p]][i]
  <2>1. CASE p = N
    BY <2>1, <1>5, <1>6, <1>7
  <2>2. CASE p # N
    BY <2>2, <1>5, <1>7
  <2> QED BY <2>1, <2>2
<1>11. ChainOK(gs, dh, new)
  <2>1. IsInjective(dh)
    <3> SUFFICES ASSUME NEW p \in DOMAIN dh, NEW q \in DOMAIN dh, dh[p] = dh[q] PROVE p = q
      BY DEF IsInjective
    <3>1. \A o \in DOMAIN ch : dh[o] # new
      BY <1>1, <1>5
    <3> QED BY <3>1, <1>1, <1>5
  <2>2. Range(dh) = DOMAIN gs
    <3>1. Range(dh) \subseteq DOMAIN gs
      <4> SUFFICES ASSUME NEW p \in DOMAIN dh PROVE dh[p] \in DOMAIN gs
        BY DEF Range
      <4> QED BY <1>1, <1>4, <1>5
    <3>2. DOMAIN gs \subseteq Range(dh)
      <4> SUFFICES ASSUME NEW n \in DOMAIN gs PROVE \E p \in DOMAIN dh : dh[p] = n
        BY DEF Range
      <4>1. CASE n = new
        BY <4>1, <1>5
      <4>2. CASE n \in DOMAIN fs
        BY <4>2, <1>1, <1>5
      <4> QED BY <4>1, <4>2, <1>4
    <3> QED BY <3>1, <3>2
  <2>3. \A i \in DOMAIN gs[new] : ~IsMarker(gs[new][i])
    BY <1>4
  <2>4. ASSUME NEW p \in 1..(Len(dh) - 1)
        PROVE  /\ gs[dh[p]] # <<>>
               /\ \A i \in DOMAIN gs[dh[p]] : IsMarker(gs[dh[p]][i]) <=> i = Len(gs[dh[p]])
               /\ IF gs[dh[p]][Len(gs[dh[p]])].kind = "rotate"
                  THEN dh[p + 1] = GetNextLogFilename(dh[p])
                  ELSE dh[p + 1] = Name(dh[p + 1][1])
    <3>1. p \in DOMAIN ch
      BY <1>1, <1>5
    <3>2. CASE p = N
      <4>1. gs[dh[p]] = gs[file] /\ dh[p] = file /\ dh[p + 1] = new
        BY <3>1, <3>2, <1>5, <1>7
      <4>2. \A i \in DOMAIN fs[file] : ~IsMarker(fs[file][i]) /\ i # L + 1
        BY <1>6 DEF ChainOK
      <4>3. \A i \in DOMAIN gs[file] : IsMarker(gs[file][i]) <=> i = Len(gs[file])
        BY <4>2, <1>6, <1>8
      <4>4. IF marker.kind = "rotate" THEN new = GetNextLogFilename(file) ELSE new = Name(new[1])
        BY DEF Announces, RotateLine, NewLogLine
      <4> QED BY <4>1, <4>3, <4>4, <1>6
    <3>3. CASE p # N
      <4>1. p \in 1..(N - 1) /\ p + 1 \in DOMAIN ch
        BY <3>1, <3>3, <1>1
      <4>2. gs[dh[p]] = fs[ch[p]] /\ dh[p] = ch[p] /\ dh[p + 1] = ch[p + 1]
        BY <3>1, <3>3, <4>1, <1>5, <1>7
      <4> QED BY <4>1, <4>2 DEF ChainOK, N
    <3> QED BY <3>2, <3>3
  <2>5. dh[Len(dh)] = new
    BY <1>5
  <2> QED BY <2>1, <2>2, <2>3, <2>4, <2>5, <1>5 DEF ChainOK
<1>12. OrderOK(gs, dh, w)
  <2>1. SameLines(fs, ch, gs, dh)
    BY <1>9, <1>10 DEF SameLines
  <2> QED BY <2>1, SameOrder
<1>13. ASSUME NEW f, NEW pos, NEW r, PlaceOK(fs, ch, f, pos, r)
       PROVE  PlaceOK(gs, dh, f, pos, r)
  <2>1. f \in DOMAIN ch /\ pos \in 0..Len(fs[ch[f]])
    BY <1>13 DEF PlaceOK
  <2>2. pos \in 0..Len(gs[dh[f]])
    <3>1. CASE f = N
      <4>1. Len(gs[dh[f]]) = L + 1 /\ Len(fs[ch[f]]) = L
        BY <3>1, <2>1, <1>5, <1>6, <1>7 DEF L
      <4> QED BY <4>1, <2>1, <1>6
    <3>2. CASE f # N
      BY <3>2, <2>1, <1>7
    <3> QED BY <3>1, <3>2
  <2>3. ASSUME NEW p \in DOMAIN dh, NEW i \in DOMAIN gs[dh[p]], IsLog(gs[dh[p]][i])
        PROVE  gs[dh[p]][i].id <= r <=> p < f \/ (p = f /\ i <= pos)
    BY <2>3, <1>9, <1>13 DEF PlaceOK
  <2> QED BY <2>1, <2>2, <2>3, <1>5 DEF PlaceOK
<1> QED BY <1>4, <1>5, <1>11, <1>12, <1>13 DEF gs, dh

\* The names after a rotation, and the name it takes is free.
LEMMA RotationKept ==
  ASSUME NEW fs, NEW file, FilesOK(fs, file), RotationOK(fs, file)
  PROVE  /\ GetNextLogFilename(file) \notin DOMAIN fs
         /\ \A gs : DOMAIN gs = DOMAIN fs \cup {GetNextLogFilename(file)}
              => RotationOK(gs, GetNextLogFilename(file))
         /\ \A gs : DOMAIN gs = DOMAIN fs => RotationOK(gs, file)
         /\ \A b \in Bases : \A gs :
              Name(b) \notin DOMAIN fs /\ DOMAIN gs = DOMAIN fs \cup {Name(b)}
                => RotationOK(gs, Name(b))
<1>0. DOMAIN fs \subseteq FileNames /\ file \in DOMAIN fs
  BY DEF FilesOK
<1>1. \A n \in DOMAIN fs : Name(n[1]) \in DOMAIN fs /\ (n[1] = file[1] => NotLater(n, file))
  BY DEF RotationOK
<1> DEFINE k == GetNextLogFilename(file)
<1>2. /\ k[1] = file[1] /\ NotLater(k, k)
      /\ \A m \in FileNames : NotLater(m, file) => m # k /\ NotLater(m, k)
  BY <1>0, NextName
<1> HIDE DEF k
<1>3. k \notin DOMAIN fs
  BY <1>0, <1>1, <1>2
<1>4. ASSUME NEW gs, DOMAIN gs = DOMAIN fs \cup {k} PROVE RotationOK(gs, k)
  <2>1. ASSUME NEW n \in DOMAIN gs
        PROVE  Name(n[1]) \in DOMAIN gs /\ (n[1] = k[1] => NotLater(n, k))
    <3>1. CASE n = k
      BY <3>1, <1>0, <1>1, <1>2, <1>4
    <3>2. CASE n \in DOMAIN fs
      BY <3>2, <1>0, <1>1, <1>2, <1>4
    <3> QED BY <3>1, <3>2, <1>4
  <2> QED BY <2>1 DEF RotationOK
<1>5. ASSUME NEW gs, DOMAIN gs = DOMAIN fs PROVE RotationOK(gs, file)
  BY <1>1, <1>5 DEF RotationOK
<1>6. ASSUME NEW b \in Bases, NEW gs, Name(b) \notin DOMAIN fs, DOMAIN gs = DOMAIN fs \cup {Name(b)}
      PROVE  RotationOK(gs, Name(b))
  <2>1. Name(b)[1] = b /\ Len(Name(b)) = 1 /\ Name(b) \in FileNames
    BY PlainName
  <2>2. NotLater(Name(b), Name(b))
    BY <2>1 DEF NotLater
  <2>3. ASSUME NEW n \in DOMAIN gs
        PROVE  Name(n[1]) \in DOMAIN gs /\ (n[1] = Name(b)[1] => NotLater(n, Name(b)))
    <3>1. CASE n = Name(b)
      BY <3>1, <2>1, <2>2, <1>6
    <3>2. CASE n \in DOMAIN fs
      BY <3>2, <2>1, <1>1, <1>6
    <3> QED BY <3>1, <3>2, <1>6
  <2> QED BY <2>3 DEF RotationOK
<1> QED BY <1>3, <1>4, <1>5, <1>6 DEF k

-----------------------------------------------------------------------------
(* The log paths the filter was told.                                      *)

\* The writer opens the next file: the path it was asked for, or a rotation.
LEMMA PathsGrow ==
  ASSUME NEW ch \in Seq(FileNames), NEW f \in DOMAIN ch, NEW new, NEW next, NEW cs,
         PathsOK(ch, f, new, next, cs), NEW n \in FileNames, NEW asked,
         \/ n = new /\ asked = <<>>
         \/ n # Name(n[1]) /\ asked = new
  PROVE  PathsOK(Append(ch, n), f, asked, next, cs)
<1> DEFINE N == Len(ch)
           dh == Append(ch, n)
<1>1. /\ N \in Nat /\ DOMAIN ch = 1..N /\ DOMAIN dh = 1..(N + 1) /\ dh[N + 1] = n
      /\ \A p \in DOMAIN ch : dh[p] = ch[p] /\ p \in DOMAIN dh /\ p < N + 1
      /\ \A p \in DOMAIN dh : p \in DOMAIN ch \/ p = N + 1
      /\ N + 1 \in DOMAIN dh
  OBVIOUS
<1> HIDE DEF N, dh
<1>2. ASSUME NEW m, NEW x, Before(ch, m, x) PROVE Before(dh, m, x)
  BY <1>1, <1>2 DEF Before
<1>3. ASSUME NEW m, Ahead(ch, f, m, new) PROVE Ahead(dh, f, m, asked)
  BY <1>1, <1>3 DEF Ahead
<1>4. /\ \A i \in DOMAIN next : Ahead(dh, f, next[i], asked)
      /\ \A i, j \in DOMAIN next : i < j => Before(dh, next[j], next[i])
  BY <1>2, <1>3 DEF PathsOK
<1>5. /\ \A i \in DOMAIN cs : IsNew(cs[i]) => Ahead(dh, f, Name(cs[i].arg), asked)
      /\ \A i, j \in DOMAIN cs :
           IsNew(cs[i]) /\ IsNew(cs[j]) /\ i < j => Before(dh, Name(cs[i].arg), Name(cs[j].arg))
      /\ \A i \in DOMAIN next, j \in DOMAIN cs :
           IsNew(cs[j]) => Before(dh, next[i], Name(cs[j].arg))
  BY <1>2, <1>3 DEF PathsOK
<1>6. ASSUME NEW p \in DOMAIN dh, p > f, dh[p] = Name(dh[p][1])
      PROVE  \/ \E i \in DOMAIN next : next[i] = dh[p]
             \/ \E i \in DOMAIN cs : IsNew(cs[i]) /\ Name(cs[i].arg) = dh[p]
  <2>1. CASE p \in DOMAIN ch
    BY <1>1, <1>6, <2>1 DEF PathsOK
  <2>2. CASE p = N + 1
    <3>1. dh[p] = n /\ n = new /\ n # <<>>
      BY <1>1, <1>6, <2>2, PlainName
    <3> QED BY <3>1 DEF PathsOK
  <2> QED BY <1>1, <2>1, <2>2
<1>7. asked # <<>> =>
        \/ \E i \in DOMAIN next : next[i] = asked
        \/ \E i \in DOMAIN cs : IsNew(cs[i]) /\ Name(cs[i].arg) = asked
  BY DEF PathsOK
<1>8. PathsOK(dh, f, asked, next, cs)
  BY <1>4, <1>5, <1>6, <1>7 DEF PathsOK
<1> QED BY <1>8 DEF dh

\* The filter opens the file of a log change: it is the last of its paths.
LEMMA PathsOpen ==
  ASSUME NEW ch \in Seq(FileNames), \A p, q \in DOMAIN ch : ch[p] = ch[q] => p = q,
         NEW f \in DOMAIN ch, f + 1 \in DOMAIN ch, ch[f + 1] = Name(ch[f + 1][1]),
         NEW new, \A p \in DOMAIN ch : ch[p] # new,
         NEW S, NEW next \in Seq(S), next # <<>>, NEW cs, PathsOK(ch, f, new, next, cs)
  PROVE  /\ next[Len(next)] = ch[f + 1]
         /\ PathsOK(ch, f + 1, new, SubSeq(next, 1, Len(next) - 1), cs)
<1> DEFINE L == Len(next)
           rest == SubSeq(next, 1, Len(next) - 1)
<1>1. /\ L \in Nat /\ L > 0 /\ DOMAIN next = 1..L /\ DOMAIN rest = 1..(L - 1)
      /\ \A i \in DOMAIN rest : rest[i] = next[i] /\ i \in DOMAIN next /\ i < L
      /\ \A i \in DOMAIN next : i \in DOMAIN rest \/ i = L
      /\ L \in DOMAIN next
  OBVIOUS
<1>2. Len(ch) \in Nat /\ DOMAIN ch = 1..Len(ch) /\ f \in Nat
  OBVIOUS
<1> HIDE DEF L, rest
\* Nothing of it is before the next file of the chain.
<1>3. ~Before(ch, next[L], ch[f + 1])
  <2> SUFFICES ASSUME Before(ch, next[L], ch[f + 1]) PROVE FALSE
    OBVIOUS
  <2>1. PICK p \in DOMAIN ch : ch[p] = next[L] /\ p < f + 1
    BY DEF Before
  <2>2. Ahead(ch, f, next[L], new)
    BY <1>1 DEF PathsOK
  <2>3. PICK q \in DOMAIN ch : q > f /\ ch[q] = next[L]
    BY <2>1, <2>2 DEF Ahead
  <2>4. p = q
    BY <2>1, <2>3
  <2> QED BY <2>1, <2>3, <2>4, <1>2
<1>4. f + 1 > f
  BY <1>2
<1>5. next[L] = ch[f + 1]
  <2>1. CASE \E i \in DOMAIN next : next[i] = ch[f + 1]
    <3>1. PICK i \in DOMAIN next : next[i] = ch[f + 1]
      BY <2>1
    <3>2. ~(i < L)
      BY <3>1, <1>1, <1>3 DEF PathsOK
    <3> QED BY <3>1, <3>2, <1>1
  <2>2. CASE \E i \in DOMAIN cs : IsNew(cs[i]) /\ Name(cs[i].arg) = ch[f + 1]
    BY <2>2, <1>1, <1>3 DEF PathsOK
  <2> QED BY <2>1, <2>2, <1>4 DEF PathsOK
\* What comes after it is further ahead.
<1>6. ASSUME NEW n, Ahead(ch, f, n, new), Before(ch, next[L], n) PROVE Ahead(ch, f + 1, n, new)
  <2> SUFFICES ASSUME n # new PROVE \E p \in DOMAIN ch : p > f + 1 /\ ch[p] = n
    BY DEF Ahead
  <2>1. PICK q \in DOMAIN ch : q > f /\ ch[q] = n
    BY <1>6 DEF Ahead
  <2>2. PICK p \in DOMAIN ch : ch[p] = next[L] /\ \A o \in DOMAIN ch : ch[o] = n => p < o
    BY <1>6 DEF Before
  <2>3. p = f + 1 /\ p < q
    BY <2>1, <2>2, <1>5
  <2> QED BY <2>1, <2>3
<1>7. /\ \A i \in DOMAIN rest : Ahead(ch, f + 1, rest[i], new)
      /\ \A i, j \in DOMAIN rest : i < j => Before(ch, rest[j], rest[i])
  <2>1. ASSUME NEW i \in DOMAIN rest PROVE Ahead(ch, f + 1, rest[i], new)
    <3>1. Ahead(ch, f, next[i], new) /\ Before(ch, next[L], next[i])
      BY <1>1 DEF PathsOK
    <3> QED BY <3>1, <1>1, <1>6
  <2>2. \A i, j \in DOMAIN rest : i < j => Before(ch, rest[j], rest[i])
    BY <1>1 DEF PathsOK
  <2> QED BY <2>1, <2>2
<1>8. \A i \in DOMAIN cs : IsNew(cs[i]) => Ahead(ch, f + 1, Name(cs[i].arg), new)
  <2> SUFFICES ASSUME NEW i \in DOMAIN cs, IsNew(cs[i]) PROVE Ahead(ch, f + 1, Name(cs[i].arg), new)
    OBVIOUS
  <2>1. Ahead(ch, f, Name(cs[i].arg), new) /\ Before(ch, next[L], Name(cs[i].arg))
    BY <1>1 DEF PathsOK
  <2> QED BY <2>1, <1>6
<1>9. /\ \A i, j \in DOMAIN cs :
           IsNew(cs[i]) /\ IsNew(cs[j]) /\ i < j => Before(ch, Name(cs[i].arg), Name(cs[j].arg))
      /\ \A i \in DOMAIN rest, j \in DOMAIN cs :
           IsNew(cs[j]) => Before(ch, rest[i], Name(cs[j].arg))
  BY <1>1 DEF PathsOK
<1>10. ASSUME NEW p \in DOMAIN ch, p > f + 1, ch[p] = Name(ch[p][1])
       PROVE  \/ \E i \in DOMAIN rest : rest[i] = ch[p]
              \/ \E i \in DOMAIN cs : IsNew(cs[i]) /\ Name(cs[i].arg) = ch[p]
  <2>1. ch[p] # next[L] /\ p > f
    BY <1>2, <1>5, <1>10
  <2>2. \/ \E i \in DOMAIN next : next[i] = ch[p]
        \/ \E i \in DOMAIN cs : IsNew(cs[i]) /\ Name(cs[i].arg) = ch[p]
    BY <2>1, <1>10 DEF PathsOK
  <2> QED BY <2>1, <2>2, <1>1
<1>11. new # <<>> =>
         \/ \E i \in DOMAIN rest : rest[i] = new
         \/ \E i \in DOMAIN cs : IsNew(cs[i]) /\ Name(cs[i].arg) = new
  <2>1. new # next[L]
    BY <1>5
  <2> QED BY <2>1, <1>1 DEF PathsOK
<1>12. PathsOK(ch, f + 1, new, rest, cs)
  BY <1>7, <1>8, <1>9, <1>10, <1>11 DEF PathsOK
<1> QED BY <1>5, <1>12 DEF L, rest

\* The filter opens the next file of a rotation: none of its paths is that file.
LEMMA PathsRotate ==
  ASSUME NEW ch \in Seq(FileNames), NEW f \in DOMAIN ch, f + 1 \in DOMAIN ch,
         ch[f + 1] # Name(ch[f + 1][1]),
         NEW next \in Seq({Name(b) : b \in Bases}), NEW cs \in Seq(FilterCmds),
         NEW new, PathsOK(ch, f, new, next, cs)
  PROVE  PathsOK(ch, f + 1, new, next, cs)
<1>1. Len(ch) \in Nat /\ DOMAIN ch = 1..Len(ch) /\ f \in Nat
  OBVIOUS
<1>2. ASSUME NEW b \in Bases, Ahead(ch, f, Name(b), new) PROVE Ahead(ch, f + 1, Name(b), new)
  <2>1. Name(b) = Name(Name(b)[1])
    BY PlainName
  <2>2. \A p \in DOMAIN ch : p > f /\ ch[p] = Name(b) => p > f + 1
    BY <1>1, <2>1
  <2> QED BY <1>2, <2>2 DEF Ahead
<1>3. ASSUME NEW i \in DOMAIN next PROVE Ahead(ch, f + 1, next[i], new)
  <2>1. PICK b \in Bases : next[i] = Name(b)
    OBVIOUS
  <2>2. Ahead(ch, f, Name(b), new)
    BY <2>1 DEF PathsOK
  <2> QED BY <2>1, <2>2, <1>2
<1>4. ASSUME NEW i \in DOMAIN cs, IsNew(cs[i]) PROVE Ahead(ch, f + 1, Name(cs[i].arg), new)
  <2>1. cs[i] \in FilterCmds
    OBVIOUS
  <2>3. cs[i].arg \in Bases
    BY <2>1 DEF FilterCmds
  <2>2. Ahead(ch, f, Name(cs[i].arg), new)
    BY <1>4 DEF PathsOK
  <2> QED BY <2>2, <2>3, <1>2
<1>5. \A p \in DOMAIN ch : p > f + 1 => p > f
  BY <1>1
<1> QED BY <1>3, <1>4, <1>5 DEF PathsOK

\* start_new_log tells the filter a path that is in no file yet.
LEMMA PathsAsk ==
  ASSUME NEW ch \in Seq(FileNames), NEW f \in DOMAIN ch,
         NEW next \in Seq({Name(b) : b \in Bases}), NEW cs \in Seq(FilterCmds),
         PathsOK(ch, f, <<>>, next, cs),
         NEW b \in Bases, \A p \in DOMAIN ch : ch[p] # Name(b),
         NEW c \in FilterCmds, IsNew(c), c.arg = b
  PROVE  PathsOK(ch, f, Name(b), next, Append(cs, c))
<1> DEFINE M == Len(cs)
           ds == Append(cs, c)
           n == Name(b)
<1>1. /\ M \in Nat /\ DOMAIN cs = 1..M /\ DOMAIN ds = 1..(M + 1) /\ ds[M + 1] = c
      /\ \A i \in DOMAIN cs : ds[i] = cs[i] /\ i \in DOMAIN ds /\ i < M + 1
      /\ \A i \in DOMAIN ds : i \in DOMAIN cs \/ i = M + 1
      /\ M + 1 \in DOMAIN ds
  OBVIOUS
<1>2. Name(c.arg) = n /\ \A p \in DOMAIN ch : ch[p] # n
  OBVIOUS
<1> HIDE DEF M, ds, n
\* All that was told is in the chain.
<1>3. ASSUME NEW a \in Bases, Ahead(ch, f, Name(a), <<>>)
      PROVE  Ahead(ch, f, Name(a), n) /\ Before(ch, Name(a), n)
  <2>1. Name(a) # <<>>
    BY PlainName
  <2>2. PICK p \in DOMAIN ch : p > f /\ ch[p] = Name(a)
    BY <2>1, <1>3 DEF Ahead
  <2> QED BY <2>2, <1>2 DEF Ahead, Before
<1>4. ASSUME NEW i \in DOMAIN next
      PROVE  Ahead(ch, f, next[i], n) /\ Before(ch, next[i], n)
  <2>1. PICK a \in Bases : next[i] = Name(a)
    OBVIOUS
  <2>2. Ahead(ch, f, Name(a), <<>>)
    BY <2>1 DEF PathsOK
  <2> QED BY <2>1, <2>2, <1>3
<1>5. ASSUME NEW i \in DOMAIN cs, IsNew(cs[i])
      PROVE  Ahead(ch, f, Name(cs[i].arg), n) /\ Before(ch, Name(cs[i].arg), n)
  <2>1. cs[i] \in FilterCmds
    OBVIOUS
  <2>3. cs[i].arg \in Bases
    BY <2>1 DEF FilterCmds
  <2>2. Ahead(ch, f, Name(cs[i].arg), <<>>)
    BY <1>5 DEF PathsOK
  <2> QED BY <2>2, <2>3, <1>3
<1>6. Ahead(ch, f, n, n)
  BY DEF Ahead
<1>7. \A i \in DOMAIN ds : IsNew(ds[i]) => Ahead(ch, f, Name(ds[i].arg), n)
  BY <1>1, <1>2, <1>5, <1>6
<1>8. ASSUME NEW i \in DOMAIN ds, NEW j \in DOMAIN ds, IsNew(ds[i]), IsNew(ds[j]), i < j
      PROVE  Before(ch, Name(ds[i].arg), Name(ds[j].arg))
  <2>1. i \in DOMAIN cs
    BY <1>1, <1>8
  <2>2. CASE j \in DOMAIN cs
    BY <1>1, <1>8, <2>1, <2>2 DEF PathsOK
  <2>3. CASE j = M + 1
    BY <1>1, <1>2, <1>5, <1>8, <2>1, <2>3
  <2> QED BY <1>1, <2>2, <2>3
<1>9. ASSUME NEW i \in DOMAIN next, NEW j \in DOMAIN ds, IsNew(ds[j])
      PROVE  Before(ch, next[i], Name(ds[j].arg))
  <2>1. CASE j \in DOMAIN cs
    BY <1>1, <1>9, <2>1 DEF PathsOK
  <2>2. CASE j = M + 1
    BY <1>1, <1>2, <1>4, <2>2
  <2> QED BY <1>1, <2>1, <2>2
<1>10. ASSUME NEW p \in DOMAIN ch, p > f, ch[p] = Name(ch[p][1])
       PROVE  \/ \E i \in DOMAIN next : next[i] = ch[p]
              \/ \E i \in DOMAIN ds : IsNew(ds[i]) /\ Name(ds[i].arg) = ch[p]
  BY <1>1, <1>10 DEF PathsOK
<1>11. \E i \in DOMAIN ds : IsNew(ds[i]) /\ Name(ds[i].arg) = n
  BY <1>1, <1>2
<1>12. \A i, j \in DOMAIN next : i < j => Before(ch, next[j], next[i])
  BY DEF PathsOK
<1>13. PathsOK(ch, f, n, next, ds)
  BY <1>4, <1>7, <1>8, <1>9, <1>10, <1>11, <1>12 DEF PathsOK
<1> QED BY <1>13 DEF n, ds

\* A command that is not about log files.
LEMMA PathsOther ==
  ASSUME NEW ch, NEW f, NEW new, NEW next, NEW S, NEW cs \in Seq(S),
         PathsOK(ch, f, new, next, cs), NEW c \in S, ~IsNew(c)
  PROVE  PathsOK(ch, f, new, next, Append(cs, c))
<1> DEFINE M == Len(cs)
           ds == Append(cs, c)
<1>1. /\ M \in Nat /\ DOMAIN cs = 1..M /\ DOMAIN ds = 1..(M + 1) /\ ds[M + 1] = c
      /\ \A i \in DOMAIN cs : ds[i] = cs[i] /\ i \in DOMAIN ds
      /\ \A i \in DOMAIN ds : i \in DOMAIN cs \/ i = M + 1
  OBVIOUS
<1> HIDE DEF M, ds
<1>2. /\ \A i \in DOMAIN next : Ahead(ch, f, next[i], new)
      /\ \A i, j \in DOMAIN next : i < j => Before(ch, next[j], next[i])
  BY DEF PathsOK
<1>3. \A i \in DOMAIN ds : IsNew(ds[i]) => i \in DOMAIN cs /\ ds[i] = cs[i]
  BY <1>1
<1>4. /\ \A i \in DOMAIN ds : IsNew(ds[i]) => Ahead(ch, f, Name(ds[i].arg), new)
      /\ \A i, j \in DOMAIN ds :
           IsNew(ds[i]) /\ IsNew(ds[j]) /\ i < j => Before(ch, Name(ds[i].arg), Name(ds[j].arg))
      /\ \A i \in DOMAIN next, j \in DOMAIN ds :
           IsNew(ds[j]) => Before(ch, next[i], Name(ds[j].arg))
  BY <1>3 DEF PathsOK
<1>5. /\ \A p \in DOMAIN ch : p > f /\ ch[p] = Name(ch[p][1]) =>
           \/ \E i \in DOMAIN next : next[i] = ch[p]
           \/ \E i \in DOMAIN ds : IsNew(ds[i]) /\ Name(ds[i].arg) = ch[p]
      /\ new # <<>> =>
           \/ \E i \in DOMAIN next : next[i] = new
           \/ \E i \in DOMAIN ds : IsNew(ds[i]) /\ Name(ds[i].arg) = new
  BY <1>1 DEF PathsOK
<1>6. PathsOK(ch, f, new, next, ds)
  BY <1>2, <1>4, <1>5 DEF PathsOK
<1> QED BY <1>6 DEF ds

\* The filter takes a command: a path goes to the front of its list.
LEMMA PathsTold ==
  ASSUME NEW ch, NEW f, NEW new, NEW S, NEW next \in Seq(S), NEW T, NEW cs \in Seq(T), cs # <<>>,
         PathsOK(ch, f, new, next, cs), NEW ds, ds = Tail(cs)
  PROVE  /\ ~IsNew(Head(cs)) => PathsOK(ch, f, new, next, ds)
         /\ IsNew(Head(cs)) => PathsOK(ch, f, new, <<Name(Head(cs).arg)>> \o next, ds)
<1>1. /\ Len(cs) \in Nat /\ DOMAIN cs = 1..Len(cs) /\ 1 \in DOMAIN cs /\ cs[1] = Head(cs)
      /\ DOMAIN ds = 1..(Len(cs) - 1)
      /\ \A i \in DOMAIN ds : i + 1 \in DOMAIN cs /\ ds[i] = cs[i + 1] /\ 1 < i + 1
      /\ \A i \in DOMAIN cs : i = 1 \/ (i - 1 \in DOMAIN ds /\ ds[i - 1] = cs[i])
      /\ \A i, j \in DOMAIN ds : i < j => i + 1 < j + 1
  OBVIOUS
<1>2. /\ \A i \in DOMAIN ds : IsNew(ds[i]) => Ahead(ch, f, Name(ds[i].arg), new)
      /\ \A i, j \in DOMAIN ds :
           IsNew(ds[i]) /\ IsNew(ds[j]) /\ i < j => Before(ch, Name(ds[i].arg), Name(ds[j].arg))
      /\ \A i \in DOMAIN next, j \in DOMAIN ds :
           IsNew(ds[j]) => Before(ch, next[i], Name(ds[j].arg))
  BY <1>1 DEF PathsOK
<1>3. /\ \A i \in DOMAIN next : Ahead(ch, f, next[i], new)
      /\ \A i, j \in DOMAIN next : i < j => Before(ch, next[j], next[i])
  BY DEF PathsOK
<1>4. ASSUME ~IsNew(Head(cs)) PROVE PathsOK(ch, f, new, next, ds)
  <2>1. ASSUME NEW n, \E i \in DOMAIN cs : IsNew(cs[i]) /\ Name(cs[i].arg) = n
        PROVE  \E i \in DOMAIN ds : IsNew(ds[i]) /\ Name(ds[i].arg) = n
    BY <1>1, <1>4, <2>1
  <2>2. /\ \A p \in DOMAIN ch : p > f /\ ch[p] = Name(ch[p][1]) =>
             \/ \E i \in DOMAIN next : next[i] = ch[p]
             \/ \E i \in DOMAIN ds : IsNew(ds[i]) /\ Name(ds[i].arg) = ch[p]
        /\ new # <<>> =>
             \/ \E i \in DOMAIN next : next[i] = new
             \/ \E i \in DOMAIN ds : IsNew(ds[i]) /\ Name(ds[i].arg) = new
    BY <2>1 DEF PathsOK
  <2> QED BY <1>2, <1>3, <2>2 DEF PathsOK
<1>5. ASSUME IsNew(Head(cs)) PROVE PathsOK(ch, f, new, <<Name(Head(cs).arg)>> \o next, ds)
  <2> DEFINE n == Name(Head(cs).arg)
             after == <<n>> \o next
  <2>1. /\ DOMAIN next = 1..Len(next) /\ Len(next) \in Nat /\ DOMAIN after = 1..(Len(next) + 1)
        /\ after[1] = n /\ 1 \in DOMAIN after
        /\ \A i \in DOMAIN next : i + 1 \in DOMAIN after /\ after[i + 1] = next[i]
        /\ \A i \in DOMAIN after : i = 1 \/ (i - 1 \in DOMAIN next /\ after[i] = next[i - 1])
        /\ \A i, j \in DOMAIN after : i < j => j # 1 /\ (i # 1 => i - 1 < j - 1)
    OBVIOUS
  <2> HIDE DEF after
  <2>2. /\ Ahead(ch, f, n, new)
        /\ \A i \in DOMAIN next : Before(ch, next[i], n)
        /\ \A i \in DOMAIN ds : IsNew(ds[i]) => Before(ch, n, Name(ds[i].arg))
    BY <1>1, <1>5 DEF PathsOK
  <2> HIDE DEF n
  <2>3. \A i \in DOMAIN after : Ahead(ch, f, after[i], new)
    BY <2>1, <2>2, <1>3
  <2>4. ASSUME NEW i \in DOMAIN after, NEW j \in DOMAIN after, i < j
        PROVE  Before(ch, after[j], after[i])
    <3>1. j # 1 /\ j - 1 \in DOMAIN next /\ after[j] = next[j - 1]
      BY <2>1, <2>4
    <3>2. CASE i = 1
      BY <2>1, <2>2, <3>1, <3>2
    <3>3. CASE i # 1
      <4>1. i - 1 \in DOMAIN next /\ after[i] = next[i - 1] /\ i - 1 < j - 1
        BY <2>1, <2>4, <3>3
      <4> QED BY <3>1, <4>1, <1>3
    <3> QED BY <3>2, <3>3
  <2>5. \A i \in DOMAIN after, j \in DOMAIN ds : IsNew(ds[j]) => Before(ch, after[i], Name(ds[j].arg))
    BY <2>1, <2>2, <1>2
  <2>6. ASSUME NEW m, \E i \in DOMAIN cs : IsNew(cs[i]) /\ Name(cs[i].arg) = m
        PROVE  \/ \E i \in DOMAIN after : after[i] = m
               \/ \E i \in DOMAIN ds : IsNew(ds[i]) /\ Name(ds[i].arg) = m
    <3>1. PICK i \in DOMAIN cs : IsNew(cs[i]) /\ Name(cs[i].arg) = m
      BY <2>6
    <3>2. CASE i = 1
      BY <3>1, <3>2, <1>1, <2>1 DEF n
    <3>3. CASE i # 1
      BY <3>1, <3>3, <1>1
    <3> QED BY <3>2, <3>3
  <2>7. ASSUME NEW m, \E i \in DOMAIN next : next[i] = m PROVE \E i \in DOMAIN after : after[i] = m
    BY <2>1, <2>7
  <2>8. /\ \A p \in DOMAIN ch : p > f /\ ch[p] = Name(ch[p][1]) =>
             \/ \E i \in DOMAIN after : after[i] = ch[p]
             \/ \E i \in DOMAIN ds : IsNew(ds[i]) /\ Name(ds[i].arg) = ch[p]
        /\ new # <<>> =>
             \/ \E i \in DOMAIN after : after[i] = new
             \/ \E i \in DOMAIN ds : IsNew(ds[i]) /\ Name(ds[i].arg) = new
    BY <2>6, <2>7 DEF PathsOK
  <2>9. PathsOK(ch, f, new, after, ds)
    BY <1>2, <2>3, <2>4, <2>5, <2>8 DEF PathsOK
  <2> QED BY <2>9 DEF after, n
<1> QED BY <1>4, <1>5

-----------------------------------------------------------------------------
(* What the filter reads.                                                  *)

Reads(fs, ch, f, pos, line) == pos < Len(fs[ch[f]]) /\ line = fs[ch[f]][pos + 1]
\* The next line to record, in the file it is in, and where a marker leads.
IsNext(fs, ch, f, line, r) ==
  /\ line.id = r + 1
  /\ \A n \in DOMAIN fs : \A k \in DOMAIN fs[n] : fs[n][k] = LogLine(r + 1) => n = ch[f]
LeadsOn(ch, f, line) ==
  /\ f + 1 \in DOMAIN ch
  /\ line.kind = "rotate" => ch[f + 1] = GetNextLogFilename(ch[f])
  /\ line.kind = "new" => ch[f + 1] = Name(ch[f + 1][1])

LEMMA ReadFacts ==
  ASSUME NEW fs, NEW file, FilesOK(fs, file), NEW ch \in Seq(FileNames), ChainOK(fs, ch, file),
         NEW w \in Nat, OrderOK(fs, ch, w), NEW f, NEW pos, NEW r \in 0..w,
         PlaceOK(fs, ch, f, pos, r), NEW line, Reads(fs, ch, f, pos, line)
  PROVE  /\ line \in Lines
         /\ IsLog(line) => /\ r + 1 <= w /\ PlaceOK(fs, ch, f, pos + 1, r + 1)
                           /\ IsNext(fs, ch, f, line, r)
         /\ ~IsLog(line) => PlaceOK(fs, ch, f, pos + 1, r)
         /\ IsMarker(line) => LeadsOn(ch, f, line) /\ PlaceOK(fs, ch, f + 1, 0, r)
<1>1. /\ Len(ch) \in Nat /\ Len(ch) > 0 /\ DOMAIN ch = 1..Len(ch) /\ Len(ch) \in DOMAIN ch
      /\ \A p \in DOMAIN ch : ch[p] \in FileNames /\ ch[p] \in DOMAIN fs /\ fs[ch[p]] \in Seq(Lines)
      /\ \A p \in DOMAIN ch : ch[p] = file <=> p = Len(ch)
      /\ \A n \in DOMAIN fs : \E p \in DOMAIN ch : ch[p] = n
  BY ChainFacts
<1>2. f \in DOMAIN ch /\ f \in Nat /\ pos \in 0..Len(fs[ch[f]]) /\ fs[ch[f]] \in Seq(Lines)
  BY <1>1 DEF PlaceOK
<1> DEFINE t == fs[ch[f]]
<1>3. t \in Seq(Lines) /\ pos \in Nat /\ pos < Len(t) /\ Len(t) \in Nat /\ DOMAIN t = 1..Len(t)
  BY <1>2 DEF Reads
<1>4. pos + 1 \in DOMAIN t /\ line = t[pos + 1] /\ line \in Lines
  BY <1>3 DEF Reads
<1>5. pos + 1 \in 0..Len(t)
  BY <1>3
<1> HIDE DEF t
<1>6. \A p \in DOMAIN ch : \A i \in DOMAIN fs[ch[p]] :
        IsLog(fs[ch[p]][i]) => (fs[ch[p]][i].id <= r <=> p < f \/ (p = f /\ i <= pos))
  BY DEF PlaceOK
<1>7. \A p \in DOMAIN ch : \A i \in DOMAIN fs[ch[p]] : p \in Nat /\ i \in Nat /\ fs[ch[p]][i] \in Lines
  BY <1>1
<1>8. \A p \in DOMAIN ch : \A i \in DOMAIN fs[ch[p]] :
        IsLog(fs[ch[p]][i]) => fs[ch[p]][i].id \in 1..w
  BY DEF OrderOK
<1>9. \A p, q \in DOMAIN ch : \A i \in DOMAIN fs[ch[p]], j \in DOMAIN fs[ch[q]] :
        IsLog(fs[ch[p]][i]) /\ IsLog(fs[ch[q]][j]) /\ (p < q \/ (p = q /\ i < j))
        => fs[ch[p]][i].id < fs[ch[q]][j].id
  BY DEF OrderOK
<1>10. ASSUME IsLog(line)
       PROVE  /\ line.id = r + 1 /\ r + 1 <= w /\ PlaceOK(fs, ch, f, pos + 1, r + 1)
              /\ \A n \in DOMAIN fs : \A k \in DOMAIN fs[n] : fs[n][k] = LogLine(r + 1) => n = ch[f]
  <2>1. line.id \in 1..w /\ ~(line.id <= r)
    <3>1. line.id <= r <=> f < f \/ (f = f /\ pos + 1 <= pos)
      BY <1>2, <1>4, <1>6, <1>10 DEF t
    <3> QED BY <3>1, <1>2, <1>3, <1>4, <1>8, <1>10 DEF t
  <2>2. r + 1 \in 1..w
    BY <2>1
  <2>3. PICK p \in DOMAIN ch : \E i \in DOMAIN fs[ch[p]] : fs[ch[p]][i] = LogLine(r + 1)
    BY <2>2 DEF OrderOK
  <2>4. PICK i \in DOMAIN fs[ch[p]] : fs[ch[p]][i] = LogLine(r + 1)
    BY <2>3
  <2>5. IsLog(fs[ch[p]][i]) /\ fs[ch[p]][i].id = r + 1 /\ p \in Nat /\ i \in Nat
    BY <2>4, <1>7 DEF IsLog, LogLine
  <2>6. ~(p < f \/ (p = f /\ i <= pos))
    BY <2>5, <1>6
  <2>7. line.id = r + 1
    <3>1. CASE p = f /\ i = pos + 1
      BY <3>1, <2>5, <1>4 DEF t
    <3>2. CASE f < p \/ (f = p /\ pos + 1 < i)
      <4>1. line.id < r + 1
        BY <3>2, <2>5, <1>2, <1>4, <1>9, <1>10 DEF t
      <4> QED BY <4>1, <2>1
    <3> QED BY <3>1, <3>2, <2>5, <2>6, <1>2, <1>3
  <2>8. ASSUME NEW q \in DOMAIN ch, NEW j \in DOMAIN fs[ch[q]], IsLog(fs[ch[q]][j])
        PROVE  fs[ch[q]][j].id <= r + 1 <=> q < f \/ (q = f /\ j <= pos + 1)
    <3>1. q \in Nat /\ j \in Nat /\ fs[ch[q]][j].id \in Nat
      BY <2>8, <1>7, <1>8
    <3>2. CASE q = f /\ j = pos + 1
      BY <3>2, <2>7, <1>4, <3>1 DEF t
    <3>3. CASE f < q \/ (f = q /\ pos + 1 < j)
      <4>1. line.id < fs[ch[q]][j].id
        BY <3>3, <2>8, <1>2, <1>4, <1>9, <1>10 DEF t
      <4> QED BY <4>1, <3>1, <3>3, <2>7, <1>2, <1>3
    <3>4. CASE q < f \/ (q = f /\ j <= pos)
      <4>1. fs[ch[q]][j].id <= r
        BY <3>4, <2>8, <1>6
      <4> QED BY <4>1, <3>1, <3>4, <1>2, <1>3
    <3> QED BY <3>1, <3>2, <3>3, <3>4, <1>2, <1>3
  <2>9. PlaceOK(fs, ch, f, pos + 1, r + 1)
    BY <2>8, <1>2, <1>5 DEF PlaceOK, t
  <2>10. ASSUME NEW n \in DOMAIN fs, NEW k \in DOMAIN fs[n], fs[n][k] = LogLine(r + 1)
         PROVE  n = ch[f]
    <3>1. PICK q \in DOMAIN ch : ch[q] = n
      BY <1>1
    <3>2. IsLog(fs[ch[q]][k]) /\ fs[ch[q]][k].id = r + 1 /\ q \in Nat /\ k \in DOMAIN fs[ch[q]]
      BY <3>1, <2>10, <1>1 DEF IsLog, LogLine
    <3>3. ~(f < q)
      BY <3>2, <2>7, <1>2, <1>4, <1>9, <1>10 DEF t
    <3>4. ~(q < f)
      <4> SUFFICES ASSUME q < f PROVE fs[ch[q]][k].id < line.id
        BY <3>2, <2>7
      <4> QED BY <3>2, <1>2, <1>4, <1>9, <1>10 DEF t
    <3> QED BY <3>1, <3>2, <3>3, <3>4, <1>2
  <2> QED BY <2>2, <2>7, <2>9, <2>10
<1>11. ASSUME ~IsLog(line) PROVE PlaceOK(fs, ch, f, pos + 1, r)
  <2>1. ASSUME NEW q \in DOMAIN ch, NEW j \in DOMAIN fs[ch[q]], IsLog(fs[ch[q]][j])
        PROVE  fs[ch[q]][j].id <= r <=> q < f \/ (q = f /\ j <= pos + 1)
    <3>1. ~(q = f /\ j = pos + 1)
      BY <2>1, <1>4, <1>11 DEF t
    <3>2. q = f /\ j <= pos + 1 <=> q = f /\ j <= pos
      BY <3>1, <1>3, <1>7
    <3> QED BY <3>2, <2>1, <1>6
  <2> QED BY <2>1, <1>2, <1>5 DEF PlaceOK, t
<1>12. ASSUME IsMarker(line)
       PROVE  /\ f + 1 \in DOMAIN ch /\ PlaceOK(fs, ch, f + 1, 0, r)
              /\ line.kind = "rotate" => ch[f + 1] = GetNextLogFilename(ch[f])
              /\ line.kind = "new" => ch[f + 1] = Name(ch[f + 1][1])
  <2>1. f # Len(ch)
    <3>1. \A i \in DOMAIN fs[file] : ~IsMarker(fs[file][i])
      BY DEF ChainOK
    <3> QED BY <3>1, <1>1, <1>2, <1>4, <1>12 DEF t
  <2>2. f \in 1..(Len(ch) - 1) /\ f + 1 \in DOMAIN ch /\ ch[f + 1] \in DOMAIN fs
    BY <2>1, <1>1, <1>2
  <2>3. /\ \A i \in DOMAIN t : IsMarker(t[i]) <=> i = Len(t)
        /\ IF t[Len(t)].kind = "rotate"
           THEN ch[f + 1] = GetNextLogFilename(ch[f])
           ELSE ch[f + 1] = Name(ch[f + 1][1])
    BY <2>2 DEF ChainOK, t
  <2>4. pos + 1 = Len(t) /\ t[Len(t)] = line
    BY <2>3, <1>4, <1>12
  <2>5. ASSUME NEW q \in DOMAIN ch, NEW j \in DOMAIN fs[ch[q]], IsLog(fs[ch[q]][j])
        PROVE  fs[ch[q]][j].id <= r <=> q < f + 1 \/ (q = f + 1 /\ j <= 0)
    <3>1. q \in Nat /\ j \in Nat /\ j > 0
      BY <1>1, <2>5
    <3>2. q = f => j <= pos
      <4> SUFFICES ASSUME q = f PROVE j <= pos
        OBVIOUS
      <4>1. j \in DOMAIN t /\ j # pos + 1
        BY <2>5, <2>4, <1>12 DEF t, IsLog, IsMarker
      <4> QED BY <4>1, <2>4, <1>3
    <3>3. q < f + 1 \/ (q = f + 1 /\ j <= 0) <=> q < f \/ (q = f /\ j <= pos)
      BY <3>1, <3>2, <1>2
    <3> QED BY <3>3, <2>5, <1>6
  <2>6. 0 \in 0..Len(fs[ch[f + 1]])
    BY <2>2, <1>1
  <2>7. PlaceOK(fs, ch, f + 1, 0, r)
    BY <2>2, <2>5, <2>6 DEF PlaceOK
  <2> QED BY <2>2, <2>3, <2>4, <2>7
<1> QED BY <1>4, <1>10, <1>11, <1>12 DEF IsNext, LeadsOn

-----------------------------------------------------------------------------
(* The lines up to w are where they were.                                  *)

OldLines(fs, gs, w) ==
  \A n \in DOMAIN gs : \A k \in DOMAIN gs[n] : \A x \in 1..w :
    gs[n][k] = LogLine(x) => n \in DOMAIN fs /\ \E j \in DOMAIN fs[n] : fs[n][j] = LogLine(x)

LEMMA OldLinesKept ==
  /\ \A fs, file, w : \A line \in Lines :
       FilesOK(fs, file) /\ w \in Nat /\ (~IsLog(line) \/ line.id > w)
         => OldLines(fs, Written(fs, file, line), w)
  /\ \A fs, file, w : \A new \in FileNames :
       FilesOK(fs, file) /\ new \notin DOMAIN fs => OldLines(fs, Opened(fs, new), w)
  /\ \A fs, gs, hs, w : OldLines(fs, gs, w) /\ OldLines(gs, hs, w) => OldLines(fs, hs, w)
<1>1. ASSUME NEW fs, NEW file, NEW w \in Nat, NEW line \in Lines, FilesOK(fs, file),
             ~IsLog(line) \/ line.id > w
      PROVE  OldLines(fs, Written(fs, file, line), w)
  <2> DEFINE gs == Written(fs, file, line)
  <2>1. /\ DOMAIN gs = DOMAIN fs /\ gs[file] = Append(fs[file], line)
        /\ \A n \in DOMAIN fs : n # file => gs[n] = fs[n]
    BY <1>1, WriteFacts
  <2>2. fs[file] \in Seq(Lines)
    BY <1>1 DEF FilesOK
  <2> HIDE DEF gs
  <2>3. ASSUME NEW n \in DOMAIN gs, NEW k \in DOMAIN gs[n], NEW x \in 1..w, gs[n][k] = LogLine(x)
        PROVE  n \in DOMAIN fs /\ \E j \in DOMAIN fs[n] : fs[n][j] = LogLine(x)
    <3>1. gs[n][k] # line
      BY <2>3, <1>1 DEF IsLog, LogLine
    <3>2. CASE n = file
      <4>1. k \in DOMAIN fs[file] \/ k = Len(fs[file]) + 1
        BY <2>1, <2>2, <2>3, <3>2, AppendLine
      <4>2. k \in DOMAIN fs[file]
        BY <4>1, <2>1, <2>2, <3>1, <3>2, AppendLine
      <4>3. gs[file][k] = fs[file][k]
        BY <4>2, <2>1, <2>2, AppendLine
      <4> QED BY <4>2, <4>3, <3>2, <2>1, <2>3
    <3>3. CASE n # file
      BY <3>3, <2>1, <2>3
    <3> QED BY <3>2, <3>3
  <2> QED BY <2>3 DEF OldLines, gs
<1>2. ASSUME NEW fs, NEW file, NEW w, NEW new \in FileNames, FilesOK(fs, file), new \notin DOMAIN fs
      PROVE  OldLines(fs, Opened(fs, new), w)
  <2> DEFINE gs == Opened(fs, new)
  <2>1. /\ DOMAIN gs = DOMAIN fs \cup {new} /\ gs[new] = <<>>
        /\ \A n \in DOMAIN fs : gs[n] = fs[n]
    BY <1>2, OpenFacts
  <2> HIDE DEF gs
  <2>2. ASSUME NEW n \in DOMAIN gs, NEW k \in DOMAIN gs[n], NEW x \in 1..w, gs[n][k] = LogLine(x)
        PROVE  n \in DOMAIN fs /\ \E j \in DOMAIN fs[n] : fs[n][j] = LogLine(x)
    BY <2>1, <2>2
  <2> QED BY <2>2 DEF OldLines, gs
<1>3. ASSUME NEW fs, NEW gs, NEW hs, NEW w, OldLines(fs, gs, w), OldLines(gs, hs, w)
      PROVE  OldLines(fs, hs, w)
  BY <1>3 DEF OldLines
<1> QED BY <1>1, <1>2, <1>3

-----------------------------------------------------------------------------
(* Commands in a queue.                                                    *)

LEMMA ToldFacts ==
  ASSUME NEW S, NEW cs \in Seq(S), NEW b
  PROVE  /\ NoNew(cs) => OnlyNew(cs, b)
         /\ \A c \in S : ~IsNew(c) => /\ NoNew(cs) => NoNew(Append(cs, c))
                                      /\ OnlyNew(cs, b) => OnlyNew(Append(cs, c), b)
         /\ \A c \in S : NoNew(cs) /\ c.arg = b => OnlyNew(Append(cs, c), b)
         /\ cs # <<>> => /\ NoNew(cs) => NoNew(Tail(cs)) /\ ~IsNew(Head(cs))
                         /\ OnlyNew(cs, b) => OnlyNew(Tail(cs), b)
                         /\ OnlyNew(cs, b) /\ IsNew(Head(cs)) =>
                              Head(cs).arg = b /\ NoNew(Tail(cs))
<1>1. NoNew(cs) => OnlyNew(cs, b)
  BY DEF NoNew, OnlyNew
<1>2. ASSUME NEW c \in S
      PROVE  /\ ~IsNew(c) /\ NoNew(cs) => NoNew(Append(cs, c))
             /\ ~IsNew(c) /\ OnlyNew(cs, b) => OnlyNew(Append(cs, c), b)
             /\ NoNew(cs) /\ c.arg = b => OnlyNew(Append(cs, c), b)
  <2> DEFINE ds == Append(cs, c)
             M == Len(cs)
  <2>1. /\ ds[M + 1] = c
        /\ \A i \in DOMAIN ds : i = M + 1 \/ (i \in DOMAIN cs /\ ds[i] = cs[i])
    OBVIOUS
  <2> HIDE DEF ds, M
  <2>2. ~IsNew(c) /\ NoNew(cs) => NoNew(ds)
    BY <2>1 DEF NoNew
  <2>3. ~IsNew(c) /\ OnlyNew(cs, b) => OnlyNew(ds, b)
    BY <2>1 DEF OnlyNew
  <2>4. NoNew(cs) /\ c.arg = b => OnlyNew(ds, b)
    BY <2>1 DEF NoNew, OnlyNew
  <2> QED BY <2>2, <2>3, <2>4 DEF ds
<1>3. ASSUME cs # <<>>
      PROVE  /\ NoNew(cs) => NoNew(Tail(cs)) /\ ~IsNew(Head(cs))
             /\ OnlyNew(cs, b) => OnlyNew(Tail(cs), b)
             /\ OnlyNew(cs, b) /\ IsNew(Head(cs)) => Head(cs).arg = b /\ NoNew(Tail(cs))
  <2> DEFINE ds == Tail(cs)
  <2>1. /\ 1 \in DOMAIN cs /\ cs[1] = Head(cs)
        /\ \A i \in DOMAIN ds : i + 1 \in DOMAIN cs /\ ds[i] = cs[i + 1] /\ i + 1 # 1
        /\ \A i, j \in DOMAIN ds : i + 1 = j + 1 => i = j
    BY <1>3
  <2> HIDE DEF ds
  <2>2. NoNew(cs) => NoNew(ds) /\ ~IsNew(Head(cs))
    BY <2>1 DEF NoNew
  <2>3. OnlyNew(cs, b) => OnlyNew(ds, b)
    BY <2>1 DEF OnlyNew
  <2>4. OnlyNew(cs, b) /\ IsNew(Head(cs)) => Head(cs).arg = b /\ NoNew(ds)
    BY <2>1 DEF OnlyNew, NoNew
  <2> QED BY <2>2, <2>3, <2>4 DEF ds
<1> QED BY <1>1, <1>2, <1>3

\* A pipe and the feeder's buffer behind it.
LEMMA PipeFacts ==
  ASSUME NEW S, NEW pipe \in Seq(S), NEW buf \in Seq(S)
  PROVE  /\ pipe \o buf \in Seq(S)
         /\ pipe # <<>> => /\ Tail(pipe) \in Seq(S) /\ Head(pipe) \in S /\ pipe \o buf # <<>>
                           /\ Tail(pipe \o buf) = Tail(pipe) \o buf
                           /\ Head(pipe \o buf) = Head(pipe)
         /\ buf # <<>> => /\ Append(pipe, Head(buf)) \in Seq(S) /\ Tail(buf) \in Seq(S)
                          /\ Append(pipe, Head(buf)) # <<>>
                          /\ Append(pipe, Head(buf)) \o Tail(buf) = pipe \o buf
         /\ \A c \in S : /\ Append(buf, c) \in Seq(S)
                         /\ pipe \o Append(buf, c) = Append(pipe \o buf, c)
<1>1. pipe \o buf \in Seq(S)
  OBVIOUS
<1>2. pipe # <<>> => /\ Tail(pipe) \in Seq(S) /\ Head(pipe) \in S /\ pipe \o buf # <<>>
                     /\ Tail(pipe \o buf) = Tail(pipe) \o buf
                     /\ Head(pipe \o buf) = Head(pipe)
  OBVIOUS
<1>3. buf # <<>> => /\ Append(pipe, Head(buf)) \in Seq(S) /\ Tail(buf) \in Seq(S)
                    /\ Append(pipe, Head(buf)) # <<>>
                    /\ Append(pipe, Head(buf)) \o Tail(buf) = pipe \o buf
  OBVIOUS
<1>4. ASSUME NEW c \in S
      PROVE  Append(buf, c) \in Seq(S) /\ pipe \o Append(buf, c) = Append(pipe \o buf, c)
  OBVIOUS
<1> QED BY <1>1, <1>2, <1>3, <1>4

-----------------------------------------------------------------------------
(* The chain when the writer writes.                                       *)

LEMMA WriteKeeps ==
  ASSUME NEW fs, NEW file, NEW w \in Nat, NEW new, InChain(fs, file, w, new),
         Len(recorded) \in 0..w, NEW line \in Lines, NEW v \in Nat,
         \/ line = LogLine(w + 1) /\ v = w + 1
         \/ line = MaxSizeLine /\ v = w
  PROVE  InChain(Written(fs, file, line), file, v, new)
<1> DEFINE gs == Written(fs, file, line)
<1>1. FilesOK(fs, file) /\ RotationOK(fs, file)
  BY DEF InChain
<1>2. PICK ch \in Seq(FileNames) : \E f \in DOMAIN ch :
       /\ ChainOK(fs, ch, file) /\ OrderOK(fs, ch, w)
       /\ ch[f] = fFile /\ PlaceOK(fs, ch, f, fPos, Len(recorded))
       /\ fAlive => PathsOK(ch, f, new, fNext, fPipe \o fBuf)
  BY DEF InChain
<1>3. PICK f \in DOMAIN ch :
       /\ ChainOK(fs, ch, file) /\ OrderOK(fs, ch, w)
       /\ ch[f] = fFile /\ PlaceOK(fs, ch, f, fPos, Len(recorded))
       /\ fAlive => PathsOK(ch, f, new, fNext, fPipe \o fBuf)
  BY <1>2
<1>4. FilesOK(gs, file) /\ DOMAIN gs = DOMAIN fs
  BY <1>1, WriteFacts
<1>5. RotationOK(gs, file)
  BY <1>1, <1>4, RotationKept
<1>6. ChainOK(gs, ch, file) /\ OrderOK(gs, ch, v) /\ PlaceOK(gs, ch, f, fPos, Len(recorded))
  BY <1>1, <1>3, ChainWrite
<1> HIDE DEF gs
<1>7. InChain(gs, file, v, new)
  BY <1>3, <1>4, <1>5, <1>6 DEF InChain
<1> QED BY <1>7 DEF gs

\* n follows file in fs, and asked is then still to be opened.
Follows(fs, file, new, marker, n, asked) ==
  \/ marker = RotateLine /\ n = GetNextLogFilename(file) /\ asked = new
  \/ /\ marker = NewLogLine /\ n = new /\ n = Name(n[1]) /\ n[1] \in Bases
     /\ n \notin DOMAIN fs /\ asked = <<>>

LEMMA NextKeeps ==
  ASSUME NEW fs, NEW file, NEW w \in Nat, NEW new, InChain(fs, file, w, new),
         NEW n \in FileNames, NEW marker \in Lines, NEW asked,
         Follows(fs, file, new, marker, n, asked)
  PROVE  InChain(Continued(fs, file, marker, n), n, w, asked)
<1> DEFINE gs == Continued(fs, file, marker, n)
<1>1. FilesOK(fs, file) /\ RotationOK(fs, file) /\ file \in FileNames
  BY DEF InChain, FilesOK
<1>2. PICK ch \in Seq(FileNames) : \E f \in DOMAIN ch :
       /\ ChainOK(fs, ch, file) /\ OrderOK(fs, ch, w)
       /\ ch[f] = fFile /\ PlaceOK(fs, ch, f, fPos, Len(recorded))
       /\ fAlive => PathsOK(ch, f, new, fNext, fPipe \o fBuf)
  BY DEF InChain
<1>3. PICK f \in DOMAIN ch :
       /\ ChainOK(fs, ch, file) /\ OrderOK(fs, ch, w)
       /\ ch[f] = fFile /\ PlaceOK(fs, ch, f, fPos, Len(recorded))
       /\ fAlive => PathsOK(ch, f, new, fNext, fPipe \o fBuf)
  BY <1>2
<1>4. n \notin DOMAIN fs
  BY <1>1, RotationKept DEF Follows
<1>5. /\ FilesOK(gs, n) /\ DOMAIN gs = DOMAIN fs \cup {n}
      /\ Append(ch, n) \in Seq(FileNames) /\ ChainOK(gs, Append(ch, n), n)
      /\ OrderOK(gs, Append(ch, n), w)
      /\ PlaceOK(gs, Append(ch, n), f, fPos, Len(recorded))
  <2>1. Announces(marker, file, n)
    BY DEF Announces, Follows
  <2>2. ChainOK(fs, ch, file) /\ OrderOK(fs, ch, w) /\ FilesOK(fs, file)
    BY <1>1, <1>3
  <2>3. DOMAIN gs = DOMAIN fs \cup {n}
    <3>1. FilesOK(Written(fs, file, marker), file) /\ DOMAIN Written(fs, file, marker) = DOMAIN fs
      BY <2>2, WriteFacts
    <3>2. n \notin DOMAIN Written(fs, file, marker)
      BY <3>1, <1>4
    <3>3. DOMAIN gs = DOMAIN Written(fs, file, marker) \cup {n}
      BY <3>1, <3>2, OpenFacts DEF Continued
    <3> QED BY <3>1, <3>3
  <2> HIDE DEF gs
  <2>4. /\ FilesOK(gs, n) /\ Append(ch, n) \in Seq(FileNames)
        /\ ChainOK(gs, Append(ch, n), n) /\ OrderOK(gs, Append(ch, n), w)
        /\ PlaceOK(fs, ch, f, fPos, Len(recorded))
             => PlaceOK(gs, Append(ch, n), f, fPos, Len(recorded))
    BY <2>1, <2>2, <1>4, ChainNext DEF gs
  <2> QED BY <2>3, <2>4, <1>3
<1> HIDE DEF gs
<1>6. RotationOK(gs, n)
  <2>1. CASE n = GetNextLogFilename(file)
    BY <2>1, <1>1, <1>5, RotationKept
  <2>2. CASE n = Name(n[1]) /\ n[1] \in Bases
    <3>1. PICK b \in Bases : n = Name(b)
      BY <2>2
    <3> QED BY <3>1, <1>1, <1>4, <1>5, RotationKept
  <2> QED BY <2>1, <2>2 DEF Follows
<1>7. fAlive => PathsOK(Append(ch, n), f, asked, fNext, fPipe \o fBuf)
  <2>1. \/ n = new /\ asked = <<>>
        \/ n # Name(n[1]) /\ asked = new
    BY <1>1, NextName DEF Follows
  <2> QED BY <1>3, <2>1, PathsGrow
<1>8. f \in DOMAIN Append(ch, n) /\ Append(ch, n)[f] = fFile
  BY <1>3
<1>9. InChain(gs, n, w, asked)
  BY <1>5, <1>6, <1>7, <1>8 DEF InChain
<1> QED BY <1>9 DEF gs

-----------------------------------------------------------------------------
(* The invariant is inductive.                                             *)

LEMMA Numbers ==
  ASSUME DataOK, QueueInv
  PROVE  /\ produced \in Nat /\ Len(logQueue) \in Nat /\ WrittenSoFar \in Nat
         /\ Len(recorded) \in Nat /\ MaxSizes \subseteq Nat /\ MaxLines \in Nat
  BY PipelineAssumption DEF DataOK, QueueInv, WrittenSoFar

\* Neither the files nor what the filter was told change.
LEMMA ChainSame ==
  ASSUME ChainInv, UNCHANGED <<files, wFile, fFile, fPos, fNext, fEvents, recorded>>,
         WrittenSoFar' = WrittenSoFar, Asked' = Asked,
         fPipe' \o fBuf' = fPipe \o fBuf, fAlive' => fAlive
  PROVE  ChainInv'
<1>1. PICK ch \in Seq(FileNames) : \E f \in DOMAIN ch :
       /\ ChainOK(files, ch, wFile) /\ OrderOK(files, ch, WrittenSoFar)
       /\ ch[f] = fFile /\ PlaceOK(files, ch, f, fPos, Len(recorded))
       /\ fAlive => PathsOK(ch, f, Asked, fNext, fPipe \o fBuf)
  BY DEF ChainInv, InChain
<1>2. PICK f \in DOMAIN ch :
       /\ ChainOK(files, ch, wFile) /\ OrderOK(files, ch, WrittenSoFar)
       /\ ch[f] = fFile /\ PlaceOK(files, ch, f, fPos, Len(recorded))
       /\ fAlive => PathsOK(ch, f, Asked, fNext, fPipe \o fBuf)
  BY <1>1
<1>3. FilesOK(files', wFile') /\ RotationOK(files', wFile')
  BY DEF ChainInv, InChain
<1>4. /\ ChainOK(files', ch, wFile') /\ OrderOK(files', ch, WrittenSoFar')
      /\ ch[f] = fFile' /\ PlaceOK(files', ch, f, fPos', Len(recorded'))
      /\ fAlive' => PathsOK(ch, f, Asked', fNext', fPipe' \o fBuf')
  BY <1>2
<1> QED BY <1>3, <1>4 DEF ChainInv, InChain

LEMMA EventsSame ==
  ASSUME EventsInv, UNCHANGED <<files, fFile, fEvents, recorded>>, WrittenSoFar' = WrittenSoFar
  PROVE  EventsInv'
  BY DEF EventsInv, EventsAreLogPrefix, EventsWithTheirLog

LEMMA KeepsProduce == ASSUME Inv, Produce PROVE Inv'
<1> USE DEF Inv
<1>1. /\ produced \in Nat /\ Len(logQueue) \in Nat /\ logQueue \in Seq(Nat) /\ MaxLines \in Nat
      /\ WrittenSoFar \in Nat
  BY Numbers DEF DataOK
<1>2. /\ produced < MaxLines /\ produced' = produced + 1
      /\ logQueue' = Append(logQueue, produced + 1)
  BY DEF Produce
<1>3. /\ Len(logQueue') = Len(logQueue) + 1 /\ logQueue' \in Seq(Nat)
      /\ logQueue'[Len(logQueue) + 1] = produced + 1
      /\ \A i \in DOMAIN logQueue' :
           i = Len(logQueue) + 1 \/ (i \in DOMAIN logQueue /\ logQueue'[i] = logQueue[i])
  BY <1>1, <1>2
<1>4. QueueInv' /\ WrittenSoFar' = WrittenSoFar
  <2>1. Len(logQueue') <= produced' /\ WrittenSoFar' = WrittenSoFar
    BY <1>1, <1>2, <1>3 DEF QueueInv, WrittenSoFar
  <2>2. ASSUME NEW i \in DOMAIN logQueue' PROVE logQueue'[i] = produced' - Len(logQueue') + i
    <3>1. CASE i = Len(logQueue) + 1
      BY <3>1, <1>1, <1>2, <1>3
    <3>2. CASE i \in DOMAIN logQueue /\ logQueue'[i] = logQueue[i]
      <4>1. logQueue[i] = produced - Len(logQueue) + i /\ i \in Nat
        BY <3>2, <1>1 DEF QueueInv
      <4> QED BY <4>1, <3>2, <1>1, <1>2, <1>3
    <3> QED BY <3>1, <3>2, <1>3
  <2> QED BY <2>1, <2>2 DEF QueueInv
<1>5. /\ UNCHANGED <<files, wAlive, wpc, wFile, wMax, fAlive, fpc, fFile, fPos, fNext, fEvents>>
      /\ UNCHANGED <<wBuf, wPipe, fBuf, fPipe, mpc, target, calls, recorded>>
  BY DEF Produce, writer, filter, queues, main
<1>6. DataOK'
  BY <1>1, <1>2, <1>3, <1>5 DEF DataOK
<1>7. CallInv'
  BY <1>5 DEF CallInv
<1>8. ChainInv' /\ EventsInv'
  BY <1>4, <1>5, ChainSame, EventsSame DEF Asked
<1> QED BY <1>4, <1>6, <1>7, <1>8

LEMMA KeepsNoCommand == ASSUME Inv, WriterNoCommand \/ FilterNoCommand PROVE Inv'
<1> USE DEF Inv
<1>1. /\ UNCHANGED <<produced, logQueue, files, wAlive, wFile, wMax>>
      /\ UNCHANGED <<fAlive, fFile, fPos, fNext, fEvents>>
      /\ UNCHANGED <<wBuf, wPipe, fBuf, fPipe, mpc, target, calls, recorded>>
      /\ wpc' \in {wpc, "line"} /\ fpc' \in {fpc, "read"}
  BY DEF WriterNoCommand, FilterNoCommand, writer, filter, queues, main
<1>2. DataOK'
  BY <1>1 DEF DataOK
<1>3. QueueInv' /\ WrittenSoFar' = WrittenSoFar
  BY <1>1 DEF QueueInv, WrittenSoFar
<1>4. CallInv'
  BY <1>1 DEF CallInv
<1>5. ChainInv' /\ EventsInv'
  BY <1>1, <1>3, ChainSame, EventsSame DEF Asked
<1> QED BY <1>2, <1>3, <1>4, <1>5

LEMMA KeepsFeed == ASSUME Inv, Feed PROVE Inv'
<1> USE DEF Inv
<1>1. /\ UNCHANGED <<produced, logQueue, files, wAlive, wpc, wFile, wMax>>
      /\ UNCHANGED <<fAlive, fpc, fFile, fPos, fNext, fEvents, mpc, target, calls, recorded>>
  BY DEF Feed, writer, filter, main
<1>2. /\ wPipe \in Seq(WriterCmds) /\ wBuf \in Seq(WriterCmds)
      /\ fPipe \in Seq(FilterCmds) /\ fBuf \in Seq(FilterCmds)
  BY DEF DataOK
<1>3. /\ wPipe' \in Seq(WriterCmds) /\ wBuf' \in Seq(WriterCmds)
      /\ fPipe' \in Seq(FilterCmds) /\ fBuf' \in Seq(FilterCmds)
      /\ wPipe' \o wBuf' = wPipe \o wBuf /\ fPipe' \o fBuf' = fPipe \o fBuf
      /\ fPipe # <<>> => fPipe' # <<>>
  <2>1. CASE wBuf # <<>> /\ wPipe' = Append(wPipe, Head(wBuf)) /\ wBuf' = Tail(wBuf)
             /\ UNCHANGED <<fBuf, fPipe>>
    BY <2>1, <1>2, PipeFacts, SMTT(40)
  <2>2. CASE fBuf # <<>> /\ fPipe' = Append(fPipe, Head(fBuf)) /\ fBuf' = Tail(fBuf)
             /\ UNCHANGED <<wBuf, wPipe>>
    <3>1. /\ Append(fPipe, Head(fBuf)) \in Seq(FilterCmds) /\ Tail(fBuf) \in Seq(FilterCmds)
          /\ Append(fPipe, Head(fBuf)) # <<>>
          /\ Append(fPipe, Head(fBuf)) \o Tail(fBuf) = fPipe \o fBuf
      BY <2>2, <1>2, PipeFacts
    <3> QED BY <3>1, <2>2, <1>2
  <2> QED BY <2>1, <2>2 DEF Feed
<1>4. DataOK'
  BY <1>1, <1>3 DEF DataOK
<1>5. QueueInv' /\ WrittenSoFar' = WrittenSoFar
  BY <1>1 DEF QueueInv, WrittenSoFar
<1>6. CallInv'
  BY <1>1, <1>3 DEF CallInv
<1>7. ChainInv' /\ EventsInv'
  BY <1>1, <1>3, <1>5, ChainSame, EventsSame DEF Asked
<1> QED BY <1>4, <1>5, <1>6, <1>7

\* The waits of the calls.
LEMMA KeepsWaits == ASSUME Inv, NewLogReturns \/ CallReturns \/ CallTimesOut PROVE Inv'
<1> USE DEF Inv
<1>1. /\ UNCHANGED <<produced, logQueue, files, wpc, wFile, wMax, fpc, fFile, fPos, fNext>>
      /\ UNCHANGED <<fEvents, wBuf, wPipe, fBuf, fPipe, target, calls, recorded>>
      /\ mpc' \in {"idle", "newFile"}
      /\ wAlive' = wAlive \/ wAlive' = FALSE
      /\ fAlive' = fAlive \/ fAlive' = FALSE
  BY DEF NewLogReturns, CallReturns, CallTimesOut, writer, filter, queues
<1>2. DataOK'
  BY <1>1 DEF DataOK
<1>3. QueueInv' /\ WrittenSoFar' = WrittenSoFar
  BY <1>1 DEF QueueInv, WrittenSoFar
<1>4. (wAlive' => wAlive) /\ (fAlive' => fAlive)
  <2>1. wAlive' => wAlive
    <3>1. CASE wAlive' = wAlive
      BY <3>1
    <3>2. CASE wAlive' = FALSE
      BY <3>2
    <3> QED BY <1>1, <3>1, <3>2
  <2>2. fAlive' => fAlive
    <3>1. CASE fAlive' = fAlive
      BY <3>1
    <3>2. CASE fAlive' = FALSE
      BY <3>2
    <3> QED BY <1>1, <3>1, <3>2
  <2> QED BY <2>1, <2>2
<1>5. CallInv'
  <2>1. CASE NewLogReturns
    <3>1. UNCHANGED <<wAlive, fAlive>>
      BY <2>1 DEF NewLogReturns, writer, filter
    <3>2. CASE mpc = "newWriter" /\ mpc' = "newFile"
      BY <3>1, <3>2, <1>1 DEF CallInv
    <3>3. CASE mpc = "newFile" /\ Name(target) \in DOMAIN files /\ mpc' = "idle"
      BY <3>1, <3>3, <1>1 DEF CallInv
    <3> QED BY <2>1, <3>2, <3>3 DEF NewLogReturns
  <2>2. CASE CallReturns
    <3>1. UNCHANGED <<wAlive, fAlive>> /\ mpc \in {"writer", "filter"} /\ mpc' = "idle"
      BY <2>2 DEF CallReturns, writer, filter
    <3> QED BY <3>1, <1>1 DEF CallInv
  <2>3. CASE CallTimesOut
    <3>1. mpc' = "idle"
      BY <2>3 DEF CallTimesOut
    <3>2. CASE mpc \in {"newFilter", "filter"} /\ fPipe # <<>> /\ fAlive' = FALSE /\ UNCHANGED wAlive
      BY <3>1, <3>2, <1>1 DEF CallInv
    <3>3. CASE wAlive' = FALSE
      BY <3>1, <3>3, <1>1 DEF CallInv
    <3> QED BY <2>3, <3>2, <3>3 DEF CallTimesOut
  <2> QED BY <2>1, <2>2, <2>3
<1>6. ChainInv' /\ EventsInv'
  BY <1>1, <1>3, <1>4, ChainSame, EventsSame DEF Asked
<1> QED BY <1>2, <1>3, <1>5, <1>6

\* A command for the filter is put in its queue or taken out of it.
PathsKept ==
  \A ch \in Seq(FileNames) : \A f \in DOMAIN ch :
    /\ fAlive /\ ChainOK(files, ch, wFile)
    /\ PathsOK(ch, f, Asked, fNext, fPipe \o fBuf)
    => PathsOK(ch, f, Asked', fNext', fPipe' \o fBuf')

LEMMA ChainTold ==
  ASSUME ChainInv, UNCHANGED <<files, wFile, fAlive, fFile, fPos, recorded>>,
         WrittenSoFar' = WrittenSoFar, PathsKept
  PROVE  ChainInv'
<1>1. PICK ch \in Seq(FileNames) : \E f \in DOMAIN ch :
       /\ ChainOK(files, ch, wFile) /\ OrderOK(files, ch, WrittenSoFar)
       /\ ch[f] = fFile /\ PlaceOK(files, ch, f, fPos, Len(recorded))
       /\ fAlive => PathsOK(ch, f, Asked, fNext, fPipe \o fBuf)
  BY DEF ChainInv, InChain
<1>2. PICK f \in DOMAIN ch :
       /\ ChainOK(files, ch, wFile) /\ OrderOK(files, ch, WrittenSoFar)
       /\ ch[f] = fFile /\ PlaceOK(files, ch, f, fPos, Len(recorded))
       /\ fAlive => PathsOK(ch, f, Asked, fNext, fPipe \o fBuf)
  BY <1>1
<1>3. FilesOK(files', wFile') /\ RotationOK(files', wFile')
  BY DEF ChainInv, InChain
<1>4. fAlive' => PathsOK(ch, f, Asked', fNext', fPipe' \o fBuf')
  BY <1>2 DEF PathsKept
<1>5. /\ ChainOK(files', ch, wFile') /\ OrderOK(files', ch, WrittenSoFar')
      /\ ch[f] = fFile' /\ PlaceOK(files', ch, f, fPos', Len(recorded'))
  BY <1>2
<1> QED BY <1>3, <1>4, <1>5 DEF ChainInv, InChain

LEMMA KeepsStartNewLog == ASSUME Inv, NEW b \in Bases, StartNewLog(b) PROVE Inv'
<1> USE DEF Inv
<1> DEFINE c == [cmd |-> "NEW_LOG_FILE", arg |-> b]
<1>1. /\ mpc = "idle" /\ wAlive /\ calls < MaxCalls /\ calls' = calls + 1
      /\ Name(b) \notin DOMAIN files /\ fBuf' = Append(fBuf, c) /\ fPipe' = fPipe
      /\ target' = b /\ mpc' = "newFilter"
  BY DEF StartNewLog, NewCall, Fresh, SendToFilter
<1>2. /\ UNCHANGED <<produced, logQueue, files, wAlive, wpc, wFile, wMax>>
      /\ UNCHANGED <<fAlive, fpc, fFile, fPos, fNext, fEvents, wBuf, wPipe, recorded>>
  BY DEF StartNewLog, writer, filter
<1>3. c \in FilterCmds /\ IsNew(c) /\ c.arg = b
  BY DEF FilterCmds, IsNew
<1> HIDE DEF c
<1>4. /\ fPipe \in Seq(FilterCmds) /\ fBuf \in Seq(FilterCmds) /\ wPipe \in Seq(WriterCmds)
      /\ wBuf \in Seq(WriterCmds) /\ fNext \in Seq({Name(a) : a \in Bases})
      /\ calls \in 0..MaxCalls /\ MaxCalls \in Nat
  BY PipelineAssumption DEF DataOK
<1>5. /\ fPipe \o fBuf \in Seq(FilterCmds) /\ fBuf' \in Seq(FilterCmds)
      /\ fPipe' \o fBuf' = Append(fPipe \o fBuf, c)
  BY <1>1, <1>3, <1>4, PipeFacts
<1>6. DataOK'
  BY <1>1, <1>2, <1>4, <1>5 DEF DataOK
<1>7. QueueInv' /\ WrittenSoFar' = WrittenSoFar
  BY <1>2 DEF QueueInv, WrittenSoFar
<1>8. CallInv'
  <2>1. NoNew(wPipe \o wBuf)
    BY <1>1 DEF CallInv
  <2>2. OnlyNew(wPipe \o wBuf, b)
    BY <2>1, <1>4, PipeFacts, ToldFacts
  <2>3. ~fAlive' /\ wAlive' => fPipe' # <<>>
    BY <1>1, <1>2 DEF CallInv
  <2> QED BY <2>1, <2>2, <2>3, <1>1, <1>2 DEF CallInv
<1>9. PathsKept
  <2> SUFFICES ASSUME NEW ch \in Seq(FileNames), NEW f \in DOMAIN ch, fAlive,
                      ChainOK(files, ch, wFile), PathsOK(ch, f, Asked, fNext, fPipe \o fBuf)
               PROVE  PathsOK(ch, f, Asked', fNext', fPipe' \o fBuf')
    BY DEF PathsKept
  <2>1. Asked = <<>> /\ Asked' = Name(b)
    BY <1>1, <1>2 DEF Asked, CallInv
  <2>2. \A p \in DOMAIN ch : ch[p] # Name(b)
    BY <1>1, ChainFacts DEF ChainInv, InChain
  <2>3. PathsOK(ch, f, Name(b), fNext, Append(fPipe \o fBuf, c))
    BY <2>1, <2>2, <1>3, <1>4, <1>5, PathsAsk
  <2> QED BY <2>1, <2>3, <1>2, <1>5
<1>10. ChainInv' /\ EventsInv'
  BY <1>2, <1>7, <1>9, ChainTold, EventsSame
<1> QED BY <1>6, <1>7, <1>8, <1>10

LEMMA KeepsAddNewFilter == ASSUME Inv, AddNewFilter PROVE Inv'
<1> USE DEF Inv
<1> DEFINE c == [cmd |-> "ADD_NEW_FILTER", arg |-> target]
<1>1. /\ mpc = "idle" /\ fAlive /\ calls < MaxCalls /\ calls' = calls + 1
      /\ fBuf' = Append(fBuf, c) /\ fPipe' = fPipe /\ mpc' = "filter"
  BY DEF AddNewFilter, NewCall, SendToFilter
<1>2. /\ UNCHANGED <<produced, logQueue, files, wAlive, wpc, wFile, wMax, target>>
      /\ UNCHANGED <<fAlive, fpc, fFile, fPos, fNext, fEvents, wBuf, wPipe, recorded>>
  BY DEF AddNewFilter, writer, filter
<1>3. c \in FilterCmds /\ ~IsNew(c)
  BY DEF FilterCmds, IsNew, DataOK
<1> HIDE DEF c
<1>4. /\ fPipe \in Seq(FilterCmds) /\ fBuf \in Seq(FilterCmds)
      /\ calls \in 0..MaxCalls /\ MaxCalls \in Nat
  BY PipelineAssumption DEF DataOK
<1>5. /\ fPipe \o fBuf \in Seq(FilterCmds) /\ fBuf' \in Seq(FilterCmds)
      /\ fPipe' \o fBuf' = Append(fPipe \o fBuf, c)
  BY <1>1, <1>3, <1>4, PipeFacts
<1>6. DataOK'
  BY <1>1, <1>2, <1>4, <1>5 DEF DataOK
<1>7. QueueInv' /\ WrittenSoFar' = WrittenSoFar
  BY <1>2 DEF QueueInv, WrittenSoFar
<1>8. CallInv'
  BY <1>1, <1>2 DEF CallInv
<1>9. PathsKept
  <2> SUFFICES ASSUME NEW ch \in Seq(FileNames), NEW f \in DOMAIN ch, fAlive,
                      ChainOK(files, ch, wFile), PathsOK(ch, f, Asked, fNext, fPipe \o fBuf)
               PROVE  PathsOK(ch, f, Asked', fNext', fPipe' \o fBuf')
    BY DEF PathsKept
  <2>1. PathsOK(ch, f, Asked, fNext, Append(fPipe \o fBuf, c))
    BY <1>3, <1>5, PathsOther
  <2> QED BY <2>1, <1>2, <1>5 DEF Asked
<1>10. ChainInv' /\ EventsInv'
  BY <1>2, <1>7, <1>9, ChainTold, EventsSame
<1> QED BY <1>6, <1>7, <1>8, <1>10

\* A command for the writer.
LEMMA KeepsToWriter ==
  ASSUME Inv, NewLogToWriter \/ \E size \in MaxSizes : SetMaxLogSize(size) PROVE Inv'
<1> USE DEF Inv
<1>1. /\ UNCHANGED <<produced, logQueue, files, wAlive, wpc, wFile, wMax, target>>
      /\ UNCHANGED <<fAlive, fpc, fFile, fPos, fNext, fEvents, wPipe, fBuf, fPipe, recorded>>
  BY DEF NewLogToWriter, SetMaxLogSize, SendToWriter, writer, filter
<1>2. wPipe \in Seq(WriterCmds) /\ wBuf \in Seq(WriterCmds) /\ wPipe \o wBuf \in Seq(WriterCmds)
  BY PipeFacts DEF DataOK
<1>3. wBuf' \in Seq(WriterCmds) /\ CallInv' /\ mpc' \in {"newWriter", "writer"}
      /\ calls' \in 0..MaxCalls
  <2>1. CASE NewLogToWriter
    <3> DEFINE c == [cmd |-> "NEW_LOG_FILE", arg |-> target]
    <3>1. /\ mpc = "newFilter" /\ fPipe = <<>> /\ wBuf' = Append(wBuf, c)
          /\ mpc' = "newWriter" /\ calls' = calls
      BY <2>1 DEF NewLogToWriter, SendToWriter
    <3>2. c \in WriterCmds /\ c.arg = target
      BY DEF WriterCmds, DataOK
    <3> HIDE DEF c
    <3>3. wBuf' \in Seq(WriterCmds) /\ wPipe \o wBuf' = Append(wPipe \o wBuf, c)
      BY <3>1, <3>2, <1>2, PipeFacts
    <3>4. wAlive => OnlyNew(Append(wPipe \o wBuf, c), target)
      <4> SUFFICES ASSUME wAlive PROVE OnlyNew(Append(wPipe \o wBuf, c), target)
        OBVIOUS
      <4>1. NoNew(wPipe \o wBuf)
        BY <3>1 DEF CallInv
      <4> QED BY <4>1, <3>2, <1>2, ToldFacts
    <3>5. Name(target) \notin DOMAIN files /\ (~fAlive => ~wAlive)
      BY <3>1 DEF CallInv
    <3>6. CallInv'
      BY <3>1, <3>3, <3>4, <3>5, <1>1 DEF CallInv
    <3> QED BY <3>1, <3>3, <3>6 DEF DataOK
  <2>2. CASE \E size \in MaxSizes : SetMaxLogSize(size)
    <3>1. PICK size \in MaxSizes : SetMaxLogSize(size)
      BY <2>2
    <3> DEFINE c == [cmd |-> "MAX_LOG_SIZE", arg |-> size]
    <3>2. /\ mpc = "idle" /\ wAlive /\ wBuf' = Append(wBuf, c)
          /\ mpc' = "writer" /\ calls < MaxCalls /\ calls' = calls + 1
      BY <3>1 DEF SetMaxLogSize, NewCall, SendToWriter
    <3>3. c \in WriterCmds /\ ~IsNew(c)
      BY DEF WriterCmds, IsNew
    <3> HIDE DEF c
    <3>4. wBuf' \in Seq(WriterCmds) /\ wPipe \o wBuf' = Append(wPipe \o wBuf, c)
      BY <3>2, <3>3, <1>2, PipeFacts
    <3>5. NoNew(wPipe \o wBuf) /\ OnlyNew(wPipe \o wBuf, target)
      BY <3>2 DEF CallInv
    <3>6. NoNew(wPipe' \o wBuf') /\ OnlyNew(wPipe' \o wBuf', target')
      <4>1. NoNew(Append(wPipe \o wBuf, c))
        BY <3>3, <3>5, <1>2, ToldFacts
      <4>2. OnlyNew(Append(wPipe \o wBuf, c), target)
        BY <3>3, <3>5, <1>2, ToldFacts
      <4>3. wPipe' \o wBuf' = Append(wPipe \o wBuf, c) /\ target' = target
        BY <3>4, <1>1
      <4> QED BY <4>1, <4>2, <4>3
    <3>7. CallInv'
      BY <3>2, <3>6, <1>1 DEF CallInv
    <3>8. calls' \in 0..MaxCalls
      BY <3>2, PipelineAssumption DEF DataOK
    <3> QED BY <3>2, <3>4, <3>7, <3>8
  <2> QED BY <2>1, <2>2
<1>4. DataOK'
  BY <1>1, <1>3 DEF DataOK
<1>5. QueueInv' /\ WrittenSoFar' = WrittenSoFar
  BY <1>1 DEF QueueInv, WrittenSoFar
<1>6. ChainInv' /\ EventsInv'
  BY <1>1, <1>5, ChainSame, EventsSame DEF Asked
<1> QED BY <1>3, <1>4, <1>5, <1>6

\* The filter takes a command.
LEMMA KeepsFilterCommand == ASSUME Inv, FilterCommand PROVE Inv'
<1> USE DEF Inv
<1>1. /\ fAlive /\ fPipe # <<>> /\ fPipe' = Tail(fPipe) /\ fpc' = "read"
      /\ IsNew(Head(fPipe)) => fNext' = <<Name(Head(fPipe).arg)>> \o fNext
      /\ ~IsNew(Head(fPipe)) => fNext' = fNext
  BY DEF FilterCommand, PushPath, IsNew
<1>2. /\ UNCHANGED <<produced, logQueue, files, wAlive, wpc, wFile, wMax, target, mpc, calls>>
      /\ UNCHANGED <<fAlive, fFile, fPos, fEvents, wPipe, wBuf, fBuf, recorded>>
  BY DEF FilterCommand, writer, main
<1>3. /\ fPipe \in Seq(FilterCmds) /\ fBuf \in Seq(FilterCmds)
      /\ fNext \in Seq({Name(a) : a \in Bases})
  BY DEF DataOK
<1>4. /\ fPipe' \in Seq(FilterCmds) /\ Head(fPipe) \in FilterCmds
      /\ fPipe \o fBuf \in Seq(FilterCmds) /\ fPipe \o fBuf # <<>>
      /\ Tail(fPipe \o fBuf) = fPipe' \o fBuf' /\ Head(fPipe \o fBuf) = Head(fPipe)
  BY <1>1, <1>2, <1>3, PipeFacts
<1>5. fNext' \in Seq({Name(a) : a \in Bases})
  <2>1. Name(Head(fPipe).arg) \in {Name(a) : a \in Bases}
    BY <1>4 DEF FilterCmds
  <2>2. <<Name(Head(fPipe).arg)>> \o fNext \in Seq({Name(a) : a \in Bases})
    BY <2>1, <1>3
  <2> QED BY <2>2, <1>1, <1>3
<1>6. DataOK'
  BY <1>1, <1>2, <1>4, <1>5 DEF DataOK
<1>7. QueueInv' /\ WrittenSoFar' = WrittenSoFar
  BY <1>2 DEF QueueInv, WrittenSoFar
<1>8. CallInv'
  BY <1>1, <1>2 DEF CallInv
<1>9. PathsKept
  <2> SUFFICES ASSUME NEW ch \in Seq(FileNames), NEW f \in DOMAIN ch, fAlive,
                      ChainOK(files, ch, wFile), PathsOK(ch, f, Asked, fNext, fPipe \o fBuf)
               PROVE  PathsOK(ch, f, Asked', fNext', fPipe' \o fBuf')
    BY DEF PathsKept
  <2>1. /\ ~IsNew(Head(fPipe \o fBuf)) => PathsOK(ch, f, Asked, fNext, Tail(fPipe \o fBuf))
        /\ IsNew(Head(fPipe \o fBuf)) =>
             PathsOK(ch, f, Asked, <<Name(Head(fPipe \o fBuf).arg)>> \o fNext, Tail(fPipe \o fBuf))
    BY <1>3, <1>4, PathsTold
  <2>2. Asked' = Asked
    BY <1>2 DEF Asked
  <2> QED BY <2>1, <2>2, <1>1, <1>4
<1>10. ChainInv' /\ EventsInv'
  BY <1>2, <1>7, <1>9, ChainTold, EventsSame
<1> QED BY <1>6, <1>7, <1>8, <1>10

\* The writer wrote: the events are still those of the lines they are about.
LEMMA ChainWritten ==
  ASSUME EventsInv, UNCHANGED <<fAlive, fFile, fPos, fNext, fEvents, fBuf, fPipe, recorded>>,
         InChain(files', wFile', WrittenSoFar', Asked'),
         WrittenSoFar \in Nat, WrittenSoFar' \in Nat, WrittenSoFar' >= WrittenSoFar,
         Len(recorded) \in 0..WrittenSoFar, recorded \in Seq([events : FileNames, id : Nat]),
         OldLines(files, files', WrittenSoFar)
  PROVE  ChainInv' /\ EventsInv'
<1>1. ChainInv'
  BY DEF ChainInv, InChain
<1>2. \A i \in DOMAIN recorded : recorded[i].id = i /\ i \in 1..WrittenSoFar
  BY DEF EventsInv, EventsAreLogPrefix
<1>3. EventsWithTheirLog'
  <2> SUFFICES ASSUME NEW i \in DOMAIN recorded, NEW n \in DOMAIN files',
                      NEW k \in DOMAIN files'[n], files'[n][k] = LogLine(recorded[i].id)
               PROVE  recorded[i].events = Name(n[1])
    BY DEF EventsWithTheirLog
  <2>1. n \in DOMAIN files /\ \E j \in DOMAIN files[n] : files[n][j] = LogLine(recorded[i].id)
    BY <1>2 DEF OldLines
  <2> QED BY <2>1 DEF EventsInv, EventsWithTheirLog
<1>4. EventsInv'
  BY <1>3 DEF EventsInv, EventsAreLogPrefix
<1> QED BY <1>1, <1>4

\* The writer takes a command and writes its marker or its line.
LEMMA KeepsWriterCommand == ASSUME Inv, WriterCommand PROVE Inv'
<1> USE DEF Inv
<1>1. wAlive /\ wPipe # <<>> /\ wPipe' = Tail(wPipe) /\ wpc' = "line"
  BY DEF WriterCommand
<1>2. /\ UNCHANGED <<produced, logQueue, wAlive, target, mpc, calls, fAlive, fpc, fFile, fPos>>
      /\ UNCHANGED <<fNext, fEvents, wBuf, fBuf, fPipe, recorded>>
  BY DEF WriterCommand, filter, main
<1>3. wPipe \in Seq(WriterCmds) /\ wBuf \in Seq(WriterCmds) /\ target \in Bases
  BY DEF DataOK
<1>4. /\ wPipe' \in Seq(WriterCmds) /\ Head(wPipe) \in WriterCmds
      /\ wPipe \o wBuf \in Seq(WriterCmds) /\ wPipe \o wBuf # <<>>
      /\ Tail(wPipe \o wBuf) = wPipe' \o wBuf' /\ Head(wPipe \o wBuf) = Head(wPipe)
  BY <1>1, <1>2, <1>3, PipeFacts
<1>5. QueueInv' /\ WrittenSoFar' = WrittenSoFar
  BY <1>2 DEF QueueInv, WrittenSoFar
<1>6. WrittenSoFar \in Nat /\ Len(recorded) \in 0..WrittenSoFar
  BY Numbers DEF EventsInv
<1>7. FilesOK(files, wFile) /\ wFile \in DOMAIN files
  BY DEF ChainInv, InChain, FilesOK
<1>8. MaxSizeLine \in Lines /\ NewLogLine \in Lines /\ ~IsLog(MaxSizeLine) /\ ~IsLog(NewLogLine)
  BY DEF MaxSizeLine, NewLogLine, Lines, IsLog
<1>9. CASE ~IsNew(Head(wPipe))
  <2>1. /\ files' = Written(files, wFile, MaxSizeLine) /\ wMax' = Head(wPipe).arg
        /\ wFile' = wFile /\ wMax' \in MaxSizes
    <3>1. Head(wPipe).cmd = "MAX_LOG_SIZE" /\ Head(wPipe).arg \in MaxSizes
      BY <1>4, <1>9 DEF WriterCmds, IsNew
    <3> QED BY <3>1 DEF WriterCommand
  <2>2. DOMAIN files' = DOMAIN files /\ Asked' = Asked
    BY <2>1, <1>2, <1>7, <1>8, WriteFacts DEF Asked
  <2>3. InChain(files', wFile', WrittenSoFar, Asked)
    BY <2>1, <1>6, <1>8, WriteKeeps DEF ChainInv
  <2>4. OldLines(files, files', WrittenSoFar)
    BY <2>1, <1>6, <1>7, <1>8, OldLinesKept
  <2>5. CallInv'
    <3>1. /\ NoNew(wPipe \o wBuf) => NoNew(wPipe' \o wBuf')
          /\ OnlyNew(wPipe \o wBuf, target) => OnlyNew(wPipe' \o wBuf', target)
      BY <1>4, ToldFacts, ZenonT(40)
    <3> QED BY <3>1, <2>2, <1>1, <1>2 DEF CallInv
  <2>6. DataOK'
    BY <2>1, <1>1, <1>2, <1>4 DEF DataOK
  <2>7. ChainInv' /\ EventsInv'
    <3>1. recorded \in Seq([events : FileNames, id : Nat])
      BY DEF DataOK
    <3>2. InChain(files', wFile', WrittenSoFar', Asked')
      BY <2>2, <2>3, <1>5
    <3> QED BY <3>1, <3>2, <2>4, <1>2, <1>5, <1>6, ChainWritten
  <2> QED BY <2>7, <2>5, <2>6, <1>5
<1>10. CASE IsNew(Head(wPipe))
  <2>1. OnlyNew(wPipe \o wBuf, target) /\ ~NoNew(wPipe \o wBuf)
    BY <1>1, <1>4, <1>10, ToldFacts DEF CallInv
  <2>2. /\ Head(wPipe).arg = target /\ NoNew(wPipe' \o wBuf')
        /\ OnlyNew(wPipe' \o wBuf', target)
    <3>1. /\ IsNew(Head(wPipe \o wBuf)) => Head(wPipe \o wBuf).arg = target
          /\ IsNew(Head(wPipe \o wBuf)) => NoNew(Tail(wPipe \o wBuf))
      BY <2>1, <1>4, ToldFacts
    <3>2. Head(wPipe).arg = target /\ NoNew(wPipe' \o wBuf')
      BY <3>1, <1>4, <1>10
    <3> QED BY <3>2 DEF NoNew, OnlyNew
  <2>3. Name(target) \notin DOMAIN files /\ mpc \in {"newWriter", "newFile"}
    BY <2>1, <1>1 DEF CallInv
  <2>4. /\ files' = Continued(files, wFile, NewLogLine, Name(target)) /\ wFile' = Name(target)
        /\ wMax' = wMax
    <3>1. Head(wPipe).cmd = "NEW_LOG_FILE"
      BY <1>10 DEF IsNew
    <3> QED BY <3>1, <2>2 DEF WriterCommand, Continued
  <2>5. /\ Name(target) \in FileNames /\ Name(target)[1] = target
        /\ Name(target) = Name(Name(target)[1])
    BY <1>3, PlainName
  <2>6. Asked = Name(target) /\ Asked' = <<>>
    <3>1. Name(target) \in DOMAIN files'
      BY <2>4 DEF Continued, Opened
    <3> QED BY <3>1, <2>3, <1>2 DEF Asked
  <2>7. InChain(files', wFile', WrittenSoFar, Asked')
    <3>1. Follows(files, wFile, Asked, NewLogLine, Name(target), Asked')
      BY <2>3, <2>5, <2>6, <1>3 DEF Follows
    <3> QED BY <3>1, <2>4, <2>5, <1>6, <1>8, NextKeeps DEF ChainInv
  <2>8. OldLines(files, files', WrittenSoFar)
    <3> DEFINE es == Written(files, wFile, NewLogLine)
    <3>1. OldLines(files, es, WrittenSoFar) /\ FilesOK(es, wFile) /\ DOMAIN es = DOMAIN files
      BY <1>6, <1>7, <1>8, OldLinesKept, WriteFacts
    <3>2. files' = Opened(es, Name(target))
      BY <2>4 DEF Continued
    <3> HIDE DEF es
    <3>3. OldLines(es, files', WrittenSoFar)
      BY <3>1, <3>2, <2>3, <2>5, OldLinesKept
    <3> QED BY <3>1, <3>3, OldLinesKept
  <2>9. CallInv'
    BY <2>2, <2>3, <1>1, <1>2 DEF CallInv
  <2>10. DataOK'
    BY <2>4, <1>1, <1>2, <1>4 DEF DataOK
  <2>11. ChainInv' /\ EventsInv'
    <3>1. recorded \in Seq([events : FileNames, id : Nat])
      BY DEF DataOK
    <3>2. InChain(files', wFile', WrittenSoFar', Asked')
      BY <2>7, <1>5
    <3> QED BY <3>1, <3>2, <2>8, <1>2, <1>5, <1>6, ChainWritten
  <2> QED BY <2>11, <2>9, <2>10, <1>5
<1> QED BY <1>9, <1>10

LEMMA KeepsWriterLine == ASSUME Inv, WriterLine PROVE Inv'
<1> USE DEF Inv
<1>1. /\ UNCHANGED <<produced, wAlive, wMax, target, mpc, calls, fAlive, fpc, fFile, fPos>>
      /\ UNCHANGED <<fNext, fEvents, wPipe, wBuf, fBuf, fPipe, recorded>> /\ wpc' = "command"
  BY DEF WriterLine, filter, main, queues
<1>2. /\ produced \in Nat /\ logQueue \in Seq(Nat) /\ Len(logQueue) \in Nat
      /\ WrittenSoFar \in Nat /\ Len(recorded) \in 0..WrittenSoFar
      /\ recorded \in Seq([events : FileNames, id : Nat])
  BY Numbers DEF EventsInv, DataOK
<1>3. CASE logQueue = <<>>
  <2>1. UNCHANGED <<logQueue, files, wFile>>
    BY <1>3 DEF WriterLine
  <2>2. DataOK'
    BY <2>1, <1>1 DEF DataOK
  <2>3. QueueInv' /\ WrittenSoFar' = WrittenSoFar
    BY <2>1, <1>1 DEF QueueInv, WrittenSoFar
  <2>4. CallInv'
    BY <2>1, <1>1 DEF CallInv
  <2>5. ChainInv' /\ EventsInv'
    BY <2>1, <2>3, <1>1, ChainSame, EventsSame DEF Asked
  <2> QED BY <2>2, <2>3, <2>4, <2>5
<1>4. CASE logQueue # <<>>
  <2> DEFINE line == LogLine(Head(logQueue))
             es == Written(files, wFile, line)
  <2>1. /\ logQueue' = Tail(logQueue)
        /\ \/ files' = es /\ wFile' = wFile
           \/ /\ files' = Continued(es, wFile, RotateLine, GetNextLogFilename(wFile))
              /\ wFile' = GetNextLogFilename(wFile)
    BY <1>4 DEF WriterLine, RotateTo, Continued
  <2>2. /\ logQueue' \in Seq(Nat) /\ Len(logQueue') = Len(logQueue) - 1 /\ Len(logQueue) > 0
        /\ Head(logQueue) = logQueue[1] /\ 1 \in DOMAIN logQueue
        /\ \A i \in DOMAIN logQueue' : i + 1 \in DOMAIN logQueue /\ i \in Nat
                                       /\ logQueue'[i] = logQueue[i + 1]
    BY <2>1, <1>2, <1>4
  <2>3. Head(logQueue) = WrittenSoFar + 1
    BY <2>2, <1>2 DEF QueueInv, WrittenSoFar
  <2>4. QueueInv' /\ WrittenSoFar' = WrittenSoFar + 1
    <3>1. WrittenSoFar' = WrittenSoFar + 1 /\ Len(logQueue') <= produced'
      BY <2>2, <1>1, <1>2 DEF QueueInv, WrittenSoFar
    <3>2. \A i \in DOMAIN logQueue' : logQueue'[i] = produced' - Len(logQueue') + i
      BY <2>2, <1>1, <1>2 DEF QueueInv
    <3> QED BY <3>1, <3>2 DEF QueueInv
  <2>5. /\ line = LogLine(WrittenSoFar + 1) /\ line \in Lines /\ line.id > WrittenSoFar
        /\ RotateLine \in Lines /\ ~IsLog(RotateLine)
    BY <2>3, <1>2 DEF LogLine, Lines, RotateLine, IsLog
  <2> HIDE DEF line
  <2>6. FilesOK(files, wFile) /\ wFile \in FileNames /\ wFile \in DOMAIN files
    BY DEF ChainInv, InChain, FilesOK
  <2>7. FilesOK(es, wFile) /\ DOMAIN es = DOMAIN files /\ OldLines(files, es, WrittenSoFar)
    BY <2>5, <2>6, <1>2, WriteFacts, OldLinesKept
  <2>8. InChain(es, wFile, WrittenSoFar + 1, Asked)
    BY <2>5, <1>2, WriteKeeps DEF ChainInv
  <2> HIDE DEF es
  <2>9. /\ InChain(files', wFile', WrittenSoFar', Asked) /\ OldLines(files, files', WrittenSoFar)
        /\ Asked' = Asked /\ (Name(target) \in DOMAIN files' <=> Name(target) \in DOMAIN files)
    <3>1. CASE files' = es /\ wFile' = wFile
      BY <3>1, <2>4, <2>7, <2>8, <1>1 DEF Asked
    <3>2. CASE /\ files' = Continued(es, wFile, RotateLine, GetNextLogFilename(wFile))
               /\ wFile' = GetNextLogFilename(wFile)
      <4> DEFINE n == GetNextLogFilename(wFile)
                 gs == Written(es, wFile, RotateLine)
      <4>1. n \in FileNames /\ n # Name(n[1])
        BY <2>6, NextName
      <4>2. n \notin DOMAIN es
        BY <2>7, <2>8, RotationKept DEF InChain
      <4>3. InChain(files', wFile', WrittenSoFar', Asked)
        <5>1. Follows(es, wFile, Asked, RotateLine, n, Asked)
          BY DEF Follows
        <5>2. WrittenSoFar + 1 \in Nat
          BY <1>2
        <5> HIDE DEF n
        <5>3. InChain(Continued(es, wFile, RotateLine, n), n, WrittenSoFar + 1, Asked)
          BY <5>1, <5>2, <4>1, <2>5, <2>8, NextKeeps
        <5> QED BY <5>3, <3>2, <2>4 DEF n
      <4>4. FilesOK(gs, wFile) /\ DOMAIN gs = DOMAIN es /\ OldLines(es, gs, WrittenSoFar)
        BY <2>5, <2>7, <1>2, WriteFacts, OldLinesKept
      <4>5. files' = Opened(gs, n)
        BY <3>2 DEF Continued
      <4> HIDE DEF n, gs
      <4>6. OldLines(gs, files', WrittenSoFar) /\ DOMAIN files' = DOMAIN files \cup {n}
        <5>1. n \notin DOMAIN gs
          BY <4>2, <4>4
        <5>2. DOMAIN Opened(gs, n) = DOMAIN gs \cup {n}
          BY <5>1, <4>1, <4>4, OpenFacts
        <5>3. OldLines(gs, Opened(gs, n), WrittenSoFar)
          BY <5>1, <4>1, <4>4, OldLinesKept
        <5> QED BY <5>2, <5>3, <4>4, <4>5, <2>7
      <4>7. OldLines(files, files', WrittenSoFar)
        BY <4>4, <4>6, <2>7, OldLinesKept
      <4>8. Name(target) # n
        BY <4>1, PlainName DEF DataOK
      <4> QED BY <4>3, <4>6, <4>7, <4>8, <1>1 DEF Asked
    <3> QED BY <3>1, <3>2, <2>1 DEF es
  <2>10. ChainInv' /\ EventsInv'
    BY <2>4, <2>9, <1>1, <1>2, ChainWritten
  <2>11. CallInv'
    BY <2>9, <1>1 DEF CallInv
  <2>12. DataOK'
    BY <2>2, <1>1 DEF DataOK
  <2> QED BY <2>4, <2>10, <2>11, <2>12
<1> QED BY <1>3, <1>4

\* The filter reads a line.
LEMMA KeepsFilterRead == ASSUME Inv, FilterRead PROVE Inv'
<1> USE DEF Inv
<1>1. /\ UNCHANGED <<produced, logQueue, files, wAlive, wpc, wFile, wMax, fAlive>>
      /\ UNCHANGED <<wPipe, wBuf, fBuf, fPipe, target, mpc, calls>> /\ fpc' = "command" /\ fAlive
  BY DEF FilterRead, writer, queues, main
<1>2. QueueInv' /\ WrittenSoFar' = WrittenSoFar /\ Asked' = Asked
  BY <1>1 DEF QueueInv, WrittenSoFar, Asked
<1>3. CallInv'
  BY <1>1 DEF CallInv
<1>4. CASE ~FilterHasData
  <2>1. UNCHANGED <<fFile, fPos, fNext, fEvents, recorded>>
    BY <1>4 DEF FilterRead
  <2>2. DataOK'
    BY <2>1, <1>1 DEF DataOK
  <2>3. ChainInv' /\ EventsInv'
    BY <2>1, <1>1, <1>2, ChainSame, EventsSame
  <2> QED BY <2>2, <2>3, <1>2, <1>3
<1>5. CASE FilterHasData
  <2> DEFINE line == files[fFile][fPos + 1]
             w == WrittenSoFar
             r == Len(recorded)
             cs == fPipe \o fBuf
  <2>1. PICK ch \in Seq(FileNames) : \E f \in DOMAIN ch :
         /\ ChainOK(files, ch, wFile) /\ OrderOK(files, ch, w)
         /\ ch[f] = fFile /\ PlaceOK(files, ch, f, fPos, r)
         /\ fAlive => PathsOK(ch, f, Asked, fNext, cs)
    BY DEF ChainInv, InChain
  <2>2. PICK f \in DOMAIN ch :
         /\ ChainOK(files, ch, wFile) /\ OrderOK(files, ch, w)
         /\ ch[f] = fFile /\ PlaceOK(files, ch, f, fPos, r)
         /\ fAlive => PathsOK(ch, f, Asked, fNext, cs)
    BY <2>1
  <2>3. /\ w \in Nat /\ r \in 0..w /\ FilesOK(files, wFile) /\ RotationOK(files, wFile)
        /\ recorded \in Seq([events : FileNames, id : Nat])
        /\ fNext \in Seq({Name(b) : b \in Bases}) /\ cs \in Seq(FilterCmds)
        /\ \A i \in DOMAIN recorded : recorded[i].id = i
    BY Numbers, PipeFacts DEF DataOK, EventsInv, EventsAreLogPrefix, ChainInv, InChain
  <2>4. Reads(files, ch, f, fPos, line) /\ fFile \in FileNames
    BY <2>2, <1>5 DEF FilterHasData, Reads
  <2> HIDE DEF w, r, cs, line
  <2>5. /\ line \in Lines
        /\ IsLog(line) => /\ line.id = r + 1 /\ r + 1 <= w
                          /\ PlaceOK(files, ch, f, fPos + 1, r + 1)
                          /\ \A n \in DOMAIN files : \A k \in DOMAIN files[n] :
                               files[n][k] = LogLine(r + 1) => n = ch[f]
        /\ ~IsLog(line) => PlaceOK(files, ch, f, fPos + 1, r)
        /\ IsMarker(line) =>
             /\ f + 1 \in DOMAIN ch /\ PlaceOK(files, ch, f + 1, 0, r)
             /\ line.kind = "rotate" => ch[f + 1] = GetNextLogFilename(ch[f])
             /\ line.kind = "new" => ch[f + 1] = Name(ch[f + 1][1])
    <3>1. /\ FilesOK(files, wFile) /\ ChainOK(files, ch, wFile) /\ OrderOK(files, ch, w)
          /\ PlaceOK(files, ch, f, fPos, r) /\ Reads(files, ch, f, fPos, line)
          /\ w \in Nat /\ r \in 0..w
      BY <2>2, <2>3, <2>4
    <3>2. /\ line \in Lines
          /\ IsLog(line) => /\ r + 1 <= w /\ PlaceOK(files, ch, f, fPos + 1, r + 1)
                            /\ IsNext(files, ch, f, line, r)
          /\ ~IsLog(line) => PlaceOK(files, ch, f, fPos + 1, r)
          /\ IsMarker(line) => LeadsOn(ch, f, line) /\ PlaceOK(files, ch, f + 1, 0, r)
      BY <3>1, ReadFacts
    <3> QED BY <3>2 DEF IsNext, LeadsOn
  \* Where the filter is then decides the invariant of the chain.
  <2>6. ASSUME NEW g \in DOMAIN ch, fFile' = ch[g], PlaceOK(files, ch, g, fPos', Len(recorded')),
               PathsOK(ch, g, Asked, fNext', cs)
        PROVE  ChainInv'
    <3>1. /\ ChainOK(files', ch, wFile') /\ OrderOK(files', ch, WrittenSoFar')
          /\ FilesOK(files', wFile') /\ RotationOK(files', wFile')
      BY <2>2, <2>3, <1>1, <1>2 DEF w
    <3>2. /\ ch[g] = fFile' /\ PlaceOK(files', ch, g, fPos', Len(recorded'))
          /\ PathsOK(ch, g, Asked', fNext', fPipe' \o fBuf')
      BY <2>6, <1>1, <1>2 DEF cs
    <3> QED BY <3>1, <3>2 DEF ChainInv, InChain
  <2>7. PathsOK(ch, f, Asked, fNext, cs)
    BY <2>2, <1>1
  <2>8. CASE IsLog(line)
    <3>1. /\ recorded' = Append(recorded, [events |-> fEvents, id |-> r + 1])
          /\ fPos' = fPos + 1 /\ UNCHANGED <<fFile, fNext, fEvents>>
      BY <2>5, <2>8, <1>5 DEF FilterRead, line, IsLog
    <3>2. fEvents = Name(fFile[1]) /\ fEvents \in FileNames
      <4>1. fEvents = Name(fFile[1]) /\ fFile[1] \in Bases
        BY <2>4 DEF EventsInv, FileNames
      <4> QED BY <4>1, PlainName
    <3>3. /\ recorded' \in Seq([events : FileNames, id : Nat]) /\ Len(recorded') = r + 1
          /\ recorded'[r + 1] = [events |-> fEvents, id |-> r + 1]
          /\ \A i \in DOMAIN recorded' :
               i = r + 1 \/ (i \in DOMAIN recorded /\ recorded'[i] = recorded[i])
      BY <3>1, <3>2, <2>3 DEF r
    <3>4. ChainInv'
      BY <3>1, <3>3, <2>2, <2>5, <2>6, <2>7, <2>8
    <3>5. \A i \in DOMAIN recorded' : recorded'[i].id = i
      BY <3>3, <2>3, SMTT(40)
    <3>6. ASSUME NEW i \in DOMAIN recorded', NEW n \in DOMAIN files, NEW k \in DOMAIN files[n],
                 files[n][k] = LogLine(recorded'[i].id)
          PROVE  recorded'[i].events = Name(n[1])
      <4>1. CASE i = r + 1
        <5>1. n = ch[f]
          BY <4>1, <3>5, <3>6, <2>5, <2>8
        <5> QED BY <5>1, <4>1, <3>2, <3>3, <2>2
      <4>2. CASE i \in DOMAIN recorded /\ recorded'[i] = recorded[i]
        BY <4>2, <3>6 DEF EventsInv, EventsWithTheirLog
      <4> QED BY <4>1, <4>2, <3>3
    <3>7. EventsInv'
      <4>1. EventsAreLogPrefix' /\ EventsWithTheirLog'
        BY <3>5, <3>6, <1>1 DEF EventsAreLogPrefix, EventsWithTheirLog
      <4>2. fEvents' = Name(fFile'[1]) /\ Len(recorded') <= WrittenSoFar'
        BY <3>1, <3>2, <3>3, <2>5, <2>8, <1>2 DEF w
      <4> QED BY <4>1, <4>2 DEF EventsInv
    <3>8. DataOK'
      BY <3>1, <3>3, <1>1 DEF DataOK
    <3> QED BY <3>4, <3>7, <3>8, <1>2, <1>3
  <2>9. CASE ~IsLog(line)
    <3>1. recorded' = recorded
      BY <2>9, <1>5 DEF FilterRead, line, IsLog
    <3>2. EventsAreLogPrefix' /\ EventsWithTheirLog' /\ Len(recorded') <= WrittenSoFar'
      BY <3>1, <1>1, <1>2 DEF EventsInv, EventsAreLogPrefix, EventsWithTheirLog
    <3>3. CASE line.kind = "rotate"
      <4>1. /\ fFile' = Append(fNext, GetNextLogFilename(fFile))[Len(fNext) + 1] /\ fPos' = 0
            /\ fNext' = SubSeq(Append(fNext, GetNextLogFilename(fFile)), 1, Len(fNext))
            /\ fEvents' = fEvents
        <5>1. Len(Append(fNext, GetNextLogFilename(fFile))) = Len(fNext) + 1
          BY <2>3
        <5>2. Len(fNext) + 1 - 1 = Len(fNext)
          BY <2>3
        <5> QED BY <5>1, <5>2, <3>3, <1>5
                DEF FilterRead, line, OpenNextLogFile, NextAfterRotate, EventsAfterRotate
      <4>2. fFile' = GetNextLogFilename(fFile) /\ fNext' = fNext
        <5> DEFINE n == GetNextLogFilename(fFile)
        <5> HIDE DEF n
        <5>1. Append(fNext, n)[Len(fNext) + 1] = n /\ SubSeq(Append(fNext, n), 1, Len(fNext)) = fNext
          BY <2>3
        <5> QED BY <5>1, <4>1 DEF n
      <4>3. /\ f + 1 \in DOMAIN ch /\ PlaceOK(files, ch, f + 1, 0, r)
            /\ ch[f + 1] = GetNextLogFilename(ch[f])
        BY <3>3, <2>5 DEF IsMarker
      <4>4. fFile'[1] = fFile[1] /\ fFile' # Name(fFile'[1])
        BY <4>2, <2>4, NextName
      <4>5. PathsOK(ch, f + 1, Asked, fNext, cs)
        BY <4>2, <4>3, <4>4, <2>2, <2>3, <2>7, PathsRotate
      <4>6. ChainInv'
        BY <4>1, <4>2, <4>3, <4>5, <3>1, <2>2, <2>6 DEF r
      <4>7. EventsInv'
        BY <4>1, <4>4, <3>2 DEF EventsInv
      <4>8. DataOK'
        BY <4>2, <3>1, <1>1 DEF DataOK
      <4> QED BY <4>6, <4>7, <4>8, <1>2, <1>3
    <3>4. CASE line.kind = "new" /\ fNext # <<>>
      <4>1. /\ fFile' = fNext[Len(fNext)] /\ fPos' = 0
            /\ fNext' = SubSeq(fNext, 1, Len(fNext) - 1) /\ fEvents' = fNext[Len(fNext)]
        BY <3>4, <1>5 DEF FilterRead, line, OpenNextLogFile
      <4>2. /\ f + 1 \in DOMAIN ch /\ PlaceOK(files, ch, f + 1, 0, r)
            /\ ch[f + 1] = Name(ch[f + 1][1])
        BY <3>4, <2>5 DEF IsMarker
      <4>3. /\ \A p \in DOMAIN ch : ch[p] \in FileNames /\ ch[p] \in DOMAIN files
            /\ \A p, q \in DOMAIN ch : ch[p] = ch[q] => p = q
        BY <2>2, <2>3, ChainFacts
      <4>4. \A p \in DOMAIN ch : ch[p] # Asked
        BY <4>3, PlainName DEF Asked
      <4>5. /\ fNext[Len(fNext)] = ch[f + 1]
            /\ PathsOK(ch, f + 1, Asked, SubSeq(fNext, 1, Len(fNext) - 1), cs)
        BY <4>2, <4>3, <4>4, <3>4, <2>3, <2>7, PathsOpen
      <4>6. ChainInv'
        BY <4>1, <4>2, <4>5, <3>1, <2>6 DEF r
      <4>7. EventsInv'
        BY <4>1, <4>2, <4>5, <3>2 DEF EventsInv
      <4>8. fNext' \in Seq({Name(b) : b \in Bases})
        BY <4>1, <3>4, <2>3
      <4>9. DataOK'
        BY <4>8, <3>1, <1>1 DEF DataOK
      <4> QED BY <4>6, <4>7, <4>9, <1>2, <1>3
    <3>5. CASE line.kind = "size" \/ (line.kind = "new" /\ fNext = <<>>)
      <4>1. fPos' = fPos + 1 /\ UNCHANGED <<fFile, fNext, fEvents>>
        BY <3>5, <1>5 DEF FilterRead, line
      <4>2. ChainInv'
        BY <4>1, <3>1, <2>2, <2>5, <2>6, <2>7, <2>9 DEF r
      <4>3. EventsInv'
        BY <4>1, <3>2 DEF EventsInv
      <4>4. DataOK'
        BY <4>1, <3>1, <1>1 DEF DataOK
      <4> QED BY <4>2, <4>3, <4>4, <1>2, <1>3
    <3>6. line.kind \in {"size", "rotate", "new"}
      BY <2>5, <2>9 DEF Lines, IsLog
    <3> QED BY <3>3, <3>4, <3>5, <3>6
  <2> QED BY <2>8, <2>9
<1> QED BY <1>4, <1>5

LEMMA InitHolds == ASSUME Init PROVE Inv
<1> DEFINE b == Name(FirstBase)
           ch == <<Name(FirstBase)>>
<1>1. /\ produced = 0 /\ logQueue = <<>> /\ files = [n \in {b} |-> <<>>]
      /\ wAlive = TRUE /\ wpc = "command" /\ wFile = b /\ wMax \in MaxSizes
      /\ fAlive = TRUE /\ fpc = "command" /\ fFile = b /\ fPos = 0
      /\ fNext = <<>> /\ fEvents = b
      /\ wBuf = <<>> /\ wPipe = <<>> /\ fBuf = <<>> /\ fPipe = <<>>
      /\ mpc = "idle" /\ target = FirstBase /\ calls = 0 /\ recorded = <<>>
  BY DEF Init
<1>2. FirstBase \in Bases /\ MaxLines \in Nat /\ MaxCalls \in Nat
  BY PipelineAssumption
<1>3. b \in FileNames /\ b[1] = FirstBase /\ Len(b) = 1 /\ b = Name(b[1])
  BY <1>2, PlainName
<1>4. /\ ch \in Seq(FileNames) /\ Len(ch) = 1 /\ DOMAIN ch = {1} /\ ch[1] = b /\ ch # <<>>
      /\ 1 \in DOMAIN ch
  BY <1>3
<1>5. b = Name(target)
  BY <1>1
<1> HIDE DEF b, ch
<1>6. DOMAIN files = {b} /\ files[b] = <<>> /\ DOMAIN files[b] = {} /\ files[b] \in Seq(Lines)
  BY <1>1
<1>7. DataOK
  <2>1. /\ logQueue \in Seq(Nat) /\ wPipe \in Seq(WriterCmds) /\ wBuf \in Seq(WriterCmds)
        /\ fPipe \in Seq(FilterCmds) /\ fBuf \in Seq(FilterCmds)
        /\ fNext \in Seq({Name(a) : a \in Bases})
        /\ recorded \in Seq([events : FileNames, id : Nat])
    BY <1>1
  <2> QED BY <1>1, <1>2, <2>1 DEF DataOK
<1>8. QueueInv /\ WrittenSoFar = 0 /\ Len(recorded) = 0
  <2>1. Len(logQueue) = 0 /\ DOMAIN logQueue = {} /\ Len(recorded) = 0
    BY <1>1
  <2>2. produced = 0
    BY <1>1
  <2>3. QueueInv
    BY <2>1, <2>2 DEF QueueInv
  <2>4. WrittenSoFar = 0
    BY <2>1, <2>2 DEF WrittenSoFar
  <2> QED BY <2>1, <2>3, <2>4
<1>9. CallInv
  <2>1. Name(target) \in DOMAIN files
    BY <1>5, <1>6
  <2>2. NoNew(wPipe \o wBuf) /\ OnlyNew(wPipe \o wBuf, target)
    <3>1. DOMAIN (wPipe \o wBuf) = {}
      BY <1>1
    <3> QED BY <3>1 DEF NoNew, OnlyNew
  <2> QED BY <2>1, <2>2, <1>1 DEF CallInv
<1>10. ChainInv
  <2>1. FilesOK(files, wFile)
    BY <1>1, <1>3, <1>6 DEF FilesOK
  <2>2. RotationOK(files, wFile)
    <3>1. NotLater(b, b)
      BY <1>3 DEF NotLater
    <3> QED BY <3>1, <1>1, <1>3, <1>6 DEF RotationOK
  <2>3. ChainOK(files, ch, wFile)
    <3>1. IsInjective(ch)
      BY <1>4 DEF IsInjective
    <3>2. Range(ch) = DOMAIN files
      BY <1>4, <1>6 DEF Range
    <3>3. \A p \in 1..(Len(ch) - 1) : FALSE
      BY <1>4
    <3> QED BY <3>1, <3>2, <3>3, <1>1, <1>4, <1>6 DEF ChainOK
  <2>4. \A p \in DOMAIN ch : \A i \in DOMAIN files[ch[p]] : FALSE
    BY <1>4, <1>6
  <2>5. OrderOK(files, ch, 0)
    BY <2>4 DEF OrderOK
  <2>6. PlaceOK(files, ch, 1, fPos, 0)
    <3>1. 0 \in 0..Len(files[ch[1]])
      BY <1>4, <1>6
    <3> QED BY <3>1, <2>4, <1>1, <1>4 DEF PlaceOK
  <2>7. Asked = <<>>
    BY <1>5, <1>6 DEF Asked
  <2>8. PathsOK(ch, 1, Asked, fNext, fPipe \o fBuf)
    <3>1. DOMAIN fNext = {} /\ DOMAIN (fPipe \o fBuf) = {}
      BY <1>1
    <3>2. \A p \in DOMAIN ch : ~(p > 1)
      BY <1>4
    <3> QED BY <3>1, <3>2, <2>7 DEF PathsOK
  <2> QED BY <2>1, <2>2, <2>3, <2>5, <2>6, <2>8, <1>1, <1>4, <1>8 DEF ChainInv, InChain
<1>11. EventsInv
  <2>1. DOMAIN recorded = {}
    BY <1>1
  <2> QED BY <2>1, <1>1, <1>3, <1>8 DEF EventsInv, EventsAreLogPrefix, EventsWithTheirLog
<1> QED BY <1>7, <1>8, <1>9, <1>10, <1>11 DEF Inv

LEMMA NextKeepsInv == ASSUME Inv, [Next]_vars PROVE Inv'
<1>1. CASE Produce
  BY <1>1, KeepsProduce
<1>2. CASE WriterStep
  <2>1. CASE WriterNoCommand
    BY <2>1, KeepsNoCommand
  <2>2. CASE WriterCommand
    BY <2>2, KeepsWriterCommand
  <2>3. CASE WriterLine
    BY <2>3, KeepsWriterLine
  <2> QED BY <1>2, <2>1, <2>2, <2>3 DEF WriterStep
<1>3. CASE FilterStep
  <2>1. CASE FilterNoCommand
    BY <2>1, KeepsNoCommand
  <2>2. CASE FilterCommand
    BY <2>2, KeepsFilterCommand
  <2>3. CASE FilterRead
    BY <2>3, KeepsFilterRead
  <2> QED BY <1>3, <2>1, <2>2, <2>3 DEF FilterStep
<1>4. CASE Feed
  BY <1>4, KeepsFeed
<1>5. CASE MainStep
  <2>1. CASE NewLogToWriter
    BY <2>1, KeepsToWriter
  <2>2. CASE NewLogReturns \/ CallReturns \/ CallTimesOut
    BY <2>2, KeepsWaits
  <2> QED BY <1>5, <2>1, <2>2 DEF MainStep
<1>6. CASE AddNewFilter
  BY <1>6, KeepsAddNewFilter
<1>7. CASE \E b \in Bases : StartNewLog(b)
  BY <1>7, KeepsStartNewLog
<1>8. CASE \E size \in MaxSizes : SetMaxLogSize(size)
  BY <1>8, KeepsToWriter
<1>9. CASE UNCHANGED vars
  <2>1. /\ UNCHANGED <<produced, logQueue, files, wAlive, wpc, wFile, wMax>>
        /\ UNCHANGED <<fAlive, fpc, fFile, fPos, fNext, fEvents>>
        /\ UNCHANGED <<wBuf, wPipe, fBuf, fPipe, mpc, target, calls, recorded>>
    BY <1>9 DEF vars, writer, filter, queues, main
  <2>2. QueueInv' /\ WrittenSoFar' = WrittenSoFar
    BY <2>1 DEF Inv, QueueInv, WrittenSoFar
  <2>3. DataOK' /\ CallInv'
    BY <2>1 DEF Inv, DataOK, CallInv
  <2>4. ChainInv' /\ EventsInv'
    BY <2>1, <2>2, ChainSame, EventsSame DEF Asked, Inv
  <2> QED BY <2>2, <2>3, <2>4 DEF Inv
<1> QED BY <1>1, <1>2, <1>3, <1>4, <1>5, <1>6, <1>7, <1>8, <1>9 DEF Next

-----------------------------------------------------------------------------
(* What follows.                                                           *)

LEMMA InvTypes == ASSUME Inv PROVE TypeOK
<1>1. PICK ch \in Seq(FileNames) : \E f \in DOMAIN ch :
       ChainOK(files, ch, wFile) /\ ch[f] = fFile /\ PlaceOK(files, ch, f, fPos, Len(recorded))
  BY DEF Inv, ChainInv, InChain
<1>2. PICK f \in DOMAIN ch :
       ChainOK(files, ch, wFile) /\ ch[f] = fFile /\ PlaceOK(files, ch, f, fPos, Len(recorded))
  BY <1>1
<1>3. FilesOK(files, wFile)
  BY DEF Inv, ChainInv, InChain
<1>4. fFile \in DOMAIN files /\ fPos \in 0..Len(files[fFile])
  BY <1>2, <1>3, ChainFacts DEF PlaceOK
<1>5. wFile \in DOMAIN files
  BY <1>3 DEF FilesOK
<1>6. \A i \in DOMAIN logQueue : logQueue[i] \in 1..produced
  <2>1. produced \in Nat /\ Len(logQueue) \in Nat /\ logQueue \in Seq(Nat)
    BY Numbers DEF Inv, DataOK
  <2> QED BY <2>1 DEF Inv, QueueInv
<1> QED BY <1>4, <1>5, <1>6 DEF Inv, DataOK, TypeOK

LEMMA InvMarkers == ASSUME Inv PROVE OneMarkerPerFile
<1>1. PICK ch \in Seq(FileNames) : ChainOK(files, ch, wFile)
  BY DEF Inv, ChainInv, InChain
<1>2. FilesOK(files, wFile)
  BY DEF Inv, ChainInv, InChain
<1> SUFFICES ASSUME NEW n \in DOMAIN files
             PROVE  Cardinality({i \in DOMAIN files[n] : files[n][i].kind \in {"rotate", "new"}}) <= 1
  BY DEF OneMarkerPerFile
<1> DEFINE marks == {i \in DOMAIN files[n] : files[n][i].kind \in {"rotate", "new"}}
<1>3. PICK p \in DOMAIN ch : ch[p] = n
  BY <1>1, <1>2, ChainFacts
<1>4. \A i, j \in marks : i = j
  <2>1. CASE p = Len(ch)
    BY <2>1, <1>1, <1>3 DEF ChainOK, IsMarker
  <2>2. CASE p # Len(ch)
    <3>1. p \in 1..(Len(ch) - 1)
      BY <2>2, <1>1, <1>2, <1>3
    <3>2. \A i \in DOMAIN files[n] : IsMarker(files[n][i]) <=> i = Len(files[n])
      BY <3>1, <1>1, <1>3 DEF ChainOK
    <3> QED BY <3>2 DEF IsMarker
  <2> QED BY <2>1, <2>2
<1>5. marks = {} \/ \E i : marks = {i}
  BY <1>4
<1> HIDE DEF marks
<1>6. Cardinality(marks) <= 1
  <2>1. CASE marks = {}
    <3>1. Cardinality(marks) = 0
      BY <2>1, FS_EmptySet
    <3> QED BY <3>1
  <2>2. CASE \E i : marks = {i}
    <3>1. Cardinality(marks) = 1
      BY <2>2, FS_Singleton
    <3> QED BY <3>1
  <2> QED BY <1>5, <2>1, <2>2
<1> QED BY <1>6 DEF marks

\* Through rotations, log changes, commands of any order and processes that are
\* stopped, the events are a prefix of the log, each in the event file of its
\* log, and a log that was left says once where the next one is
\* (LogWriterProcess._do_work, LogFilterProcess._do_work).
THEOREM EventsFollowTheLog == Spec => []LogsAgree
<1>1. Init => Inv
  BY InitHolds
<1>2. Inv /\ [Next]_vars => Inv'
  BY NextKeepsInv
<1>3. Inv => LogsAgree
  BY InvTypes, InvMarkers DEF LogsAgree, Inv, EventsInv
<1> QED BY <1>1, <1>2, <1>3, PTL DEF Spec
===============================================================================
