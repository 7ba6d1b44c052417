---------------------------- MODULE Expect_proofs ----------------------------
(***************************************************************************)
(* Both halves of Switchboard.expect, for any number of transport          *)
(* processes, lines and calls, and for any alphabet, patterns, search      *)
(* window size and text.                                                   *)
(*                                                                         *)
(* The stream: the events agree with the user count, and no line is lost,  *)
(* until a signal interrupts the switching or a transport is added inside  *)
(* a call.  The search: its window is always the end of the text received, *)
(* so that what is found or missed in the window is so in the text.        *)
(***************************************************************************)
EXTENDS MCExpect, SequenceTheorems, FiniteSetTheorems, WellFoundedInduction, TLAPS

-----------------------------------------------------------------------------
(* The stream (RawDataQueue).                                              *)


Pcs == {"idle", "enter", "flushOn", "toggleOn", "func", "wait", "toggleOff", "flushOff"}

\* What the switching code works on.
SwitchOK ==
  /\ transports \in Transports
  /\ enabled \in [Transports -> BOOLEAN]
  /\ at \in 1..(MaxTransports + 1)
  /\ mpc \in Pcs

\* The user count is a function of where the call is and how deep.
UsersInv ==
  /\ mpc = "idle" => users = 0 /\ depth = 0
  /\ mpc = "enter" => depth \in {1, 2} /\ users = depth - 1
  /\ mpc \in {"flushOn", "toggleOn", "func"} => users = 1 /\ depth = 1
  /\ mpc = "wait" => depth \in {1, 2} /\ users = depth
  /\ mpc \in {"toggleOff", "flushOff"} => users = 0 /\ depth = 1

\* Transport t's event should be set.
On(t) == /\ t <= transports
         /\ \/ Listening
            \/ mpc = "toggleOn" /\ t < at
            \/ mpc = "toggleOff" /\ t >= at

\* In the middle of a toggling loop the events up to at have been toggled and
\* the others have not.
Switched ==
  /\ SwitchOK /\ UsersInv
  /\ \A t \in Transports : enabled[t] <=> On(t)

\* The inductive strengthening of FlagsFollowUsers.
FlagsInv == disturbed \/ Switched

\* A disturbance is never forgotten.
LEMMA StaysDisturbed == ASSUME [Next]_vars, disturbed PROVE disturbed'
BY DEF Next, MainNext, Expect, InnerExpect, Enable, FlushOn, ToggleOn, ToggleOff, Toggle,
   FlushOff, FuncReturns, Take, ExpectEnds, FuncRaises, Interrupted, AddTransportProcess,
   DeleteLastTransportProcess, PublishLine, Feed, vars

\* Every step that disturbs nothing keeps Switched: _toggle_raw_data flips each
\* event once between two values of the user count.
LEMMA FlagsStep ==
  ASSUME Switched, [Next]_vars, ~disturbed'
  PROVE  Switched'
<1> USE RawDataAssumption DEF Switched, SwitchOK, UsersInv, On, Pcs, Listening, Transports
<1>1. CASE Expect
  BY <1>1 DEF Expect
<1>2. CASE Enable
  BY <1>2 DEF Enable, Body, stream
<1>3. CASE FlushOn
  BY <1>3 DEF FlushOn, Flush, Goto
<1>4. CASE ToggleOn
  <2>1. CASE at <= transports
    <3>1. /\ mpc = "toggleOn" /\ mpc' = mpc /\ at' = at + 1
          /\ transports' = transports /\ users' = users /\ depth' = depth
          /\ at \in Transports /\ enabled' = [enabled EXCEPT ![at] = ~enabled[at]]
      BY <1>4, <2>1 DEF ToggleOn, Toggle, Body
    <3>2. SwitchOK' /\ UsersInv'
      BY <2>1, <3>1
    <3>3. ASSUME NEW t \in Transports PROVE enabled'[t] <=> On(t)'
      <4>1. CASE t = at
        <5>1. enabled'[t] <=> ~enabled[t]
          BY <3>1, <4>1
        <5>2. On(t)' <=> ~On(t)
          BY <2>1, <3>1, <4>1
        <5> QED BY <5>1, <5>2
      <4>2. CASE t # at
        <5>1. enabled'[t] = enabled[t]
          BY <3>1, <4>2
        <5>2. On(t)' <=> On(t)
          BY <2>1, <3>1, <4>2
        <5> QED BY <5>1, <5>2
      <4> QED BY <4>1, <4>2
    <3> QED BY <3>2, <3>3
  <2>2. CASE ~(at <= transports)
    BY <1>4, <2>2 DEF ToggleOn, Toggle, Body
  <2> QED BY <2>1, <2>2
<1>5. CASE ToggleOff
  <2>1. CASE at <= transports
    <3>1. /\ mpc = "toggleOff" /\ mpc' = mpc /\ at' = at + 1
          /\ transports' = transports /\ users' = users /\ depth' = depth
          /\ at \in Transports /\ enabled' = [enabled EXCEPT ![at] = ~enabled[at]]
      BY <1>5, <2>1 DEF ToggleOff, Toggle
    <3>2. SwitchOK' /\ UsersInv'
      BY <2>1, <3>1
    <3>3. ASSUME NEW t \in Transports PROVE enabled'[t] <=> On(t)'
      <4>1. CASE t = at
        <5>1. enabled'[t] <=> ~enabled[t]
          BY <3>1, <4>1
        <5>2. On(t)' <=> ~On(t)
          BY <2>1, <3>1, <4>1
        <5> QED BY <5>1, <5>2
      <4>2. CASE t # at
        <5>1. enabled'[t] = enabled[t]
          BY <3>1, <4>2
        <5>2. On(t)' <=> On(t)
          BY <2>1, <3>1, <4>2
        <5> QED BY <5>1, <5>2
      <4> QED BY <4>1, <4>2
    <3> QED BY <3>2, <3>3
  <2>2. CASE ~(at <= transports)
    BY <1>5, <2>2 DEF ToggleOff, Toggle
  <2> QED BY <2>1, <2>2
<1>6. CASE FlushOff
  BY <1>6 DEF FlushOff, Flush, Leave
<1>7. CASE InnerExpect \/ FuncReturns
  BY <1>7 DEF InnerExpect, FuncReturns
<1>8. CASE Take
  BY <1>8 DEF Take
<1>9. CASE ExpectEnds \/ FuncRaises
  BY <1>9 DEF ExpectEnds, FuncRaises, Disable, Goto, Leave
<1>10. CASE AddTransportProcess
  BY <1>10 DEF AddTransportProcess
<1>11. CASE DeleteLastTransportProcess
  BY <1>11 DEF DeleteLastTransportProcess
<1>12. ASSUME NEW t \in Transports, PublishLine(t) \/ Feed(t) PROVE Switched'
  BY <1>12 DEF PublishLine, Feed
<1>13. CASE UNCHANGED vars
  BY <1>13 DEF vars
<1> QED
  BY <1>1, <1>2, <1>3, <1>4, <1>5, <1>6, <1>7, <1>8, <1>9, <1>10, <1>11, <1>12, <1>13
  DEF Next, MainNext, Interrupted

\* FlagsInv holds in every state.
LEMMA FlagsInvariant == Spec => []FlagsInv
<1>1. Init => FlagsInv
  BY RawDataAssumption
  DEF Init, FlagsInv, Switched, SwitchOK, UsersInv, On, Pcs, Listening, Transports
<1>2. FlagsInv /\ [Next]_vars => FlagsInv'
  BY FlagsStep, StaysDisturbed DEF FlagsInv
<1> QED BY <1>1, <1>2, PTL DEF Spec

\* _toggle_raw_data only inverts events, so one missed or doubled toggle would
\* turn the stream of that transport around for good.  Until a disturbance it
\* never is: all transports publish while a call listens, none between calls.
THEOREM FlagsAgree == Spec => []FlagsFollowUsers
<1>1. FlagsInv => FlagsFollowUsers
  BY RawDataAssumption
  DEF FlagsInv, Switched, SwitchOK, On, FlagsFollowUsers, Listening, Pcs, Transports
<1> QED BY <1>1, FlagsInvariant, PTL

-----------------------------------------------------------------------------
(* No line is lost while a call listens.                                   *)

Message == [line : Nat, call : Nat]

\* Every line that is due to the call was taken or is still to come.
Kept == Listening => \A n \in due : n \in heard \/ OnItsWay(n)

\* Before a call listens nothing is due to it; from then on Kept.
LinesOK ==
  /\ queue \in Seq(Message) /\ buffer \in [Transports -> Seq(Nat)]
  /\ lines \in Nat /\ expects \in Nat
  /\ mpc \in {"enter", "flushOn", "toggleOn"} /\ depth = 1 => due = {}
  /\ Kept

\* The inductive strengthening of NoLineMissed.
LinesInv == disturbed \/ LinesOK

\* Appending to a sequence keeps the elements it has.
LEMMA AppendKeeps ==
  ASSUME NEW S, NEW s \in Seq(S), NEW e \in S, NEW i \in DOMAIN s
  PROVE  i \in DOMAIN Append(s, e) /\ Append(s, e)[i] = s[i]
OBVIOUS

\* The tail of a sequence has the other elements, one place earlier.
LEMMA TailShifts ==
  ASSUME NEW S, NEW s \in Seq(S), NEW i \in 2..Len(s)
  PROVE  i - 1 \in DOMAIN Tail(s) /\ Tail(s)[i - 1] = s[i]
OBVIOUS

\* _publish_line keeps LinesOK: the new line is on its way when its event is on.
LEMMA PublishKeepsLines ==
  ASSUME Switched, LinesOK, NEW t \in Transports, PublishLine(t)
  PROVE  LinesOK'
<1>1. /\ lines' = lines + 1 /\ lines' \in Nat /\ expects' = expects /\ queue' = queue
      /\ mpc' = mpc /\ depth' = depth /\ heard' = heard /\ t <= transports
      /\ queue \in Seq(Message) /\ buffer \in [Transports -> Seq(Nat)] /\ lines \in Nat
  BY DEF LinesOK, PublishLine
<1>2. \/ buffer' = buffer /\ ~enabled[t]
      \/ buffer' = [buffer EXCEPT ![t] = Append(buffer[t], lines + 1)]
  BY DEF PublishLine
<1>3. buffer' \in [Transports -> Seq(Nat)]
  <2>1. Append(buffer[t], lines + 1) \in Seq(Nat)
    BY <1>1
  <2> QED BY <1>1, <1>2, <2>1
<1>4. mpc' \in {"enter", "flushOn", "toggleOn"} /\ depth' = 1 => due' = {}
  BY <1>1 DEF LinesOK, PublishLine, Listening
<1>5. ASSUME NEW u \in Transports, NEW i \in DOMAIN buffer[u]
      PROVE  i \in DOMAIN buffer'[u] /\ buffer'[u][i] = buffer[u][i]
  <2>1. buffer[u] \in Seq(Nat)
    BY <1>1
  <2>2. buffer'[u] = buffer[u] \/ buffer'[u] = Append(buffer[u], lines + 1)
    BY <1>1, <1>2
  <2>3. lines + 1 \in Nat
    BY <1>1
  <2>4. i \in DOMAIN Append(buffer[u], lines + 1)
        /\ Append(buffer[u], lines + 1)[i] = buffer[u][i]
    BY <1>5, <2>1, <2>3, AppendKeeps
  <2> QED BY <1>5, <2>2, <2>4
<1>6. ASSUME Listening', NEW n \in due' PROVE n \in heard' \/ OnItsWay(n)'
  <2>0. Listening
    BY <1>1, <1>6 DEF Listening
  <2>1. CASE n \in due
    <3>1. n \in heard \/ OnItsWay(n)
      BY <2>0, <2>1 DEF LinesOK, Kept
    <3>2. CASE \E i \in DOMAIN queue : queue[i].line = n
      BY <1>1, <3>2 DEF OnItsWay
    <3>3. CASE \E u \in Transports : \E i \in DOMAIN buffer[u] : buffer[u][i] = n
      BY <1>5, <3>3 DEF OnItsWay
    <3> QED BY <1>1, <3>1, <3>2, <3>3 DEF OnItsWay
  <2>2. CASE n = lines + 1
    <3>1. enabled[t]
      BY <1>1, <2>0 DEF Switched, SwitchOK, On, Transports
    <3>2. buffer'[t] = Append(buffer[t], n) /\ buffer[t] \in Seq(Nat)
      BY <1>1, <1>2, <2>2, <3>1
    <3>3. Len(buffer[t]) + 1 \in DOMAIN buffer'[t] /\ buffer'[t][Len(buffer[t]) + 1] = n
      BY <1>1, <2>2, <3>2
    <3> QED BY <3>3 DEF OnItsWay
  <2> QED BY <1>6, <2>1, <2>2 DEF PublishLine
<1> QED BY <1>1, <1>3, <1>4, <1>6 DEF LinesOK, Kept

\* The feeder thread keeps LinesOK: a line moves from the buffer to the queue.
LEMMA FeedKeepsLines ==
  ASSUME LinesOK, NEW t \in Transports, Feed(t)
  PROVE  LinesOK'
<1> DEFINE msg == [line |-> Head(buffer[t]), call |-> expects]
<1>1. /\ buffer[t] \in Seq(Nat) /\ buffer[t] # <<>> /\ queue \in Seq(Message)
      /\ queue' = Append(queue, msg)
      /\ buffer' = [buffer EXCEPT ![t] = Tail(buffer[t])]
      /\ mpc' = mpc /\ depth' = depth /\ due' = due /\ heard' = heard
      /\ lines' = lines /\ expects' = expects /\ expects \in Nat
  BY DEF Feed, LinesOK
<1>2. Head(buffer[t]) \in Nat /\ Tail(buffer[t]) \in Seq(Nat)
  BY <1>1
<1>3. msg \in Message /\ msg.line = Head(buffer[t])
  BY <1>1, <1>2 DEF Message
<1> HIDE DEF msg
<1>4. queue' \in Seq(Message) /\ buffer' \in [Transports -> Seq(Nat)]
  BY <1>1, <1>2, <1>3 DEF LinesOK
<1>5. ASSUME NEW n, OnItsWay(n) PROVE OnItsWay(n)'
  <2>1. CASE \E i \in DOMAIN queue : queue[i].line = n
    <3>1. PICK i \in DOMAIN queue : queue[i].line = n
      BY <2>1
    <3>2. i \in DOMAIN queue' /\ queue'[i] = queue[i]
      BY <1>1, <1>3, <3>1
    <3> QED BY <3>1, <3>2 DEF OnItsWay
  <2>2. CASE \E u \in Transports : \E i \in DOMAIN buffer[u] : buffer[u][i] = n
    <3>1. PICK u \in Transports : \E i \in DOMAIN buffer[u] : buffer[u][i] = n
      BY <2>2
    <3>2. PICK i \in DOMAIN buffer[u] : buffer[u][i] = n
      BY <3>1
    <3>3. CASE u # t
      <4>1. buffer'[u] = buffer[u]
        BY <1>1, <3>3 DEF LinesOK
      <4> QED BY <3>2, <4>1 DEF OnItsWay
    <3>4. CASE u = t /\ i = 1
      <4>1. Len(queue) + 1 \in DOMAIN queue' /\ queue'[Len(queue) + 1] = msg
        BY <1>1, <1>3
      <4>2. msg.line = n
        BY <1>1, <1>3, <3>2, <3>4
      <4> QED BY <4>1, <4>2 DEF OnItsWay
    <3>5. CASE u = t /\ i # 1
      <4>1. buffer'[t] = Tail(buffer[t])
        BY <1>1 DEF LinesOK
      <4>2. i \in 2..Len(buffer[t])
        BY <1>1, <3>2, <3>5
      <4>3. i - 1 \in DOMAIN Tail(buffer[t]) /\ Tail(buffer[t])[i - 1] = buffer[t][i]
        BY <1>1, <4>2, TailShifts
      <4> QED BY <3>2, <3>5, <4>1, <4>3 DEF OnItsWay
    <3> QED BY <3>3, <3>4, <3>5
  <2> QED BY <1>5, <2>1, <2>2 DEF OnItsWay
<1>6. Kept'
  BY <1>1, <1>5 DEF LinesOK, Kept, Listening
<1> QED BY <1>1, <1>4, <1>6 DEF LinesOK

\* get_message keeps LinesOK: the line at the head is taken by the expect.
LEMMA TakeKeepsLines ==
  ASSUME LinesOK, Take
  PROVE  LinesOK'
<1>1. /\ queue \in Seq(Message) /\ queue # <<>> /\ queue' = Tail(queue) /\ buffer' = buffer
      /\ heard' = heard \cup {Head(queue).line}
      /\ mpc' = mpc /\ depth' = depth /\ due' = due /\ lines' = lines /\ expects' = expects
  BY DEF Take, LinesOK
<1>2. queue' \in Seq(Message)
  BY <1>1
<1>3. ASSUME NEW n, OnItsWay(n) PROVE n \in heard' \/ OnItsWay(n)'
  <2>1. CASE \E i \in DOMAIN queue : queue[i].line = n
    <3>1. PICK i \in DOMAIN queue : queue[i].line = n
      BY <2>1
    <3>2. CASE i = 1
      BY <1>1, <3>1, <3>2
    <3>3. CASE i # 1
      <4>1. i - 1 \in DOMAIN queue' /\ queue'[i - 1] = queue[i]
        BY <1>1, <3>1, <3>3
      <4> QED BY <3>1, <4>1 DEF OnItsWay
    <3> QED BY <3>2, <3>3
  <2>2. CASE \E u \in Transports : \E i \in DOMAIN buffer[u] : buffer[u][i] = n
    BY <1>1, <2>2 DEF OnItsWay
  <2> QED BY <1>3, <2>1, <2>2 DEF OnItsWay
<1>4. Kept'
  BY <1>1, <1>3 DEF LinesOK, Kept, Listening
<1> QED BY <1>1, <1>2, <1>4 DEF LinesOK

\* Every step that disturbs nothing keeps LinesOK; flushes happen only when
\* nobody listens.
LEMMA LinesStep ==
  ASSUME Switched, LinesOK, [Next]_vars, ~disturbed'
  PROVE  LinesOK'
<1>1. CASE Expect
  BY <1>1 DEF Expect, LinesOK, Kept, Listening
<1>2. CASE FlushOn \/ FlushOff
  <2>1. queue' = queue \/ (queue # <<>> /\ queue' = Tail(queue))
    BY <1>2 DEF FlushOn, FlushOff, Flush, Goto, Leave
  <2>2. queue' \in Seq(Message)
    BY <2>1 DEF LinesOK
  <2>3. ~Listening'
    BY <1>2 DEF FlushOn, FlushOff, Flush, Goto, Leave, Listening, Switched, UsersInv
  <2>4. mpc' \in {"enter", "flushOn", "toggleOn"} /\ depth' = 1 => due' = {}
    BY <1>2 DEF FlushOn, FlushOff, Flush, Goto, Leave, LinesOK, Switched, UsersInv
  <2> QED BY <1>2, <2>2, <2>3, <2>4 DEF FlushOn, FlushOff, LinesOK, Kept
<1>3. CASE Enable \/ ToggleOn \/ ToggleOff \/ InnerExpect \/ FuncReturns \/ ExpectEnds
           \/ FuncRaises \/ AddTransportProcess \/ DeleteLastTransportProcess
           \/ UNCHANGED vars
  <2>1. UNCHANGED <<buffer, queue, lines, due, heard, expects>>
    BY <1>3 DEF Enable, ToggleOn, ToggleOff, Toggle, InnerExpect, FuncReturns, ExpectEnds,
         FuncRaises, AddTransportProcess, DeleteLastTransportProcess, stream, vars
  <2>2. /\ mpc' \in {"enter", "flushOn", "toggleOn"} /\ depth' = 1 => due' = {}
        /\ Listening' => Listening \/ due = {}
    BY <1>3, <2>1 DEF Enable, Body, ToggleOn, ToggleOff, Toggle, InnerExpect, FuncReturns,
         ExpectEnds, FuncRaises, Disable, Goto, Leave, AddTransportProcess,
         DeleteLastTransportProcess, stream, vars, LinesOK, Listening, Switched, UsersInv,
         SwitchOK, Pcs
  <2>3. \A n : OnItsWay(n)' <=> OnItsWay(n)
    BY <2>1 DEF OnItsWay
  <2> QED BY <2>1, <2>2, <2>3 DEF LinesOK, Kept
<1> QED
  BY <1>1, <1>2, <1>3, PublishKeepsLines, FeedKeepsLines, TakeKeepsLines
  DEF Next, MainNext, Interrupted

\* While a call listens, every line a transport published since the stream was
\* switched on has been looked at or is still on its way to a wait of the call:
\* nested calls, which share the queue, never flush it.
THEOREM LinesKept == Spec => []NoLineMissed
<1>1. Init => LinesInv
  BY DEF Init, LinesInv, LinesOK, Kept, Listening
<1>2. FlagsInv /\ LinesInv /\ [Next]_vars => LinesInv'
  BY LinesStep, StaysDisturbed DEF FlagsInv, LinesInv
<1>3. LinesInv => NoLineMissed
  BY DEF LinesInv, LinesOK, Kept, NoLineMissed
<1> QED BY <1>1, <1>2, <1>3, FlagsInvariant, PTL DEF Spec

-----------------------------------------------------------------------------
(* The search of expect (ExpectMatch), for any alphabet, patterns, text,   *)
(* chunks and search window size.                                          *)

Texts == Seq(Chars)

\* w is the end of the text c.
EndOf(w, c) ==
  /\ w \in Texts /\ c \in Texts /\ Len(w) <= Len(c)
  /\ \A i \in 1..Len(w) : w[i] = c[(Len(c) - Len(w)) + i]

\* Every set of natural numbers that is not empty has a least element.
LEMMA LeastNatural ==
  ASSUME NEW T \in SUBSET Nat, T # {}
  PROVE  \E x \in T : \A y \in T : x <= y
<1> DEFINE R == OpToRel(<, Nat)
<1>1. IsWellFoundedOn(R, Nat)
  BY NatLessThanWellFounded
<1>2. \A x, y \in Nat : x < y => <<x, y>> \in R
  BY DEF OpToRel
<1> HIDE DEF R
<1>3. PICK x \in T : \A y \in T : ~ (<<y, x>> \in R)
  BY <1>1, WFMin
<1>4. \A y \in T : y \in Nat /\ x \in Nat /\ ~ (y < x)
  BY <1>2, <1>3
<1> QED BY <1>4

LEMMA MinIsMember ==
  ASSUME NEW T \in SUBSET Nat, T # {}
  PROVE  Min(T) \in T /\ \A y \in T : Min(T) <= y
<1>1. \E x \in T : \A y \in T : x <= y
  BY LeastNatural
<1> QED BY <1>1 DEF Min

LEMMA MaxOfTwo ==
  ASSUME NEW x \in Int
  PROVE  Max({1, x}) = IF x >= 1 THEN x ELSE 1
<1> DEFINE y == IF x >= 1 THEN x ELSE 1
<1>1. /\ y \in {1, x} /\ \A z \in {1, x} : y >= z
      /\ \A w \in {1, x} : (\A z \in {1, x} : w >= z) => w = y
  OBVIOUS
<1> HIDE DEF y
<1>2. Max({1, x}) = y
  BY <1>1 DEF Max
<1> QED BY <1>2 DEF y

\* An occurrence, character by character.
LEMMA OccursIs ==
  ASSUME NEW text \in Texts, NEW p \in Texts, NEW i \in Nat
  PROVE  OccursAt(text, p, i) <=>
           i + Len(p) <= Len(text) /\ \A j \in 1..Len(p) : text[i + j] = p[j]
<1> DEFINE n == Len(p)
           s == SubSeq(text, i + 1, i + n)
<1>0. n \in Nat /\ Len(text) \in Nat
  BY DEF Texts
<1> SUFFICES ASSUME i + n <= Len(text)
             PROVE  s = p <=> \A j \in 1..n : text[i + j] = p[j]
  BY DEF OccursAt
<1>1. \A j \in (i + 1)..(i + n) : text[j] \in Chars
  BY <1>0 DEF Texts
<1> HIDE DEF n
<1>2. /\ s \in Seq(Chars)
      /\ Len(s) = IF i + 1 <= i + n THEN (i + n) - (i + 1) + 1 ELSE 0
      /\ \A j \in 1..((i + n) - (i + 1) + 1) : s[j] = text[(i + 1) + j - 1]
  BY <1>0, <1>1, SubSeqProperties
<1> HIDE DEF s
<1>3. Len(s) = n
  BY <1>0, <1>2
<1>4. \A j \in 1..n : s[j] = text[i + j]
  <2> SUFFICES ASSUME NEW j \in 1..n PROVE s[j] = text[i + j]
    OBVIOUS
  <2>1. j \in 1..((i + n) - (i + 1) + 1) /\ (i + 1) + j - 1 = i + j
    BY <1>0
  <2> QED BY <1>2, <2>1
<1>5. p \in Seq(Chars) /\ Len(p) = n
  BY DEF Texts, n
<1>6. s = p <=> \A j \in 1..n : s[j] = p[j]
  BY <1>2, <1>3, <1>5, SeqEqual
<1> QED BY <1>4, <1>6

\* What occurs in the end of a text occurs in the text.
LEMMA OccursInAll ==
  ASSUME NEW w, NEW c, EndOf(w, c), NEW p \in Texts, NEW i \in Nat, OccursAt(w, p, i)
  PROVE  /\ (Len(c) - Len(w)) + i \in Nat
         /\ OccursAt(c, p, (Len(c) - Len(w)) + i)
<1> DEFINE o == Len(c) - Len(w)
<1>1. /\ w \in Texts /\ c \in Texts /\ Len(w) \in Nat /\ Len(c) \in Nat /\ Len(p) \in Nat
      /\ o \in Nat
  BY DEF EndOf, Texts
<1>2. /\ i + Len(p) <= Len(w) /\ \A j \in 1..Len(p) : w[i + j] = p[j]
  BY <1>1, OccursIs
<1>3. o + i \in Nat /\ (o + i) + Len(p) <= Len(c)
  BY <1>1, <1>2
<1>4. ASSUME NEW j \in 1..Len(p) PROVE c[(o + i) + j] = p[j]
  <2>1. i + j \in 1..Len(w) /\ o + (i + j) = (o + i) + j
    BY <1>1, <1>2
  <2>2. w[i + j] = c[o + (i + j)]
    BY <2>1 DEF EndOf
  <2> QED BY <1>2, <2>1, <2>2
<1> HIDE DEF o
<1>5. OccursAt(c, p, o + i)
  BY <1>1, <1>3, <1>4, OccursIs
<1> QED BY <1>3, <1>5 DEF o

\* What occurs in a text late enough occurs in its end.
LEMMA OccursInEnd ==
  ASSUME NEW w, NEW c, EndOf(w, c), NEW p \in Texts, NEW i \in Nat, OccursAt(c, p, i),
         i >= Len(c) - Len(w)
  PROVE  /\ i - (Len(c) - Len(w)) \in 0..Len(w)
         /\ OccursAt(w, p, i - (Len(c) - Len(w)))
<1> DEFINE o == Len(c) - Len(w)
           k == i - o
<1>1. /\ w \in Texts /\ c \in Texts /\ Len(w) \in Nat /\ Len(c) \in Nat /\ Len(p) \in Nat
      /\ o \in Nat
  BY DEF EndOf, Texts
<1>2. /\ i + Len(p) <= Len(c) /\ \A j \in 1..Len(p) : c[i + j] = p[j]
  BY <1>1, OccursIs
<1>3. k \in Nat /\ k + Len(p) <= Len(w) /\ k \in 0..Len(w)
  BY <1>1, <1>2
<1>4. ASSUME NEW j \in 1..Len(p) PROVE w[k + j] = p[j]
  <2>1. k + j \in 1..Len(w) /\ o + (k + j) = i + j
    BY <1>1, <1>3
  <2>2. w[k + j] = c[o + (k + j)]
    BY <2>1 DEF EndOf
  <2> QED BY <1>2, <2>1, <2>2
<1> HIDE DEF o, k
<1>5. OccursAt(w, p, k)
  BY <1>1, <1>3, <1>4, OccursIs
<1> QED BY <1>3, <1>5 DEF o, k

\* What occurs in a text occurs in a longer one, at the same place.
LEMMA OccursStays ==
  ASSUME NEW c \in Texts, NEW d \in Texts, NEW p \in Texts, NEW i \in Nat, OccursAt(c, p, i)
  PROVE  OccursAt(c \o d, p, i)
<1>1. /\ Len(c) \in Nat /\ Len(d) \in Nat /\ Len(p) \in Nat
      /\ c \o d \in Texts /\ Len(c \o d) = Len(c) + Len(d)
      /\ \A j \in 1..Len(c) : (c \o d)[j] = c[j]
  BY DEF Texts
<1>2. /\ i + Len(p) <= Len(c) /\ \A j \in 1..Len(p) : c[i + j] = p[j]
  BY OccursIs
<1>3. ASSUME NEW j \in 1..Len(p) PROVE (c \o d)[i + j] = p[j]
  <2>1. i + j \in 1..Len(c)
    BY <1>1, <1>2
  <2> QED BY <1>1, <1>2, <2>1
<1>4. i + Len(p) <= Len(c \o d)
  BY <1>1, <1>2
<1> QED BY <1>1, <1>3, <1>4, OccursIs

\* What ends within the first part of a text occurs in the first part.
LEMMA OccursBefore ==
  ASSUME NEW c \in Texts, NEW d \in Texts, NEW p \in Texts, NEW i \in Nat,
         OccursAt(c \o d, p, i), i + Len(p) <= Len(c)
  PROVE  OccursAt(c, p, i)
<1>1. /\ Len(c) \in Nat /\ Len(d) \in Nat /\ Len(p) \in Nat
      /\ c \o d \in Texts /\ Len(c \o d) = Len(c) + Len(d)
      /\ \A j \in 1..Len(c) : (c \o d)[j] = c[j]
  BY DEF Texts
<1>2. \A j \in 1..Len(p) : (c \o d)[i + j] = p[j]
  BY <1>1, OccursIs
<1>3. ASSUME NEW j \in 1..Len(p) PROVE c[i + j] = p[j]
  <2>1. i + j \in 1..Len(c)
    BY <1>1
  <2> QED BY <1>1, <1>2, <2>1
<1> QED BY <1>1, <1>3, OccursIs

LEMMA TailIsEnd ==
  ASSUME NEW v \in Texts, NEW k \in 0..Len(v)
  PROVE  /\ EndOf(SubSeq(v, k + 1, Len(v)), v)
         /\ Len(SubSeq(v, k + 1, Len(v))) = Len(v) - k
<1> DEFINE n == Len(v)
           s == SubSeq(v, k + 1, n)
<1>0. n \in Nat /\ k \in Nat /\ k <= n
  BY DEF Texts
<1>1. \A j \in (k + 1)..n : v[j] \in Chars
  BY <1>0 DEF Texts
<1>2. /\ s \in Seq(Chars)
      /\ Len(s) = IF k + 1 <= n THEN n - (k + 1) + 1 ELSE 0
      /\ \A j \in 1..(n - (k + 1) + 1) : s[j] = v[(k + 1) + j - 1]
  <2> HIDE DEF n
  <2> QED BY <1>0, <1>1, SubSeqProperties
<1> HIDE DEF s
<1>3. Len(s) = n - k
  BY <1>0, <1>2
<1>4. ASSUME NEW j \in 1..Len(s) PROVE s[j] = v[(n - Len(s)) + j]
  <2>1. j \in 1..(n - (k + 1) + 1) /\ (k + 1) + j - 1 = (n - Len(s)) + j
    BY <1>0, <1>3
  <2> QED BY <1>2, <2>1
<1>4a. s \in Texts /\ Len(s) <= n
  BY <1>0, <1>2, <1>3 DEF Texts
<1>5. EndOf(s, v)
  BY <1>4, <1>4a DEF EndOf
<1> QED BY <1>3, <1>5 DEF s, n

LEMMA EndOfEnd ==
  ASSUME NEW a, NEW b, NEW c, EndOf(a, b), EndOf(b, c)
  PROVE  EndOf(a, c)
<1>1. /\ a \in Texts /\ b \in Texts /\ c \in Texts
      /\ Len(a) \in Nat /\ Len(b) \in Nat /\ Len(c) \in Nat
      /\ Len(a) <= Len(b) /\ Len(b) <= Len(c)
  BY DEF EndOf, Texts
<1>2. ASSUME NEW i \in 1..Len(a) PROVE a[i] = c[(Len(c) - Len(a)) + i]
  <2> DEFINE k == (Len(b) - Len(a)) + i
  <2>1. k \in 1..Len(b) /\ (Len(c) - Len(b)) + k = (Len(c) - Len(a)) + i
    BY <1>1
  <2>2. a[i] = b[k]
    BY DEF EndOf
  <2> HIDE DEF k
  <2>3. b[k] = c[(Len(c) - Len(b)) + k]
    BY <2>1 DEF EndOf
  <2> QED BY <2>1, <2>2, <2>3
<1>3. Len(a) <= Len(c)
  BY <1>1
<1> QED BY <1>1, <1>2, <1>3 DEF EndOf

\* The longer of two ends of a text ends with the shorter one.
LEMMA EndWithin ==
  ASSUME NEW a, NEW b, NEW c, EndOf(a, c), EndOf(b, c), Len(a) <= Len(b)
  PROVE  EndOf(a, b)
<1>1. /\ a \in Texts /\ b \in Texts /\ c \in Texts
      /\ Len(a) \in Nat /\ Len(b) \in Nat /\ Len(c) \in Nat
      /\ Len(b) <= Len(c)
  BY DEF EndOf, Texts
<1>2. ASSUME NEW i \in 1..Len(a) PROVE a[i] = b[(Len(b) - Len(a)) + i]
  <2> DEFINE k == (Len(b) - Len(a)) + i
  <2>1. k \in 1..Len(b) /\ (Len(c) - Len(b)) + k = (Len(c) - Len(a)) + i
    BY <1>1
  <2>2. a[i] = c[(Len(c) - Len(a)) + i]
    BY DEF EndOf
  <2> HIDE DEF k
  <2>3. b[k] = c[(Len(c) - Len(b)) + k]
    BY <2>1 DEF EndOf
  <2>4. a[i] = b[k]
    BY <2>1, <2>2, <2>3
  <2> QED BY <2>4 DEF k
<1> QED BY <1>1, <1>2 DEF EndOf

LEMMA EndOfBoth ==
  ASSUME NEW w, NEW c, EndOf(w, c), NEW d \in Texts
  PROVE  /\ EndOf(w \o d, c \o d) /\ EndOf(d, c \o d)
         /\ Len(w \o d) = Len(w) + Len(d) /\ Len(c \o d) = Len(c) + Len(d)
<1>1. /\ w \in Texts /\ c \in Texts
      /\ Len(w) \in Nat /\ Len(d) \in Nat /\ Len(c) \in Nat
      /\ Len(w) <= Len(c)
  BY DEF EndOf, Texts
<1>2. /\ w \o d \in Texts /\ Len(w \o d) = Len(w) + Len(d)
      /\ \A i \in 1..(Len(w) + Len(d)) :
           (w \o d)[i] = IF i <= Len(w) THEN w[i] ELSE d[i - Len(w)]
  BY <1>1 DEF Texts
<1>3. /\ c \o d \in Texts /\ Len(c \o d) = Len(c) + Len(d)
      /\ \A i \in 1..(Len(c) + Len(d)) :
           (c \o d)[i] = IF i <= Len(c) THEN c[i] ELSE d[i - Len(c)]
  BY <1>1 DEF Texts
<1> DEFINE o == Len(c) - Len(w)
<1>4. ASSUME NEW i \in 1..Len(w \o d) PROVE (w \o d)[i] = (c \o d)[(Len(c \o d) - Len(w \o d)) + i]
  <2>1. /\ i \in 1..(Len(w) + Len(d)) /\ o + i \in 1..(Len(c) + Len(d))
        /\ (Len(c \o d) - Len(w \o d)) + i = o + i
        /\ (o + i) - Len(c) = i - Len(w)
        /\ o + i <= Len(c) <=> i <= Len(w)
    BY <1>1, <1>2, <1>3
  <2>2. CASE i <= Len(w)
    <3>1. w[i] = c[o + i]
      BY <2>1, <2>2 DEF EndOf
    <3> HIDE DEF o
    <3> QED BY <1>2, <1>3, <2>1, <2>2, <3>1
  <2>3. CASE ~ (i <= Len(w))
    <3> HIDE DEF o
    <3> QED BY <1>2, <1>3, <2>1, <2>3
  <2> QED BY <2>2, <2>3
<1>5. ASSUME NEW i \in 1..Len(d) PROVE d[i] = (c \o d)[(Len(c \o d) - Len(d)) + i]
  <2>1. /\ (Len(c \o d) - Len(d)) + i = Len(c) + i
        /\ Len(c) + i \in 1..(Len(c) + Len(d)) /\ ~ (Len(c) + i <= Len(c))
        /\ (Len(c) + i) - Len(c) = i
    BY <1>1, <1>3
  <2> QED BY <1>3, <2>1
<1>6. Len(w \o d) <= Len(c \o d) /\ Len(d) <= Len(c \o d)
  BY <1>1, <1>2, <1>3
<1> QED BY <1>1, <1>2, <1>3, <1>4, <1>5, <1>6 DEF EndOf

ChunkOK(chunk) == chunk \in Texts /\ Len(chunk) \in 1..SearchWindowSize

LEMMA ChunksAre ==
  ASSUME NEW chunk \in Chunks
  PROVE  ChunkOK(chunk)
<1>1. PICK m \in 0..SearchWindowSize : chunk \in [1..m -> Chars]
  BY DEF Chunks, BoundedSeq, SeqOf
<1>2. chunk \in Seq(Chars) /\ Len(chunk) = m
  BY <1>1, ExpectAssumption
<1>3. chunk # <<>>
  BY DEF Chunks
<1>4. m # 0
  BY <1>2, <1>3
<1> QED BY <1>2, <1>4, ExpectAssumption DEF ChunkOK, Texts

\* The window is the end of the text also after a chunk; it ends with the chunk,
\* and it is only shortened when it is longer than two window sizes.
LEMMA WindowIsTheEnd ==
  ASSUME EndOf(window, captured), NEW chunk, ChunkOK(chunk)
  PROVE  LET w == WindowAfter(chunk)
             n == Len(window) + Len(chunk)
         IN  /\ EndOf(w, captured \o chunk) /\ EndOf(chunk, w)
             /\ Len(w) = IF n <= 2 * SearchWindowSize THEN n ELSE 2 * SearchWindowSize
             /\ Len(captured \o chunk) = Len(captured) + Len(chunk)
<1> DEFINE v == window \o chunk
           n == Len(window) + Len(chunk)
           k == IF n <= 2 * SearchWindowSize THEN 0 ELSE n - 2 * SearchWindowSize
           w == SubSeq(v, k + 1, Len(v))
<1>1. /\ window \in Texts /\ captured \in Texts /\ chunk \in Texts
      /\ Len(window) \in Nat /\ Len(captured) \in Nat /\ Len(chunk) \in Nat
      /\ SearchWindowSize \in Nat \ {0} /\ Len(chunk) <= SearchWindowSize
  BY ExpectAssumption DEF EndOf, ChunkOK, Texts
<1>2. /\ EndOf(v, captured \o chunk) /\ EndOf(chunk, captured \o chunk)
      /\ Len(v) = n /\ Len(captured \o chunk) = Len(captured) + Len(chunk)
  BY <1>1, EndOfBoth
<1>3. v \in Texts
  BY <1>2 DEF EndOf
<1>4. WindowAfter(chunk) = w
  <2>1. Len(v) - 2 * SearchWindowSize + 1 \in Int
    BY <1>1, <1>2
  <2>2. Max({1, Len(v) - 2 * SearchWindowSize + 1})
          = IF Len(v) - 2 * SearchWindowSize + 1 >= 1
            THEN Len(v) - 2 * SearchWindowSize + 1 ELSE 1
    <3> HIDE DEF v
    <3> QED BY <2>1, MaxOfTwo
  <2>3. Max({1, Len(v) - 2 * SearchWindowSize + 1}) = k + 1
    <3> HIDE DEF v
    <3> QED BY <1>1, <1>2, <2>2
  <2> QED BY <2>3 DEF WindowAfter
<1>5. n \in Nat /\ k \in 0..n
  BY <1>1
<1> HIDE DEF v, k, n
<1>6. EndOf(w, v) /\ Len(w) = n - k
  BY <1>2, <1>3, <1>5, TailIsEnd
<1> HIDE DEF w
<1>7. EndOf(w, captured \o chunk)
  BY <1>2, <1>6, EndOfEnd
<1>8. Len(w) = IF n <= 2 * SearchWindowSize THEN n ELSE 2 * SearchWindowSize
  BY <1>1, <1>5, <1>6 DEF k
<1>9. Len(chunk) <= Len(w)
  BY <1>1, <1>8 DEF n
<1>10. EndOf(chunk, w)
  BY <1>2, <1>7, <1>9, EndWithin
<1> QED BY <1>2, <1>4, <1>7, <1>8, <1>10 DEF n

-----------------------------------------------------------------------------
(* The inductive invariant of the search.                                  *)

Found == [pattern : Texts, start : Nat]

EndAt(m) == m.start + Len(m.pattern)

\* The window is the end of the text, at most two window sizes long.
SearchTypeOK ==
  /\ mode \in Modes /\ state \in {"searching", "found", "timedout"}
  /\ compiledList \in Seq(Texts \ {<<>>}) /\ compiledList # <<>>
  /\ matchList \in Seq(Found)
  /\ expected \in 0..Len(compiledList)
  /\ EndOf(window, captured) /\ Len(window) <= 2 * SearchWindowSize
  /\ Len(captured) <= MaxText

\* The search ends with the last match.
MatchesToGo ==
  IF state = "found" THEN Len(matchList) = ExpectedMatches
                     ELSE Len(matchList) < ExpectedMatches

\* While the search goes on, the window begins where the last match ends or later.
WindowIsPastMatches ==
  state = "searching" =>
    \A k \in DOMAIN matchList : EndAt(matchList[k]) <= Len(captured) - Len(window)

\* "any": the window is the whole text, or two window sizes of it.
WindowIsWide ==
  mode = "any" /\ state # "found" =>
    Len(window) = 2 * SearchWindowSize \/ Len(window) = Len(captured)

\* "all": only patterns of the list are matched.
MatchesAreListed ==
  mode = "all" =>
    \A j \in DOMAIN matchList : \E k \in DOMAIN compiledList : matchList[j].pattern = compiledList[k]

MatchInv ==
  /\ SearchTypeOK /\ MatchesToGo /\ WindowIsPastMatches /\ WindowIsWide /\ MatchesAreListed
  /\ SearchIsRight

-----------------------------------------------------------------------------
LEMMA HitIsReal ==
  ASSUME SearchTypeOK, NEW w \in Texts, Hits(w) # {}
  PROVE  LET k == Min(Hits(w))
             p == compiledList[k]
             i == Min(Occurrences(w, p))
         IN  /\ k \in DOMAIN compiledList /\ k \in GetPatternList(matchList)
             /\ p \in Texts \ {<<>>} /\ i \in Nat /\ OccursAt(w, p, i)
<1> DEFINE k == Min(Hits(w))
           p == compiledList[k]
           i == Min(Occurrences(w, p))
<1>1. GetPatternList(matchList) \subseteq DOMAIN compiledList
  <2>1. GetMissingPatterns(matchList) \subseteq DOMAIN compiledList
    BY DEF GetMissingPatterns
  <2>2. mode \in {"any", "all", "sequential"}
    BY ExpectAssumption DEF SearchTypeOK
  <2> QED BY <2>1, <2>2 DEF GetPatternList
<1>2. DOMAIN compiledList = 1..Len(compiledList) /\ Len(compiledList) \in Nat
  BY DEF SearchTypeOK
<1>3. Hits(w) \in SUBSET Nat
  BY <1>1, <1>2 DEF Hits
<1>4. k \in Hits(w)
  BY <1>3, MinIsMember
<1> HIDE DEF k
<1>5. k \in GetPatternList(matchList) /\ k \in DOMAIN compiledList /\ Occurrences(w, p) # {}
  BY <1>1, <1>4 DEF Hits
<1>6. p \in Texts \ {<<>>}
  BY <1>5 DEF SearchTypeOK
<1> HIDE DEF p
<1>7. Len(w) \in Nat
  BY DEF Texts
<1>8. Occurrences(w, p) \in SUBSET Nat
  BY <1>7 DEF Occurrences
<1>9. i \in Occurrences(w, p)
  BY <1>5, <1>8, MinIsMember
<1> HIDE DEF i
<1>10. i \in Nat /\ OccursAt(w, p, i)
  BY <1>8, <1>9 DEF Occurrences
<1> QED BY <1>5, <1>6, <1>10 DEF k, p, i

LEMMA NoHitNoOccurrence ==
  ASSUME SearchTypeOK, NEW w \in Texts, Hits(w) = {}, NEW k \in GetPatternList(matchList),
         NEW i \in Nat, compiledList[k] \in Texts
  PROVE  ~ OccursAt(w, compiledList[k], i)
<1> DEFINE p == compiledList[k]
<1>1. SUFFICES ASSUME OccursAt(w, p, i) PROVE FALSE
  OBVIOUS
<1>2. Len(w) \in Nat /\ Len(p) \in Nat
  BY DEF Texts
<1>3. i + Len(p) <= Len(w)
  BY <1>1 DEF OccursAt
<1>4. i \in 0..Len(w)
  <2> HIDE DEF p
  <2> QED BY <1>2, <1>3
<1>5. i \in Occurrences(w, p)
  <2> HIDE DEF p
  <2> QED BY <1>1, <1>4 DEF Occurrences
<1> QED BY <1>5 DEF Hits

\* What a received chunk does to the text; the count of the reference.
LEMMA ChunkReceived ==
  ASSUME SearchTypeOK, NEW chunk \in Chunks, Received(chunk)
  PROVE  LET w == WindowAfter(chunk)
             n == Len(window) + Len(chunk)
         IN  /\ ChunkOK(chunk) /\ captured' = captured \o chunk /\ captured \in Texts
             /\ EndOf(w, captured') /\ EndOf(chunk, w) /\ w \in Texts /\ captured' \in Texts
             /\ Len(w) = IF n <= 2 * SearchWindowSize THEN n ELSE 2 * SearchWindowSize
             /\ Len(captured') = Len(captured) + Len(chunk) /\ Len(captured') <= MaxText
             /\ Len(w) \in Nat /\ Len(captured) \in Nat /\ Len(captured') \in Nat
             /\ Len(chunk) \in 1..SearchWindowSize /\ Len(window) \in Nat
             /\ mode' = mode /\ compiledList' = compiledList /\ state = "searching"
             /\ expected' \in 0..Len(compiledList)
             /\ \/ expected' = expected
                \/ /\ expected < Len(compiledList) /\ expected' = expected + 1
                   /\ Occurrences(chunk, compiledList[expected + 1]) # {}
<1> DEFINE w == WindowAfter(chunk)
           n == Len(window) + Len(chunk)
<1>1. ChunkOK(chunk) /\ EndOf(window, captured)
  BY ChunksAre DEF SearchTypeOK
<1>2. /\ captured' = captured \o chunk /\ mode' = mode /\ compiledList' = compiledList
      /\ state = "searching" /\ Len(captured) + Len(chunk) <= MaxText
  BY DEF Received
<1>3. /\ EndOf(w, captured \o chunk) /\ EndOf(chunk, w)
      /\ Len(w) = IF n <= 2 * SearchWindowSize THEN n ELSE 2 * SearchWindowSize
      /\ Len(captured \o chunk) = Len(captured) + Len(chunk)
  BY <1>1, WindowIsTheEnd
<1> HIDE DEF w
<1>4. /\ w \in Texts /\ captured' \in Texts /\ captured \in Texts /\ window \in Texts
      /\ chunk \in Texts
  BY <1>1, <1>2, <1>3 DEF EndOf
<1>5. /\ Len(w) \in Nat /\ Len(captured) \in Nat /\ Len(captured') \in Nat
      /\ Len(window) \in Nat
  BY <1>4 DEF Texts
<1>6. Len(chunk) \in 1..SearchWindowSize
  BY <1>1 DEF ChunkOK
<1>7. \/ expected' = expected
      \/ /\ expected < Len(compiledList) /\ expected' = expected + 1
         /\ Occurrences(chunk, compiledList[expected + 1]) # {}
  BY DEF Received
<1>8. expected' \in 0..Len(compiledList)
  <2>1. expected \in 0..Len(compiledList) /\ Len(compiledList) \in Nat
    BY DEF SearchTypeOK
  <2> QED BY <1>7, <2>1
<1> QED BY <1>1, <1>2, <1>3, <1>4, <1>5, <1>6, <1>7, <1>8 DEF w

\* The matches found so far stay where they are when the text grows.
LEMMA MatchesStay ==
  ASSUME SearchTypeOK, MatchesAreReal, NEW d \in Texts, NEW k \in DOMAIN matchList
  PROVE  OccursAt(captured \o d, matchList[k].pattern, matchList[k].start)
<1>1. matchList[k] \in Found
  BY DEF SearchTypeOK
<1>2. matchList[k].pattern \in Texts /\ matchList[k].start \in Nat
  BY <1>1 DEF Found
<1>3. captured \in Texts
  BY DEF SearchTypeOK, EndOf
<1>4. OccursAt(captured, matchList[k].pattern, matchList[k].start)
  BY DEF MatchesAreReal
<1> QED BY <1>2, <1>3, <1>4, OccursStays

LEMMA NoMatchKeepsSearch ==
  ASSUME MatchInv, NEW chunk \in Chunks, NoMatch(chunk)
  PROVE  MatchInv'
<1> DEFINE w == WindowAfter(chunk)
<1> USE DEF MatchInv
<1>0. Received(chunk) /\ Hits(w) = {} /\ window' = w /\ matchList' = matchList /\ state' = state
  BY DEF NoMatch
<1>1. SearchTypeOK
  OBVIOUS
<1>2. /\ captured' = captured \o chunk /\ captured \in Texts /\ chunk \in Texts
      /\ EndOf(w, captured') /\ EndOf(chunk, w) /\ w \in Texts /\ captured' \in Texts
      /\ Len(w) = IF Len(window) + Len(chunk) <= 2 * SearchWindowSize
                  THEN Len(window) + Len(chunk) ELSE 2 * SearchWindowSize
      /\ Len(captured') = Len(captured) + Len(chunk) /\ Len(captured') <= MaxText
      /\ Len(w) \in Nat /\ Len(captured) \in Nat /\ Len(captured') \in Nat
      /\ Len(chunk) \in 1..SearchWindowSize /\ Len(window) \in Nat
      /\ mode' = mode /\ compiledList' = compiledList /\ state = "searching"
      /\ expected' \in 0..Len(compiledList)
      /\ \/ expected' = expected
         \/ /\ expected < Len(compiledList) /\ expected' = expected + 1
            /\ Occurrences(chunk, compiledList[expected + 1]) # {}
  BY <1>0, <1>1, ChunkReceived DEF ChunkOK
<1> HIDE DEF w
<1>3. SearchWindowSize \in Nat \ {0} /\ Len(window) <= Len(captured)
  BY ExpectAssumption DEF SearchTypeOK, EndOf
<1>4. SearchTypeOK'
  <2>1. Len(w) <= 2 * SearchWindowSize
    BY <1>2, <1>3
  <2> QED BY <1>0, <1>1, <1>2, <2>1 DEF SearchTypeOK, EndOf
<1>5. MatchesToGo'
  BY <1>0, <1>2 DEF MatchesToGo, ExpectedMatches
<1>6. WindowIsPastMatches'
  <2> SUFFICES ASSUME NEW k \in DOMAIN matchList
               PROVE  EndAt(matchList[k]) <= Len(captured') - Len(w)
    BY <1>0 DEF WindowIsPastMatches, EndAt
  <2>1. matchList[k] \in Found
    BY <1>1 DEF SearchTypeOK
  <2>2. EndAt(matchList[k]) \in Nat
    BY <2>1 DEF Found, Texts, EndAt
  <2>3. EndAt(matchList[k]) <= Len(captured) - Len(window)
    BY <1>2 DEF WindowIsPastMatches
  <2>4. Len(captured) - Len(window) <= Len(captured') - Len(w)
    BY <1>2, <1>3
  <2>5. Len(captured) - Len(window) \in Int /\ Len(captured') - Len(w) \in Int
    BY <1>2
  <2> HIDE DEF w
  <2> QED BY <2>2, <2>3, <2>4, <2>5, SMTT(30)
<1>7. WindowIsWide'
  <2>1. CASE mode = "any"
    <3>1. Len(window) = 2 * SearchWindowSize \/ Len(window) = Len(captured)
      BY <1>2, <2>1 DEF WindowIsWide
    <3>2. Len(w) = 2 * SearchWindowSize \/ Len(w) = Len(captured')
      BY <1>2, <1>3, <3>1, SMTT(40)
    <3> QED BY <1>0, <3>2 DEF WindowIsWide
  <2>2. CASE mode # "any"
    BY <1>2, <2>2 DEF WindowIsWide
  <2> QED BY <2>1, <2>2
<1>8. MatchesAreListed'
  BY <1>0, <1>2 DEF MatchesAreListed
<1>9. MatchesAreReal'
  BY <1>0, <1>1, <1>2, MatchesStay DEF MatchesAreReal, SearchIsRight
<1>10. NothingSlipsThrough'
  <2>1. SUFFICES ASSUME mode = "any", NEW k \in DOMAIN compiledList,
                        Len(compiledList[k]) <= SearchWindowSize + 1,
                        Occurrences(captured \o chunk, compiledList[k]) # {}
                 PROVE  FALSE
    BY <1>2 DEF NothingSlipsThrough, Occurrences, OccursAt
  <2> DEFINE p == compiledList[k]
  <2>2. p \in Texts /\ Len(p) \in Nat
    BY <1>1 DEF SearchTypeOK, Texts
  <2> HIDE DEF p
  <2>3. PICK i \in 0..Len(captured') : OccursAt(captured', p, i)
    BY <1>2, <2>1 DEF Occurrences, p
  <2>4. i \in Nat /\ i + Len(p) <= Len(captured')
    BY <1>2, <2>3 DEF OccursAt
  <2>5. ~ (i + Len(p) <= Len(captured))
    <3>1. SUFFICES ASSUME i + Len(p) <= Len(captured) PROVE FALSE
      OBVIOUS
    <3>2. OccursAt(captured, p, i)
      BY <1>2, <2>2, <2>3, <2>4, <3>1, OccursBefore
    <3>3. i \in 0..Len(captured)
      BY <1>2, <2>2, <2>4, <3>1
    <3>4. Occurrences(captured, p) # {}
      BY <3>2, <3>3 DEF Occurrences
    <3> QED BY <1>2, <2>1, <3>4 DEF SearchIsRight, NothingSlipsThrough, p
  <2>6. Len(p) <= SearchWindowSize + 1
    BY <2>1 DEF p
  <2>7. Len(window) = 2 * SearchWindowSize \/ Len(window) = Len(captured)
    BY <1>2, <2>1 DEF WindowIsWide
  <2>8. i >= Len(captured') - Len(w)
    BY <1>2, <1>3, <2>2, <2>4, <2>5, <2>6, <2>7, SMTT(40)
  <2>9. PICK j \in Nat : OccursAt(w, p, j)
    <3> DEFINE j == i - (Len(captured') - Len(w))
    <3>1. j \in 0..Len(w) /\ OccursAt(w, p, j)
      BY <1>2, <2>2, <2>3, <2>4, <2>8, OccursInEnd
    <3> HIDE DEF j
    <3>2. j \in Nat
      BY <1>2, <3>1
    <3> QED BY <3>1, <3>2
  <2>10. k \in GetPatternList(matchList)
    BY <2>1 DEF GetPatternList
  <2> QED BY <1>0, <1>1, <1>2, <2>2, <2>9, <2>10, NoHitNoOccurrence DEF p
<1>11. MatchesAreDisjoint'
  BY <1>0, <1>2 DEF MatchesAreDisjoint, SearchIsRight
<1>12. SequentialKeepsUp'
  <2>1. SUFFICES ASSUME mode = "sequential"
                 PROVE  Len(matchList) >= expected'
    BY <1>0, <1>2 DEF SearchIsRight, SequentialKeepsUp
  <2>2. Len(matchList) \in Nat /\ expected \in Nat /\ Len(compiledList) \in Nat
        /\ DOMAIN compiledList = 1..Len(compiledList)
    BY <1>1 DEF SearchTypeOK
  <2>3. Len(matchList) >= expected
    BY <1>2, <2>1 DEF SearchIsRight, SequentialKeepsUp
  <2>4. SUFFICES ASSUME Len(matchList) = expected, expected' = expected + 1,
                        expected < Len(compiledList),
                        Occurrences(chunk, compiledList[expected + 1]) # {}
                 PROVE  FALSE
    BY <1>2, <2>2, <2>3
  <2> DEFINE k == expected + 1
             p == compiledList[k]
  <2>5. k \in DOMAIN compiledList /\ k > Len(matchList)
        /\ \A l \in DOMAIN compiledList : l > Len(matchList) => k <= l
    BY <2>2, <2>4
  <2> HIDE DEF k
  <2>6. k \in GetPatternList(matchList)
    BY <2>1, <2>5 DEF GetPatternList, GetMissingPatterns
  <2>7. p \in Texts
    BY <1>1, <2>5 DEF SearchTypeOK
  <2>8. PICK i \in 0..Len(chunk) : OccursAt(chunk, p, i)
    BY <2>4 DEF Occurrences, k
  <2>9. i \in Nat
    BY <1>2, <2>8
  <2>10. PICK j \in Nat : OccursAt(w, p, j)
    <3> HIDE DEF p
    <3> QED BY <1>2, <2>7, <2>8, <2>9, OccursInAll
  <2> QED BY <1>0, <1>1, <1>2, <2>6, <2>7, <2>10, NoHitNoOccurrence
<1>13. AllPartitions'
  BY <1>0, <1>2 DEF SearchIsRight, AllPartitions, GetMissingPatterns
<1> QED BY <1>4, <1>5, <1>6, <1>7, <1>8, <1>9, <1>10, <1>11, <1>12, <1>13 DEF SearchIsRight

\* f is n different ones of the n members of g.
DifferentMembers(n, f, g) ==
  /\ \A i, j \in 1..n : f[i] = f[j] => i = j
  /\ \A j \in 1..n : \E k \in 1..n : f[j] = g[k]

\* As many different members of a list as the list is long are all of them.
LEMMA AllOfTheList ==
  ASSUME NEW n \in Nat, NEW f, NEW g, DifferentMembers(n, f, g)
  PROVE  \A k \in 1..n : \E j \in 1..n : f[j] = g[k]
<1> DEFINE S == 1..n
           h == [j \in S |-> CHOOSE k \in S : f[j] = g[k]]
<1>1. \A j \in S : h[j] \in S /\ f[j] = g[h[j]]
  BY DEF DifferentMembers
<1>2. h \in [S -> S]
  <2>1. \A j \in S : (CHOOSE k \in S : f[j] = g[k]) \in S
    BY DEF DifferentMembers
  <2> QED BY <2>1
<1>3. \A i, j \in S : f[i] = f[j] => i = j
  BY DEF DifferentMembers
<1>4. IsFiniteSet(S)
  BY FS_Interval
<1> HIDE DEF h, S
<1>5. \A i, j \in S : h[i] = h[j] => i = j
  BY <1>1, <1>3
<1>6. h \in Injection(S, S)
  BY <1>2, <1>5 DEF Injection, IsInjective
<1>7. h \in Surjection(S, S)
  BY <1>4, <1>6, FS_Injection
<1>8. \A k \in S : \E j \in S : h[j] = k
  BY <1>7 DEF Surjection
<1>9. \A k \in S : \E j \in S : f[j] = g[k]
  BY <1>1, <1>8
<1> QED BY <1>9 DEF S

LEMMA MatchKeepsSearch ==
  ASSUME MatchInv, NEW chunk \in Chunks, Match(chunk)
  PROVE  MatchInv'
<1> DEFINE w == WindowAfter(chunk)
           k0 == Min(Hits(w))
           p == compiledList[k0]
           i == Min(Occurrences(w, p))
           m == [pattern |-> p, start |-> StartOf(w, i)]
           n == Len(matchList)
<1> USE DEF MatchInv
<1>0. /\ Received(chunk) /\ Hits(w) # {} /\ matchList' = Append(matchList, m)
      /\ IF Len(matchList') = ExpectedMatches
         THEN state' = "found" /\ window' = w
         ELSE window' = Cut(w, i, p) /\ state' = state
  BY DEF Match
<1>1. SearchTypeOK
  OBVIOUS
<1>2. /\ captured' = captured \o chunk /\ captured \in Texts /\ chunk \in Texts
      /\ EndOf(w, captured') /\ w \in Texts /\ captured' \in Texts
      /\ Len(w) = IF Len(window) + Len(chunk) <= 2 * SearchWindowSize
                  THEN Len(window) + Len(chunk) ELSE 2 * SearchWindowSize
      /\ Len(captured') = Len(captured) + Len(chunk) /\ Len(captured') <= MaxText
      /\ Len(w) \in Nat /\ Len(captured) \in Nat /\ Len(captured') \in Nat
      /\ Len(chunk) \in 1..SearchWindowSize /\ Len(window) \in Nat
      /\ mode' = mode /\ compiledList' = compiledList /\ state = "searching"
      /\ expected' \in 0..Len(compiledList)
      /\ expected' = expected \/ expected' = expected + 1
  BY <1>0, <1>1, ChunkReceived DEF ChunkOK
<1> HIDE DEF w
<1>3. /\ k0 \in DOMAIN compiledList /\ k0 \in GetPatternList(matchList)
      /\ p \in Texts \ {<<>>} /\ i \in Nat /\ OccursAt(w, p, i)
  BY <1>0, <1>1, <1>2, HitIsReal
<1> DEFINE s == StartOf(w, i)
<1> HIDE DEF k0, p, i
<1>4. /\ Len(p) \in Nat /\ i + Len(p) <= Len(w)
      /\ SearchWindowSize \in Nat \ {0} /\ Len(w) <= Len(captured')
      /\ Len(window) <= Len(captured)
  BY <1>2, <1>3, ExpectAssumption DEF Texts, OccursAt, EndOf, SearchTypeOK
<1>5. /\ s = (Len(captured') - Len(w)) + i /\ s \in Nat
      /\ s + Len(p) <= Len(captured') /\ s >= Len(captured) - Len(window)
  <2>1. s = (Len(captured') - Len(w)) + i
    BY DEF StartOf
  <2> HIDE DEF s
  <2>2. /\ Len(w) \in Nat /\ Len(captured) \in Nat /\ Len(captured') \in Nat
        /\ Len(window) \in Nat /\ Len(chunk) \in Nat /\ i \in Nat /\ Len(p) \in Nat
        /\ Len(w) <= Len(captured') /\ i + Len(p) <= Len(w)
        /\ Len(captured') = Len(captured) + Len(chunk)
    BY <1>2, <1>3, <1>4
  <2>3. Len(w) <= Len(window) + Len(chunk)
    BY <1>2, <1>4
  <2>4. s \in Nat /\ s + Len(p) <= Len(captured')
    BY <2>1, <2>2
  <2>5. s >= Len(captured) - Len(window)
    BY <2>1, <2>2, <2>3
  <2> QED BY <2>1, <2>4, <2>5
<1>6. OccursAt(captured', p, s)
  <2>1. OccursAt(captured', p, (Len(captured') - Len(w)) + i)
    BY <1>2, <1>3, OccursInAll
  <2> QED BY <1>5, <2>1
<1> HIDE DEF s
<1>7. m = [pattern |-> p, start |-> s]
  BY DEF s
<1>8. m \in Found /\ m.pattern = p /\ m.start = s
  BY <1>3, <1>5, <1>7 DEF Found
<1> HIDE DEF m
<1>9. /\ n \in Nat /\ DOMAIN matchList = 1..n /\ DOMAIN matchList' = 1..(n + 1)
      /\ Len(matchList') = n + 1 /\ matchList' \in Seq(Found)
      /\ \A k \in 1..n : matchList'[k] = matchList[k] /\ matchList[k] \in Found
      /\ matchList'[n + 1] = m
  BY <1>0, <1>1, <1>8 DEF SearchTypeOK
<1> HIDE DEF n
<1>10. \A k \in DOMAIN matchList' : k \in 1..n \/ k = n + 1
  BY <1>9
<1>11. /\ Len(compiledList) \in Nat /\ Len(compiledList) # 0
       /\ DOMAIN compiledList = 1..Len(compiledList)
  BY <1>1 DEF SearchTypeOK
<1>12. n < ExpectedMatches
  BY <1>2 DEF MatchesToGo, n
<1>13. ExpectedMatches' = ExpectedMatches /\ ExpectedMatches \in Nat
  BY <1>2, <1>11 DEF ExpectedMatches
<1>14. ASSUME state' = "searching"
       PROVE  /\ EndOf(window', captured') /\ Len(window') <= Len(w)
              /\ Len(captured') - Len(window') = s + Len(p)
  <2>1. window' = Cut(w, i, p)
    BY <1>0, <1>14
  <2> DEFINE e == i + Len(p)
  <2>2. e \in 0..Len(w)
    BY <1>2, <1>3, <1>4
  <2>3. window' = SubSeq(w, e + 1, Len(w))
    BY <2>1 DEF Cut
  <2> HIDE DEF e
  <2>4. EndOf(window', w) /\ Len(window') = Len(w) - e
    BY <1>2, <2>2, <2>3, TailIsEnd
  <2>5. EndOf(window', captured')
    BY <1>2, <2>4, EndOfEnd
  <2>6. Len(window') <= Len(w) /\ Len(captured') - Len(window') = s + Len(p)
    <3>1. /\ Len(w) \in Nat /\ Len(captured') \in Nat /\ i \in Nat /\ Len(p) \in Nat
          /\ s = (Len(captured') - Len(w)) + i /\ Len(window') = Len(w) - e /\ e \in Nat
      BY <1>2, <1>3, <1>4, <1>5, <2>2, <2>4
    <3>2. Len(window') <= Len(w)
      BY <3>1
    <3>3. Len(captured') - Len(window') = s + Len(p)
      BY <3>1 DEF e
    <3> QED BY <3>2, <3>3
  <2> QED BY <2>5, <2>6
<1>15. EndOf(window', captured') /\ Len(window') <= Len(w) /\ state' \in {"searching", "found"}
       /\ (state' = "found" <=> n + 1 = ExpectedMatches)
  <2>1. CASE n + 1 = ExpectedMatches
    <3>1. state' = "found" /\ window' = w
      BY <1>0, <1>9, <2>1
    <3> QED BY <1>2, <2>1, <3>1
  <2>2. CASE n + 1 # ExpectedMatches
    <3>1. state' = "searching"
      BY <1>0, <1>2, <1>9, <2>2
    <3> QED BY <1>14, <2>2, <3>1
  <2> QED BY <2>1, <2>2
<1>16. SearchTypeOK'
  <2>1. Len(w) <= 2 * SearchWindowSize
    BY <1>2, <1>4
  <2>2. Len(window') \in Nat
    BY <1>15 DEF EndOf, Texts
  <2>3. Len(window') <= 2 * SearchWindowSize
    BY <1>2, <1>4, <1>15, <2>1, <2>2
  <2>4. /\ mode' \in Modes /\ compiledList' \in Seq(Texts \ {<<>>}) /\ compiledList' # <<>>
        /\ expected' \in 0..Len(compiledList')
    BY <1>1, <1>2 DEF SearchTypeOK
  <2>5. EndOf(window', captured') /\ state' \in {"searching", "found", "timedout"}
        /\ Len(captured') <= MaxText /\ matchList' \in Seq(Found)
    BY <1>2, <1>9, <1>15
  <2> QED BY <2>3, <2>4, <2>5 DEF SearchTypeOK, EndOf
<1>17. MatchesToGo'
  <2>1. IF state' = "found" THEN Len(matchList') = ExpectedMatches
                           ELSE Len(matchList') < ExpectedMatches
    BY <1>9, <1>12, <1>13, <1>15
  <2> QED BY <1>13, <2>1 DEF MatchesToGo
<1>18. \A k \in 1..n : /\ EndAt(matchList[k]) <= Len(captured) - Len(window)
                       /\ EndAt(matchList[k]) \in Nat
  <2>1. \A k \in 1..n : EndAt(matchList[k]) \in Nat
    <3> SUFFICES ASSUME NEW k \in 1..n PROVE EndAt(matchList[k]) \in Nat
      OBVIOUS
    <3>1. matchList[k].start \in Nat /\ matchList[k].pattern \in Seq(Chars)
      BY <1>9 DEF Found, Texts
    <3>2. Len(matchList[k].pattern) \in Nat
      BY <3>1
    <3> QED BY <3>1, <3>2 DEF EndAt
  <2>2. \A k \in 1..n : EndAt(matchList[k]) <= Len(captured) - Len(window)
    BY <1>2, <1>9 DEF WindowIsPastMatches
  <2> QED BY <2>1, <2>2
<1>19. \A k \in 1..n : EndAt(matchList[k]) <= s
  <2> SUFFICES ASSUME NEW k \in 1..n PROVE EndAt(matchList[k]) <= s
    OBVIOUS
  <2> DEFINE e == EndAt(matchList[k])
  <2>1. e \in Nat /\ e <= Len(captured) - Len(window)
    BY <1>18
  <2> HIDE DEF e
  <2>2. e <= s
    BY <1>2, <1>5, <2>1
  <2> QED BY <2>2 DEF e
<1>20. WindowIsPastMatches'
  <2> SUFFICES ASSUME state' = "searching", NEW k \in DOMAIN matchList'
               PROVE  EndAt(matchList'[k]) <= Len(captured') - Len(window')
    BY DEF WindowIsPastMatches, EndAt
  <2>1. Len(captured') - Len(window') = s + Len(p)
    BY <1>14
  <2>2. CASE k \in 1..n
    <3> DEFINE e == EndAt(matchList[k])
    <3>1. e \in Nat /\ e <= s
      BY <1>18, <1>19, <2>2
    <3> HIDE DEF e
    <3>2. e <= s + Len(p)
      BY <1>4, <1>5, <3>1
    <3> QED BY <1>9, <2>1, <2>2, <3>2 DEF e
  <2>3. CASE k = n + 1
    <3>1. EndAt(matchList'[k]) = s + Len(p)
      BY <1>8, <1>9, <2>3 DEF EndAt
    <3> QED BY <1>4, <1>5, <2>1, <3>1
  <2> QED BY <1>10, <2>2, <2>3
<1>21. WindowIsWide'
  <2>1. SUFFICES ASSUME mode = "any" PROVE state' = "found"
    BY <1>2 DEF WindowIsWide
  <2>2. n + 1 = 1
    BY <1>9, <1>12, <2>1 DEF ExpectedMatches
  <2> QED BY <1>15, <2>1, <2>2 DEF ExpectedMatches
<1>22. MatchesAreListed'
  <2> SUFFICES ASSUME mode = "all", NEW j \in DOMAIN matchList'
               PROVE  \E k \in DOMAIN compiledList : matchList'[j].pattern = compiledList[k]
    BY <1>2 DEF MatchesAreListed
  <2>1. CASE j \in 1..n
    BY <1>9, <2>1 DEF MatchesAreListed
  <2>2. CASE j = n + 1
    BY <1>3, <1>8, <1>9, <2>2 DEF p
  <2> QED BY <1>10, <2>1, <2>2
<1>23. MatchesAreReal'
  <2> SUFFICES ASSUME NEW k \in DOMAIN matchList'
               PROVE  OccursAt(captured', matchList'[k].pattern, matchList'[k].start)
    BY DEF MatchesAreReal, OccursAt
  <2>1. CASE k \in 1..n
    BY <1>1, <1>2, <1>9, <2>1, MatchesStay DEF SearchIsRight
  <2>2. CASE k = n + 1
    BY <1>6, <1>8, <1>9, <2>2
  <2> QED BY <1>10, <2>1, <2>2
<1>24. NothingSlipsThrough'
  <2>1. SUFFICES ASSUME mode = "any" PROVE state' = "found"
    BY <1>2 DEF NothingSlipsThrough
  <2>2. n + 1 = 1
    BY <1>9, <1>12, <2>1 DEF ExpectedMatches
  <2> QED BY <1>15, <2>1, <2>2 DEF ExpectedMatches
<1>25. MatchesAreDisjoint'
  <2> SUFFICES ASSUME NEW j \in DOMAIN matchList', NEW k \in DOMAIN matchList', j < k
               PROVE  EndAt(matchList'[j]) <= matchList'[k].start
    BY DEF MatchesAreDisjoint, EndAt
  <2>1. CASE k \in 1..n
    <3>1. j \in 1..n
      BY <1>9, <2>1
    <3> QED BY <1>9, <2>1, <3>1 DEF SearchIsRight, MatchesAreDisjoint, EndAt
  <2>2. CASE k = n + 1
    <3>1. j \in 1..n
      BY <1>9, <2>2
    <3> QED BY <1>8, <1>9, <1>19, <2>2, <3>1
  <2> QED BY <1>10, <2>1, <2>2
<1>26. SequentialKeepsUp'
  <2> SUFFICES ASSUME mode = "sequential"
               PROVE  /\ \A k \in DOMAIN matchList' : matchList'[k].pattern = compiledList[k]
                      /\ Len(matchList') >= expected' \/ state' = "found"
    BY <1>2 DEF SequentialKeepsUp
  <2>1. Len(matchList) >= expected /\ \A k \in DOMAIN matchList : matchList[k].pattern = compiledList[k]
    BY <1>2 DEF SearchIsRight, SequentialKeepsUp
  <2>2. expected \in Nat
    BY <1>1 DEF SearchTypeOK
  <2>3. Len(matchList') >= expected'
    BY <1>2, <1>9, <2>1, <2>2 DEF n
  <2>4. k0 = n + 1
    <3>1. /\ k0 > n
          /\ \A l \in DOMAIN compiledList : l > n => k0 <= l
      BY <1>3 DEF GetPatternList, GetMissingPatterns, n
    <3>2. n + 1 \in DOMAIN compiledList /\ n + 1 > n
      BY <1>9, <1>11, <1>12 DEF ExpectedMatches
    <3> QED BY <1>3, <1>9, <1>11, <3>1, <3>2
  <2>5. \A k \in DOMAIN matchList' : matchList'[k].pattern = compiledList[k]
    BY <1>8, <1>9, <1>10, <2>1, <2>4 DEF p
  <2> QED BY <2>3, <2>5
<1>27. AllPartitions'
  <2> SUFFICES ASSUME mode = "all"
               PROVE  /\ \A j, k \in DOMAIN matchList' :
                           matchList'[j].pattern = matchList'[k].pattern => j = k
                      /\ state' = "found" => GetMissingPatterns(matchList)' = {}
    BY <1>2 DEF AllPartitions
  <2>1. \A j \in 1..n : matchList[j].pattern # p
    BY <1>3, <1>9 DEF GetPatternList, GetMissingPatterns, p
  <2>2. \A j, k \in 1..n : matchList[j].pattern = matchList[k].pattern => j = k
    BY <1>9 DEF SearchIsRight, AllPartitions
  <2>3. \A j, k \in DOMAIN matchList' : matchList'[j].pattern = matchList'[k].pattern => j = k
    BY <1>8, <1>9, <1>10, <2>1, <2>2
  <2>4. ASSUME state' = "found" PROVE GetMissingPatterns(matchList)' = {}
    <3> DEFINE f == [j \in 1..(n + 1) |-> matchList'[j].pattern]
    <3>1. n + 1 = Len(compiledList)
      BY <1>15, <2>4 DEF ExpectedMatches
    <3>2. \A j \in 1..(n + 1) : f[j] = matchList'[j].pattern
      OBVIOUS
    <3> HIDE DEF f
    <3>3. \A j, k \in 1..(n + 1) : f[j] = f[k] => j = k
      BY <1>9, <2>3, <3>2
    <3>4. \A j \in 1..(n + 1) : \E k \in 1..(n + 1) : f[j] = compiledList[k]
      <4>1. \A j \in DOMAIN matchList' : \E k \in DOMAIN compiledList : matchList'[j].pattern = compiledList[k]
        BY <1>2, <1>22 DEF MatchesAreListed
      <4>2. DOMAIN matchList' = 1..(n + 1) /\ DOMAIN compiledList = 1..(n + 1)
        BY <1>9, <1>11, <3>1
      <4> QED BY <3>2, <4>1, <4>2
    <3>5. n + 1 \in Nat
      BY <1>9
    <3>6. \A k \in 1..(n + 1) : \E j \in 1..(n + 1) : f[j] = compiledList[k]
      <4>1. DifferentMembers(n + 1, f, compiledList)
        BY <3>3, <3>4 DEF DifferentMembers
      <4> QED BY <3>5, <4>1, AllOfTheList
    <3>7. \A k \in DOMAIN compiledList : \E j \in DOMAIN matchList' : matchList'[j].pattern = compiledList[k]
      <4>1. DOMAIN matchList' = 1..(n + 1) /\ DOMAIN compiledList = 1..(n + 1)
        BY <1>9, <1>11, <3>1
      <4> SUFFICES ASSUME NEW k \in DOMAIN compiledList
                   PROVE  \E j \in DOMAIN matchList' : matchList'[j].pattern = compiledList[k]
        OBVIOUS
      <4>2. PICK j \in 1..(n + 1) : f[j] = compiledList[k]
        BY <3>6, <4>1
      <4>3. j \in DOMAIN matchList' /\ matchList'[j].pattern = compiledList[k]
        BY <3>2, <4>1, <4>2
      <4> QED BY <4>3
    <3> QED BY <1>2, <3>7 DEF GetMissingPatterns
  <2> QED BY <2>3, <2>4
<1> QED
  BY <1>16, <1>17, <1>20, <1>21, <1>22, <1>23, <1>24, <1>25, <1>26, <1>27 DEF SearchIsRight

LEMMA SearchStarts ==
  ASSUME MatchInit
  PROVE  MatchInv
<1>1. /\ mode \in Modes /\ captured = <<>> /\ window = <<>> /\ matchList = <<>>
      /\ state = "searching" /\ expected = 0
  BY DEF MatchInit
<1>2. compiledList \in Seq(Texts \ {<<>>}) /\ compiledList # <<>>
  <2>1. Patterns \subseteq Texts \ {<<>>}
    <3> SUFFICES ASSUME NEW q \in Patterns PROVE q \in Texts \ {<<>>}
      OBVIOUS
    <3>1. PICK m \in 0..MaxPattern : q \in [1..m -> Chars]
      BY DEF Patterns, BoundedSeq, SeqOf
    <3>2. q \in Seq(Chars)
      BY <3>1, ExpectAssumption
    <3> QED BY <3>2 DEF Patterns, Texts
  <2>2. PICK m \in 0..MaxPatterns : compiledList \in [1..m -> Patterns]
    BY DEF MatchInit, BoundedSeq, SeqOf
  <2>3. compiledList \in [1..m -> Texts \ {<<>>}] /\ m \in Nat
    BY <2>1, <2>2, ExpectAssumption
  <2>4. compiledList \in Seq(Texts \ {<<>>})
    <3> HIDE DEF Texts
    <3> QED BY <2>3
  <2> QED BY <2>4 DEF MatchInit
<1>3. Len(compiledList) \in Nat \ {0} /\ DOMAIN compiledList = 1..Len(compiledList)
  BY <1>2
<1>4. EndOf(<<>>, <<>>)
  BY DEF EndOf, Texts
<1>5. SearchTypeOK
  BY <1>1, <1>2, <1>3, <1>4, ExpectAssumption DEF SearchTypeOK
<1>6. \A k \in DOMAIN compiledList : Occurrences(captured, compiledList[k]) = {}
  <2> SUFFICES ASSUME NEW k \in DOMAIN compiledList, NEW i \in 0..Len(captured),
                      OccursAt(captured, compiledList[k], i)
               PROVE  FALSE
    BY DEF Occurrences
  <2>1. compiledList[k] \in Seq(Chars) /\ compiledList[k] # <<>>
    BY <1>2 DEF Texts
  <2>2. Len(compiledList[k]) \in Nat \ {0}
    BY <2>1
  <2>3. i = 0 /\ Len(captured) = 0
    BY <1>1
  <2> QED BY <2>2, <2>3 DEF OccursAt
<1>7. NothingSlipsThrough
  BY <1>6 DEF NothingSlipsThrough
<1>8. MatchesToGo
  BY <1>1, <1>3 DEF MatchesToGo, ExpectedMatches
<1>9. WindowIsPastMatches /\ WindowIsWide /\ MatchesAreListed
  BY <1>1 DEF WindowIsPastMatches, WindowIsWide, MatchesAreListed
<1>10. MatchesAreReal /\ MatchesAreDisjoint /\ SequentialKeepsUp /\ AllPartitions
  BY <1>1 DEF MatchesAreReal, MatchesAreDisjoint, SequentialKeepsUp, AllPartitions
<1> QED BY <1>5, <1>7, <1>8, <1>9, <1>10 DEF MatchInv, SearchIsRight

LEMMA SearchStepKeeps ==
  ASSUME MatchInv, [MatchNext]_matchVars
  PROVE  MatchInv'
<1>1. ASSUME UNCHANGED matchVars \/ TimesOut PROVE MatchInv'
  <2>1. /\ mode' = mode /\ compiledList' = compiledList /\ captured' = captured
        /\ window' = window /\ matchList' = matchList /\ expected' = expected
        /\ state' = state \/ (state = "searching" /\ state' = "timedout")
    BY <1>1 DEF matchVars, TimesOut
  <2> USE DEF MatchInv, SearchIsRight
  <2>2. SearchTypeOK'
    BY <2>1 DEF SearchTypeOK, EndOf
  <2>3. MatchesToGo'
    BY <2>1 DEF MatchesToGo, ExpectedMatches
  <2>4. WindowIsPastMatches' /\ WindowIsWide' /\ MatchesAreListed'
    BY <2>1 DEF WindowIsPastMatches, EndAt, WindowIsWide, MatchesAreListed
  <2>5. MatchesAreReal' /\ MatchesAreDisjoint'
    BY <2>1 DEF MatchesAreReal, OccursAt, MatchesAreDisjoint
  <2>6. NothingSlipsThrough'
    BY <2>1 DEF NothingSlipsThrough, Occurrences, OccursAt
  <2>7. SequentialKeepsUp' /\ AllPartitions'
    BY <2>1 DEF SequentialKeepsUp, AllPartitions, GetMissingPatterns
  <2> QED BY <2>2, <2>3, <2>4, <2>5, <2>6, <2>7
<1>3. ASSUME NEW chunk \in Chunks, NoMatch(chunk) PROVE MatchInv'
  BY <1>3, NoMatchKeepsSearch
<1>4. ASSUME NEW chunk \in Chunks, Match(chunk) PROVE MatchInv'
  BY <1>4, MatchKeepsSearch
<1> QED BY <1>1, <1>3, <1>4 DEF MatchNext

\* Every match is where .before and .after are split, no pattern that is at most
\* one longer than the search window size slips through between two chunks, no
\* occurrence counts twice, "sequential" keeps the order and keeps up with chunks,
\* and "all" ends with every pattern matched once: for any alphabet, patterns,
\* window size and cut of the text into chunks.
THEOREM SearchStaysRight == MatchSpec => []SearchIsRight
<1>1. MatchInit => MatchInv
  BY SearchStarts
<1>2. MatchInv /\ [MatchNext]_matchVars => MatchInv'
  BY SearchStepKeeps
<1>3. MatchInv => SearchIsRight
  BY DEF MatchInv
<1> QED BY <1>1, <1>2, <1>3, PTL DEF MatchSpec

-----------------------------------------------------------------------------
(* The types of both halves.                                               *)

\* How deep the calls are and how many of them use the stream, also after a
\* disturbance.
CallsOK ==
  /\ mpc = "idle" => depth = 0 /\ users = 0
  /\ mpc = "enter" => depth \in {1, 2} /\ users \in 0..(depth - 1)
  /\ mpc \in {"flushOn", "toggleOn", "wait"} => depth \in {1, 2} /\ users \in 0..depth
  /\ mpc = "func" => depth = 1 /\ users \in 0..1
  /\ mpc \in {"toggleOff", "flushOff"} => depth \in {1, 2} /\ users = 0

\* The lines on their way are lines that were published.
OnTheWayOK ==
  /\ buffer \in [Transports -> Seq(1..lines)]
  /\ queue \in Seq([line : 1..lines, call : 0..MaxExpects])

StreamInv ==
  /\ SwitchOK /\ CallsOK /\ OnTheWayOK
  /\ expects \in 0..MaxExpects /\ lines \in 0..MaxLines
  /\ due \subseteq 1..lines /\ heard \subseteq 1..lines /\ disturbed \in BOOLEAN

LEMMA MainStepKeepsTypes ==
  ASSUME StreamInv, MainNext
  PROVE  StreamInv'
<1> USE RawDataAssumption
<1>1. lines' = lines /\ buffer' = buffer /\ lines \in Nat /\ transports \in Nat
  BY DEF MainNext, Expect, InnerExpect, Enable, FlushOn, ToggleOn, ToggleOff, Toggle,
     FlushOff, FuncReturns, Take, ExpectEnds, FuncRaises, Interrupted, AddTransportProcess,
     DeleteLastTransportProcess, stream, StreamInv, SwitchOK, Transports
<1>2. SwitchOK'
  <2> USE DEF StreamInv, SwitchOK, Pcs, Transports
  <2>1. CASE Expect \/ InnerExpect \/ Enable \/ FuncReturns \/ Take
    BY <2>1 DEF Expect, InnerExpect, Enable, Body, FuncReturns, Take
  <2>2. CASE FlushOn \/ FlushOff
    BY <2>2 DEF FlushOn, FlushOff, Flush, Goto, Leave
  <2>3. CASE ToggleOn \/ ToggleOff
    <3>1. /\ transports' = transports /\ mpc' \in Pcs
          /\ IF at <= transports THEN enabled' = [enabled EXCEPT ![at] = ~@] /\ at' = at + 1
                                 ELSE at' = 1 /\ enabled' = enabled
      BY <2>3 DEF ToggleOn, ToggleOff, Toggle, Body
    <3>2. at' \in 1..(MaxTransports + 1)
      BY <3>1
    <3>3. enabled' \in [Transports -> BOOLEAN]
      BY <3>1, ZenonT(30)
    <3> QED BY <3>1, <3>2, <3>3
  <2>4. CASE ExpectEnds \/ FuncRaises \/ Interrupted
    BY <2>4 DEF ExpectEnds, FuncRaises, Interrupted, Disable, Goto, Leave
  <2>5. CASE AddTransportProcess \/ DeleteLastTransportProcess
    <3>1. /\ at' = at /\ mpc' = mpc
          /\ enabled' = enabled \/ enabled' = [enabled EXCEPT ![transports] = FALSE]
      BY <2>5 DEF AddTransportProcess, DeleteLastTransportProcess
    <3>2. transports' \in Transports
      BY <2>5 DEF AddTransportProcess, DeleteLastTransportProcess
    <3>3. enabled' \in [Transports -> BOOLEAN]
      BY <3>1
    <3> QED BY <3>1, <3>2, <3>3
  <2> QED BY <2>1, <2>2, <2>3, <2>4, <2>5 DEF MainNext
<1>3. CallsOK'
  <2> USE DEF StreamInv, SwitchOK, Pcs, CallsOK
  <2>1. CASE Expect \/ InnerExpect
    BY <2>1 DEF Expect, InnerExpect
  <2>2. CASE Enable
    BY <2>2 DEF Enable, Body
  <2>3. CASE FlushOn \/ FlushOff
    BY <2>3 DEF FlushOn, FlushOff, Flush, Goto, Leave
  <2>4. CASE ToggleOn \/ ToggleOff
    BY <2>4 DEF ToggleOn, ToggleOff, Toggle, Body
  <2>5. CASE FuncReturns \/ Take
    BY <2>5 DEF FuncReturns, Take
  <2>6. CASE ExpectEnds \/ FuncRaises
    BY <2>6 DEF ExpectEnds, FuncRaises, Disable, Goto, Leave
  <2>7. CASE Interrupted
    BY <2>7 DEF Interrupted, Disable, Goto, Leave
  <2>8. CASE AddTransportProcess \/ DeleteLastTransportProcess
    BY <2>8 DEF AddTransportProcess, DeleteLastTransportProcess
  <2> QED BY <2>1, <2>2, <2>3, <2>4, <2>5, <2>6, <2>7, <2>8 DEF MainNext
<1>4. OnTheWayOK'
  <2> DEFINE M == [line : 1..lines, call : 0..MaxExpects]
  <2>1. queue' = queue \/ (queue # <<>> /\ queue' = Tail(queue))
    BY DEF MainNext, Expect, InnerExpect, Enable, FlushOn, ToggleOn, ToggleOff, Toggle,
       FlushOff, FuncReturns, Take, ExpectEnds, FuncRaises, Interrupted, AddTransportProcess,
       DeleteLastTransportProcess, Flush, stream
  <2>2. queue \in Seq(M)
    BY DEF StreamInv, OnTheWayOK
  <2> HIDE DEF M
  <2>3. queue' \in Seq(M)
    BY <2>1, <2>2
  <2> QED BY <1>1, <2>3 DEF M, StreamInv, OnTheWayOK
<1>5. expects' \in 0..MaxExpects
  BY DEF MainNext, Expect, InnerExpect, Enable, FlushOn, ToggleOn, ToggleOff, Toggle,
     FlushOff, FuncReturns, Take, ExpectEnds, FuncRaises, Interrupted, AddTransportProcess,
     DeleteLastTransportProcess, StreamInv
<1>6. due' \subseteq 1..lines
  BY DEF MainNext, Expect, InnerExpect, Enable, FlushOn, ToggleOn, ToggleOff, Toggle,
     FlushOff, FuncReturns, Take, ExpectEnds, FuncRaises, Interrupted, AddTransportProcess,
     DeleteLastTransportProcess, StreamInv, stream
<1>7. heard' \subseteq 1..lines
  <2>1. CASE Take
    <3> DEFINE M == [line : 1..lines, call : 0..MaxExpects]
    <3>1. queue \in Seq(M) /\ queue # <<>>
      BY <2>1 DEF StreamInv, OnTheWayOK, Take
    <3>2. Head(queue) \in M
      <4> HIDE DEF M
      <4> QED BY <3>1
    <3> QED BY <2>1, <3>2 DEF Take, StreamInv
  <2>2. CASE ~ Take
    BY <2>2 DEF MainNext, Expect, InnerExpect, Enable, FlushOn, ToggleOn, ToggleOff, Toggle,
       FlushOff, FuncReturns, ExpectEnds, FuncRaises, Interrupted, AddTransportProcess,
       DeleteLastTransportProcess, StreamInv, stream
  <2> QED BY <2>1, <2>2
<1>8. disturbed' \in BOOLEAN
  BY DEF MainNext, Expect, InnerExpect, Enable, FlushOn, ToggleOn, ToggleOff, Toggle,
     FlushOff, FuncReturns, Take, ExpectEnds, FuncRaises, Interrupted, AddTransportProcess,
     DeleteLastTransportProcess, StreamInv, stream
<1> QED BY <1>1, <1>2, <1>3, <1>4, <1>5, <1>6, <1>7, <1>8 DEF StreamInv

LEMMA TransportStepKeepsTypes ==
  ASSUME StreamInv, NEW t \in Transports, PublishLine(t) \/ Feed(t)
  PROVE  StreamInv'
<1> USE RawDataAssumption
<1>1. /\ UNCHANGED <<transports, enabled, users, mpc, depth, at, expects, heard, disturbed>>
      /\ lines \in Nat /\ lines' \in 0..MaxLines /\ lines <= lines'
  BY DEF PublishLine, Feed, StreamInv
<1>2. SwitchOK' /\ CallsOK'
  BY <1>1 DEF StreamInv, SwitchOK, CallsOK
<1>3. 1..lines \subseteq 1..lines'
  BY <1>1
<1>4. heard' \subseteq 1..lines' /\ due' \subseteq 1..lines'
  <2>1. heard \subseteq 1..lines /\ due \subseteq 1..lines
    BY DEF StreamInv
  <2>2. due' = due \/ (due' = due \cup {lines + 1} /\ lines' = lines + 1)
    BY DEF PublishLine, Feed
  <2>3. lines' = lines + 1 => lines + 1 \in 1..lines'
    BY <1>1
  <2> QED BY <1>1, <1>3, <2>1, <2>2, <2>3
<1> DEFINE N == 1..lines
           M == [line : 1..lines, call : 0..MaxExpects]
           N1 == 1..lines'
           M1 == [line : 1..lines', call : 0..MaxExpects]
<1>5. M \subseteq M1 /\ N \subseteq N1
  BY <1>3
<1>6. buffer \in [Transports -> Seq(N)] /\ queue \in Seq(M)
  BY DEF StreamInv, OnTheWayOK
<1>7. PublishLine(t) => lines + 1 \in N1
  BY <1>1 DEF PublishLine
<1>8. \A n \in N : [line |-> n, call |-> expects] \in M
  BY <1>1 DEF StreamInv
<1> HIDE DEF N, M, N1, M1
<1>9. buffer \in [Transports -> Seq(N1)] /\ queue \in Seq(M1)
  BY <1>5, <1>6
<1>10. CASE PublishLine(t)
  <2>1. Append(buffer[t], lines + 1) \in Seq(N1)
    BY <1>7, <1>9, <1>10
  <2>2. queue' = queue
        /\ (buffer' = buffer \/ buffer' = [buffer EXCEPT ![t] = Append(buffer[t], lines + 1)])
    BY <1>10 DEF PublishLine
  <2>3. buffer' \in [Transports -> Seq(N1)] /\ queue' \in Seq(M1)
    BY <1>9, <2>1, <2>2
  <2>4. OnTheWayOK'
    BY <1>1, <2>3 DEF N1, M1, OnTheWayOK
  <2> QED BY <1>1, <1>2, <1>4, <2>4 DEF StreamInv
<1>11. CASE Feed(t)
  <2>1. buffer[t] \in Seq(N) /\ buffer[t] # <<>>
    BY <1>6, <1>11 DEF Feed
  <2>2. Head(buffer[t]) \in N /\ Tail(buffer[t]) \in Seq(N)
    BY <2>1
  <2>3. Tail(buffer[t]) \in Seq(N1)
    BY <1>5, <2>2
  <2> DEFINE msg == [line |-> Head(buffer[t]), call |-> expects]
  <2>4. msg \in M1
    BY <1>5, <1>8, <2>2
  <2> HIDE DEF msg
  <2>5. queue' = Append(queue, msg) /\ buffer' = [buffer EXCEPT ![t] = Tail(buffer[t])]
    BY <1>11 DEF Feed, msg
  <2>6. buffer' \in [Transports -> Seq(N1)] /\ queue' \in Seq(M1)
    BY <1>9, <2>3, <2>4, <2>5
  <2>7. OnTheWayOK'
    BY <1>1, <2>6 DEF N1, M1, OnTheWayOK
  <2> QED BY <1>1, <1>2, <1>4, <2>7 DEF StreamInv
<1> QED BY <1>10, <1>11

LEMMA StreamStepKeepsTypes ==
  ASSUME StreamInv, [Next]_vars
  PROVE  StreamInv'
<1>1. CASE UNCHANGED vars
  BY <1>1 DEF vars, StreamInv, SwitchOK, CallsOK, OnTheWayOK
<1>2. CASE MainNext
  BY <1>2, MainStepKeepsTypes
<1>3. ASSUME NEW t \in Transports, PublishLine(t) \/ Feed(t) PROVE StreamInv'
  BY <1>3, TransportStepKeepsTypes
<1> QED BY <1>1, <1>2, <1>3 DEF Next

LEMMA StreamStarts ==
  ASSUME Init
  PROVE  StreamInv
<1> USE RawDataAssumption DEF Init
<1>1. SwitchOK /\ CallsOK
  BY DEF SwitchOK, CallsOK, Pcs, Transports
<1>2. <<>> \in Seq(1..lines) /\ <<>> \in Seq([line : 1..lines, call : 0..MaxExpects])
  OBVIOUS
<1>3. OnTheWayOK
  BY <1>2 DEF OnTheWayOK
<1>4. expects \in 0..MaxExpects /\ lines \in 0..MaxLines
  OBVIOUS
<1>5. due \subseteq 1..lines /\ heard \subseteq 1..lines /\ disturbed \in BOOLEAN
  OBVIOUS
<1> QED BY <1>1, <1>3, <1>4, <1>5 DEF StreamInv

LEMMA StreamIsTyped ==
  ASSUME StreamInv
  PROVE  TypeOK
<1> USE RawDataAssumption
<1> DEFINE N == 1..lines
           M == [line : 1..lines, call : 0..MaxExpects]
           N1 == 1..MaxLines
<1>1. N \subseteq N1 /\ M \subseteq Messages
  BY DEF StreamInv, Messages
<1>2. buffer \in [Transports -> Seq(N)] /\ queue \in Seq(M)
  BY DEF StreamInv, OnTheWayOK
<1> HIDE DEF N, M, N1
<1>3. buffer \in [Transports -> Seq(N1)] /\ queue \in Seq(Messages)
  BY <1>1, <1>2
<1>4. users \in 0..2 /\ depth \in 0..2
  BY DEF StreamInv, SwitchOK, CallsOK, Pcs
<1> QED BY <1>3, <1>4 DEF N1, StreamInv, SwitchOK, Pcs, TypeOK

LEMMA SearchIsTyped ==
  ASSUME MatchInv
  PROVE  MatchTypeOK
<1> USE DEF MatchInv
<1>1. Len(captured) \in Nat
  BY DEF SearchTypeOK, EndOf, Texts
<1>2. ASSUME NEW k \in DOMAIN matchList PROVE matchList[k].start \in 0..MaxText
  <2>1. matchList[k] \in Found
    BY DEF SearchTypeOK
  <2>2. matchList[k].start \in Nat /\ matchList[k].pattern \in Seq(Chars)
    BY <2>1 DEF Found, Texts
  <2>3. Len(matchList[k].pattern) \in Nat
    BY <2>2
  <2>4. matchList[k].start + Len(matchList[k].pattern) <= Len(captured)
    BY DEF SearchIsRight, MatchesAreReal, OccursAt
  <2>5. Len(captured) <= MaxText
    BY DEF SearchTypeOK
  <2> QED BY <1>1, <2>2, <2>3, <2>4, <2>5, ExpectAssumption
<1>3. Len(matchList) <= ExpectedMatches
  <2>1. Len(matchList) \in Nat
    BY DEF SearchTypeOK
  <2>2. ExpectedMatches \in Nat
    BY DEF SearchTypeOK, ExpectedMatches
  <2> QED BY <2>1, <2>2 DEF MatchesToGo
<1> QED BY <1>2, <1>3 DEF SearchTypeOK, MatchTypeOK

\* Both halves stay within their types: toggling never runs past the last
\* transport process, calls are at most two deep and count at most two users
\* whatever interrupts them, and every match starts within the text.
THEOREM TypesAreKept == MCSpec => []MCTypeOK
<1>1. MCInit => StreamInv /\ MatchInv
  BY StreamStarts, SearchStarts DEF MCInit
<1>2. StreamInv /\ MatchInv /\ [MCNext]_<<half, vars, matchVars>> => StreamInv' /\ MatchInv'
  <2> SUFFICES ASSUME StreamInv, MatchInv, [MCNext]_<<half, vars, matchVars>>
               PROVE  StreamInv' /\ MatchInv'
    OBVIOUS
  <2>1. [Next]_vars /\ [MatchNext]_matchVars
    BY DEF MCNext
  <2> QED BY <2>1, StreamStepKeepsTypes, SearchStepKeeps
<1>3. StreamInv /\ MatchInv => MCTypeOK
  BY StreamIsTyped, SearchIsTyped DEF MCTypeOK
<1> QED BY <1>1, <1>2, <1>3, PTL DEF MCSpec

\* From the first flush of the outermost call on, also in a call inside its function
\* and after a disturbance, the queue has only lines that reached it in this call.
Fresh ==
  depth = 2 \/ mpc \in {"toggleOn", "func", "wait"} =>
    \A i \in DOMAIN queue : queue[i].call = expects

\* A flush ends with an empty queue, and only the outermost call has to flush: a
\* call inside another's function finds at most lines of that one.
LEMMA FreshStep ==
  ASSUME StreamInv, Fresh, [Next]_vars
  PROVE  Fresh'
<1> DEFINE M == [line : 1..lines, call : 0..MaxExpects]
<1>1. queue \in Seq(M)
  BY DEF StreamInv, OnTheWayOK
<1> HIDE DEF M
<1> USE DEF StreamInv, CallsOK, SwitchOK, Pcs
<1>2. CASE Expect
  BY <1>2 DEF Expect, Fresh
<1>3. CASE FlushOn \/ FlushOff
  <2>1. CASE queue = <<>>
    <3>1. queue' = <<>>
      BY <1>3, <2>1 DEF FlushOn, FlushOff, Flush
    <3> QED BY <3>1 DEF Fresh
  <2>2. CASE queue # <<>>
    <3>1. queue' = Tail(queue) /\ expects' = expects /\ mpc' = mpc /\ depth' = depth
      BY <1>3, <2>2 DEF FlushOn, FlushOff, Flush
    <3>2. \A i \in DOMAIN queue' : i + 1 \in DOMAIN queue /\ queue'[i] = queue[i + 1]
      BY <1>1, <2>2, <3>1
    <3> QED BY <3>1, <3>2 DEF Fresh
  <2> QED BY <2>1, <2>2
<1>4. CASE Take
  <2>1. /\ queue' = Tail(queue) /\ queue # <<>>
        /\ expects' = expects /\ mpc' = mpc /\ depth' = depth
    BY <1>4 DEF Take
  <2>2. \A i \in DOMAIN queue' : i + 1 \in DOMAIN queue /\ queue'[i] = queue[i + 1]
    BY <1>1, <2>1
  <2> QED BY <2>1, <2>2 DEF Fresh
<1>5. CASE InnerExpect \/ Enable \/ ToggleOn \/ ToggleOff \/ FuncReturns \/ ExpectEnds
           \/ FuncRaises \/ Interrupted \/ AddTransportProcess \/ DeleteLastTransportProcess
           \/ UNCHANGED vars
  <2>1. queue' = queue /\ expects' = expects
    BY <1>5 DEF InnerExpect, Enable, ToggleOn, ToggleOff, Toggle, FuncReturns, ExpectEnds,
         FuncRaises, Interrupted, AddTransportProcess, DeleteLastTransportProcess, stream, vars
  <2>2. depth' = 2 \/ mpc' \in {"toggleOn", "func", "wait"} =>
          depth = 2 \/ mpc \in {"toggleOn", "func", "wait"}
    BY <1>5 DEF InnerExpect, Enable, Body, ToggleOn, ToggleOff, Toggle, FuncReturns,
         ExpectEnds, FuncRaises, Interrupted, Disable, Goto, Leave, AddTransportProcess,
         DeleteLastTransportProcess, vars
  <2> QED BY <2>1, <2>2 DEF Fresh
<1>6. ASSUME NEW t \in Transports, PublishLine(t) PROVE Fresh'
  BY <1>6 DEF PublishLine, Fresh
<1>7. ASSUME NEW t \in Transports, Feed(t) PROVE Fresh'
  <2> DEFINE msg == [line |-> Head(buffer[t]), call |-> expects]
  <2>1. msg.call = expects
    OBVIOUS
  <2> HIDE DEF msg
  <2>2. /\ queue' = Append(queue, msg)
        /\ expects' = expects /\ mpc' = mpc /\ depth' = depth
    BY <1>7 DEF Feed, msg
  <2>3. \A i \in DOMAIN queue' : (i \in DOMAIN queue /\ queue'[i] = queue[i]) \/ queue'[i] = msg
    BY <1>1, <2>2
  <2> QED BY <2>1, <2>2, <2>3 DEF Fresh
<1> QED BY <1>2, <1>3, <1>4, <1>5, <1>6, <1>7 DEF Next, MainNext

\* A call looks only at lines that reached the pipe during that call, for any
\* number of transports, lines and calls, also when an interrupted call has left
\* transports publishing.
THEOREM StaleLinesAreFlushed == Spec => NoStaleLines
<1>1. Init => StreamInv /\ Fresh
  <2>1. Init => Fresh
    BY DEF Init, Fresh
  <2> QED BY <2>1, StreamStarts
<1>2. (StreamInv /\ Fresh) /\ [Next]_vars => (StreamInv /\ Fresh)'
  BY StreamStepKeepsTypes, FreshStep
<1>3. StreamInv /\ Fresh /\ [Next]_vars => [Take => Head(queue).call = expects]_vars
  <2> SUFFICES ASSUME StreamInv, Fresh, Take PROVE Head(queue).call = expects
    OBVIOUS
  <2> DEFINE M == [line : 1..lines, call : 0..MaxExpects]
  <2>1. queue \in Seq(M) /\ queue # <<>> /\ mpc = "wait"
    BY DEF StreamInv, OnTheWayOK, Take
  <2> HIDE DEF M
  <2>2. 1 \in DOMAIN queue /\ Head(queue) = queue[1]
    BY <2>1
  <2> QED BY <2>1, <2>2 DEF Fresh
<1> QED BY <1>1, <1>2, <1>3, PTL DEF Spec, NoStaleLines
=============================================================================
