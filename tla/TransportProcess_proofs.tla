----------------------- MODULE TransportProcess_proofs -----------------------
(***************************************************************************)
(* For any load, chunk size, and number of children, bytes and characters: *)
(* the port ends as it was told and has one owner, calls get their own     *)
(* answers, bytes arrive in order, whole and once, and the framing of      *)
(* data_framer.split_newlines_only publishes the lines of the text however *)
(* the text is cut into reads.                                             *)
(*                                                                         *)
(* The framing is defined by recursion along the text.  Its properties are *)
(* proved by induction along an interval of natural numbers, with a set as *)
(* the induction hypothesis (IntervalInduction): least elements come from  *)
(* the library's theorem that < is well-founded on Nat.  Facts that say    *)
(* what a recursive definition computes name a function g as a witness     *)
(* (FlattensBy, StripsBy, SplitsBy, LinesBy).                              *)
(***************************************************************************)
EXTENDS TransportProcess, SequenceTheorems, WellFoundedInduction, TLAPS
-----------------------------------------------------------------------------
(* Induction, recursion and the flattening of sequences.                   *)

\* Every set of natural numbers that is not empty has a least element.
LEMMA LeastNatural ==
  ASSUME NEW T \in SUBSET Nat, T # {}
  PROVE  \E x \in T : \A y \in T : x <= y
<1> DEFINE R == OpToRel(<, Nat)
<1>1. IsWellFoundedOn(R, Nat)
  BY NatLessThanWellFounded
<1>2. \A x, y \in Nat : x < y => <<x, y>> \in R
  BY DEF OpToRel
<1> HIDE DEF R
<1>3. PICK x \in T : \A y \in T : ~ (<<y, x>> \in R)
  BY <1>1, WFMin
<1>4. \A y \in T : y \in Nat /\ x \in Nat /\ ~ (y < x)
  BY <1>2, <1>3
<1>5. \A y \in T : x <= y
  BY <1>4
<1> QED BY <1>5

\* Induction along an interval, with a set for the induction hypothesis.
LEMMA IntervalInduction ==
  ASSUME NEW m \in Nat, NEW n \in Nat, NEW T,
         m \in T, \A i \in m..n : i \in T /\ i + 1 <= n => i + 1 \in T
  PROVE  m..n \subseteq T
<1> DEFINE U == {i \in m..n : i \notin T}
<1> SUFFICES ASSUME U # {} PROVE FALSE
  OBVIOUS
<1>0. U \in SUBSET Nat
  OBVIOUS
<1> HIDE DEF U
<1>1. PICK x \in U : \A y \in U : x <= y
  BY <1>0, LeastNatural
<1> USE DEF U
<1>2. x - 1 \in m..n /\ x - 1 \notin U /\ (x - 1) + 1 = x
  BY <1>1
<1> QED BY <1>1, <1>2

\* g has the value b at m and goes on from there by step.
Unfolds(g, m, n, V, b, step) ==
  /\ g \in [m..n -> V] /\ g[m] = b
  /\ \A i \in m + 1..n : g[i] = step[i][g[i - 1]]

\* A recursive definition over an interval defines a function.
LEMMA RecursionExists ==
  ASSUME NEW m \in Nat, NEW n \in Nat, m <= n, NEW V, NEW b \in V,
         NEW step \in [m + 1..n -> [V -> V]]
  PROVE  \E g : Unfolds(g, m, n, V, b, step)
<1> DEFINE Has(k) == \E g \in [m..k -> V] :
             g[m] = b /\ \A i \in m + 1..k : g[i] = step[i][g[i - 1]]
           T == {k \in m..n : Has(k)}
<1>1. m \in T
  <2> DEFINE h == [j \in m..m |-> b]
  <2>1. h \in [m..m -> V] /\ h[m] = b /\ m + 1..m = {}
    OBVIOUS
  <2> HIDE DEF h
  <2>2. Has(m)
    BY <2>1
  <2> HIDE DEF Has
  <2> QED BY <2>2
<1>2. ASSUME NEW k \in m..n, k \in T, k + 1 <= n PROVE k + 1 \in T
  <2>1. PICK g \in [m..k -> V] :
             g[m] = b /\ \A i \in m + 1..k : g[i] = step[i][g[i - 1]]
    BY <1>2
  <2>2. k \in m..k /\ k + 1 \in m + 1..n /\ g[k] \in V
    BY <1>2, <2>1
  <2> DEFINE v == step[k + 1][g[k]]
             h == [j \in m..k + 1 |-> IF j = k + 1 THEN v ELSE g[j]]
  <2>3. v \in V
    BY <2>2
  <2>4. h \in [m..k + 1 -> V]
    BY <2>3
  <2>5. h[m] = b
    BY <2>1
  <2>6. ASSUME NEW i \in m + 1..k + 1 PROVE h[i] = step[i][h[i - 1]]
    <3>1. CASE i = k + 1
      BY <3>1
    <3>2. CASE i # k + 1
      <4>1. i \in m + 1..k /\ i - 1 \in m..k /\ i \in m..k
        BY <3>2
      <4>2. h[i] = g[i] /\ h[i - 1] = g[i - 1]
        BY <4>1
      <4> QED BY <2>1, <4>1, <4>2
    <3> QED BY <3>1, <3>2
  <2> HIDE DEF h, v
  <2>7. Has(k + 1)
    BY <2>4, <2>5, <2>6
  <2>8. k + 1 \in m..n
    BY <1>2
  <2> HIDE DEF Has
  <2> QED BY <2>7, <2>8
<1> HIDE DEF Has
<1>3. m..n \subseteq T
  <2> HIDE DEF T
  <2> QED BY <1>1, <1>2, IntervalInduction
<1>4. n \in T
  BY <1>3
<1> QED BY <1>4 DEF Has, Unfolds

\* What FlattenSeq computes, one sequence after the other.
FlattensBy(g, q, S) ==
  /\ g \in [0..Len(q) -> Seq(S)] /\ g[0] = <<>>
  /\ \A i \in 1..Len(q) : g[i] = g[i - 1] \o q[i]
  /\ FlattenSeq(q) = g[Len(q)]

\* FlattenSeq is the function that its recursion describes.
LEMMA FlattenDef ==
  ASSUME NEW S, NEW q \in Seq(Seq(S))
  PROVE  \E g : FlattensBy(g, q, S)
<1> DEFINE N == Len(q)
           step == [i \in 1..N |-> [v \in Seq(S) |-> v \o q[i]]]
<1>1. N \in Nat /\ \A i \in 1..N : q[i] \in Seq(S)
  OBVIOUS
<1>2. step \in [1..N -> [Seq(S) -> Seq(S)]]
  BY <1>1
<1> HIDE DEF N, step
<1>3. PICK g \in [0..N -> Seq(S)] :
         g[0] = <<>> /\ \A i \in 1..N : g[i] = step[i][g[i - 1]]
  <2>1. <<>> \in Seq(S) /\ 0 \in Nat /\ 0 <= N /\ 0 + 1 = 1
    BY <1>1
  <2>2. step \in [0 + 1..N -> [Seq(S) -> Seq(S)]]
    BY <1>2
  <2>3. PICK g : Unfolds(g, 0, N, Seq(S), <<>>, step)
    BY <1>1, <2>1, <2>2, RecursionExists
  <2> QED BY <2>1, <2>3 DEF Unfolds
<1>4. ASSUME NEW i \in 1..N
      PROVE  i - 1 \in 0..N /\ g[i - 1] \in Seq(S) /\ g[i] = g[i - 1] \o q[i]
  <2>1. i - 1 \in 0..N
    BY <1>1
  <2> QED BY <1>3, <2>1 DEF step
<1>5. CASE N = 0
  <2>1. q = <<>>
    BY <1>5 DEF N
  <2>2. FlattenSeq(q) = q
    BY <2>1 DEF FlattenSeq
  <2> QED BY <1>3, <1>4, <1>5, <2>1, <2>2 DEF N, FlattensBy
<1>6. CASE N # 0
  <2> DEFINE F(h) == [i \in 1..N |-> IF i = 1 THEN q[i] ELSE h[i - 1] \o q[i]]
             h == [i \in 1..N |-> g[i]]
             f == CHOOSE x : x = F(x)
  <2>1. h = F(h)
    <3>1. ASSUME NEW i \in 1..N PROVE g[i] = IF i = 1 THEN q[i] ELSE h[i - 1] \o q[i]
      <4>1. CASE i = 1
        <5>1. g[1] = <<>> \o q[1] /\ q[1] \in Seq(S)
          BY <1>1, <1>3, <1>4, <4>1, 1 - 1 = 0
        <5> QED BY <4>1, <5>1, ConcatEmptySeq
      <4>2. CASE i # 1
        <5>1. i - 1 \in 1..N
          BY <1>1, <4>2
        <5> QED BY <1>4, <4>2, <5>1
      <4> QED BY <4>1, <4>2
    <3> QED BY <3>1
  <2>2. f = F(f)
    <3> HIDE DEF F, h
    <3> QED BY <2>1
  <2> HIDE DEF f, h
  <2> DEFINE T == {i \in 1..N : f[i] = g[i]}
  <2>3. 1 \in T
    <3>1. 1 \in 1..N /\ 1 - 1 = 0
      BY <1>1, <1>6
    <3>2. g[1] = <<>> \o q[1]
      BY <1>3, <1>4, <3>1
    <3>3. f[1] = q[1]
      BY <2>2, <3>1
    <3> QED BY <1>1, <3>1, <3>2, <3>3
  <2>4. ASSUME NEW i \in 1..N, i \in T, i + 1 <= N PROVE i + 1 \in T
    <3>1. i + 1 \in 1..N /\ i + 1 # 1 /\ (i + 1) - 1 = i
      BY <2>4
    <3>2. f[i + 1] = f[i] \o q[i + 1]
      BY <2>2, <3>1
    <3> QED BY <1>4, <2>4, <3>1, <3>2
  <2>5. 1..N \subseteq T
    <3> HIDE DEF T
    <3> QED BY <1>1, <2>3, <2>4, IntervalInduction
  <2>6. f[N] = g[N]
    BY <1>1, <1>6, <2>5
  <2>7. FlattenSeq(q) = f[N]
    BY <1>6 DEF FlattenSeq, f, N
  <2> QED BY <1>3, <1>4, <2>6, <2>7 DEF N, FlattensBy
<1> QED BY <1>5, <1>6

\* Flattening gives a sequence of the elements.
LEMMA FlattenType ==
  ASSUME NEW S, NEW q \in Seq(Seq(S))
  PROVE  FlattenSeq(q) \in Seq(S)
<1>1. PICK g : FlattensBy(g, q, S)
  BY FlattenDef
<1> QED BY <1>1 DEF FlattensBy

\* Flattening two sequences of sequences after each other.
LEMMA FlattenConcat ==
  ASSUME NEW S, NEW q \in Seq(Seq(S)), NEW r \in Seq(Seq(S))
  PROVE  FlattenSeq(q \o r) = FlattenSeq(q) \o FlattenSeq(r)
<1> DEFINE M == Len(q)
           N == Len(r)
           p == q \o r
<1>1. M \in Nat /\ N \in Nat /\ p \in Seq(Seq(S)) /\ Len(p) = M + N
  BY ConcatProperties
<1>2. /\ \A i \in 1..M : p[i] = q[i] /\ q[i] \in Seq(S)
      /\ \A i \in 1..N : p[M + i] = r[i] /\ r[i] \in Seq(S)
  BY ConcatProperties
<1> HIDE DEF p
<1>3. PICK g : FlattensBy(g, q, S)
  BY FlattenDef
<1>4. PICK h : FlattensBy(h, r, S)
  BY FlattenDef
<1>5. PICK k : FlattensBy(k, p, S)
  BY <1>1, FlattenDef
<1>6. /\ g \in [0..M -> Seq(S)] /\ g[0] = <<>> /\ FlattenSeq(q) = g[M]
      /\ \A i \in 1..M : g[i] = g[i - 1] \o q[i]
  BY <1>3 DEF FlattensBy
<1>7. /\ h \in [0..N -> Seq(S)] /\ h[0] = <<>> /\ FlattenSeq(r) = h[N]
      /\ \A i \in 1..N : h[i] = h[i - 1] \o r[i]
  BY <1>4 DEF FlattensBy
<1>8. /\ k \in [0..M + N -> Seq(S)] /\ k[0] = <<>> /\ FlattenSeq(p) = k[M + N]
      /\ \A i \in 1..M + N : k[i] = k[i - 1] \o p[i]
  BY <1>1, <1>5 DEF FlattensBy
<1> HIDE DEF M, N
<1>9. k[M] = g[M]
  <2> DEFINE T == {i \in 0..M : k[i] = g[i]}
  <2>1. 0 \in T
    BY <1>1, <1>6, <1>8
  <2>2. ASSUME NEW i \in 0..M, i \in T, i + 1 <= M PROVE i + 1 \in T
    <3>1. i + 1 \in 0..M /\ i + 1 \in 1..M /\ i + 1 \in 1..M + N /\ (i + 1) - 1 = i
      BY <1>1, <2>2
    <3>2. k[i + 1] = k[i] \o p[i + 1]
      BY <1>8, <3>1
    <3>3. g[i + 1] = g[i] \o q[i + 1]
      BY <1>6, <3>1
    <3>4. p[i + 1] = q[i + 1] /\ k[i] = g[i]
      BY <1>2, <2>2, <3>1
    <3> QED BY <3>1, <3>2, <3>3, <3>4
  <2>3. 0..M \subseteq T
    <3> HIDE DEF T
    <3>1. 0 \in Nat
      OBVIOUS
    <3> QED BY <1>1, <2>1, <2>2, <3>1, IntervalInduction
  <2> QED BY <1>1, <2>3
<1>10. k[M + N] = g[M] \o h[N]
  <2> DEFINE T == {i \in 0..N : k[M + i] = g[M] \o h[i]}
  <2>0. g[M] \in Seq(S)
    BY <1>1, <1>6
  <2>1. 0 \in T
    <3>1. 0 \in 0..N /\ M + 0 = M
      BY <1>1
    <3>2. g[M] \o h[0] = g[M]
      BY <1>7, <2>0, ConcatEmptySeq
    <3> QED BY <1>9, <3>1, <3>2
  <2>2. ASSUME NEW i \in 0..N, i \in T, i + 1 <= N PROVE i + 1 \in T
    <3>1. /\ i + 1 \in 1..N /\ M + (i + 1) \in 1..M + N /\ (i + 1) - 1 = i
          /\ (M + (i + 1)) - 1 = M + i /\ i + 1 \in 0..N
      BY <1>1, <2>2
    <3>2. k[M + (i + 1)] = k[M + i] \o p[M + (i + 1)]
      BY <1>8, <3>1
    <3>3. h[i + 1] = h[i] \o r[i + 1] /\ h[i] \in Seq(S) /\ r[i + 1] \in Seq(S)
      BY <1>2, <1>7, <3>1
    <3>4. k[M + i] = g[M] \o h[i] /\ p[M + (i + 1)] = r[i + 1]
      BY <1>2, <2>2, <3>1
    <3>5. (g[M] \o h[i]) \o r[i + 1] = g[M] \o (h[i] \o r[i + 1])
      <4> DEFINE a == g[M]
                 b == h[i]
                 c == r[i + 1]
      <4>1. a \in Seq(S) /\ b \in Seq(S) /\ c \in Seq(S)
        BY <2>0, <3>3
      <4> HIDE DEF a, b, c
      <4>2. (a \o b) \o c = a \o (b \o c)
        BY <4>1, SMTT(40)
      <4> QED BY <4>2 DEF a, b, c
    <3>6. k[M + (i + 1)] = g[M] \o h[i + 1]
      BY <3>2, <3>3, <3>4, <3>5
    <3> QED BY <3>1, <3>6
  <2>3. 0..N \subseteq T
    <3> HIDE DEF T
    <3>1. 0 \in Nat
      OBVIOUS
    <3> QED BY <1>1, <2>1, <2>2, <3>1, IntervalInduction
  <2>4. N \in T
    <3> HIDE DEF T
    <3>1. N \in 0..N
      BY <1>1
    <3> QED BY <2>3, <3>1
  <2> QED BY <2>4
<1> QED BY <1>6, <1>7, <1>8, <1>10 DEF p

\* Flattening a single sequence.
LEMMA FlattenOne ==
  ASSUME NEW S, NEW x \in Seq(S)
  PROVE  FlattenSeq(<<x>>) = x
BY DEF FlattenSeq

\* Flattening nothing.
LEMMA FlattenNone == FlattenSeq(<<>>) = <<>>
BY DEF FlattenSeq

\* Flattening with one sequence more at the end.
LEMMA FlattenAppend ==
  ASSUME NEW S, NEW q \in Seq(Seq(S)), NEW x \in Seq(S)
  PROVE  FlattenSeq(Append(q, x)) = FlattenSeq(q) \o x
<1>1. Append(q, x) = q \o <<x>> /\ <<x>> \in Seq(Seq(S))
  BY AppendIsConcat
<1>2. FlattenSeq(q \o <<x>>) = FlattenSeq(q) \o FlattenSeq(<<x>>)
  BY <1>1, FlattenConcat
<1> QED BY <1>1, <1>2, FlattenOne

\* Flattening takes the first sequence first.
LEMMA FlattenHeadTail ==
  ASSUME NEW S, NEW q \in Seq(Seq(S)), q # <<>>
  PROVE  FlattenSeq(q) = Head(q) \o FlattenSeq(Tail(q))
<1>1. Head(q) \in Seq(S) /\ Tail(q) \in Seq(Seq(S)) /\ <<Head(q)>> \in Seq(Seq(S))
  BY HeadTailProperties
<1>2. q = <<Head(q)>> \o Tail(q)
  OBVIOUS
<1>3. FlattenSeq(q) = FlattenSeq(<<Head(q)>>) \o FlattenSeq(Tail(q))
  BY <1>1, <1>2, FlattenConcat
<1> QED BY <1>1, <1>3, FlattenOne

-----------------------------------------------------------------------------
(* Bounds, and the chunks of a write (_enqueue_command_writes).            *)

\* The greatest element of a bounded set of natural numbers.
LEMMA MaxOfBounded ==
  ASSUME NEW n \in Nat, NEW T \in SUBSET 0..n, T # {}
  PROVE  Max(T) \in T /\ \A y \in T : y <= Max(T)
<1> DEFINE U == {n - y : y \in T}
<1>1. U \in SUBSET Nat /\ U # {}
  <2>1. \A y \in T : y \in Int /\ y <= n
    OBVIOUS
  <2>2. \A y \in T : n - y \in Nat
    BY <2>1
  <2>3. PICK y \in T : TRUE
    OBVIOUS
  <2>4. n - y \in U
    OBVIOUS
  <2> QED BY <2>2, <2>4
<1> HIDE DEF U
<1>2. PICK x \in U : \A y \in U : x <= y
  BY <1>1, LeastNatural
<1> USE DEF U
<1>3. n - x \in T /\ \A y \in T : y <= n - x
  <2>1. PICK z \in T : x = n - z
    BY <1>2
  <2>2. ASSUME NEW y \in T PROVE y <= z
    <3>1. n - y \in U
      OBVIOUS
    <3>2. n - z <= n - y
      BY <1>2, <2>1, <3>1
    <3> QED BY <3>2
  <2>3. n - x = z
    BY <2>1
  <2> QED BY <2>2, <2>3
<1> HIDE DEF U
<1>4. \E z \in T : \A y \in T : z >= y
  BY <1>3
<1>5. Max(T) \in T /\ \A y \in T : Max(T) >= y
  BY <1>4 DEF Max
<1> QED BY <1>5

\* The smaller of two numbers.
LEMMA MinOfTwo ==
  ASSUME NEW a \in Int, NEW b \in Int
  PROVE  Min({a, b}) = IF a <= b THEN a ELSE b
BY DEF Min

\* The greater of two numbers.
LEMMA MaxOfTwo ==
  ASSUME NEW a \in Int, NEW b \in Int
  PROVE  Max({a, b}) = IF a >= b THEN a ELSE b
BY DEF Max

\* The number of chunks of at most M bytes: enough for all, and none is empty.
LEMMA ChunkCount ==
  ASSUME NEW L \in Nat, NEW M \in Nat \ {0}
  PROVE  LET K == (L + M - 1) \div M
         IN  K \in Nat /\ K * M >= L /\ \A k \in 1..K : (k - 1) * M < L /\ (k - 1) * M \in Nat
<1> DEFINE K == (L + M - 1) \div M
<1>1. K \in Nat /\ K * M <= L + M - 1 /\ L + M - 1 < K * M + M
  OBVIOUS
<1> HIDE DEF K
<1>2. ASSUME NEW k \in 1..K PROVE (k - 1) * M < L /\ (k - 1) * M \in Nat
  <2>1. k - 1 <= K - 1 /\ k - 1 \in Nat /\ K - 1 \in Nat
    BY <1>1
  <2>2. (k - 1) * M <= (K - 1) * M
    BY <2>1
  <2>3. (K - 1) * M = K * M - M
    BY <1>1
  <2>4. (k - 1) * M \in Nat
    BY <2>1
  <2> QED BY <1>1, <2>2, <2>3, <2>4
<1>3. K * M >= L
  BY <1>1
<1> QED BY <1>1, <1>2, <1>3 DEF K

\* The chunks of a command, put together again, are the command.
LEMMA EnqueuedWhole ==
  ASSUME NEW S, NEW d \in Seq(S)
  PROVE  /\ EnqueueCommandWrites(d) \in Seq(Seq(S))
         /\ FlattenSeq(EnqueueCommandWrites(d)) = d
<1> DEFINE L == Len(d)
           M == MaxWriteBytes
           K == (L + M - 1) \div M
           E == EnqueueCommandWrites(d)
           end(k) == IF k * M <= L THEN k * M ELSE L
<1>1. L \in Nat /\ M \in Nat \ {0}
  BY LoadsAssumption
<1> HIDE DEF M, L
<1>2. K \in Nat /\ K * M >= L /\ \A k \in 1..K : (k - 1) * M < L /\ (k - 1) * M \in Nat
  BY <1>1, ChunkCount
<1> HIDE DEF K
<1>3. E = [k \in 1..K |-> SubSeq(d, (k - 1) * M + 1, Min({k * M, L}))]
  BY DEF EnqueueCommandWrites, K, L, M
<1> HIDE DEF E
<1>4. ASSUME NEW k \in 1..K
      PROVE  /\ E[k] = SubSeq(d, (k - 1) * M + 1, end(k)) /\ E[k] \in Seq(S)
             /\ end(k) \in (k - 1) * M .. L
  <2>1. k * M \in Int /\ k * M = (k - 1) * M + M
    BY <1>1, <1>2
  <2>2. end(k) \in (k - 1) * M .. L
    BY <1>1, <1>2, <2>1
  <2>3. E[k] = SubSeq(d, (k - 1) * M + 1, end(k))
    <3>1. Min({k * M, L}) = end(k)
      BY <1>1, <2>1, MinOfTwo
    <3>2. E[k] = SubSeq(d, (k - 1) * M + 1, Min({k * M, L}))
      BY <1>3
    <3> HIDE DEF end
    <3> QED BY <3>1, <3>2
  <2>4. \A i \in (k - 1) * M + 1 .. end(k) : d[i] \in S
    BY <1>1, <1>2, <2>2 DEF L
  <2> QED BY <1>1, <1>2, <2>2, <2>3, <2>4, SubSeqProperties
<1>5. E \in Seq(Seq(S)) /\ Len(E) = K
  <2>1. E \in [1..K -> Seq(S)]
    <3> HIDE DEF end
    <3>1. \A k \in 1..K : E[k] \in Seq(S)
      BY <1>4
    <3> QED BY <1>3, <3>1
  <2> QED BY <1>2, <2>1
<1>6. PICK g : FlattensBy(g, E, S)
  BY <1>5, FlattenDef
<1>7. /\ g[0] = <<>> /\ FlattenSeq(E) = g[K]
      /\ \A k \in 1..K : g[k] = g[k - 1] \o E[k]
  BY <1>5, <1>6 DEF FlattensBy
<1> DEFINE T == {k \in 0..K : g[k] = SubSeq(d, 1, end(k))}
<1>8. 0 \in T
  <2>1. end(0) = 0 /\ 0 \in 0..K
    BY <1>1, <1>2
  <2>2. SubSeq(d, 1, 0) = <<>>
    BY SubSeqEmpty
  <2> HIDE DEF end
  <2> QED BY <1>7, <2>1, <2>2
<1>9. ASSUME NEW k \in 0..K, k \in T, k + 1 <= K PROVE k + 1 \in T
  <2>1. k + 1 \in 1..K /\ (k + 1) - 1 = k /\ k + 1 \in 0..K
    BY <1>2, <1>9
  <2>2. k * M < L /\ k * M \in Nat /\ end(k) = k * M
    <3>1. ((k + 1) - 1) * M < L /\ ((k + 1) - 1) * M \in Nat
      BY <1>2, <2>1
    <3>2. k * M < L /\ k * M \in Nat
      BY <2>1, <3>1
    <3> QED BY <1>1, <3>2
  <2>3. g[k + 1] = SubSeq(d, 1, k * M) \o SubSeq(d, k * M + 1, end(k + 1))
    BY <1>4, <1>7, <1>9, <2>1, <2>2
  <2>4. end(k + 1) \in k * M .. L
    BY <1>4, <2>1
  <2>5. SubSeq(d, 1, k * M) \o SubSeq(d, k * M + 1, end(k + 1)) = SubSeq(d, 1, end(k + 1))
    <3> HIDE DEF end
    <3>1. 1 \in 1..L + 1 /\ k * M \in 1 - 1 .. L
      BY <1>1, <2>2
    <3> QED BY <2>4, <3>1, ConcatAdjacentSubSeq DEF L
  <2> QED BY <2>1, <2>3, <2>5
<1>10. K \in T
  <2>1. 0..K \subseteq T
    <3> HIDE DEF T
    <3>1. 0 \in Nat
      OBVIOUS
    <3> QED BY <1>2, <1>8, <1>9, <3>1, IntervalInduction
  <2>2. K \in 0..K
    BY <1>2
  <2> HIDE DEF T
  <2> QED BY <2>1, <2>2
<1>11. end(K) = L
  BY <1>1, <1>2
<1>12. SubSeq(d, 1, L) = d
  BY DEF L
<1> QED BY <1>5, <1>7, <1>10, <1>11, <1>12 DEF E

-----------------------------------------------------------------------------
(* Stripping carriage returns.                                             *)

\* What Strip computes, one character after the other.
StripsBy(g, s, S) ==
  /\ g \in [0..Len(s) -> Seq(S)] /\ g[0] = <<>>
  /\ \A i \in 1..Len(s) : g[i] = IF s[i] = "\r" THEN g[i - 1] ELSE Append(g[i - 1], s[i])
  /\ Strip(s) = g[Len(s)]

\* Strip is the function that its recursion describes.
LEMMA StripDef ==
  ASSUME NEW S, NEW s \in Seq(S)
  PROVE  \E g : StripsBy(g, s, S)
<1> DEFINE N == Len(s)
           Next1(i, v) == IF s[i] = "\r" THEN v ELSE Append(v, s[i])
           step == [i \in 1..N |-> [v \in Seq(S) |-> Next1(i, v)]]
           F(h) == [i \in 0..N |-> IF i = 0 THEN <<>> ELSE Next1(i, h[i - 1])]
           f == CHOOSE x : x = F(x)
<1>1. N \in Nat /\ \A i \in 1..N : s[i] \in S
  OBVIOUS
<1> HIDE DEF N
<1>2. \A i \in 1..N, v \in Seq(S) : Next1(i, v) \in Seq(S)
  BY <1>1
<1> HIDE DEF Next1
<1>3. step \in [1..N -> [Seq(S) -> Seq(S)]]
  BY <1>2
<1>4. PICK g : Unfolds(g, 0, N, Seq(S), <<>>, step)
  <2> HIDE DEF step
  <2>1. <<>> \in Seq(S) /\ 0 \in Nat /\ 0 <= N /\ 0 + 1 = 1
    BY <1>1
  <2>2. step \in [0 + 1..N -> [Seq(S) -> Seq(S)]]
    BY <1>3
  <2> QED BY <1>1, <2>1, <2>2, RecursionExists
<1>5. /\ g \in [0..N -> Seq(S)] /\ g[0] = <<>>
      /\ \A i \in 1..N : i - 1 \in 0..N /\ g[i - 1] \in Seq(S) /\ g[i] = Next1(i, g[i - 1])
  <2>1. g \in [0..N -> Seq(S)] /\ g[0] = <<>> /\ \A i \in 0 + 1..N : g[i] = step[i][g[i - 1]]
    <3> HIDE DEF step
    <3> QED BY <1>4 DEF Unfolds
  <2>2. ASSUME NEW i \in 1..N
        PROVE  i - 1 \in 0..N /\ g[i - 1] \in Seq(S) /\ g[i] = Next1(i, g[i - 1])
    <3>1. i \in 0 + 1..N /\ i - 1 \in 0..N
      BY <1>1
    <3>2. g[i - 1] \in Seq(S)
      BY <2>1, <3>1
    <3>3. g[i] = step[i][g[i - 1]]
      BY <2>1, <3>1
    <3> QED BY <3>1, <3>2, <3>3
  <2> QED BY <2>1, <2>2
<1> HIDE DEF step
<1>6. g = F(g)
  BY <1>1, <1>5
<1>7. f = F(f)
  <2> HIDE DEF F
  <2> QED BY <1>6
<1> HIDE DEF f
<1> DEFINE T == {i \in 0..N : f[i] = g[i]}
<1>8. 0 \in T
  BY <1>1, <1>5, <1>7
<1>9. ASSUME NEW i \in 0..N, i \in T, i + 1 <= N PROVE i + 1 \in T
  <2>1. i + 1 \in 0..N /\ i + 1 \in 1..N /\ i + 1 # 0 /\ (i + 1) - 1 = i
    BY <1>1, <1>9
  <2>2. f[i + 1] = Next1(i + 1, f[i])
    BY <1>7, <2>1
  <2>3. g[i + 1] = Next1(i + 1, g[i])
    BY <1>5, <2>1
  <2> QED BY <1>9, <2>1, <2>2, <2>3
<1>10. f[N] = g[N]
  <2>1. 0..N \subseteq T
    <3> HIDE DEF T
    <3>1. 0 \in Nat
      OBVIOUS
    <3> QED BY <1>1, <1>8, <1>9, <3>1, IntervalInduction
  <2>2. N \in 0..N
    BY <1>1
  <2> QED BY <2>1, <2>2
<1>11. Strip(s) = f[N]
  BY DEF Strip, f, F, N, Next1
<1> QED BY <1>5, <1>10, <1>11 DEF StripsBy, N, Next1

\* What is stripped is a sequence of the same characters.
LEMMA StripType ==
  ASSUME NEW S, NEW s \in Seq(S)
  PROVE  Strip(s) \in Seq(S)
<1>1. PICK g : StripsBy(g, s, S)
  BY StripDef
<1> QED BY <1>1 DEF StripsBy

\* Parts may be stripped one by one.
LEMMA StripConcat ==
  ASSUME NEW S, NEW s \in Seq(S), NEW t \in Seq(S)
  PROVE  Strip(s \o t) = Strip(s) \o Strip(t)
<1> DEFINE M == Len(s)
           N == Len(t)
           p == s \o t
<1>1. M \in Nat /\ N \in Nat /\ p \in Seq(S) /\ Len(p) = M + N
  BY ConcatProperties
<1>2. /\ \A i \in 1..M : p[i] = s[i] /\ s[i] \in S
      /\ \A i \in 1..N : p[M + i] = t[i] /\ t[i] \in S
  BY ConcatProperties
<1> HIDE DEF p
<1>3. PICK g : StripsBy(g, s, S)
  BY StripDef
<1>4. PICK h : StripsBy(h, t, S)
  BY StripDef
<1>5. PICK k : StripsBy(k, p, S)
  BY <1>1, StripDef
<1>6. /\ g \in [0..M -> Seq(S)] /\ g[0] = <<>> /\ Strip(s) = g[M]
      /\ \A i \in 1..M : g[i] = IF s[i] = "\r" THEN g[i - 1] ELSE Append(g[i - 1], s[i])
  BY <1>3 DEF StripsBy
<1>7. /\ h \in [0..N -> Seq(S)] /\ h[0] = <<>> /\ Strip(t) = h[N]
      /\ \A i \in 1..N : h[i] = IF t[i] = "\r" THEN h[i - 1] ELSE Append(h[i - 1], t[i])
  BY <1>4 DEF StripsBy
<1>8. /\ k \in [0..M + N -> Seq(S)] /\ k[0] = <<>> /\ Strip(p) = k[M + N]
      /\ \A i \in 1..M + N : k[i] = IF p[i] = "\r" THEN k[i - 1] ELSE Append(k[i - 1], p[i])
  BY <1>1, <1>5 DEF StripsBy
<1> HIDE DEF M, N
<1>9. k[M] = g[M]
  <2> DEFINE T == {i \in 0..M : k[i] = g[i]}
  <2>1. 0 \in T
    BY <1>1, <1>6, <1>8
  <2>2. ASSUME NEW i \in 0..M, i \in T, i + 1 <= M PROVE i + 1 \in T
    <3>1. i + 1 \in 0..M /\ i + 1 \in 1..M /\ i + 1 \in 1..M + N /\ (i + 1) - 1 = i
      BY <1>1, <2>2
    <3>2. k[i + 1] = IF p[i + 1] = "\r" THEN k[i] ELSE Append(k[i], p[i + 1])
      BY <1>8, <3>1
    <3>3. g[i + 1] = IF s[i + 1] = "\r" THEN g[i] ELSE Append(g[i], s[i + 1])
      BY <1>6, <3>1
    <3>4. p[i + 1] = s[i + 1] /\ k[i] = g[i]
      BY <1>2, <2>2, <3>1
    <3> QED BY <3>1, <3>2, <3>3, <3>4
  <2>3. 0..M \subseteq T
    <3> HIDE DEF T
    <3>1. 0 \in Nat
      OBVIOUS
    <3> QED BY <1>1, <2>1, <2>2, <3>1, IntervalInduction
  <2> QED BY <1>1, <2>3
<1>10. k[M + N] = g[M] \o h[N]
  <2> DEFINE T == {i \in 0..N : k[M + i] = g[M] \o h[i]}
  <2>0. g[M] \in Seq(S)
    BY <1>1, <1>6
  <2>1. 0 \in T
    <3>1. 0 \in 0..N /\ M + 0 = M
      BY <1>1
    <3>2. g[M] \o h[0] = g[M]
      BY <1>7, <2>0, ConcatEmptySeq
    <3> QED BY <1>9, <3>1, <3>2
  <2>2. ASSUME NEW i \in 0..N, i \in T, i + 1 <= N PROVE i + 1 \in T
    <3>1. /\ i + 1 \in 1..N /\ M + (i + 1) \in 1..M + N /\ (i + 1) - 1 = i
          /\ (M + (i + 1)) - 1 = M + i /\ i + 1 \in 0..N
      BY <1>1, <2>2
    <3> DEFINE c == t[i + 1]
               a == g[M]
               b == h[i]
    <3>2. k[M + (i + 1)] = IF c = "\r" THEN k[M + i] ELSE Append(k[M + i], c)
      BY <1>2, <1>8, <3>1
    <3>3. h[i + 1] = IF c = "\r" THEN b ELSE Append(b, c)
      BY <1>7, <3>1
    <3>4. k[M + i] = a \o b /\ a \in Seq(S) /\ b \in Seq(S) /\ c \in S
      BY <1>2, <1>7, <2>0, <2>2, <3>1
    <3> HIDE DEF a, b, c
    <3>5. a \o Append(b, c) = Append(a \o b, c)
      BY <3>4
    <3>6. k[M + (i + 1)] = a \o h[i + 1]
      BY <3>2, <3>3, <3>4, <3>5
    <3> QED BY <3>1, <3>6 DEF a
  <2>3. 0..N \subseteq T
    <3> HIDE DEF T
    <3>1. 0 \in Nat
      OBVIOUS
    <3> QED BY <1>1, <2>1, <2>2, <3>1, IntervalInduction
  <2>4. N \in T
    <3> HIDE DEF T
    <3>1. N \in 0..N
      BY <1>1
    <3> QED BY <2>3, <3>1
  <2> QED BY <2>4
<1> QED BY <1>6, <1>7, <1>8, <1>10 DEF p

\* Carriage returns alone leave nothing.
LEMMA StripReturns ==
  ASSUME NEW s \in Seq({"\r"})
  PROVE  Strip(s) = <<>>
<1> DEFINE N == Len(s)
<1>1. PICK g : StripsBy(g, s, {"\r"})
  BY StripDef
<1>2. /\ N \in Nat /\ g[0] = <<>> /\ Strip(s) = g[N]
      /\ \A i \in 1..N : g[i] = g[i - 1]
  BY <1>1 DEF StripsBy
<1> HIDE DEF N
<1> DEFINE T == {i \in 0..N : g[i] = <<>>}
<1>3. 0 \in T
  BY <1>2
<1>4. ASSUME NEW i \in 0..N, i \in T, i + 1 <= N PROVE i + 1 \in T
  <2>1. i + 1 \in 1..N /\ i + 1 \in 0..N /\ (i + 1) - 1 = i
    BY <1>2, <1>4
  <2>2. g[i + 1] = g[i]
    BY <1>2, <2>1
  <2> QED BY <1>4, <2>1, <2>2
<1>5. 0..N \subseteq T
  <2> HIDE DEF T
  <2>1. 0 \in Nat
    OBVIOUS
  <2> QED BY <1>2, <1>3, <1>4, <2>1, IntervalInduction
<1>6. N \in 0..N
  BY <1>2
<1> QED BY <1>2, <1>5, <1>6

-----------------------------------------------------------------------------
(* Where lines begin and end.                                              *)

\* A byte that was read, or what half a character was decoded to.
Chars == Bytes \cup {"?"}

\* There is no newline between the positions a and b.
NoNewline(s, a, b) == \A j \in a..b : s[j] # "\n"

\* A line starts at the beginning or after a newline, and has no newline before its end.
LEMMA StartIs ==
  ASSUME NEW s \in Seq(Chars), NEW b \in 0..Len(s), NEW i \in b + 1..Len(s) + 1
  PROVE  /\ StartIndex(s, b, i) \in 1..i
         /\ StartIndex(s, b, i) = 1 \/ StartIndex(s, b, i) > b + 1
         /\ StartIndex(s, b, i) > 1 => s[StartIndex(s, b, i) - 1] = "\n"
         /\ \A j \in b + 1..i - 1 : j >= StartIndex(s, b, i) => s[j] # "\n"
<1> DEFINE T == {0} \cup {j \in b + 1 .. i - 1 : s[j] = "\n"}
<1>1. T \in SUBSET (0..i - 1) /\ T # {} /\ i - 1 \in Nat
  OBVIOUS
<1>2. Max(T) \in T /\ \A y \in T : y <= Max(T)
  <2> HIDE DEF T
  <2> QED BY <1>1, MaxOfBounded
<1>3. StartIndex(s, b, i) = Max(T) + 1
  BY DEF StartIndex
<1> DEFINE m == Max(T)
<1>4. m = 0 \/ (m \in b + 1..i - 1 /\ s[m] = "\n")
  BY <1>2
<1>5. \A j \in b + 1..i - 1 : s[j] = "\n" => j <= m
  BY <1>2
<1> HIDE DEF m, T
<1>6. StartIndex(s, b, i) = m + 1
  BY <1>3 DEF m
<1> QED BY <1>4, <1>5, <1>6

\* The first line starts at the beginning.
LEMMA StartFirst ==
  ASSUME NEW s \in Seq(Chars), NEW b \in 0..Len(s)
  PROVE  StartIndex(s, b, b + 1) = 1
<1>1. b + 1 \in b + 1..Len(s) + 1
  OBVIOUS
<1>2. StartIndex(s, b, b + 1) \in 1..b + 1
  BY <1>1, StartIs
<1>3. StartIndex(s, b, b + 1) = 1 \/ StartIndex(s, b, b + 1) > b + 1
  BY <1>1, StartIs
<1> QED BY <1>2, <1>3

\* The next line starts after the newline of this one.
LEMMA StartNext ==
  ASSUME NEW s \in Seq(Chars), NEW b \in 0..Len(s), NEW i \in b + 1..Len(s)
  PROVE  StartIndex(s, b, i + 1) = IF s[i] = "\n" THEN i + 1 ELSE StartIndex(s, b, i)
<1> DEFINE T == {0} \cup {j \in b + 1 .. i - 1 : s[j] = "\n"}
           U == {0} \cup {j \in b + 1 .. (i + 1) - 1 : s[j] = "\n"}
<1>1. CASE s[i] = "\n"
  <2>1. i + 1 \in b + 1..Len(s) + 1 /\ i \in b + 1..(i + 1) - 1
    OBVIOUS
  <2>2. /\ StartIndex(s, b, i + 1) \in 1..i + 1
        /\ \A j \in b + 1..(i + 1) - 1 : j >= StartIndex(s, b, i + 1) => s[j] # "\n"
    BY <2>1, StartIs
  <2>3. ~ (i >= StartIndex(s, b, i + 1))
    BY <1>1, <2>1, <2>2
  <2> QED BY <1>1, <2>2, <2>3
<1>2. CASE s[i] # "\n"
  <2>1. T = U
    BY <1>2
  <2> QED BY <1>2, <2>1 DEF StartIndex
<1> QED BY <1>1, <1>2

\* Where there is no newline before, it does not matter where the search begins.
LEMMA SameStart ==
  ASSUME NEW s \in Seq(Chars), NEW b \in 0..Len(s), NEW i \in b + 1..Len(s) + 1,
         NoNewline(s, 1, b)
  PROVE  StartIndex(s, b, i) = StartIndex(s, 0, i)
<1>1. {j \in b + 1 .. i - 1 : s[j] = "\n"} = {j \in 0 + 1 .. i - 1 : s[j] = "\n"}
  BY DEF NoNewline
<1> QED BY <1>1 DEF StartIndex

\* A line without the carriage returns before its newline.
LEMMA CleanedLine ==
  ASSUME NEW s \in Seq(Chars), NEW p \in 1..Len(s), NEW a \in 1..p, NEW kept \in 0..p - 1,
         s[p] = "\n", \A j \in a..p - 1 : j > kept => s[j] = "\r"
  PROVE  /\ SubSeq(s, a, kept) \o <<"\n">> \in Seq(Chars)
         /\ Strip(SubSeq(s, a, kept) \o <<"\n">>) = Strip(SubSeq(s, a, p))
<1> DEFINE k == IF kept >= a - 1 THEN kept ELSE a - 1
           x == SubSeq(s, a, k)
           y == SubSeq(s, k + 1, p - 1)
           nl == <<"\n">>
<1>1. k \in a - 1..p - 1 /\ k \in 0..Len(s) /\ Len(s) \in Nat
  OBVIOUS
<1>2. \A j \in 1..Len(s) : s[j] \in Chars
  OBVIOUS
<1>3. SubSeq(s, a, kept) = x
  <2>1. CASE kept >= a - 1
    BY <2>1
  <2>2. CASE kept < a - 1
    BY <2>2, SubSeqEmpty
  <2> QED BY <2>1, <2>2
<1>4. \A j \in k + 1..p - 1 : s[j] = "\r"
  OBVIOUS
<1> HIDE DEF k
<1>5. x \in Seq(Chars)
  <2>1. \A j \in a..k : s[j] \in Chars
    BY <1>1, <1>2
  <2> QED BY <1>1, <2>1, SubSeqProperties
<1>6. y \in Seq({"\r"}) /\ y \in Seq(Chars)
  <2>1. \A j \in k + 1..p - 1 : s[j] \in {"\r"}
    BY <1>4
  <2>2. k + 1 \in Int /\ p - 1 \in Int
    BY <1>1
  <2>3. y \in Seq({"\r"})
    BY <2>1, <2>2, SubSeqProperties
  <2> QED BY <2>3 DEF Chars, Bytes
<1>7. nl \in Seq(Chars)
  BY DEF Chars, Bytes
<1>8. SubSeq(s, a, p) = x \o SubSeq(s, k + 1, p)
  <2>1. a \in 1..Len(s) + 1 /\ k \in a - 1..Len(s) /\ p \in k..Len(s)
    BY <1>1
  <2> QED BY <2>1, ConcatAdjacentSubSeq
<1>9. SubSeq(s, k + 1, p) = y \o nl
  <2>1. k + 1 \in 1..Len(s) /\ p \in k + 1..Len(s)
    BY <1>1
  <2> QED BY <2>1, SubSeqRecursiveSecond
<1> HIDE DEF x, y, nl
<1>10. Strip(y) = <<>>
  BY <1>6, StripReturns
<1>11. Strip(y \o nl) = Strip(nl)
  <2>1. Strip(nl) \in Seq(Chars)
    BY <1>7, StripType
  <2>2. Strip(y \o nl) = <<>> \o Strip(nl)
    BY <1>6, <1>7, <1>10, StripConcat
  <2> QED BY <2>1, <2>2, ConcatEmptySeq
<1>12. y \o nl \in Seq(Chars)
  BY <1>6, <1>7, ConcatProperties
<1>13. Strip(x \o (y \o nl)) = Strip(x) \o Strip(nl)
  BY <1>5, <1>11, <1>12, StripConcat
<1>14. Strip(x \o nl) = Strip(x) \o Strip(nl)
  BY <1>5, <1>7, StripConcat
<1>15. x \o nl \in Seq(Chars)
  BY <1>5, <1>7, ConcatProperties
<1> QED BY <1>3, <1>8, <1>9, <1>13, <1>14, <1>15 DEF nl

\* The line that ends at the newline i as the child cuts it, and as it stands in
\* the text.
Line(s, b, i) == SubSeq(s, StartIndex(s, b, i), LastKept(s, b, i)) \o <<"\n">>
First(s, i) == Max({0} \cup {j \in 1..i - 1 : s[j] = "\n"}) + 1
LastVisible(s, i) == Max({First(s, i) - 1} \cup {j \in First(s, i)..i : Visible(s[j])})
Whole(s, i) == SubSeq(s, First(s, i), LastVisible(s, i)) \o <<"\n">>

\* The width of the character at position i.
Width(s, i) == IF s[i] = "lead" THEN 2 ELSE 1

\* The start of a line of a text is a search from the beginning.
LEMMA FirstIsStart == \A s, i : First(s, i) = StartIndex(s, 0, i)
<1>1. 0 + 1 = 1
  OBVIOUS
<1> QED BY <1>1 DEF First, StartIndex

\* Where the last visible character of a line of a text is.
LEMMA LastVisibleIs ==
  ASSUME NEW s \in Seq(Chars), NEW i \in 1..Len(s), s[i] = "\n"
  PROVE  LET a == StartIndex(s, 0, i)
             v == LastVisible(s, i)
         IN  /\ a \in 1..i /\ v \in a - 1..i - 1
             /\ \A j \in a..i - 1 : s[j] # "\n"
             /\ v >= a => Visible(s[v])
             /\ \A j \in a..i : Visible(s[j]) => j <= v
<1> DEFINE a == StartIndex(s, 0, i)
           T == {a - 1} \cup {j \in a..i : Visible(s[j])}
<1>1. a \in 1..i /\ \A j \in 0 + 1..i - 1 : j >= a => s[j] # "\n"
  <2>1. 0 \in 0..Len(s) /\ i \in 0 + 1..Len(s) + 1
    OBVIOUS
  <2> QED BY <2>1, StartIs
<1> HIDE DEF a
<1>2. ~ Visible(s[i])
  BY DEF Visible
<1>3. T \in SUBSET (0..i) /\ T # {} /\ i \in Nat
  BY <1>1
<1>4. Max(T) \in T /\ \A y \in T : y <= Max(T)
  <2> HIDE DEF T
  <2> QED BY <1>3, MaxOfBounded
<1> DEFINE v == Max(T)
<1>5. /\ v = a - 1 \/ (v \in a..i /\ Visible(s[v])) 
      /\ \A j \in a..i : Visible(s[j]) => j <= v
      /\ a - 1 <= v
  BY <1>4
<1>6. LastVisible(s, i) = v
  BY FirstIsStart DEF LastVisible, a
<1> HIDE DEF v, T
<1>7. v \in a - 1..i - 1 /\ (v >= a => Visible(s[v]))
  BY <1>1, <1>2, <1>5
<1> QED BY <1>1, <1>5, <1>6, <1>7 DEF a

\* What the child keeps of a line, against the last visible character of it.
LEMMA LastKeptIs ==
  ASSUME NEW s \in Seq(Chars), NEW b \in 0..Len(s), NEW i \in b + 1..Len(s), s[i] = "\n",
         NoNewline(s, 1, b)
  PROVE  LET a == StartIndex(s, 0, i)
             k == LastKept(s, b, i)
             v == LastVisible(s, i)
         IN  /\ k \in 0..i - 1
             /\ \A j \in a..i - 1 : j > k => ~ Visible(s[j])
             /\ v >= a + Width(s, a) => k = v
<1> DEFINE a == StartIndex(s, 0, i)
           k == LastKept(s, b, i)
           v == LastVisible(s, i)
           after == {j \in b + 1..i : Visible(s[j])}
           f == FirstWidth(s)
           before == {j \in f + 1..b + 1 : Visible(s[j])}
<1>1. /\ a \in 1..i /\ v \in a - 1..i - 1
      /\ v >= a => Visible(s[v])
      /\ \A j \in a..i : Visible(s[j]) => j <= v
  BY LastVisibleIs
<1>2. k = IF after # {} THEN Max(after) ELSE IF before # {} THEN Max(before) ELSE b
  BY DEF LastKept
<1>3. a = 1 \/ a > b + 1
  <2>1. i \in b + 1..Len(s) + 1
    OBVIOUS
  <2>2. StartIndex(s, b, i) = a
    BY <2>1, SameStart
  <2> QED BY <2>1, <2>2, StartIs
<1>4. ~ Visible(s[i])
  BY DEF Visible
<1>8. f = Width(s, 1) /\ f \in 1..2 /\ (Width(s, 1) = 2 => s[1] = "lead")
  BY DEF FirstWidth, Width
<1>9. Width(s, a) \in {1, 2} /\ (a = 1 => Width(s, a) = f)
  BY <1>8 DEF Width
<1>10. f = 2 => Visible(s[1])
  BY <1>8 DEF Visible
<1> HIDE DEF a, k, v, f
<1>5. CASE after # {}
  <2>1. after \in SUBSET (0..i) /\ i \in Nat
    OBVIOUS
  <2>2. Max(after) \in after /\ \A y \in after : y <= Max(after)
    <3> HIDE DEF after
    <3> QED BY <1>5, <2>1, MaxOfBounded
  <2>3. k = Max(after)
    BY <1>2, <1>5
  <2>4. k \in b + 1..i /\ Visible(s[k]) /\ \A j \in b + 1..i : Visible(s[j]) => j <= k
    BY <2>2, <2>3
  <2> HIDE DEF after
  <2>5. \A j \in a..i - 1 : j > k => ~ Visible(s[j])
    BY <1>1, <2>4
  <2>6. v >= a + Width(s, a) => k = v
    BY <1>1, <1>3, <1>9, <2>4
  <2> QED BY <1>4, <2>4, <2>5, <2>6 DEF a, k, v
<1>6. CASE after = {} /\ before # {}
  <2>1. before \in SUBSET (0..i) /\ i \in Nat
    BY <1>8
  <2>2. Max(before) \in before /\ \A y \in before : y <= Max(before)
    <3> HIDE DEF before
    <3> QED BY <1>6, <2>1, MaxOfBounded
  <2>3. k = Max(before)
    BY <1>2, <1>6
  <2>4. /\ k \in f + 1..b + 1 /\ Visible(s[k])
        /\ \A j \in f + 1..b + 1 : Visible(s[j]) => j <= k
    BY <2>2, <2>3
  <2>5. \A j \in b + 1..i : ~ Visible(s[j])
    BY <1>6
  <2> HIDE DEF after, before
  <2>6. \A j \in a..i - 1 : j > k => ~ Visible(s[j])
    BY <1>1, <1>8, <2>4, <2>5
  <2>7. v >= a + Width(s, a) => k = v
    BY <1>1, <1>3, <1>8, <1>9, <2>4, <2>5
  <2>8. k \in 0..i - 1
    BY <1>4, <1>8, <2>4
  <2> QED BY <2>6, <2>7, <2>8 DEF a, k, v
<1>7. CASE after = {} /\ before = {}
  <2>1. k = b
    BY <1>2, <1>7
  <2>2. /\ \A j \in f + 1..i : ~ Visible(s[j])
        /\ \A j \in b + 1..i : ~ Visible(s[j])
    BY <1>7
  <2> HIDE DEF after, before
  <2>3. \A j \in a..i - 1 : j > k => ~ Visible(s[j])
    BY <1>1, <1>8, <1>10, <2>1, <2>2
  <2>4. v >= a + Width(s, a) => k = v
    BY <1>1, <1>3, <1>8, <1>9, <2>2
  <2> QED BY <2>1, <2>3, <2>4 DEF a, k, v
<1> QED BY <1>5, <1>6, <1>7

\* Both lines are what stands between two newlines, but for carriage returns,
\* and the same unless there is at most one character.
LEMMA LineAgrees ==
  ASSUME NEW s \in Seq(Chars), NEW b \in 0..Len(s), NEW i \in b + 1..Len(s), s[i] = "\n",
         NoNewline(s, 1, b)
  PROVE  /\ Line(s, b, i) \in Seq(Chars) /\ Whole(s, i) \in Seq(Chars)
         /\ Strip(Line(s, b, i)) = Strip(SubSeq(s, StartIndex(s, 0, i), i))
         /\ Strip(Line(s, b, i)) = Strip(Whole(s, i))
         /\ Len(Whole(s, i)) > FirstWidth(Whole(s, i)) + 1 => Line(s, b, i) = Whole(s, i)
<1> DEFINE a == StartIndex(s, 0, i)
           k == LastKept(s, b, i)
           v == LastVisible(s, i)
<1>0. i \in 1..Len(s)
  OBVIOUS
<1>1. /\ a \in 1..i /\ v \in a - 1..i - 1 /\ \A j \in a..i - 1 : s[j] # "\n"
      /\ \A j \in a..i : Visible(s[j]) => j <= v
  BY <1>0, LastVisibleIs
<1>2. k \in 0..i - 1 /\ (\A j \in a..i - 1 : j > k => ~ Visible(s[j])) /\ (v >= a + Width(s, a) => k = v)
  BY LastKeptIs
<1>3. StartIndex(s, b, i) = a
  <2>1. i \in b + 1..Len(s) + 1
    OBVIOUS
  <2> QED BY <2>1, SameStart
<1>4. Line(s, b, i) = SubSeq(s, a, k) \o <<"\n">> /\ Whole(s, i) = SubSeq(s, a, v) \o <<"\n">>
  BY <1>3, FirstIsStart DEF Line, Whole
<1> HIDE DEF a, k, v
<1>5. \A j \in a..i - 1 : s[j] \in Chars \ {"\n"}
  BY <1>1
<1>6. \A j \in a..i - 1 : j > k => s[j] = "\r"
  BY <1>2, <1>5 DEF Visible
<1>7. v \in 0..i - 1 /\ \A j \in a..i - 1 : j > v => s[j] = "\r"
  BY <1>1, <1>5 DEF Visible
<1>8. /\ SubSeq(s, a, k) \o <<"\n">> \in Seq(Chars)
      /\ Strip(SubSeq(s, a, k) \o <<"\n">>) = Strip(SubSeq(s, a, i))
  BY <1>0, <1>1, <1>2, <1>6, CleanedLine
<1>9. /\ SubSeq(s, a, v) \o <<"\n">> \in Seq(Chars)
      /\ Strip(SubSeq(s, a, v) \o <<"\n">>) = Strip(SubSeq(s, a, i))
  BY <1>0, <1>1, <1>7, CleanedLine
<1>10. Len(SubSeq(s, a, v) \o <<"\n">>) > FirstWidth(SubSeq(s, a, v) \o <<"\n">>) + 1 => k = v
  <2>1. \A j \in a..v : s[j] \in Chars
    BY <1>0, <1>1
  <2>2. SubSeq(s, a, v) \in Seq(Chars) /\ Len(SubSeq(s, a, v)) = IF a <= v THEN v - a + 1 ELSE 0
    BY <1>1, <2>1, SubSeqProperties
  <2>3. <<"\n">> \in Seq(Chars) /\ Len(<<"\n">>) = 1
    BY DEF Chars, Bytes
  <2>4. /\ Len(SubSeq(s, a, v) \o <<"\n">>) = Len(SubSeq(s, a, v)) + 1
        /\ SubSeq(s, a, v) \o <<"\n">> \in Seq(Chars)
    BY <2>2, <2>3, ConcatProperties
  <2>5. a <= v => (SubSeq(s, a, v) \o <<"\n">>)[1] = s[a]
    <3>1. a <= v => SubSeq(s, a, v)[1] = s[a]
      BY <1>0, <1>1, <2>1, SubSeqProperties
    <3>2. a <= v => 1 \in 1..Len(SubSeq(s, a, v))
      BY <1>1, <2>2
    <3> QED BY <2>2, <2>3, <3>1, <3>2, ConcatProperties
  <2>6. a <= v => FirstWidth(SubSeq(s, a, v) \o <<"\n">>) = Width(s, a)
    <3>1. a <= v => SubSeq(s, a, v) \o <<"\n">> # <<>>
      BY <1>1, <2>2, <2>4
    <3> QED BY <2>5, <3>1 DEF FirstWidth, Width
  <2>8. Width(s, a) \in {1, 2}
    BY DEF Width
  <2> DEFINE w == SubSeq(s, a, v) \o <<"\n">>
             d == Width(s, a)
  <2>9. Len(w) = (IF a <= v THEN v - a + 1 ELSE 0) + 1
    BY <2>2, <2>4
  <2>10. (a <= v => FirstWidth(w) = d) /\ FirstWidth(w) \in {1, 2} /\ d \in {1, 2}
    BY <2>6, <2>8 DEF FirstWidth
  <2>11. v >= a + d => k = v
    BY <1>2
  <2> HIDE DEF w, d
  <2>12. Len(w) > FirstWidth(w) + 1 => k = v
    BY <1>1, <2>9, <2>10, <2>11
  <2> QED BY <2>12 DEF w
<1> QED BY <1>4, <1>8, <1>9, <1>10 DEF a, k, v

-----------------------------------------------------------------------------
(* The lines of a text and of a read.                                      *)

\* What SplitNewlinesOnly and LinesOf compute, one character after the other.
SplitsBy(g, s, b) ==
  /\ g \in [b..Len(s) -> Seq(Seq(Chars))] /\ g[b] = <<>>
  /\ \A i \in b + 1..Len(s) :
       g[i] = IF s[i] # "\n" THEN g[i - 1] ELSE Append(g[i - 1], Line(s, b, i))
  /\ SplitNewlinesOnly(s, b) = g[Len(s)]
LinesBy(g, s) ==
  /\ g \in [0..Len(s) -> Seq(Seq(Chars))] /\ g[0] = <<>>
  /\ \A i \in 1..Len(s) :
       g[i] = IF s[i] # "\n" THEN g[i - 1] ELSE Append(g[i - 1], Whole(s, i))
  /\ LinesOf(s) = g[Len(s)]

\* SplitNewlinesOnly is the function that its recursion describes.
LEMMA SplitDef ==
  ASSUME NEW s \in Seq(Chars), NEW b \in 0..Len(s), NoNewline(s, 1, b)
  PROVE  \E g : SplitsBy(g, s, b)
<1> DEFINE N == Len(s)
           V == Seq(Seq(Chars))
           Next1(i, v) == IF s[i] # "\n" THEN v ELSE Append(v, Line(s, b, i))
           step == [i \in b + 1..N |-> [v \in V |-> Next1(i, v)]]
           F(h) == [i \in b..N |-> IF i = b THEN <<>> ELSE Next1(i, h[i - 1])]
           f == CHOOSE x : x = F(x)
<1>1. N \in Nat /\ b \in Nat /\ b <= N /\ <<>> \in V
  OBVIOUS
<1>2. ASSUME NEW i \in b + 1..N, NEW v \in V PROVE Next1(i, v) \in V
  <2>1. s[i] = "\n" => Line(s, b, i) \in Seq(Chars)
    BY LineAgrees
  <2> QED BY <2>1
<1> HIDE DEF N, V, Next1
<1>3. step \in [b + 1..N -> [V -> V]]
  BY <1>2
<1>4. PICK g : Unfolds(g, b, N, V, <<>>, step)
  <2> HIDE DEF step
  <2> QED BY <1>1, <1>3, RecursionExists
<1>5. /\ g \in [b..N -> V] /\ g[b] = <<>>
      /\ \A i \in b + 1..N : i - 1 \in b..N /\ g[i - 1] \in V /\ g[i] = Next1(i, g[i - 1])
  <2>1. g \in [b..N -> V] /\ g[b] = <<>> /\ \A i \in b + 1..N : g[i] = step[i][g[i - 1]]
    <3> HIDE DEF step
    <3> QED BY <1>4 DEF Unfolds
  <2>2. ASSUME NEW i \in b + 1..N
        PROVE  i - 1 \in b..N /\ g[i - 1] \in V /\ g[i] = Next1(i, g[i - 1])
    <3>1. i - 1 \in b..N
      BY <1>1
    <3>2. g[i - 1] \in V
      BY <2>1, <3>1
    <3>3. g[i] = step[i][g[i - 1]]
      BY <2>1
    <3> QED BY <3>1, <3>2, <3>3
  <2> QED BY <2>1, <2>2
<1> HIDE DEF step
<1>6. g = F(g)
  BY <1>1, <1>5
<1>7. f = F(f)
  <2> HIDE DEF F
  <2> QED BY <1>6
<1> HIDE DEF f
<1> DEFINE T == {i \in b..N : f[i] = g[i]}
<1>8. b \in T
  BY <1>1, <1>5, <1>7
<1>9. ASSUME NEW i \in b..N, i \in T, i + 1 <= N PROVE i + 1 \in T
  <2>1. i + 1 \in b..N /\ i + 1 \in b + 1..N /\ i + 1 # b /\ (i + 1) - 1 = i
    BY <1>1, <1>9
  <2>2. f[i + 1] = Next1(i + 1, f[i])
    BY <1>7, <2>1
  <2>3. g[i + 1] = Next1(i + 1, g[i])
    BY <1>5, <2>1
  <2> QED BY <1>9, <2>1, <2>2, <2>3
<1>10. f[N] = g[N]
  <2>1. b..N \subseteq T
    <3> HIDE DEF T
    <3> QED BY <1>1, <1>8, <1>9, IntervalInduction
  <2>2. N \in b..N
    BY <1>1
  <2> QED BY <2>1, <2>2
<1>11. SplitNewlinesOnly(s, b) = f[N]
  BY DEF SplitNewlinesOnly, f, F, N, Next1, Line
<1> QED BY <1>5, <1>10, <1>11 DEF SplitsBy, N, V, Next1

\* LinesOf is the function that its recursion describes.
LEMMA LinesDef ==
  ASSUME NEW s \in Seq(Chars)
  PROVE  \E g : LinesBy(g, s)
<1> DEFINE N == Len(s)
           V == Seq(Seq(Chars))
           Next1(i, v) == IF s[i] # "\n" THEN v ELSE Append(v, Whole(s, i))
           step == [i \in 0 + 1..N |-> [v \in V |-> Next1(i, v)]]
           F(h) == [i \in 0..N |-> IF i = 0 THEN <<>> ELSE Next1(i, h[i - 1])]
           f == CHOOSE x : x = F(x)
<1>1. N \in Nat /\ 0 \in Nat /\ 0 <= N /\ <<>> \in V
  OBVIOUS
<1>2. ASSUME NEW i \in 0 + 1..N, NEW v \in V PROVE Next1(i, v) \in V
  <2>1. s[i] = "\n" => Whole(s, i) \in Seq(Chars)
    <3>1. 0 \in 0..Len(s) /\ NoNewline(s, 1, 0)
      BY DEF NoNewline
    <3> QED BY <3>1, LineAgrees
  <2> QED BY <2>1
<1> HIDE DEF N, V, Next1
<1>3. step \in [0 + 1..N -> [V -> V]]
  BY <1>2
<1>4. PICK g : Unfolds(g, 0, N, V, <<>>, step)
  <2> HIDE DEF step
  <2> QED BY <1>1, <1>3, RecursionExists
<1>5. /\ g \in [0..N -> V] /\ g[0] = <<>>
      /\ \A i \in 1..N : i - 1 \in 0..N /\ g[i - 1] \in V /\ g[i] = Next1(i, g[i - 1])
  <2>1. g \in [0..N -> V] /\ g[0] = <<>> /\ \A i \in 0 + 1..N : g[i] = step[i][g[i - 1]]
    <3> HIDE DEF step
    <3> QED BY <1>4 DEF Unfolds
  <2>2. ASSUME NEW i \in 1..N
        PROVE  i - 1 \in 0..N /\ g[i - 1] \in V /\ g[i] = Next1(i, g[i - 1])
    <3>1. i - 1 \in 0..N /\ i \in 0 + 1..N
      BY <1>1
    <3>2. g[i - 1] \in V
      BY <2>1, <3>1
    <3>3. g[i] = step[i][g[i - 1]]
      BY <2>1, <3>1
    <3> QED BY <3>1, <3>2, <3>3
  <2> QED BY <2>1, <2>2
<1> HIDE DEF step
<1>6. g = F(g)
  BY <1>1, <1>5
<1>7. f = F(f)
  <2> HIDE DEF F
  <2> QED BY <1>6
<1> HIDE DEF f
<1> DEFINE T == {i \in 0..N : f[i] = g[i]}
<1>8. 0 \in T
  BY <1>1, <1>5, <1>7
<1>9. ASSUME NEW i \in 0..N, i \in T, i + 1 <= N PROVE i + 1 \in T
  <2>1. i + 1 \in 0..N /\ i + 1 \in 1..N /\ i + 1 # 0 /\ (i + 1) - 1 = i
    BY <1>1, <1>9
  <2>2. f[i + 1] = Next1(i + 1, f[i])
    BY <1>7, <2>1
  <2>3. g[i + 1] = Next1(i + 1, g[i])
    BY <1>5, <2>1
  <2> QED BY <1>9, <2>1, <2>2, <2>3
<1>10. f[N] = g[N]
  <2>1. 0..N \subseteq T
    <3> HIDE DEF T
    <3> QED BY <1>1, <1>8, <1>9, IntervalInduction
  <2>2. N \in 0..N
    BY <1>1
  <2> QED BY <2>1, <2>2
<1>11. LinesOf(s) = f[N]
  BY DEF LinesOf, f, F, N, Next1, Whole, LastVisible, First
<1> QED BY <1>5, <1>10, <1>11 DEF LinesBy, N, V, Next1

\* A part of a sequence.
LEMMA SubSeqType ==
  ASSUME NEW S, NEW s \in Seq(S), NEW a \in 1..Len(s) + 1, NEW k \in 0..Len(s)
  PROVE  SubSeq(s, a, k) \in Seq(S)
<1>1. \A j \in a..k : s[j] \in S
  OBVIOUS
<1>2. a \in Int /\ k \in Int
  OBVIOUS
<1> QED BY <1>1, <1>2, SubSeqProperties

\* Splitting keeps all but carriage returns.
LEMMA SplitKeeps ==
  ASSUME NEW s \in Seq(Chars), NEW b \in 0..Len(s), NoNewline(s, 1, b)
  PROVE  /\ SplitNewlinesOnly(s, b) \in Seq(Seq(Chars))
         /\ Rest(s, b) \in Seq(Chars)
         /\ Strip(FlattenSeq(SplitNewlinesOnly(s, b)) \o Rest(s, b)) = Strip(s)
<1> DEFINE N == Len(s)
           a(z) == StartIndex(s, b, z)
<1>1. PICK g : SplitsBy(g, s, b)
  BY SplitDef
<1>2. /\ g \in [b..N -> Seq(Seq(Chars))] /\ g[b] = <<>> /\ SplitNewlinesOnly(s, b) = g[N]
      /\ \A i \in b + 1..N :
           g[i] = IF s[i] # "\n" THEN g[i - 1] ELSE Append(g[i - 1], Line(s, b, i))
  BY <1>1 DEF SplitsBy
<1>3. N \in Nat /\ b \in Nat /\ b <= N
  OBVIOUS
<1>4. \A i \in b + 1..N + 1 : a(i) \in 1..i
  BY StartIs
<1>5. \A i \in b + 1..N : a(i + 1) = IF s[i] = "\n" THEN i + 1 ELSE a(i)
  BY StartNext
<1>6. a(b + 1) = 1
  BY StartFirst
<1>7. \A i \in 0..N, k \in 1..N + 1 : SubSeq(s, k, i) \in Seq(Chars)
  BY SubSeqType
<1>8. \A i \in b + 1..N : s[i] = "\n" =>
        Line(s, b, i) \in Seq(Chars) /\ Strip(Line(s, b, i)) = Strip(SubSeq(s, a(i), i))
  <2>1. ASSUME NEW i \in b + 1..N, s[i] = "\n"
        PROVE  Line(s, b, i) \in Seq(Chars) /\ Strip(Line(s, b, i)) = Strip(SubSeq(s, a(i), i))
    <3>1. i \in b + 1..Len(s) + 1
      BY <1>3
    <3>2. a(i) = StartIndex(s, 0, i)
      BY <3>1, SameStart
    <3> QED BY <2>1, <3>2, LineAgrees
  <2> QED BY <2>1
<1>9. \A i \in 1..N : \A k \in 1..i : SubSeq(s, 1, k - 1) \o SubSeq(s, k, i) = SubSeq(s, 1, i)
  <2>1. ASSUME NEW i \in 1..N, NEW k \in 1..i
        PROVE  SubSeq(s, 1, k - 1) \o SubSeq(s, k, i) = SubSeq(s, 1, i)
    <3>1. 1 \in 1..N + 1 /\ k - 1 \in 1 - 1..N /\ i \in k - 1..N /\ (k - 1) + 1 = k
      BY <1>3
    <3> QED BY <3>1, ConcatAdjacentSubSeq
  <2> QED BY <2>1
<1> HIDE DEF N, a
<1> DEFINE T == {i \in b..N : Strip(FlattenSeq(g[i])) = Strip(SubSeq(s, 1, a(i + 1) - 1))}
<1>10. b \in T
  <2>1. SubSeq(s, 1, 0) = <<>>
    BY SubSeqEmpty
  <2>2. FlattenSeq(<<>>) = <<>>
    BY FlattenNone
  <2>3. a(b + 1) - 1 = 0 /\ b \in b..N
    BY <1>3, <1>6
  <2>4. SubSeq(s, 1, a(b + 1) - 1) = <<>>
    BY <2>1, <2>3
  <2>5. FlattenSeq(g[b]) = <<>>
    BY <1>2, <2>2
  <2> QED BY <2>3, <2>4, <2>5
<1>11. ASSUME NEW i \in b..N, i \in T, i + 1 <= N PROVE i + 1 \in T
  <2>1. i + 1 \in b..N /\ i + 1 \in b + 1..N /\ i + 1 \in b + 1..N + 1 /\ (i + 1) - 1 = i
    BY <1>3, <1>11
  <2>2. Strip(FlattenSeq(g[i])) = Strip(SubSeq(s, 1, a(i + 1) - 1))
    BY <1>11
  <2>3. CASE s[i + 1] # "\n"
    <3>1. g[i + 1] = g[i] /\ a((i + 1) + 1) = a(i + 1)
      BY <1>2, <1>5, <2>1, <2>3
    <3> QED BY <2>1, <2>2, <3>1
  <2>4. CASE s[i + 1] = "\n"
    <3>1. g[i + 1] = Append(g[i], Line(s, b, i + 1)) /\ a((i + 1) + 1) = (i + 1) + 1
      BY <1>2, <1>5, <2>1, <2>4
    <3>2. /\ Line(s, b, i + 1) \in Seq(Chars) /\ g[i] \in Seq(Seq(Chars))
          /\ Strip(Line(s, b, i + 1)) = Strip(SubSeq(s, a(i + 1), i + 1))
      BY <1>2, <1>8, <2>1, <2>4
    <3>3. FlattenSeq(g[i + 1]) = FlattenSeq(g[i]) \o Line(s, b, i + 1)
      BY <3>1, <3>2, FlattenAppend
    <3>4. FlattenSeq(g[i]) \in Seq(Chars)
      BY <3>2, FlattenType
    <3>5. Strip(FlattenSeq(g[i + 1])) = Strip(FlattenSeq(g[i])) \o Strip(Line(s, b, i + 1))
      BY <3>2, <3>3, <3>4, StripConcat
    <3>6. a(i + 1) \in 1..i + 1 /\ i + 1 \in 1..N
      BY <1>3, <1>4, <2>1
    <3> DEFINE x == SubSeq(s, 1, a(i + 1) - 1)
               y == SubSeq(s, a(i + 1), i + 1)
    <3>7. x \in Seq(Chars) /\ y \in Seq(Chars)
      <4>1. a(i + 1) - 1 \in 0..N /\ a(i + 1) \in 1..N + 1 /\ i + 1 \in 0..N /\ 1 \in 1..N + 1
        BY <1>3, <3>6
      <4> QED BY <1>7, <4>1
    <3>8. x \o y = SubSeq(s, 1, i + 1)
      BY <1>9, <3>6
    <3> HIDE DEF x, y
    <3>9. Strip(x \o y) = Strip(x) \o Strip(y)
      BY <3>7, StripConcat
    <3>10. Strip(FlattenSeq(g[i + 1])) = Strip(SubSeq(s, 1, i + 1))
      BY <2>2, <3>2, <3>5, <3>8, <3>9 DEF x, y
    <3>11. ((i + 1) + 1) - 1 = i + 1
      BY <2>1, <1>3
    <3> QED BY <2>1, <3>1, <3>10, <3>11
  <2> QED BY <2>3, <2>4
<1>12. N \in T
  <2> HIDE DEF T
  <2>1. b..N \subseteq T
    BY <1>3, <1>10, <1>11, IntervalInduction
  <2> QED BY <1>3, <2>1
<1>13. a(N + 1) \in 1..N + 1 /\ N \in b..N
  BY <1>3, <1>4
<1> DEFINE x == SubSeq(s, 1, a(N + 1) - 1)
           y == SubSeq(s, a(N + 1), N)
<1>14. Rest(s, b) = y
  BY DEF Rest, N, a
<1>15. x \in Seq(Chars) /\ y \in Seq(Chars)
  <2>1. a(N + 1) - 1 \in 0..N /\ a(N + 1) \in 1..N + 1 /\ N \in 0..N /\ 1 \in 1..N + 1
    BY <1>3, <1>13
  <2> QED BY <1>7, <2>1
<1>16. x \o y = s
  <2>1. 1 \in 1..N + 1 /\ a(N + 1) - 1 \in 1 - 1..N /\ N \in a(N + 1) - 1..N
        /\ (a(N + 1) - 1) + 1 = a(N + 1)
    BY <1>3, <1>13
  <2>2. x \o y = SubSeq(s, 1, N)
    BY <2>1, ConcatAdjacentSubSeq DEF N
  <2>3. SubSeq(s, 1, N) = s
    BY SubSeqFull DEF N
  <2> QED BY <2>2, <2>3
<1>17. g[N] \in Seq(Seq(Chars)) /\ FlattenSeq(g[N]) \in Seq(Chars)
  BY <1>2, <1>13, FlattenType
<1>18. Strip(FlattenSeq(g[N])) = Strip(x)
  BY <1>12
<1> HIDE DEF x, y
<1>19. Strip(FlattenSeq(g[N]) \o y) = Strip(x) \o Strip(y)
  BY <1>15, <1>17, <1>18, StripConcat
<1>20. Strip(x) \o Strip(y) = Strip(s)
  BY <1>15, <1>16, StripConcat
<1> QED BY <1>2, <1>14, <1>15, <1>17, <1>19, <1>20

\* A line of a text, from where it starts and which character it shows last.
LEMMA WholeUnique ==
  ASSUME NEW s \in Seq(Chars), NEW i \in 1..Len(s), s[i] = "\n",
         NEW f \in 1..i, f = 1 \/ s[f - 1] = "\n", \A j \in f..i - 1 : s[j] # "\n",
         NEW v \in f - 1..i - 1, v >= f => Visible(s[v]),
         \A j \in f..i : Visible(s[j]) => j <= v
  PROVE  Whole(s, i) = SubSeq(s, f, v) \o <<"\n">>
<1> DEFINE a == StartIndex(s, 0, i)
           w == LastVisible(s, i)
<1>1. /\ a \in 1..i /\ (a = 1 \/ a > 0 + 1) /\ (a > 1 => s[a - 1] = "\n")
      /\ \A j \in 0 + 1..i - 1 : j >= a => s[j] # "\n"
  <2>1. 0 \in 0..Len(s) /\ i \in 0 + 1..Len(s) + 1
    OBVIOUS
  <2> QED BY <2>1, StartIs
<1>2. /\ w \in a - 1..i - 1 /\ (w >= a => Visible(s[w]))
      /\ \A j \in a..i : Visible(s[j]) => j <= w
  BY LastVisibleIs
<1>3. First(s, i) = a
  BY FirstIsStart
<1> HIDE DEF a, w
<1>4. a = f
  <2>1. ~ (a < f)
    <3> SUFFICES ASSUME a < f PROVE FALSE
      OBVIOUS
    <3>1. f - 1 \in 0 + 1..i - 1 /\ f - 1 >= a /\ s[f - 1] = "\n"
      BY <1>1
    <3> QED BY <1>1, <3>1
  <2>2. ~ (f < a)
    <3> SUFFICES ASSUME f < a PROVE FALSE
      OBVIOUS
    <3>1. a - 1 \in f..i - 1 /\ s[a - 1] = "\n"
      BY <1>1
    <3> QED BY <3>1
  <2> QED BY <1>1, <2>1, <2>2
<1>5. w = v
  BY <1>1, <1>2, <1>4
<1> QED BY <1>3, <1>4, <1>5 DEF Whole, w

\* A part of a sequence that stands in another one, further on.
LEMMA SubSeqShift ==
  ASSUME NEW S, NEW p \in Seq(S), NEW t \in Seq(S), NEW d \in Nat,
         NEW f \in 1..Len(t), NEW v \in 0..Len(t), d + Len(t) <= Len(p),
         \A j \in 1..Len(t) : p[d + j] = t[j]
  PROVE  SubSeq(p, d + f, d + v) = SubSeq(t, f, v)
<1>1. \A j \in f..v : t[j] \in S
  OBVIOUS
<1>2. \A j \in d + f..d + v : p[j] \in S
  OBVIOUS
<1> DEFINE x == SubSeq(p, d + f, d + v)
           y == SubSeq(t, f, v)
<1>3. /\ y \in Seq(S) /\ Len(y) = IF f <= v THEN v - f + 1 ELSE 0
      /\ \A j \in 1..v - f + 1 : y[j] = t[f + j - 1]
  BY <1>1, SubSeqProperties, SMTT(40)
<1>4. /\ x \in Seq(S) /\ Len(x) = IF d + f <= d + v THEN (d + v) - (d + f) + 1 ELSE 0
      /\ \A j \in 1..(d + v) - (d + f) + 1 : x[j] = p[(d + f) + j - 1]
  BY <1>2, SubSeqProperties
<1> HIDE DEF x, y
<1>5. Len(x) = Len(y)
  BY <1>3, <1>4
<1>6. ASSUME NEW j \in 1..Len(x) PROVE x[j] = y[j]
  <2>1. j \in 1..v - f + 1 /\ j \in 1..(d + v) - (d + f) + 1
    BY <1>4
  <2>2. x[j] = p[(d + f) + j - 1] /\ y[j] = t[f + j - 1]
    BY <1>3, <1>4, <2>1
  <2>3. f + j - 1 \in 1..Len(t) /\ (d + f) + j - 1 = d + (f + j - 1)
    BY <2>1
  <2> QED BY <2>2, <2>3
<1>7. x = y
  BY <1>3, <1>4, <1>5, <1>6, SeqEqual
<1> QED BY <1>7 DEF x, y

\* A line is the same in any text that has it after the end of another line.
LEMMA WholeShift ==
  ASSUME NEW p \in Seq(Chars), NEW t \in Seq(Chars), NEW d \in Nat, NEW i \in 1..Len(t),
         d + Len(t) <= Len(p), \A j \in 1..Len(t) : p[d + j] = t[j],
         d = 0 \/ p[d] = "\n", t[i] = "\n"
  PROVE  Whole(p, d + i) = Whole(t, i)
<1> DEFINE f == StartIndex(t, 0, i)
           v == LastVisible(t, i)
<1>1. /\ f \in 1..i /\ v \in f - 1..i - 1 /\ (\A j \in f..i - 1 : t[j] # "\n")
      /\ (v >= f => Visible(t[v])) /\ \A j \in f..i : Visible(t[j]) => j <= v
  BY LastVisibleIs
<1>2. f > 1 => t[f - 1] = "\n"
  <2>1. 0 \in 0..Len(t) /\ i \in 0 + 1..Len(t) + 1
    OBVIOUS
  <2> QED BY <2>1, StartIs
<1>3. Whole(t, i) = SubSeq(t, f, v) \o <<"\n">>
  BY FirstIsStart DEF Whole
<1> HIDE DEF f, v
<1>4. d + i \in 1..Len(p) /\ p[d + i] = "\n" /\ d + f \in 1..d + i
      /\ d + v \in (d + f) - 1..(d + i) - 1
  BY <1>1
<1>5. d + f = 1 \/ p[(d + f) - 1] = "\n"
  <2>1. CASE f = 1
    BY <2>1
  <2>2. CASE f > 1
    <3>1. f - 1 \in 1..Len(t) /\ d + (f - 1) = (d + f) - 1
      BY <1>1, <2>2
    <3>2. p[d + (f - 1)] = t[f - 1]
      BY <3>1
    <3> QED BY <1>2, <2>2, <3>1, <3>2
  <2> QED BY <1>1, <2>1, <2>2
<1>6. ASSUME NEW j \in d + f..d + i
      PROVE  j - d \in f..i /\ p[j] = t[j - d] /\ (j # d + i => p[j] # "\n")
             /\ (Visible(p[j]) => j <= d + v)
  <2>1. j - d \in f..i /\ j - d \in 1..Len(t) /\ d + (j - d) = j
    BY <1>1
  <2>2. p[d + (j - d)] = t[j - d]
    BY <2>1
  <2>3. j # d + i => j - d \in f..i - 1
    BY <1>1, <2>1
  <2>4. Visible(t[j - d]) => j - d <= v
    BY <1>1, <2>1
  <2> QED BY <1>1, <2>1, <2>2, <2>3, <2>4
<1>7. d + v >= d + f => Visible(p[d + v])
  <2>1. v >= f => v \in 1..Len(t) /\ p[d + v] = t[v]
    BY <1>1
  <2> QED BY <1>1, <2>1
<1>8. \A j \in d + f..(d + i) - 1 : p[j] # "\n"
  BY <1>6
<1>9. \A j \in d + f..d + i : Visible(p[j]) => j <= d + v
  BY <1>6
<1>10. Whole(p, d + i) = SubSeq(p, d + f, d + v) \o <<"\n">>
  BY <1>4, <1>5, <1>7, <1>8, <1>9, WholeUnique
<1>11. SubSeq(p, d + f, d + v) = SubSeq(t, f, v)
  <2>1. f \in 1..Len(t) /\ v \in 0..Len(t)
    BY <1>1
  <2> QED BY <2>1, SubSeqShift
<1> QED BY <1>3, <1>10, <1>11

-----------------------------------------------------------------------------
(* The lines that are published against the lines of the text.             *)

SameLine(p, l) == Strip(p) = Strip(l) /\ (Len(l) > FirstWidth(l) + 1 => p = l)
SameLines(p, l) == Len(p) = Len(l) /\ \A k \in 1..Len(l) : SameLine(p[k], l[k])

\* One more line on both sides.
LEMMA SameLinesAppend ==
  ASSUME NEW S, NEW p \in Seq(S), NEW l \in Seq(S), NEW x \in S, NEW y \in S,
         SameLines(p, l), SameLine(x, y)
  PROVE  SameLines(Append(p, x), Append(l, y))
<1> DEFINE P == Append(p, x)
           L == Append(l, y)
<1>1. Len(P) = Len(p) + 1 /\ Len(L) = Len(l) + 1 /\ Len(p) = Len(l)
  BY DEF SameLines
<1>2. ASSUME NEW k \in 1..Len(L) PROVE SameLine(P[k], L[k])
  <2>1. CASE k <= Len(l)
    <3>1. P[k] = p[k] /\ L[k] = l[k] /\ k \in 1..Len(l)
      BY <1>1, <2>1
    <3> QED BY <3>1 DEF SameLines
  <2>2. CASE k = Len(l) + 1
    <3>1. P[k] = x /\ L[k] = y
      BY <1>1, <2>2
    <3> QED BY <3>1
  <2> QED BY <1>1, <2>1, <2>2
<1> QED BY <1>1, <1>2 DEF SameLines

\* More lines on both sides.
LEMMA SameLinesConcat ==
  ASSUME NEW S, NEW p \in Seq(S), NEW l \in Seq(S), NEW q \in Seq(S), NEW m \in Seq(S),
         SameLines(p, l), SameLines(q, m)
  PROVE  SameLines(p \o q, l \o m)
<1>1. /\ Len(p) = Len(l) /\ Len(q) = Len(m)
      /\ Len(p \o q) = Len(l) + Len(m) /\ Len(l \o m) = Len(l) + Len(m)
  <2>1. Len(p) = Len(l) /\ Len(q) = Len(m)
    BY DEF SameLines
  <2>2. Len(p \o q) = Len(p) + Len(q) /\ Len(l \o m) = Len(l) + Len(m)
    BY ConcatProperties
  <2> QED BY <2>1, <2>2
<1>2. ASSUME NEW k \in 1..Len(l \o m) PROVE SameLine((p \o q)[k], (l \o m)[k])
  <2>1. CASE k <= Len(l)
    <3>1. (p \o q)[k] = p[k] /\ (l \o m)[k] = l[k] /\ k \in 1..Len(l)
      BY <1>1, <2>1
    <3> QED BY <3>1 DEF SameLines
  <2>2. CASE k > Len(l)
    <3>1. (p \o q)[k] = q[k - Len(l)] /\ (l \o m)[k] = m[k - Len(l)] /\ k - Len(l) \in 1..Len(m)
      BY <1>1, <2>2
    <3> QED BY <3>1 DEF SameLines
  <2> QED BY <1>1, <2>1, <2>2
<1> QED BY <1>1, <1>2 DEF SameLines

\* A text has no lines before its first newline.
LEMMA LinesNone ==
  ASSUME NEW s \in Seq(Chars), NEW b \in 0..Len(s), NoNewline(s, 1, b), NEW h, LinesBy(h, s)
  PROVE  h[b] = <<>>
<1> DEFINE T == {i \in 0..b : h[i] = <<>>}
<1>0. 0 \in Nat /\ b \in Nat
  OBVIOUS
<1>1. /\ h[0] = <<>>
      /\ \A i \in 1..Len(s) : s[i] # "\n" => h[i] = h[i - 1]
  BY DEF LinesBy
<1>2. 0 \in T
  BY <1>1
<1>3. ASSUME NEW i \in 0..b, i \in T, i + 1 <= b PROVE i + 1 \in T
  <2>1. i + 1 \in 1..Len(s) /\ i + 1 \in 1..b /\ (i + 1) - 1 = i /\ i + 1 \in 0..b
    BY <1>3
  <2>2. s[i + 1] # "\n"
    BY <2>1 DEF NoNewline
  <2> QED BY <1>1, <1>3, <2>1, <2>2
<1> HIDE DEF T
<1>4. 0..b \subseteq T
  BY <1>2, <1>3, <1>0, IntervalInduction
<1>5. b \in T
  BY <1>4
<1> QED BY <1>5 DEF T

\* A text without newlines has no complete lines.
LEMMA NoLines ==
  ASSUME NEW s \in Seq(Chars), NoNewline(s, 1, Len(s))
  PROVE  LinesOf(s) = <<>>
<1>1. PICK h : LinesBy(h, s)
  BY LinesDef
<1>2. Len(s) \in 0..Len(s)
  OBVIOUS
<1>3. h[Len(s)] = <<>>
  BY <1>1, <1>2, LinesNone
<1> QED BY <1>1, <1>3 DEF LinesBy

\* The lines of a text are texts.
LEMMA LinesType ==
  ASSUME NEW s \in Seq(Chars)
  PROVE  LinesOf(s) \in Seq(Seq(Chars))
<1>1. PICK h : LinesBy(h, s)
  BY LinesDef
<1>2. Len(s) \in 0..Len(s)
  OBVIOUS
<1> QED BY <1>1, <1>2 DEF LinesBy

\* The lines that the child cuts are those of the text.
LEMMA SplitAgrees ==
  ASSUME NEW s \in Seq(Chars), NEW b \in 0..Len(s), NoNewline(s, 1, b)
  PROVE  SameLines(SplitNewlinesOnly(s, b), LinesOf(s))
<1> DEFINE N == Len(s)
<1>1. PICK g : SplitsBy(g, s, b)
  BY SplitDef
<1>2. PICK h : LinesBy(h, s)
  BY LinesDef
<1>3. N \in Nat /\ b \in Nat /\ b <= N
  OBVIOUS
<1>4. h[b] = <<>>
  BY <1>2, LinesNone
<1>5. /\ g \in [b..N -> Seq(Seq(Chars))] /\ g[b] = <<>> /\ SplitNewlinesOnly(s, b) = g[N]
      /\ \A i \in b + 1..N :
           g[i] = IF s[i] # "\n" THEN g[i - 1] ELSE Append(g[i - 1], Line(s, b, i))
  BY <1>1 DEF SplitsBy
<1>6. /\ h \in [0..N -> Seq(Seq(Chars))] /\ LinesOf(s) = h[N]
      /\ \A i \in 1..N :
           h[i] = IF s[i] # "\n" THEN h[i - 1] ELSE Append(h[i - 1], Whole(s, i))
  BY <1>2 DEF LinesBy
<1>7. \A i \in b + 1..N : s[i] = "\n" =>
        /\ Line(s, b, i) \in Seq(Chars) /\ Whole(s, i) \in Seq(Chars)
        /\ SameLine(Line(s, b, i), Whole(s, i))
  BY LineAgrees DEF SameLine
<1> HIDE DEF N
<1> DEFINE T == {i \in b..N : SameLines(g[i], h[i])}
<1>8. b \in T
  <2>1. Len(<<>>) = 0 /\ \A k \in 1..0 : FALSE
    OBVIOUS
  <2>2. SameLines(<<>>, <<>>)
    BY <2>1 DEF SameLines
  <2> QED BY <1>3, <1>4, <1>5, <2>2
<1>9. ASSUME NEW i \in b..N, i \in T, i + 1 <= N PROVE i + 1 \in T
  <2>1. /\ i \in 0..N /\ i + 1 \in b + 1..N /\ i + 1 \in 1..N /\ i + 1 \in b..N
        /\ (i + 1) - 1 = i
    BY <1>3, <1>9
  <2>2. g[i] \in Seq(Seq(Chars)) /\ h[i] \in Seq(Seq(Chars)) /\ SameLines(g[i], h[i])
    BY <1>5, <1>6, <1>9, <2>1
  <2>3. CASE s[i + 1] # "\n"
    <3>1. g[i + 1] = g[i] /\ h[i + 1] = h[i]
      BY <1>5, <1>6, <2>1, <2>3
    <3> QED BY <2>1, <2>2, <3>1
  <2>4. CASE s[i + 1] = "\n"
    <3>1. g[i + 1] = Append(g[i], Line(s, b, i + 1)) /\ h[i + 1] = Append(h[i], Whole(s, i + 1))
      BY <1>5, <1>6, <2>1, <2>4
    <3>2. /\ Line(s, b, i + 1) \in Seq(Chars) /\ Whole(s, i + 1) \in Seq(Chars)
          /\ SameLine(Line(s, b, i + 1), Whole(s, i + 1))
      BY <1>7, <2>1, <2>4
    <3>3. SameLines(g[i + 1], h[i + 1])
      BY <2>2, <3>1, <3>2, SameLinesAppend
    <3> QED BY <2>1, <3>3
  <2> QED BY <2>3, <2>4
<1> HIDE DEF T
<1>10. b..N \subseteq T
  BY <1>3, <1>8, <1>9, IntervalInduction
<1>11. N \in T
  BY <1>3, <1>10
<1> QED BY <1>5, <1>6, <1>11 DEF T

AppendsLast(a, b, w) == Append(a \o b, w) = a \o Append(b, w)
\* Appending to the second of two sequences.
LEMMA AppendLast ==
  ASSUME NEW S, NEW a \in Seq(S), NEW b \in Seq(S), NEW w \in S
  PROVE  AppendsLast(a, b, w)
BY DEF AppendsLast

Ended(x) == x = <<>> \/ x[Len(x)] = "\n"

\* The lines of a text that follows complete lines.
LEMMA LinesConcat ==
  ASSUME NEW x \in Seq(Chars), NEW t \in Seq(Chars), Ended(x)
  PROVE  LinesOf(x \o t) = LinesOf(x) \o LinesOf(t)
<1> DEFINE p == x \o t
           M == Len(x)
           N == Len(t)
           V == Seq(Chars)
           LL == Seq(V)
<1>1. /\ M \in Nat /\ N \in Nat /\ p \in Seq(Chars) /\ Len(p) = M + N
      /\ (\A j \in 1..M : p[j] = x[j]) /\ (\A j \in 1..N : p[M + j] = t[j])
  BY ConcatProperties
<1>2. M = 0 \/ p[M] = "\n"
  BY <1>1 DEF Ended
<1>3. PICK gx : LinesBy(gx, x)
  BY LinesDef
<1>4. PICK gt : LinesBy(gt, t)
  BY LinesDef
<1>5. PICK gp : LinesBy(gp, p)
  BY <1>1, LinesDef
<1>6. /\ gx \in [0..M -> LL] /\ gx[0] = <<>> /\ LinesOf(x) = gx[M]
      /\ \A i \in 1..M : gx[i] = IF x[i] # "\n" THEN gx[i - 1] ELSE Append(gx[i - 1], Whole(x, i))
  BY <1>3 DEF LinesBy
<1>7. /\ gt \in [0..N -> LL] /\ gt[0] = <<>> /\ LinesOf(t) = gt[N]
      /\ \A i \in 1..N : gt[i] = IF t[i] # "\n" THEN gt[i - 1] ELSE Append(gt[i - 1], Whole(t, i))
  BY <1>4 DEF LinesBy
<1>8. /\ gp \in [0..M + N -> LL] /\ gp[0] = <<>> /\ LinesOf(p) = gp[M + N]
      /\ \A i \in 1..M + N :
           gp[i] = IF p[i] # "\n" THEN gp[i - 1] ELSE Append(gp[i - 1], Whole(p, i))
  BY <1>1, <1>5 DEF LinesBy
<1>9. \A i \in 1..M : x[i] = "\n" => Whole(p, i) = Whole(x, i)
  <2>1. ASSUME NEW i \in 1..M, x[i] = "\n" PROVE Whole(p, i) = Whole(x, i)
    <3>1. /\ 0 \in Nat /\ 0 + Len(x) <= Len(p) /\ 0 + i = i
          /\ \A j \in 1..Len(x) : p[0 + j] = x[j]
      BY <1>1
    <3>2. Whole(p, 0 + i) = Whole(x, i)
      <4> HIDE DEF p
      <4> QED BY <1>1, <2>1, <3>1, WholeShift
    <3> QED BY <3>1, <3>2
  <2> QED BY <2>1
<1>10. \A i \in 1..N : t[i] = "\n" => Whole(p, M + i) = Whole(t, i) /\ Whole(t, i) \in V
  <2>1. ASSUME NEW i \in 1..N, t[i] = "\n"
        PROVE  Whole(p, M + i) = Whole(t, i) /\ Whole(t, i) \in Seq(Chars)
    <3>1. M + Len(t) <= Len(p) /\ \A j \in 1..Len(t) : p[M + j] = t[j]
      BY <1>1
    <3>2. Whole(p, M + i) = Whole(t, i)
      <4> HIDE DEF p, M
      <4> QED BY <1>1, <1>2, <2>1, <3>1, WholeShift
    <3>3. 0 \in 0..Len(t) /\ i \in 0 + 1..Len(t) /\ NoNewline(t, 1, 0)
      BY DEF NoNewline
    <3>4. Whole(t, i) \in Seq(Chars)
      BY <2>1, <3>3, LineAgrees
    <3> QED BY <3>2, <3>4
  <2> QED BY <2>1
<1> HIDE DEF p, M, N, V
<1> DEFINE T == {i \in 0..M : gp[i] = gx[i]}
<1>11. 0 \in T
  BY <1>1, <1>6, <1>8
<1>12. ASSUME NEW i \in 0..M, i \in T, i + 1 <= M PROVE i + 1 \in T
  <2>1. i + 1 \in 0..M /\ i + 1 \in 1..M /\ i + 1 \in 1..M + N /\ (i + 1) - 1 = i
    BY <1>1, <1>12
  <2>2. p[i + 1] = x[i + 1] /\ gp[i] = gx[i]
    BY <1>1, <1>12, <2>1
  <2>3. CASE x[i + 1] # "\n"
    BY <1>6, <1>8, <2>1, <2>2, <2>3
  <2>4. CASE x[i + 1] = "\n"
    BY <1>6, <1>8, <1>9, <2>1, <2>2, <2>4
  <2> QED BY <2>3, <2>4
<1> HIDE DEF T
<1>13. 0..M \subseteq T
  BY <1>1, <1>11, <1>12, IntervalInduction
<1>14. gp[M] = gx[M]
  <2>1. M \in T
    BY <1>1, <1>13
  <2> QED BY <2>1 DEF T
<1> DEFINE U == {i \in 0..N : gp[M + i] = gx[M] \o gt[i]}
<1>15. 0 \in U
  <2>1. gx[M] \in LL /\ gp[M + 0] = gp[M]
    BY <1>1, <1>6
  <2>2. gx[M] \o <<>> = gx[M]
    <3> DEFINE a == gx[M]
    <3>1. a \in LL
      BY <2>1
    <3> HIDE DEF a
    <3>2. a \o <<>> = a
      BY <3>1
    <3> QED BY <3>2 DEF a
  <2>3. gt[0] = <<>> /\ gp[M + 0] = gx[M]
    BY <1>7, <1>14, <2>1
  <2>4. gp[M + 0] = gx[M] \o gt[0] /\ 0 \in 0..N
    BY <1>1, <2>2, <2>3
  <2> QED BY <2>4
<1>16. ASSUME NEW i \in 0..N, i \in U, i + 1 <= N PROVE i + 1 \in U
  <2>1. /\ i + 1 \in 0..N /\ i + 1 \in 1..N /\ M + (i + 1) \in 1..M + N
        /\ (i + 1) - 1 = i /\ (M + (i + 1)) - 1 = M + i
    BY <1>1, <1>16
  <2>2. p[M + (i + 1)] = t[i + 1] /\ gp[M + i] = gx[M] \o gt[i]
    BY <1>1, <1>16, <2>1
  <2>3. CASE t[i + 1] # "\n"
    BY <1>7, <1>8, <2>1, <2>2, <2>3
  <2>4. CASE t[i + 1] = "\n"
    <3> DEFINE a == gx[M]
               b == gt[i]
               w == Whole(t, i + 1)
    <3>1. gp[M + (i + 1)] = Append(a \o b, w) /\ gt[i + 1] = Append(b, w)
      BY <1>7, <1>8, <1>10, <2>1, <2>2, <2>4
    <3>2. a \in LL /\ b \in LL /\ w \in V
      <4>1. M \in 0..M /\ i \in 0..N
        BY <1>1
      <4>2. a \in LL /\ b \in LL
        BY <1>6, <1>7, <4>1
      <4> QED BY <1>10, <2>1, <2>4, <4>2
    <3> HIDE DEF a, b, w
    <3>3. Append(a \o b, w) = a \o Append(b, w)
      <4>1. AppendsLast(a, b, w)
        BY <3>2, AppendLast
      <4> QED BY <4>1 DEF AppendsLast
    <3> QED BY <2>1, <3>1, <3>3 DEF a
  <2> QED BY <2>3, <2>4
<1> HIDE DEF U
<1>17. 0..N \subseteq U
  BY <1>1, <1>15, <1>16, IntervalInduction
<1>18. N \in U
  BY <1>1, <1>17
<1> QED BY <1>6, <1>7, <1>8, <1>18 DEF U, p

\* What is kept for the next read is what follows the last newline.
RestOf(y, s, b) == y \in Seq(Chars) /\ Ended(y) /\ s = y \o Rest(s, b)

\* The rest has no newline, and what comes before it ends with one.
LEMMA RestIs ==
  ASSUME NEW s \in Seq(Chars), NEW b \in 0..Len(s), NoNewline(s, 1, b)
  PROVE  /\ NoNewline(Rest(s, b), 1, Len(Rest(s, b)))
         /\ \E y : RestOf(y, s, b)
<1> DEFINE N == Len(s)
           a == StartIndex(s, b, N + 1)
           x == SubSeq(s, 1, a - 1)
           r == Rest(s, b)
<1>1. /\ a \in 1..N + 1 /\ (a > 1 => s[a - 1] = "\n")
      /\ \A j \in a..N : s[j] # "\n"
  <2>1. N + 1 \in b + 1..Len(s) + 1
    OBVIOUS
  <2>2. /\ a \in 1..N + 1 /\ (a = 1 \/ a > b + 1) /\ (a > 1 => s[a - 1] = "\n")
        /\ \A j \in b + 1..(N + 1) - 1 : j >= a => s[j] # "\n"
    BY <2>1, StartIs
  <2>3. \A j \in 1..b : s[j] # "\n"
    BY DEF NoNewline
  <2> HIDE DEF a
  <2> QED BY <2>2, <2>3
<1>2. r = SubSeq(s, a, N)
  BY DEF Rest
<1> HIDE DEF a, r
<1>3. (\A j \in a..N : s[j] \in Chars) /\ (\A j \in 1..a - 1 : s[j] \in Chars)
  BY <1>1
<1>4. /\ r \in Seq(Chars) /\ Len(r) = IF a <= N THEN N - a + 1 ELSE 0
      /\ \A j \in 1..N - a + 1 : r[j] = s[a + j - 1]
  BY <1>1, <1>2, <1>3, SubSeqProperties
<1>5. NoNewline(r, 1, Len(r))
  <2>1. ASSUME NEW j \in 1..Len(r) PROVE r[j] # "\n"
    <3>1. j \in 1..N - a + 1 /\ a + j - 1 \in a..N
      BY <1>1, <1>4
    <3> QED BY <1>1, <1>4, <3>1
  <2> QED BY <2>1 DEF NoNewline
<1>6. /\ x \in Seq(Chars) /\ Len(x) = IF 1 <= a - 1 THEN (a - 1) - 1 + 1 ELSE 0
      /\ \A j \in 1..(a - 1) - 1 + 1 : x[j] = s[1 + j - 1]
  <2>1. 1 \in Int /\ a - 1 \in Int
    BY <1>1
  <2> QED BY <1>3, <2>1, SubSeqProperties
<1>7. x \o r = s
  <2>1. /\ 1 \in 1..N + 1 /\ a - 1 \in 1 - 1..N /\ N \in a - 1..N /\ (a - 1) + 1 = a
    BY <1>1
  <2>2. x \o r = SubSeq(s, 1, N)
    BY <1>2, <2>1, ConcatAdjacentSubSeq
  <2> QED BY <2>2, SubSeqFull
<1> HIDE DEF x
<1>8. Ended(x)
  <2>1. CASE a = 1
    BY <1>6, <2>1 DEF Ended
  <2>2. CASE a > 1
    <3>1. Len(x) = a - 1 /\ a - 1 \in 1..(a - 1) - 1 + 1 /\ 1 + (a - 1) - 1 = a - 1
      BY <1>1, <1>6, <2>2
    <3> QED BY <1>1, <1>6, <2>2, <3>1 DEF Ended
  <2> QED BY <1>1, <2>1, <2>2
<1>9. RestOf(x, s, b)
  BY <1>6, <1>7, <1>8 DEF RestOf, r
<1> QED BY <1>5, <1>9 DEF r

-----------------------------------------------------------------------------
(* Types.                                                                  *)

CommandSet(c, n) ==
  [op : {"open", "close"}, arg : {0}] \cup [op : {"call"}, arg : 1..c]
    \cup [op : {"write"}, arg : Seq(1..n)]

StateTyped ==
  /\ left \in [Ops -> Nat] /\ autoReopen \in BOOLEAN /\ openOnStart \in BOOLEAN
  /\ mpc \in MainPcs /\ xmodem \in BOOLEAN /\ started \in BOOLEAN
  /\ cpc \in ChildPcs /\ terminateEvent \in BOOLEAN /\ sigusr1 \in BOOLEAN
  /\ openEvent \in BOOLEAN /\ portOpen \in BOOLEAN /\ mainOpen \in BOOLEAN
  /\ told \in BOOLEAN /\ rough \in BOOLEAN /\ dropped \in BOOLEAN
  /\ early \in BOOLEAN /\ partial \in BOOLEAN

TrafficTyped ==
  /\ call \in Nat /\ results \in Seq(1..call)
  /\ sent \in Nat /\ pending \in Seq(Seq(1..sent)) /\ written \in Seq(1..sent)
  /\ lost \in Nat /\ commands \in Seq(CommandSet(call, sent))
  /\ text \in Seq(Bytes) /\ wire \in Seq(Bytes)
  /\ decoded \in Seq(Chars) /\ buffer \in Seq(Chars) /\ published \in Seq(Seq(Chars))

MarksTyped ==
  /\ torn \in SUBSET Nat /\ abandoned \in Nat
  /\ gaveUp \in BOOLEAN /\ leaked \in BOOLEAN /\ unheard \in BOOLEAN

Typed == StateTyped /\ TrafficTyped /\ MarksTyped

\* Sequences over a larger set.
LEMMA SeqGrows ==
  ASSUME NEW S, NEW T, S \subseteq T
  PROVE  Seq(S) \subseteq Seq(T)
<1>1. ASSUME NEW s \in Seq(S) PROVE s \in Seq(T)
  <2>1. s \in [1..Len(s) -> S] /\ Len(s) \in Nat
    OBVIOUS
  <2>2. s \in [1..Len(s) -> T]
    BY <2>1
  <2> QED BY <2>1, <2>2, SeqDef
<1> QED BY <1>1

\* Sets of commands, calls and bytes grow with the numbers of calls and bytes.
LEMMA SetsGrow ==
  ASSUME NEW c \in Nat, NEW d \in Nat, NEW n \in Nat, NEW m \in Nat, c <= d, n <= m
  PROVE  /\ Seq(1..c) \subseteq Seq(1..d)
         /\ Seq(Seq(1..n)) \subseteq Seq(Seq(1..m)) /\ Seq(1..n) \subseteq Seq(1..m)
         /\ CommandSet(c, n) \subseteq CommandSet(d, m)
         /\ Seq(CommandSet(c, n)) \subseteq Seq(CommandSet(d, m))
<1>1. 1..c \subseteq 1..d /\ 1..n \subseteq 1..m
  OBVIOUS
<1>2. Seq(1..c) \subseteq Seq(1..d) /\ Seq(1..n) \subseteq Seq(1..m)
  BY <1>1, SeqGrows
<1>3. Seq(Seq(1..n)) \subseteq Seq(Seq(1..m))
  BY <1>2, SeqGrows
<1>4. CommandSet(c, n) \subseteq CommandSet(d, m)
  <2>1. \A U, V, A : U \subseteq V => [op : A, arg : U] \subseteq [op : A, arg : V]
    OBVIOUS
  <2>2. [op : {"call"}, arg : 1..c] \subseteq [op : {"call"}, arg : 1..d]
    BY <1>1, <2>1
  <2>3. [op : {"write"}, arg : Seq(1..n)] \subseteq [op : {"write"}, arg : Seq(1..m)]
    BY <1>2, <2>1
  <2> QED BY <2>2, <2>3 DEF CommandSet
<1>5. Seq(CommandSet(c, n)) \subseteq Seq(CommandSet(d, m))
  BY <1>4, SeqGrows
<1> QED BY <1>2, <1>3, <1>4, <1>5

\* The type of a sequence with one more element.
LEMMA AppendType ==
  ASSUME NEW S, NEW q \in Seq(S), NEW x \in S
  PROVE  Append(q, x) \in Seq(S)
OBVIOUS

\* The type of two sequences after each other.
LEMMA ConcatType ==
  ASSUME NEW S, NEW q \in Seq(S), NEW r \in Seq(S)
  PROVE  q \o r \in Seq(S)
OBVIOUS

\* The types of the first element and of the others.
LEMMA TailType ==
  ASSUME NEW S, NEW q \in Seq(S), q # <<>>
  PROVE  Tail(q) \in Seq(S) /\ Head(q) \in S
OBVIOUS

\* The pieces in which the child takes the text.
LEMMA WireParts ==
  ASSUME NEW S, NEW w \in Seq(S), NEW n \in 0..Len(w)
  PROVE  /\ SubSeq(w, 1, n) \in Seq(S) /\ SubSeq(w, n + 1, Len(w)) \in Seq(S)
         /\ SubSeq(w, 1, n) \o SubSeq(w, n + 1, Len(w)) = w
<1>1. 1 \in 1..Len(w) + 1 /\ n \in 1 - 1..Len(w) /\ Len(w) \in n..Len(w) /\ n + 1 \in 1..Len(w) + 1
      /\ Len(w) \in 0..Len(w)
  OBVIOUS
<1>2. SubSeq(w, 1, n) \in Seq(S) /\ SubSeq(w, n + 1, Len(w)) \in Seq(S)
  BY <1>1, SubSeqType
<1>3. SubSeq(w, 1, n) \o SubSeq(w, n + 1, Len(w)) = SubSeq(w, 1, Len(w))
  BY <1>1, ConcatAdjacentSubSeq
<1> QED BY <1>2, <1>3, SubSeqFull

\* There is no newline in what the child keeps for the next read.
BufferOK == NoNewline(buffer, 1, Len(buffer))

\* What bytes are decoded to.
LEMMA DecodeType ==
  ASSUME NEW s \in Seq(Bytes)
  PROVE  /\ Decode(s) \in Seq(Chars) /\ Len(Decode(s)) = Len(s)
         /\ \A i \in 1..Len(s) : Decode(s)[i] = IF IsWhole(s, i) THEN s[i] ELSE "?"
<1>1. Len(s) \in Nat /\ \A i \in 1..Len(s) : s[i] \in Bytes
  OBVIOUS
<1>2. \A i \in 1..Len(s) : (IF IsWhole(s, i) THEN s[i] ELSE "?") \in Chars
  BY <1>1 DEF Chars
<1> QED BY <1>1, <1>2 DEF Decode

\* A read of n bytes.
LEMMA ReadIs ==
  ASSUME NEW b \in Seq(Chars), NEW w \in Seq(Bytes), NEW n \in 0..Len(w),
         NoNewline(b, 1, Len(b))
  PROVE  LET u == Decode(SubSeq(w, 1, n))
             s == b \o u
         IN  /\ u \in Seq(Chars) /\ s \in Seq(Chars) /\ Len(b) \in 0..Len(s)
             /\ NoNewline(s, 1, Len(b))
<1> DEFINE u == Decode(SubSeq(w, 1, n))
<1>1. u \in Seq(Chars)
  BY WireParts, DecodeType
<1> HIDE DEF u
<1>2. /\ b \o u \in Seq(Chars) /\ Len(b \o u) = Len(b) + Len(u)
      /\ \A j \in 1..Len(b) : (b \o u)[j] = b[j]
  BY <1>1, ConcatProperties
<1>3. Len(b) \in Nat /\ Len(u) \in Nat
  BY <1>1
<1> QED BY <1>2, <1>3 DEF NoNewline, u

\* What a command is.
LEMMA CommandCases ==
  ASSUME NEW k, NEW n, NEW c \in CommandSet(k, n)
  PROVE  /\ c.op \in {"open", "close", "call", "write"}
         /\ c.op = "call" => c.arg \in 1..k
         /\ c.op = "write" => c.arg \in Seq(1..n)
         /\ Data(c) \in Seq(1..n)
<1>0. <<>> \in Seq(1..n)
  OBVIOUS
<1>1. CASE c \in [op : {"open", "close"}, arg : {0}]
  <2>1. c.op \in {"open", "close"}
    BY <1>1
  <2> QED BY <1>0, <2>1 DEF Data
<1>2. CASE c \in [op : {"call"}, arg : 1..k]
  <2>1. c.op = "call" /\ c.arg \in 1..k
    BY <1>2
  <2> QED BY <1>0, <2>1 DEF Data
<1>3. CASE c \in [op : {"write"}, arg : Seq(1..n)]
  BY <1>3 DEF Data
<1> QED BY <1>1, <1>2, <1>3 DEF CommandSet

\* The commands that the operations of the Switchboard make.
LEMMA CommandsMade ==
  ASSUME NEW k \in Nat, NEW n \in Nat
  PROVE  /\ [op |-> "open", arg |-> 0] \in CommandSet(k, n)
         /\ [op |-> "close", arg |-> 0] \in CommandSet(k, n)
         /\ [op |-> "call", arg |-> k + 1] \in CommandSet(k + 1, n)
         /\ \A m \in Nat : [op |-> "write", arg |-> [i \in 1..m |-> n + i]] \in CommandSet(k, n + m)
<1>1. ASSUME NEW m \in Nat PROVE [i \in 1..m |-> n + i] \in Seq(1..n + m)
  OBVIOUS
<1>2. k + 1 \in 1..k + 1
  OBVIOUS
<1> QED BY <1>1, <1>2 DEF CommandSet

\* Types hold at first.
LEMMA InitTyped == Init => Typed /\ BufferOK
<1> SUFFICES ASSUME Init PROVE Typed /\ BufferOK
  OBVIOUS
<1>1. left \in [Ops -> Nat]
  BY LoadsAssumption DEF Init
<1>2. \A S : <<>> \in Seq(S)
  OBVIOUS
<1>3. BufferOK
  BY DEF Init, BufferOK, NoNewline
<1> QED BY <1>1, <1>2, <1>3 DEF Init, Typed, StateTyped, TrafficTyped, MarksTyped, MainPcs, ChildPcs

\* Of a step that appends to the command queue, at most a call and bytes are new.
LEMMA CommandTyped ==
  ASSUME Typed, NEW o, NEW a, Command(o, a), NEW k \in Nat, NEW n \in Nat, call <= k, sent <= n,
         [op |-> o, arg |-> a] \in CommandSet(k, n)
  PROVE  commands' \in Seq(CommandSet(k, n))
<1>1. commands \in Seq(CommandSet(k, n))
  BY SetsGrow DEF Typed, StateTyped, TrafficTyped
<1> QED BY <1>1, AppendType DEF Command

\* What a load becomes.
LEMMA SpendTyped ==
  ASSUME Typed, NEW o \in Ops, Spend(o)
  PROVE  left' \in [Ops -> Nat]
<1>1. left \in [Ops -> Nat] /\ left[o] > 0 /\ left' = [left EXCEPT ![o] = left[o] - 1]
  BY DEF Typed, StateTyped, TrafficTyped, Spend
<1>2. left[o] - 1 \in Nat
  BY <1>1
<1> QED BY <1>1, <1>2

\* Reading, of which the types and the newlines depend on each other.
LEMMA ReadTyped ==
  ASSUME Typed, BufferOK, NEW n \in 0..Len(wire), NEW elapsed \in BOOLEAN,
         TransportRead(n, elapsed)
  PROVE  /\ wire' \in Seq(Bytes) /\ buffer' \in Seq(Chars) /\ published' \in Seq(Seq(Chars))
         /\ decoded' \in Seq(Chars)
         /\ text' = text /\ partial' \in BOOLEAN /\ NoNewline(buffer', 1, Len(buffer'))
<1> DEFINE u == Decode(SubSeq(wire, 1, n))
           s == buffer \o u
           b == Len(buffer)
           lines == SplitNewlinesOnly(s, b)
           rest == Rest(s, b)
<1>1. u \in Seq(Chars) /\ s \in Seq(Chars) /\ b \in 0..Len(s) /\ NoNewline(s, 1, b)
  BY ReadIs DEF Typed, StateTyped, TrafficTyped, BufferOK
<1>2. /\ wire' = SubSeq(wire, n + 1, Len(wire)) /\ decoded' = decoded \o u
      /\ published' = published \o lines \o
                        (IF elapsed /\ rest # <<>> THEN <<rest>> ELSE <<>>)
      /\ buffer' = IF elapsed /\ rest # <<>> THEN <<>> ELSE rest
      /\ partial' = (partial \/ (elapsed /\ rest # <<>>)) /\ text' = text
  BY DEF TransportRead
<1>3. wire' \in Seq(Bytes)
  BY <1>2, WireParts DEF Typed, StateTyped, TrafficTyped
<1> HIDE DEF s, b, u
<1>10. decoded' \in Seq(Chars)
  BY <1>1, <1>2, ConcatType DEF Typed, StateTyped, TrafficTyped
<1>4. lines \in Seq(Seq(Chars)) /\ rest \in Seq(Chars) /\ NoNewline(rest, 1, Len(rest))
  <2>1. lines \in Seq(Seq(Chars)) /\ rest \in Seq(Chars)
    BY <1>1, SplitKeeps
  <2>2. NoNewline(rest, 1, Len(rest))
    BY <1>1, RestIs
  <2> QED BY <2>1, <2>2
<1> HIDE DEF lines, rest
<1>5. published \o lines \in Seq(Seq(Chars))
  BY <1>4, ConcatType DEF Typed, StateTyped, TrafficTyped
<1>6. (IF elapsed /\ rest # <<>> THEN <<rest>> ELSE <<>>) \in Seq(Seq(Chars))
  <2>1. <<rest>> \in Seq(Seq(Chars)) /\ <<>> \in Seq(Seq(Chars))
    BY <1>4
  <2> QED BY <2>1
<1>7. published' \in Seq(Seq(Chars))
  BY <1>2, <1>5, <1>6, ConcatType
<1>8. <<>> \in Seq(Chars) /\ NoNewline(<<>>, 1, Len(<<>>))
  BY DEF NoNewline
<1>9. buffer' \in Seq(Chars) /\ NoNewline(buffer', 1, Len(buffer'))
  BY <1>2, <1>4, <1>8
<1> QED BY <1>2, <1>3, <1>7, <1>9, <1>10 DEF Typed, StateTyped, TrafficTyped

\* A character is one byte or two.
LEMMA CharacterType ==
  ASSUME NEW c \in Characters
  PROVE  c \in Seq(Bytes)
<1>1. \A x, y \in Bytes : <<x>> \in Seq(Bytes) /\ <<x, y>> \in Seq(Bytes)
  OBVIOUS
<1>2. {"a", "\r", "\n", "lead", "cont"} \subseteq Bytes
  BY DEF Bytes
<1> HIDE DEF Bytes
<1>3. c = <<"a">> \/ c = <<"\r">> \/ c = <<"\n">> \/ c = <<"lead", "cont">>
  BY DEF Characters
<1> QED BY <1>1, <1>2, <1>3

\* The type of all but the last element.
LEMMA FrontType ==
  ASSUME NEW S, NEW q \in Seq(S), q # <<>>
  PROVE  /\ Front(q) \in Seq(S) /\ Len(Front(q)) = Len(q) - 1
         /\ \A i \in 1..Len(q) - 1 : Front(q)[i] = q[i]
<1> DEFINE n == Len(q) - 1
<1>1. Front(q) = SubSeq(q, 1, n)
  BY DEF Front
<1>2. n \in Nat /\ 1 \in Int /\ n \in Int /\ \A i \in 1..n : q[i] \in S
  BY EmptySeq
<1> HIDE DEF n
<1>3. /\ SubSeq(q, 1, n) \in Seq(S)
      /\ Len(SubSeq(q, 1, n)) = IF 1 <= n THEN n - 1 + 1 ELSE 0
      /\ \A i \in 1..n - 1 + 1 : SubSeq(q, 1, n)[i] = q[1 + i - 1]
  BY <1>2, SubSeqProperties
<1>4. Front(q) \in Seq(S) /\ Len(Front(q)) = n /\ \A i \in 1..n : Front(q)[i] = q[i]
  BY <1>1, <1>2, <1>3
<1> QED BY <1>4 DEF n

\* Every step keeps the types of state and traffic, and newlines out of the buffer.
LEMMA StateStep ==
  Typed /\ BufferOK /\ [Next]_vars => (StateTyped /\ TrafficTyped /\ BufferOK)'
<1> SUFFICES ASSUME Typed, BufferOK, [Next]_vars PROVE (StateTyped /\ TrafficTyped /\ BufferOK)'
  OBVIOUS
<1> USE DEF Typed
<1>0. "start" \in Ops /\ "stop" \in Ops /\ "open" \in Ops /\ "close" \in Ops /\ "xmodem" \in Ops
      /\ "call" \in Ops /\ "send" \in Ops /\ "drop" \in Ops /\ "fail" \in Ops /\ "emit" \in Ops
      /\ "other" \in Ops
  BY DEF Ops
<1>1. call \in Nat /\ sent \in Nat /\ call <= call /\ sent <= sent /\ \A S : <<>> \in Seq(S)
  BY DEF StateTyped, TrafficTyped
<1>2. \A o \in {"open", "close"} : Command(o, 0) => commands' \in Seq(CommandSet(call, sent))
  BY <1>1, CommandTyped, CommandsMade
<1>3. AfterStop => mpc' \in {"finally", "idle"}
  BY DEF AfterStop
<1>4. BufferOK' \/ buffer' # buffer
  BY DEF BufferOK
<1> USE DEF vars, frozen, control, calls, port, writes, reads, history, marks, MainPcs, ChildPcs, Opening
<1>5. CASE UNCHANGED vars
  BY <1>4, <1>5 DEF StateTyped, TrafficTyped
<1>6. CASE StartTransportProcess
  <2>1. left' \in [Ops -> Nat]
    BY <1>0, <1>6, SpendTyped DEF StartTransportProcess
  <2>2. BufferOK'
    BY <1>6 DEF StartTransportProcess, BufferOK, NoNewline
  <2>3. told' \in BOOLEAN /\ partial' \in BOOLEAN
    BY <1>6, Zenon DEF StartTransportProcess, StateTyped, TrafficTyped
  <2> QED BY <1>1, <1>6, <2>1, <2>2, <2>3 DEF StartTransportProcess, StateTyped, TrafficTyped
<1>7. CASE StopTransportProcess
  <2>1. left' \in [Ops -> Nat]
    BY <1>0, <1>7, SpendTyped DEF StopTransportProcess
  <2> QED
    <3>11. StateTyped'
      BY <1>4, <1>7, <2>1 DEF StopTransportProcess, StopEntry, StateTyped
    <3>12. TrafficTyped' /\ BufferOK'
      BY <1>4, <1>7, <2>1 DEF StopTransportProcess, StopEntry, TrafficTyped
    <3> QED BY <3>11, <3>12
<1>8. CASE OpenTransport
  <2>1. left' \in [Ops -> Nat] /\ commands' \in Seq(CommandSet(call, sent))
    BY <1>0, <1>2, <1>8, SpendTyped DEF OpenTransport
  <2> QED
    <3>11. StateTyped'
      BY <1>4, <1>8, <2>1 DEF OpenTransport, StateTyped
    <3>12. TrafficTyped' /\ BufferOK'
      BY <1>4, <1>8, <2>1 DEF OpenTransport, TrafficTyped
    <3> QED BY <3>11, <3>12
<1>9. ASSUME NEW x \in BOOLEAN, CloseTransport(x) PROVE (StateTyped /\ TrafficTyped /\ BufferOK)'
  <2>1. left' \in [Ops -> Nat] /\ commands' \in Seq(CommandSet(call, sent))
    BY <1>0, <1>2, <1>9, SpendTyped DEF CloseTransport
  <2> QED
    <3>11. StateTyped'
      BY <1>4, <1>9, <2>1 DEF CloseTransport, StateTyped
    <3>12. TrafficTyped' /\ BufferOK'
      BY <1>4, <1>9, <2>1 DEF CloseTransport, TrafficTyped
    <3> QED BY <3>11, <3>12
<1>10. CASE Call
  <2>1. left' \in [Ops -> Nat] /\ call' = call + 1 /\ sent' = sent
    BY <1>0, <1>10, SpendTyped DEF Call
  <2>2. commands' \in Seq(CommandSet(call + 1, sent))
    <3>1. [op |-> "call", arg |-> call + 1] \in CommandSet(call + 1, sent)
      BY <1>1, CommandsMade
    <3>2. call + 1 \in Nat /\ call <= call + 1
      BY <1>1
    <3> QED BY <1>1, <1>10, <3>1, <3>2, CommandTyped DEF Call
  <2>3. results \in Seq(1..call + 1)
    BY <1>1, SetsGrow DEF StateTyped, TrafficTyped
  <2> QED BY <1>4, <1>10, <2>1, <2>2, <2>3 DEF Call, StateTyped, TrafficTyped
<1>11. ASSUME NEW n \in Nat, Send(n) PROVE (StateTyped /\ TrafficTyped /\ BufferOK)'
  <2>1. left' \in [Ops -> Nat] /\ sent' = sent + n /\ call' = call
    BY <1>0, <1>11, SpendTyped DEF Send
  <2>2. sent + n \in Nat /\ sent <= sent + n
    BY <1>1
  <2>3. commands' \in Seq(CommandSet(call, sent + n))
    BY <1>1, <1>11, <2>2, CommandTyped, CommandsMade DEF Send
  <2>4. pending \in Seq(Seq(1..sent + n)) /\ written \in Seq(1..sent + n)
    BY <1>1, <2>2, SetsGrow DEF StateTyped, TrafficTyped
  <2> QED BY <1>4, <1>11, <2>1, <2>2, <2>3, <2>4 DEF Send, StateTyped, TrafficTyped
<1>12. CASE StopReturns
  <2>10. started' \in BOOLEAN
    BY <1>12, Zenon DEF StopReturns
  <2>11. StateTyped'
    BY <1>3, <1>4, <1>12, <2>10 DEF StopReturns, StateTyped
  <2>12. TrafficTyped' /\ BufferOK'
    BY <1>3, <1>4, <1>12 DEF StopReturns, TrafficTyped
  <2> QED BY <2>11, <2>12
<1>13. CASE StopKills
  <2>10. portOpen' \in BOOLEAN /\ started' \in BOOLEAN /\ rough' \in BOOLEAN
    BY <1>13, Zenon DEF StopKills
  <2>1. Front(results) \in Seq(1..call) \/ results = <<>>
    BY FrontType DEF StateTyped, TrafficTyped
  <2>2. results' \in Seq(1..call)
    BY <1>13, <2>1 DEF StopKills, TrafficTyped
  <2>11. StateTyped'
    BY <1>3, <1>4, <1>13, <2>10 DEF StopKills, StateTyped
  <2>12. TrafficTyped' /\ BufferOK'
    BY <1>4, <1>13, <2>2 DEF StopKills, TrafficTyped
  <2> QED BY <2>11, <2>12
<1>14. CASE OpenReturns
  <2>11. StateTyped'
    BY <1>4, <1>14 DEF OpenReturns, StateTyped
  <2>12. TrafficTyped' /\ BufferOK'
    BY <1>4, <1>14 DEF OpenReturns, TrafficTyped
  <2> QED BY <2>11, <2>12
<1>15. CASE CloseReturns
  <2>1. early' \in BOOLEAN
    BY <1>15, Zenon DEF CloseReturns, OpenAhead, StateTyped
  <2> QED
    <3>10. told' \in BOOLEAN
      BY <1>15, Zenon DEF CloseReturns
    <3>11. StateTyped'
      BY <1>4, <1>15, <2>1, <3>10 DEF CloseReturns, StateTyped
    <3>12. TrafficTyped' /\ BufferOK'
      BY <1>4, <1>15, <2>1 DEF CloseReturns, TrafficTyped
    <3> QED BY <3>11, <3>12
<1>16. CASE PollTimesOut
  <2>1. CASE started
    <3>11. StateTyped'
      BY <1>4, <1>16, <2>1 DEF PollTimesOut, StopEntry, StateTyped
    <3>12. TrafficTyped' /\ BufferOK'
      BY <1>4, <1>16, <2>1 DEF PollTimesOut, StopEntry, TrafficTyped
    <3> QED BY <3>11, <3>12
  <2>2. CASE ~started
    <3>10. xmodem' \in BOOLEAN
      BY <1>16, Zenon DEF PollTimesOut, StateTyped
    <3>11. StateTyped'
      BY <1>3, <1>4, <1>16, <2>2, <3>10 DEF PollTimesOut, StateTyped
    <3>12. TrafficTyped' /\ BufferOK'
      BY <1>3, <1>4, <1>16, <2>2 DEF PollTimesOut, TrafficTyped
    <3> QED BY <3>11, <3>12
  <2> QED BY <2>1, <2>2
<1>17. CASE XmodemDone
  <2>11. StateTyped'
    BY <1>4, <1>17 DEF XmodemDone, StateTyped
  <2>12. TrafficTyped' /\ BufferOK'
    BY <1>4, <1>17 DEF XmodemDone, TrafficTyped
  <2> QED BY <2>11, <2>12
<1>17a. CASE XmodemCloses
  <2>10. mainOpen' \in BOOLEAN
    BY <1>17a, Zenon DEF XmodemCloses
  <2>11. StateTyped'
    BY <1>4, <1>17a, <2>10 DEF XmodemCloses, StateTyped
  <2>12. TrafficTyped' /\ BufferOK'
    BY <1>4, <1>17a DEF XmodemCloses, TrafficTyped
  <2> QED BY <2>11, <2>12
<1>17b. CASE XmodemReopens
  <2>10. xmodem' \in BOOLEAN
    BY <1>17b, Zenon DEF XmodemReopens
  <2>11. StateTyped'
    BY <1>4, <1>17b, <2>10 DEF XmodemReopens, StateTyped
  <2>12. TrafficTyped' /\ BufferOK'
    BY <1>2, <1>4, <1>17b DEF XmodemReopens, TrafficTyped
  <2> QED BY <2>11, <2>12
<1>18. CASE CallReturns
  <2>1. results' \in Seq(1..call)
    BY <1>18, TailType DEF CallReturns, StateTyped, TrafficTyped
  <2> QED BY <1>4, <1>18, <2>1 DEF CallReturns, StateTyped, TrafficTyped
<1>19. CASE ProcessExceptions
  <2>10. sigusr1' \in BOOLEAN /\ xmodem' \in BOOLEAN /\ rough' \in BOOLEAN
    BY <1>19, Zenon DEF ProcessExceptions
  <2>11. StateTyped'
    BY <1>3, <1>4, <1>19, <2>10 DEF ProcessExceptions, StateTyped
  <2>12. TrafficTyped' /\ BufferOK'
    BY <1>3, <1>4, <1>19 DEF ProcessExceptions, TrafficTyped
  <2> QED BY <2>11, <2>12
<1>19a. CASE OtherChildFails
  <2>1. left' \in [Ops -> Nat]
    BY <1>0, <1>19a, SpendTyped DEF OtherChildFails
  <2>11. StateTyped'
    BY <1>4, <1>19a, <2>1 DEF OtherChildFails, StateTyped
  <2>12. TrafficTyped' /\ BufferOK'
    BY <1>4, <1>19a DEF OtherChildFails, TrafficTyped
  <2> QED BY <2>11, <2>12
<1>20. CASE ChildHook
  <2>1. FlattenSeq(pending) \in Seq(1..sent)
    BY FlattenType DEF StateTyped, TrafficTyped
  <2>2. lost' \in Nat
    BY <1>20, <2>1 DEF ChildHook, StateTyped, TrafficTyped
  <2> QED BY <1>1, <1>4, <1>20, <2>2 DEF ChildHook, StateTyped, TrafficTyped
<1>21. CASE ChildOpens
  <2>11. StateTyped'
    BY <1>4, <1>21 DEF ChildOpens, StateTyped
  <2>12. TrafficTyped' /\ BufferOK'
    BY <1>4, <1>21 DEF ChildOpens, TrafficTyped
  <2> QED BY <2>11, <2>12
<1>22. CASE ChildRaises
  <2>1. left' \in [Ops -> Nat]
    BY <1>0, <1>22, SpendTyped DEF ChildRaises
  <2> QED
    <3>11. StateTyped'
      BY <1>4, <1>22, <2>1 DEF ChildRaises, StateTyped
    <3>12. TrafficTyped' /\ BufferOK'
      BY <1>4, <1>22, <2>1 DEF ChildRaises, TrafficTyped
    <3> QED BY <3>11, <3>12
<1>23. CASE ChildFails
  <2>11. StateTyped'
    BY <1>4, <1>23 DEF ChildFails, StateTyped
  <2>12. TrafficTyped' /\ BufferOK'
    BY <1>4, <1>23 DEF ChildFails, TrafficTyped
  <2> QED BY <2>11, <2>12
<1>23a. CASE ChildFailsUnheard
  <2>10. portOpen' \in BOOLEAN /\ cpc' \in {"ending", "off"}
    BY <1>23a, Zenon DEF ChildFailsUnheard, StateTyped
  <2>11. StateTyped'
    BY <1>4, <1>23a, <2>10 DEF ChildFailsUnheard, StateTyped
  <2>12. TrafficTyped' /\ BufferOK'
    BY <1>4, <1>23a DEF ChildFailsUnheard, TrafficTyped
  <2> QED BY <2>11, <2>12
<1>24. CASE ChildEnds
  <2>10. portOpen' \in BOOLEAN /\ openEvent' \in BOOLEAN
    BY <1>24, Zenon DEF ChildEnds
  <2>11. StateTyped'
    BY <1>4, <1>24, <2>10 DEF ChildEnds, StateTyped
  <2>12. TrafficTyped' /\ BufferOK'
    BY <1>4, <1>24 DEF ChildEnds, TrafficTyped
  <2> QED BY <2>11, <2>12
<1>25. CASE ChildTerminates
  <2>10. terminateEvent' \in BOOLEAN
    BY <1>25, Zenon DEF ChildTerminates
  <2>11. StateTyped'
    BY <1>4, <1>25, <2>10 DEF ChildTerminates, StateTyped
  <2>12. TrafficTyped' /\ BufferOK'
    BY <1>4, <1>25 DEF ChildTerminates, TrafficTyped
  <2> QED BY <2>11, <2>12
<1>26. CASE ChildTakesCommand
  <2>1. CASE commands = <<>>
    BY <1>4, <1>26, <2>1 DEF ChildTakesCommand, StateTyped, TrafficTyped
  <2>2. CASE commands # <<>>
    <3> DEFINE c == Head(commands)
               E == EnqueueCommandWrites(c.arg)
    <3>1. /\ ProcessCommandMessage(c) /\ commands' = Tail(commands)
          /\ UNCHANGED <<left, frozen, control, call, mainOpen, sent, written, lost, reads,
                         history>>
      BY <1>26, <2>2 DEF ChildTakesCommand
    <3>2. c \in CommandSet(call, sent) /\ commands' \in Seq(CommandSet(call, sent))
      BY <2>2, <3>1, TailType DEF StateTyped, TrafficTyped
    <3> HIDE DEF c
    <3>3. (c.op = "write" => c.arg \in Seq(1..sent)) /\ (c.op = "call" => c.arg \in 1..call)
      BY <3>2, CommandCases
    <3>4. c.op = "write" => E \in Seq(Seq(1..sent))
      BY <3>3, EnqueuedWhole
    <3> HIDE DEF E
    <3>5. pending' \in Seq(Seq(1..sent))
      <4>1. pending' = pending \o (IF c.op = "write" THEN E ELSE <<>>)
        BY <3>1 DEF ProcessCommandMessage, E
      <4>2. (IF c.op = "write" THEN E ELSE <<>>) \in Seq(Seq(1..sent))
        BY <1>1, <3>4
      <4> QED BY <4>1, <4>2, ConcatType DEF StateTyped, TrafficTyped
    <3>6. results' \in Seq(1..call)
      <4>1. results' = results \o (IF c.op = "call" THEN <<c.arg>> ELSE <<>>)
        BY <3>1 DEF ProcessCommandMessage
      <4>2. (IF c.op = "call" THEN <<c.arg>> ELSE <<>>) \in Seq(1..call)
        <5>1. c.op = "call" => <<c.arg>> \in Seq(1..call)
          BY <3>3
        <5> QED BY <1>1, <5>1
      <4> QED BY <4>1, <4>2, ConcatType DEF StateTyped, TrafficTyped
    <3>7. cpc' \in ChildPcs /\ portOpen' \in BOOLEAN /\ openEvent' \in BOOLEAN
      BY <3>1 DEF ProcessCommandMessage, StateTyped, TrafficTyped
    <3> QED BY <1>4, <3>1, <3>2, <3>5, <3>6, <3>7 DEF StateTyped, TrafficTyped
  <2> QED BY <2>1, <2>2
<1>27. CASE ChildWorksOpen
  <2>1. PICK n \in 0..Len(wire), elapsed \in BOOLEAN : TransportRead(n, elapsed)
    BY <1>27 DEF ChildWorksOpen
  <2>2. /\ wire' \in Seq(Bytes) /\ buffer' \in Seq(Chars) /\ published' \in Seq(Seq(Chars))
        /\ decoded' \in Seq(Chars)
        /\ text' = text /\ partial' \in BOOLEAN /\ NoNewline(buffer', 1, Len(buffer'))
    BY <2>1, ReadTyped
  <2>3. pending' \in Seq(Seq(1..sent)) /\ written' \in Seq(1..sent)
    <3>1. TransportWrite
      BY <1>27 DEF ChildWorksOpen
    <3>2. CASE pending = <<>>
      BY <3>1, <3>2 DEF TransportWrite, StateTyped, TrafficTyped
    <3>3. CASE pending # <<>>
      <4>1. Tail(pending) \in Seq(Seq(1..sent)) /\ Head(pending) \in Seq(1..sent)
        BY <3>3, TailType DEF StateTyped, TrafficTyped
      <4> QED BY <3>1, <3>3, <4>1, ConcatType DEF TransportWrite, StateTyped, TrafficTyped
    <3> QED BY <3>2, <3>3
  <2> QED BY <1>27, <2>2, <2>3 DEF ChildWorksOpen, StateTyped, TrafficTyped, BufferOK
<1>28. CASE ChildWorksClosed
  <2>10. openEvent' \in BOOLEAN
    BY <1>28, Zenon DEF ChildWorksClosed
  <2>11. StateTyped'
    BY <1>4, <1>28, <2>10 DEF ChildWorksClosed, StateTyped
  <2>12. TrafficTyped' /\ BufferOK'
    BY <1>4, <1>28 DEF ChildWorksClosed, TrafficTyped
  <2> QED BY <2>11, <2>12
<1>29. CASE PortDrops
  <2>1. left' \in [Ops -> Nat]
    BY <1>0, <1>29, SpendTyped DEF PortDrops
  <2> QED
    <3>10. portOpen' \in BOOLEAN
      BY <1>29, Zenon DEF PortDrops
    <3>11. StateTyped'
      BY <1>4, <1>29, <2>1, <3>10 DEF PortDrops, StateTyped
    <3>12. TrafficTyped' /\ BufferOK'
      BY <1>4, <1>29, <2>1 DEF PortDrops, TrafficTyped
    <3> QED BY <3>11, <3>12
<1>30. ASSUME NEW c \in Characters, DeviceEmits(c) PROVE (StateTyped /\ TrafficTyped /\ BufferOK)'
  <2>1. left' \in [Ops -> Nat]
    BY <1>0, <1>30, SpendTyped DEF DeviceEmits
  <2>2. c \in Seq(Bytes)
    BY CharacterType
  <2>3. text' \in Seq(Bytes) /\ wire' \in Seq(Bytes)
    BY <1>30, <2>2, ConcatType DEF DeviceEmits, TrafficTyped
  <2> QED BY <1>4, <1>30, <2>1, <2>3 DEF DeviceEmits, StateTyped, TrafficTyped
<1>31. \A n \in {1, MaxWriteBytes + 1} : n \in Nat
  BY LoadsAssumption
<1> QED BY <1>5, <1>6, <1>7, <1>8, <1>9, <1>10, <1>11, <1>12, <1>13, <1>14, <1>15, <1>16, <1>17,
           <1>17a, <1>17b, <1>18, <1>19, <1>19a, <1>20, <1>21, <1>22, <1>23, <1>23a, <1>24, <1>25,
           <1>26, <1>27, <1>28, <1>29, <1>30, <1>31 DEF Next, Calls, MainContinues, ChildContinues

\* Every step keeps the types of what is remembered of exceptions and reads.
LEMMA MarksStep == Typed /\ [Next]_vars => MarksTyped'
<1> SUFFICES ASSUME Typed, [Next]_vars PROVE MarksTyped'
  OBVIOUS
<1> USE DEF Typed, vars, reads, history, marks
<1>1. MarksTyped /\ Len(decoded) \in Nat
  BY DEF TrafficTyped
<1>2. CASE UNCHANGED <<torn, marks>>
  BY <1>1, <1>2 DEF MarksTyped
<1>3. CASE StartTransportProcess
  <2>1. torn' \in SUBSET Nat
    BY <1>3 DEF StartTransportProcess
  <2>2. unheard' \in BOOLEAN
    BY <1>3, Zenon DEF StartTransportProcess
  <2> QED BY <1>1, <1>3, <2>1, <2>2 DEF StartTransportProcess, MarksTyped
<1>4. CASE StopKills
  BY <1>1, <1>4 DEF StopKills, MarksTyped
<1>5. CASE XmodemCloses
  BY <1>1, <1>5 DEF XmodemCloses, MarksTyped
<1>6. CASE ProcessExceptions
  <2>1. abandoned' \in Nat
    BY <1>1, <1>6 DEF ProcessExceptions, MarksTyped
  <2>2. gaveUp' \in BOOLEAN /\ leaked' \in BOOLEAN
    BY <1>6, Zenon DEF ProcessExceptions
  <2> QED BY <1>1, <1>6, <2>1, <2>2 DEF ProcessExceptions, MarksTyped
<1>7. CASE ChildFails
  BY <1>1, <1>7 DEF ChildFails, MarksTyped
<1>8. CASE ChildFailsUnheard
  BY <1>1, <1>8 DEF ChildFailsUnheard, MarksTyped
<1>9. CASE ChildTerminates
  <2>1. gaveUp' \in BOOLEAN
    BY <1>9, Zenon DEF ChildTerminates
  <2> QED BY <1>1, <1>9, <2>1 DEF ChildTerminates, MarksTyped
<1>10. CASE ChildWorksOpen
  <2>1. PICK n \in 0..Len(wire), elapsed \in BOOLEAN : TransportRead(n, elapsed)
    BY <1>10 DEF ChildWorksOpen
  <2>2. torn' = IF n > 0 /\ wire[n] = "lead" THEN torn \cup {Len(decoded) + n} ELSE torn
    BY <2>1 DEF TransportRead
  <2>3. torn' \in SUBSET Nat
    <3>1. Len(decoded) + n \in Nat
      BY <1>1
    <3> QED BY <1>1, <2>2, <3>1 DEF MarksTyped
  <2> QED BY <1>1, <1>10, <2>3 DEF ChildWorksOpen, MarksTyped
<1>11. CASE StopTransportProcess
  BY <1>2, <1>11 DEF StopTransportProcess
<1>12. CASE OpenTransport
  BY <1>2, <1>12 DEF OpenTransport
<1>13. CASE \E x \in BOOLEAN : CloseTransport(x)
  BY <1>2, <1>13 DEF CloseTransport
<1>14. CASE Call
  BY <1>2, <1>14 DEF Call
<1>15. CASE \E n \in {1, MaxWriteBytes + 1} : Send(n)
  BY <1>2, <1>15 DEF Send
<1>16. CASE StopReturns
  BY <1>2, <1>16 DEF StopReturns
<1>17. CASE OpenReturns
  BY <1>2, <1>17 DEF OpenReturns
<1>18. CASE CloseReturns
  BY <1>2, <1>18 DEF CloseReturns
<1>19. CASE PollTimesOut
  BY <1>2, <1>19 DEF PollTimesOut
<1>20. CASE XmodemDone \/ XmodemReopens \/ CallReturns
  BY <1>2, <1>20 DEF XmodemDone, XmodemReopens, CallReturns
<1>21. CASE OtherChildFails
  BY <1>2, <1>21 DEF OtherChildFails
<1>22. CASE ChildHook \/ ChildOpens \/ ChildRaises \/ ChildEnds
  BY <1>2, <1>22 DEF ChildHook, ChildOpens, ChildRaises, ChildEnds
<1>23. CASE ChildTakesCommand
  BY <1>2, <1>23 DEF ChildTakesCommand
<1>24. CASE ChildWorksClosed \/ PortDrops
  BY <1>2, <1>24 DEF ChildWorksClosed, PortDrops
<1>25. CASE \E c \in Characters : DeviceEmits(c)
  BY <1>2, <1>25 DEF DeviceEmits
<1>26. CASE UNCHANGED vars
  BY <1>2, <1>26
<1> QED BY <1>3, <1>4, <1>5, <1>6, <1>7, <1>8, <1>9, <1>10, <1>11, <1>12, <1>13, <1>14, <1>15,
           <1>16, <1>17, <1>18, <1>19, <1>20, <1>21, <1>22, <1>23, <1>24, <1>25, <1>26
        DEF Next, Calls, MainContinues, ChildContinues

\* Every step keeps the types, and newlines out of the buffer.
LEMMA TypedStep == Typed /\ BufferOK /\ [Next]_vars => (Typed /\ BufferOK)'
BY StateStep, MarksStep DEF Typed

-----------------------------------------------------------------------------
(* The child, its event and the port.                                      *)

ChildOK ==
  /\ ~started => cpc = "off"
  /\ portOpen => openEvent
  /\ cpc \in {"off", "hook"} => ~portOpen
  /\ ~rough /\ ~dropped => (openEvent => portOpen)
  /\ mpc \in {"idle", "opening", "calling"} => ~xmodem
  /\ ~rough => cpc # "failing" /\ ~gaveUp
  /\ ~gaveUp =>
       /\ cpc = "off" => ~started \/ mpc = "stopping"
       /\ cpc = "ending" => mpc = "stopping"
       /\ terminateEvent => mpc = "stopping" /\ cpc \notin {"off", "ending"}

MainOK ==
  /\ mpc = "xmodem" => xmodem
  /\ mainOpen =>
       \/ leaked
       \/ mpc \in {"xmodem", "finally"} /\ (early \/ (~portOpen /\ ~openEvent /\ ~OpenAhead))

\* Every step keeps what holds of the child, its event and the terminate event.
LEMMA ChildStep == Typed /\ ChildOK /\ [Next]_vars => ChildOK'
<1> SUFFICES ASSUME Typed, ChildOK, [Next]_vars PROVE ChildOK'
  OBVIOUS
<1> USE DEF vars, frozen, control, calls, port, writes, reads, history, marks
<1> USE DEF Opening
<1> USE DEF Typed, StateTyped
<1>10. CASE UNCHANGED vars
  BY <1>10 DEF ChildOK
<1>11. CASE StartTransportProcess
  BY <1>11 DEF StartTransportProcess, ChildOK
<1>12. CASE StopTransportProcess
  BY <1>12 DEF StopTransportProcess, StopEntry, ChildOK
<1>13. CASE OpenTransport
  BY <1>13 DEF OpenTransport, Command, ChildOK
<1>14. ASSUME NEW x \in BOOLEAN, CloseTransport(x) PROVE ChildOK'
  BY <1>14 DEF CloseTransport, Command, ChildOK
<1>15. CASE Call
  BY <1>15 DEF Call, Command, ChildOK
<1>16. ASSUME NEW n \in Nat, Send(n) PROVE ChildOK'
  BY <1>16 DEF Send, Command, ChildOK
<1>17. CASE StopReturns
  BY <1>17 DEF StopReturns, AfterStop, Command, ChildOK
<1>18. CASE StopKills
  BY <1>18 DEF StopKills, AfterStop, Command, ChildOK
<1>19. CASE OpenReturns
  BY <1>19 DEF OpenReturns, ChildOK
<1>20. CASE CloseReturns
  BY <1>20 DEF CloseReturns, OpenAhead, ChildOK
<1>21. CASE PollTimesOut
  BY <1>21 DEF PollTimesOut, StopEntry, AfterStop, Command, ChildOK
<1>22. CASE XmodemDone
  BY <1>22 DEF XmodemDone, Command, ChildOK
<1>23. CASE CallReturns
  BY <1>23 DEF CallReturns, ChildOK
<1>24. CASE ProcessExceptions
  BY <1>24 DEF ProcessExceptions, AfterStop, Command, ChildOK
<1>25. CASE ChildHook
  BY <1>25 DEF ChildHook, ChildOK
<1>26. CASE ChildOpens
  BY <1>26 DEF ChildOpens, ChildOK
<1>27. CASE ChildRaises
  BY <1>27 DEF ChildRaises, ChildOK
<1>28. CASE ChildFails
  BY <1>28 DEF ChildFails, ChildOK
<1>29. CASE ChildEnds
  BY <1>29 DEF ChildEnds, ChildOK
<1>30. CASE ChildTerminates
  BY <1>30 DEF ChildTerminates, ChildOK
<1>31. CASE ChildTakesCommand
  BY <1>31 DEF ChildTakesCommand, ProcessCommandMessage, ChildOK
<1>32. CASE ChildWorksOpen
  BY <1>32 DEF ChildWorksOpen, ChildOK
<1>33. CASE ChildWorksClosed
  BY <1>33 DEF ChildWorksClosed, ChildOK
<1>34. CASE PortDrops
  BY <1>34 DEF PortDrops, ChildOK
<1>35. ASSUME NEW c \in Characters, DeviceEmits(c) PROVE ChildOK'
  BY <1>35 DEF DeviceEmits, ChildOK
<1>36. CASE XmodemCloses
  BY <1>36 DEF XmodemCloses, ChildOK
<1>37. CASE XmodemReopens
  BY <1>37 DEF XmodemReopens, Command, ChildOK
<1>38. CASE OtherChildFails
  BY <1>38 DEF OtherChildFails, ChildOK
<1>39. CASE ChildFailsUnheard
  BY <1>39 DEF ChildFailsUnheard, ChildOK
<1>9. \A n \in {1, MaxWriteBytes + 1} : n \in Nat
  BY LoadsAssumption
<1> QED BY <1>10, <1>11, <1>12, <1>13, <1>14, <1>15, <1>16, <1>17, <1>18, <1>19, <1>20, <1>21,
           <1>22, <1>23, <1>24, <1>25, <1>26, <1>27, <1>28, <1>29, <1>30, <1>31, <1>32, <1>33,
           <1>34, <1>35, <1>36, <1>37, <1>38, <1>39, <1>9
        DEF Next, Calls, MainContinues, ChildContinues

\* A sequence with one more element.
LEMMA AppendIs ==
  ASSUME NEW S, NEW q \in Seq(S), NEW x
  PROVE  /\ Len(Append(q, x)) = Len(q) + 1 /\ DOMAIN Append(q, x) = 1..Len(q) + 1
         /\ DOMAIN q = 1..Len(q) /\ Len(q) \in Nat
         /\ \A i \in 1..Len(q) + 1 : Append(q, x)[i] = IF i <= Len(q) THEN q[i] ELSE x
OBVIOUS

\* A sequence without its first element.
LEMMA TailIs ==
  ASSUME NEW S, NEW q \in Seq(S), q # <<>>
  PROVE  /\ Len(q) \in Nat \ {0} /\ DOMAIN q = 1..Len(q) /\ Head(q) = q[1]
         /\ Len(Tail(q)) = Len(q) - 1 /\ DOMAIN Tail(q) = 1..Len(q) - 1
         /\ \A i \in 1..Len(q) - 1 : Tail(q)[i] = q[i + 1]
OBVIOUS

\* The number of a call whose answer is on its way or in the queue of results is
\* greater than this.
Low == call - abandoned - (IF mpc = "calling" THEN 1 ELSE 0)

\* The answers in the queue and the calls that the child has not taken, in this
\* order, have increasing numbers.
CallsOK ==
  /\ \A i \in DOMAIN results : results[i] > Low
  /\ \A i, j \in DOMAIN results : i < j => results[i] < results[j]
  /\ \A j \in DOMAIN commands : commands[j].op = "call" =>
       /\ commands[j].arg > Low
       /\ \A i \in DOMAIN results : results[i] < commands[j].arg
       /\ \A i \in DOMAIN commands : i < j /\ commands[i].op = "call" =>
            commands[i].arg < commands[j].arg

\* Every step keeps the port of a transfer to its owner.
LEMMA MainStep == Typed /\ ChildOK /\ MainOK /\ [Next]_vars => MainOK'
<1> SUFFICES ASSUME Typed, ChildOK, MainOK, [Next]_vars PROVE MainOK'
  OBVIOUS
<1> USE DEF vars, frozen, control, calls, port, writes, reads, history, marks
<1> USE DEF Opening, ChildOK
<1> USE DEF Typed, StateTyped
<1>10. CASE UNCHANGED vars
  BY <1>10 DEF MainOK, OpenAhead
<1>11. CASE StartTransportProcess
  BY <1>11 DEF StartTransportProcess, MainOK, OpenAhead
<1>12. CASE StopTransportProcess
  BY <1>12 DEF StopTransportProcess, StopEntry, MainOK, OpenAhead
<1>13. CASE OpenTransport
  BY <1>13 DEF OpenTransport, Command, MainOK, OpenAhead
<1>14. ASSUME NEW x \in BOOLEAN, CloseTransport(x) PROVE MainOK'
  BY <1>14 DEF CloseTransport, Command, MainOK, OpenAhead
<1>15. CASE Call
  BY <1>15 DEF Call, Command, MainOK, OpenAhead
<1>16. ASSUME NEW n \in Nat, Send(n) PROVE MainOK'
  BY <1>16 DEF Send, Command, MainOK, OpenAhead
<1>17. CASE StopReturns
  BY <1>17 DEF StopReturns, AfterStop, Command, MainOK, OpenAhead
<1>18. CASE StopKills
  BY <1>18 DEF StopKills, AfterStop, Command, MainOK, OpenAhead
<1>19. CASE OpenReturns
  BY <1>19 DEF OpenReturns, MainOK, OpenAhead
<1>20. CASE CloseReturns
  BY <1>20 DEF CloseReturns, MainOK, OpenAhead
<1>21. CASE PollTimesOut
  BY <1>21 DEF PollTimesOut, StopEntry, AfterStop, Command, MainOK, OpenAhead
<1>22. CASE XmodemDone
  BY <1>22 DEF XmodemDone, Command, MainOK, OpenAhead
<1>23. CASE CallReturns
  BY <1>23 DEF CallReturns, MainOK, OpenAhead
<1>24. CASE ProcessExceptions
  BY <1>24 DEF ProcessExceptions, AfterStop, Command, MainOK, OpenAhead
<1>25. CASE ChildHook
  BY <1>25 DEF ChildHook, MainOK, OpenAhead
<1>26. CASE ChildOpens
  BY <1>26 DEF ChildOpens, MainOK, OpenAhead
<1>27. CASE ChildRaises
  BY <1>27 DEF ChildRaises, MainOK, OpenAhead
<1>28. CASE ChildFails
  BY <1>28 DEF ChildFails, MainOK, OpenAhead
<1>29. CASE ChildEnds
  BY <1>29 DEF ChildEnds, MainOK, OpenAhead
<1>30. CASE ChildTerminates
  BY <1>30 DEF ChildTerminates, MainOK, OpenAhead
<1>31. CASE ChildTakesCommand
  <2>1. CASE commands = <<>>
    BY <1>31, <2>1 DEF ChildTakesCommand, ProcessCommandMessage, MainOK, OpenAhead
  <2>2. CASE commands # <<>>
    <3>1. commands \in Seq(CommandSet(call, sent))
      BY DEF TrafficTyped
    <3>2. /\ DOMAIN commands = 1..Len(commands) /\ Head(commands) = commands[1]
          /\ DOMAIN Tail(commands) = 1..Len(commands) - 1 /\ Len(commands) \in Nat \ {0}
          /\ \A i \in 1..Len(commands) - 1 : Tail(commands)[i] = commands[i + 1]
      BY <2>2, <3>1, TailIs
    <3>3. \A i \in 1..Len(commands) - 1 : i + 1 \in 1..Len(commands)
      BY <3>2
    <3>4. 1 \in 1..Len(commands)
      BY <3>2
    <3> QED BY <1>31, <2>2, <3>2, <3>3, <3>4
               DEF ChildTakesCommand, ProcessCommandMessage, MainOK, OpenAhead
  <2> QED BY <2>1, <2>2
<1>32. CASE ChildWorksOpen
  BY <1>32 DEF ChildWorksOpen, MainOK, OpenAhead
<1>33. CASE ChildWorksClosed
  BY <1>33 DEF ChildWorksClosed, MainOK, OpenAhead
<1>34. CASE PortDrops
  BY <1>34 DEF PortDrops, MainOK, OpenAhead
<1>35. ASSUME NEW c \in Characters, DeviceEmits(c) PROVE MainOK'
  BY <1>35 DEF DeviceEmits, MainOK, OpenAhead
<1>36. CASE XmodemCloses
  BY <1>36 DEF XmodemCloses, MainOK, OpenAhead
<1>37. CASE XmodemReopens
  BY <1>37 DEF XmodemReopens, Command, MainOK, OpenAhead
<1>38. CASE OtherChildFails
  BY <1>38 DEF OtherChildFails, MainOK, OpenAhead
<1>39. CASE ChildFailsUnheard
  BY <1>39 DEF ChildFailsUnheard, MainOK, OpenAhead
<1>9. \A n \in {1, MaxWriteBytes + 1} : n \in Nat
  BY LoadsAssumption
<1> QED BY <1>10, <1>11, <1>12, <1>13, <1>14, <1>15, <1>16, <1>17, <1>18, <1>19, <1>20, <1>21,
           <1>22, <1>23, <1>24, <1>25, <1>26, <1>27, <1>28, <1>29, <1>30, <1>31, <1>32, <1>33,
           <1>34, <1>35, <1>36, <1>37, <1>38, <1>39, <1>9
        DEF Next, Calls, MainContinues, ChildContinues

-----------------------------------------------------------------------------
(* Calls.                                                                  *)

\* The command queue with one more command.
LEMMA CommandIs ==
  ASSUME Typed, NEW o, NEW a, Command(o, a)
  PROVE  /\ DOMAIN commands = 1..Len(commands) /\ Len(commands) \in Nat
         /\ DOMAIN commands' = 1..Len(commands) + 1
         /\ \A i \in 1..Len(commands) : commands'[i] = commands[i]
         /\ commands'[Len(commands) + 1] = [op |-> o, arg |-> a]
<1>1. /\ commands \in Seq(CommandSet(call, sent))
      /\ commands' = Append(commands, [op |-> o, arg |-> a])
  BY DEF Typed, TrafficTyped, Command
<1> QED BY <1>1, AppendIs

\* The command queue without the command that the child took.
LEMMA TakenIs ==
  ASSUME Typed, commands # <<>>, commands' = Tail(commands)
  PROVE  /\ DOMAIN commands = 1..Len(commands) /\ Len(commands) \in Nat \ {0}
         /\ Head(commands) = commands[1] /\ DOMAIN commands' = 1..Len(commands) - 1
         /\ \A i \in 1..Len(commands) - 1 : commands'[i] = commands[i + 1]
         /\ Head(commands) \in CommandSet(call, sent)
<1>1. commands \in Seq(CommandSet(call, sent))
  BY DEF Typed, TrafficTyped
<1> QED BY <1>1, TailIs, TailType

\* r is q with x after it.
OneMore(q, x, r) ==
  /\ DOMAIN r = 1..Len(q) + 1 /\ r[Len(q) + 1] = x
  /\ \A i \in 1..Len(q) : r[i] = q[i]

\* A sequence with a sequence of one element after it.
LEMMA ConcatOne ==
  ASSUME NEW S, NEW q \in Seq(S), NEW x \in S
  PROVE  OneMore(q, x, q \o <<x>>)
<1>1. <<x>> \in Seq(S) /\ Len(<<x>>) = 1 /\ <<x>>[1] = x
  OBVIOUS
<1> DEFINE o == <<x>>
<1> HIDE DEF o
<1>2. o \in Seq(S) /\ Len(o) = 1 /\ o[1] = x
  BY <1>1 DEF o
<1>3. /\ q \o o \in Seq(S) /\ Len(q \o o) = Len(q) + 1
      /\ \A i \in 1..Len(q) : (q \o o)[i] = q[i]
      /\ \A i \in 1..Len(o) : (q \o o)[Len(q) + i] = o[i]
  BY <1>2, ConcatProperties
<1>4. DOMAIN (q \o o) = 1..Len(q) + 1 /\ (q \o o)[Len(q) + 1] = x
  BY <1>2, <1>3
<1>5. OneMore(q, x, q \o o)
  BY <1>3, <1>4 DEF OneMore
<1> QED BY <1>5 DEF o

\* A step that keeps commands and answers, or appends another command.
LEMMA CallsKept ==
  ASSUME CallsOK, Low' <= Low, Typed, Low \in Int, Low' \in Int,
         results' = results, commands' = commands
  PROVE  CallsOK'
<1>1. /\ \A i \in DOMAIN results : results[i] \in Nat
      /\ \A j \in DOMAIN commands : commands[j].op = "call" => commands[j].arg \in Nat
  <2>1. results \in Seq(1..call) /\ commands \in Seq(CommandSet(call, sent)) /\ call \in Nat
    BY DEF Typed, TrafficTyped
  <2>2. \A j \in DOMAIN commands : commands[j] \in CommandSet(call, sent)
    BY <2>1
  <2>3. ASSUME NEW j \in DOMAIN commands, commands[j].op = "call" PROVE commands[j].arg \in 1..call
    <3> DEFINE c == commands[j]
    <3>1. c \in CommandSet(call, sent) /\ c.op = "call"
      BY <2>2, <2>3
    <3> HIDE DEF c
    <3>2. c.arg \in 1..call
      BY <3>1, CommandCases
    <3> QED BY <3>2 DEF c
  <2> QED BY <2>1, <2>3
<1> QED BY <1>1 DEF CallsOK

\* The numbers are natural, and none is greater than that of the last call.
LEMMA CallNumbers ==
  ASSUME Typed
  PROVE  /\ DOMAIN results = 1..Len(results) /\ Len(results) \in Nat
         /\ DOMAIN commands = 1..Len(commands) /\ Len(commands) \in Nat
         /\ \A i \in DOMAIN results : results[i] \in 1..call
         /\ \A j \in DOMAIN commands : commands[j].op = "call" => commands[j].arg \in 1..call
<1>1. results \in Seq(1..call) /\ commands \in Seq(CommandSet(call, sent)) /\ call \in Nat
  BY DEF Typed, TrafficTyped
<1>2. \A j \in DOMAIN commands : commands[j] \in CommandSet(call, sent)
  BY <1>1
<1>3. ASSUME NEW j \in DOMAIN commands, commands[j].op = "call" PROVE commands[j].arg \in 1..call
  <2> DEFINE c == commands[j]
  <2>1. c \in CommandSet(call, sent) /\ c.op = "call"
    BY <1>2, <1>3
  <2> HIDE DEF c
  <2>2. c.arg \in 1..call
    BY <2>1, CommandCases
  <2> QED BY <2>2 DEF c
<1> QED BY <1>1, <1>3

\* Every step keeps the numbers of the answers in order.
LEMMA CallsStep == Typed /\ Typed' /\ CallsOK /\ [Next]_vars => CallsOK'
<1> SUFFICES ASSUME Typed, Typed', CallsOK, [Next]_vars PROVE CallsOK'
  OBVIOUS
<1> USE DEF vars, frozen, control, calls, port, writes, reads, history, marks
<1>0. call \in Nat /\ abandoned \in Nat /\ call' \in Nat /\ abandoned' \in Nat
  <2>1. call \in Nat /\ call' \in Nat
    BY DEF Typed, TrafficTyped
  <2>2. abandoned \in Nat /\ abandoned' \in Nat
    BY DEF Typed, MarksTyped
  <2> QED BY <2>1, <2>2
<1>1. /\ Low \in Int /\ Low' \in Int /\ call \in Nat /\ abandoned \in Nat
      /\ Low <= call /\ (mpc # "calling" => Low = call - abandoned)
      /\ (mpc = "calling" => Low = call - abandoned - 1)
  BY <1>0 DEF Low
<1>2. UNCHANGED <<commands, results>> /\ Low' <= Low => CallsOK'
  <2>1. SUFFICES ASSUME results' = results, commands' = commands, Low' <= Low PROVE CallsOK'
    OBVIOUS
  <2> QED BY <1>1, <2>1, CallsKept
<1>3. UNCHANGED <<commands, calls, abandoned>> /\ (mpc' = "calling" <=> mpc = "calling") => CallsOK'
  <2>1. UNCHANGED <<call, abandoned>> /\ (mpc' = "calling" <=> mpc = "calling") => Low' = Low
    BY DEF Low
  <2> QED BY <1>1, <1>2, <2>1
<1>4. ASSUME NEW o, NEW a, Command(o, a), o # "call", UNCHANGED <<calls, abandoned>>,
             mpc' = "calling" <=> mpc = "calling"
      PROVE  CallsOK'
  <2>1. /\ DOMAIN commands = 1..Len(commands) /\ Len(commands) \in Nat
        /\ DOMAIN commands' = 1..Len(commands) + 1
        /\ \A i \in 1..Len(commands) : commands'[i] = commands[i]
        /\ commands'[Len(commands) + 1] = [op |-> o, arg |-> a]
    BY <1>4, CommandIs
  <2>2. Low' = Low /\ results' = results
    BY <1>4 DEF Low
  <2>3. \A j \in DOMAIN commands' : commands'[j].op = "call" =>
          j \in DOMAIN commands /\ commands'[j] = commands[j]
    BY <1>4, <2>1
  <2> QED BY <2>2, <2>3 DEF CallsOK
<1>5. CASE UNCHANGED vars
  BY <1>3, <1>5
<1>10. CASE StartTransportProcess
  BY <1>3, <1>10 DEF StartTransportProcess
<1>11. CASE StopTransportProcess
  BY <1>3, <1>11 DEF StopTransportProcess, StopEntry
<1>12. CASE StopReturns
  BY <1>3, <1>12 DEF StopReturns, AfterStop
<1>13. CASE OpenReturns
  BY <1>3, <1>13 DEF OpenReturns
<1>14. CASE CloseReturns
  BY <1>3, <1>14 DEF CloseReturns
<1>15. CASE PollTimesOut
  BY <1>3, <1>15 DEF PollTimesOut, StopEntry, AfterStop
<1>16. CASE XmodemDone
  BY <1>3, <1>16 DEF XmodemDone
<1>17. CASE XmodemCloses
  BY <1>3, <1>17 DEF XmodemCloses
<1>18. CASE OtherChildFails
  BY <1>3, <1>18 DEF OtherChildFails
<1>19. CASE ChildHook
  BY <1>3, <1>19 DEF ChildHook
<1>20. CASE ChildOpens
  BY <1>3, <1>20 DEF ChildOpens
<1>21. CASE ChildRaises
  BY <1>3, <1>21 DEF ChildRaises
<1>22. CASE ChildFails
  BY <1>3, <1>22 DEF ChildFails
<1>23. CASE ChildFailsUnheard
  BY <1>3, <1>23 DEF ChildFailsUnheard
<1>24. CASE ChildEnds
  BY <1>3, <1>24 DEF ChildEnds
<1>25. CASE ChildTerminates
  BY <1>3, <1>25 DEF ChildTerminates
<1>26. CASE ChildWorksOpen
  BY <1>3, <1>26 DEF ChildWorksOpen
<1>27. CASE ChildWorksClosed
  BY <1>3, <1>27 DEF ChildWorksClosed
<1>28. CASE PortDrops
  BY <1>3, <1>28 DEF PortDrops
<1>29. CASE \E c \in Characters : DeviceEmits(c)
  BY <1>3, <1>29 DEF DeviceEmits
<1>30. CASE OpenTransport
  BY <1>4, <1>30 DEF OpenTransport
<1>31. CASE \E x \in BOOLEAN : CloseTransport(x)
  BY <1>4, <1>31 DEF CloseTransport
<1>32. CASE XmodemReopens
  BY <1>4, <1>32 DEF XmodemReopens
<1>33. CASE \E n \in {1, MaxWriteBytes + 1} : Send(n)
  BY <1>4, <1>33 DEF Send
<1>34. CASE ProcessExceptions
  <2>1. Low' <= Low
    <3>1. CASE mpc = "calling"
      <4>1. abandoned' = abandoned + 1 /\ call' = call /\ mpc' # "calling"
        BY <1>34, <3>1 DEF ProcessExceptions
      <4> QED BY <1>1, <3>1, <4>1 DEF Low
    <3>2. CASE mpc # "calling"
      <4>1. abandoned' = abandoned + 0 /\ call' = call /\ mpc' # "calling"
        BY <1>34, <3>2 DEF ProcessExceptions
      <4> QED BY <1>1, <3>2, <4>1 DEF Low
    <3> QED BY <3>1, <3>2
  <2> QED BY <1>2, <1>34, <2>1 DEF ProcessExceptions
<1>35. CASE Call
  <2>1. /\ Command("call", call + 1) /\ call' = call + 1 /\ results' = results
        /\ abandoned' = abandoned /\ mpc = "idle" /\ mpc' = "calling"
    BY <1>35 DEF Call
  <2>2. /\ DOMAIN commands = 1..Len(commands) /\ Len(commands) \in Nat
        /\ DOMAIN commands' = 1..Len(commands) + 1
        /\ \A i \in 1..Len(commands) : commands'[i] = commands[i]
        /\ commands'[Len(commands) + 1] = [op |-> "call", arg |-> call + 1]
    BY <2>1, CommandIs
  <2>3. Low' = Low
    BY <1>1, <2>1 DEF Low
  <2>4. /\ \A i \in DOMAIN results : results[i] \in 1..call
        /\ \A j \in DOMAIN commands : commands[j].op = "call" => commands[j].arg \in 1..call
    BY CallNumbers
  <2>5. ASSUME NEW j \in DOMAIN commands', commands'[j].op = "call"
        PROVE  /\ commands'[j].arg > Low
               /\ \A i \in DOMAIN results : results[i] < commands'[j].arg
               /\ \A i \in DOMAIN commands' : i < j /\ commands'[i].op = "call" =>
                    commands'[i].arg < commands'[j].arg
    <3>1. CASE j = Len(commands) + 1
      <4>1. commands'[j].arg = call + 1
        BY <2>2, <3>1
      <4>2. \A i \in DOMAIN commands' : i < j => i \in DOMAIN commands /\ commands'[i] = commands[i]
        BY <2>2, <3>1
      <4> QED BY <1>1, <2>4, <4>1, <4>2
    <3>2. CASE j # Len(commands) + 1
      <4>1. j \in DOMAIN commands /\ commands'[j] = commands[j]
        BY <2>2, <2>5, <3>2
      <4>2. \A i \in DOMAIN commands' : i < j => i \in DOMAIN commands /\ commands'[i] = commands[i]
        BY <2>2, <4>1
      <4> QED BY <2>5, <4>1, <4>2 DEF CallsOK
    <3> QED BY <3>1, <3>2
  <2> QED BY <2>1, <2>3, <2>5 DEF CallsOK
<1>36. CASE StopKills
  <2>1. CASE results' = results
    <3>1. Low' = Low
      BY <1>36 DEF StopKills, AfterStop, Low
    <3> QED BY <1>1, <1>2, <1>36, <2>1, <3>1 DEF StopKills
  <2>2. CASE results # <<>> /\ results' = Front(results)
    <3>1. Low' = Low /\ commands' = commands
      BY <1>36 DEF StopKills, AfterStop, Low
    <3>2. \A i \in DOMAIN results' : i \in DOMAIN results /\ results'[i] = results[i]
      <4>1. results \in Seq(1..call)
        BY DEF Typed, TrafficTyped
      <4>2. /\ Front(results) \in Seq(1..call) /\ Len(Front(results)) = Len(results) - 1
            /\ \A i \in 1..Len(results) - 1 : Front(results)[i] = results[i]
        BY <2>2, <4>1, FrontType
      <4> QED BY <2>2, <4>1, <4>2
    <3> QED BY <3>1, <3>2 DEF CallsOK
  <2> QED BY <1>36, <2>1, <2>2 DEF StopKills
<1>37. CASE CallReturns
  <2>1. /\ results # <<>> /\ results' = Tail(results) /\ mpc = "calling" /\ mpc' = "idle"
        /\ commands' = commands /\ call' = call /\ abandoned' = abandoned
    BY <1>37 DEF CallReturns
  <2>2. results \in Seq(1..call) /\ Low' = Low + 1
    BY <1>1, <2>1 DEF Typed, TrafficTyped, Low
  <2>3. /\ 1 \in DOMAIN results /\ DOMAIN results = 1..Len(results) /\ Len(results) \in Nat
        /\ \A i \in DOMAIN results' : i \in Nat /\ i + 1 \in DOMAIN results /\ results'[i] = results[i + 1]
                                      /\ 1 < i + 1
    BY <2>1, <2>2, TailIs
  <2>4. /\ results[1] > Low
        /\ \A i \in DOMAIN results : results[i] \in Nat /\ (1 < i => results[1] < results[i])
        /\ \A j \in DOMAIN commands : commands[j].op = "call" =>
             commands[j].arg \in Nat /\ results[1] < commands[j].arg
    BY <2>3, CallNumbers DEF CallsOK
  <2>5. /\ \A i \in DOMAIN results : 1 < i => results[i] > Low + 1
        /\ \A j \in DOMAIN commands : commands[j].op = "call" => commands[j].arg > Low + 1
    BY <1>1, <2>3, <2>4
  <2>6. \A i, j \in DOMAIN results' : i < j => i + 1 < j + 1
    BY <2>3
  <2>7. /\ \A i \in DOMAIN results' : results'[i] > Low'
        /\ \A i, j \in DOMAIN results' : i < j => results'[i] < results'[j]
    BY <2>2, <2>3, <2>5, <2>6 DEF CallsOK
  <2> QED BY <2>1, <2>2, <2>3, <2>5, <2>7 DEF CallsOK
<1>38. CASE ChildTakesCommand
  <2>1. mpc' = mpc /\ call' = call /\ abandoned' = abandoned
    BY <1>38 DEF ChildTakesCommand
  <2>2. Low' = Low
    BY <2>1 DEF Low
  <2>3. CASE commands = <<>>
    BY <1>3, <1>38, <2>1, <2>3 DEF ChildTakesCommand
  <2>4. CASE commands # <<>>
    <3> DEFINE c == commands[1]
    <3>1. /\ ProcessCommandMessage(Head(commands)) /\ commands' = Tail(commands)
      BY <1>38, <2>4 DEF ChildTakesCommand
    <3>2. /\ DOMAIN commands = 1..Len(commands) /\ Len(commands) \in Nat \ {0}
          /\ Head(commands) = c /\ DOMAIN commands' = 1..Len(commands) - 1
          /\ \A i \in 1..Len(commands) - 1 : commands'[i] = commands[i + 1]
      BY <2>4, <3>1, TakenIs
    <3>3. /\ 1 \in DOMAIN commands
          /\ \A j \in DOMAIN commands' : /\ j \in Nat /\ j + 1 \in DOMAIN commands /\ 1 < j + 1
                                         /\ commands'[j] = commands[j + 1]
      BY <3>2
    <3>4. \A i, j \in DOMAIN commands' : i < j => i + 1 < j + 1
      BY <3>3
    <3>5. results' = results \o (IF c.op = "call" THEN <<c.arg>> ELSE <<>>)
      BY <3>1, <3>2 DEF ProcessCommandMessage
    <3>6. results \in Seq(1..call) /\ DOMAIN results = 1..Len(results) /\ Len(results) \in Nat
      BY DEF Typed, TrafficTyped
    <3> HIDE DEF c
    <3>7. \A i, j \in DOMAIN commands' : i < j /\ commands'[i].op = "call" /\ commands'[j].op = "call"
            => commands'[i].arg < commands'[j].arg
      BY <3>3, <3>4 DEF CallsOK
    <3>8. CASE c.op # "call"
      <4>1. results' = results
        BY <3>5, <3>6, <3>8
      <4> QED BY <2>2, <3>3, <3>7, <4>1 DEF CallsOK
    <3>9. CASE c.op = "call"
      <4>1. c.arg > Low /\ \A i \in DOMAIN results : results[i] < c.arg
        BY <3>3, <3>9 DEF CallsOK, c
      <4>2. \A j \in DOMAIN commands' : commands'[j].op = "call" => c.arg < commands'[j].arg
        BY <3>3, <3>9 DEF CallsOK, c
      <4>3. /\ DOMAIN results' = 1..Len(results) + 1 /\ results'[Len(results) + 1] = c.arg
            /\ \A i \in 1..Len(results) : results'[i] = results[i]
        <5>1. c.arg \in 1..call
          BY <3>3, <3>9, CallNumbers DEF c
        <5> DEFINE x == c.arg
        <5>2. results' = results \o <<x>> /\ x \in 1..call
          BY <3>5, <3>9, <5>1
        <5> HIDE DEF x
        <5>3. OneMore(results, x, results \o <<x>>)
          BY <3>6, <5>2, ConcatOne
        <5>4. OneMore(results, x, results')
          BY <5>2, <5>3, Zenon
        <5> QED BY <5>4 DEF x, OneMore
      <4>4. \A i \in DOMAIN results' : results'[i] > Low'
        BY <2>2, <3>6, <4>1, <4>3 DEF CallsOK
      <4>5. \A i, j \in DOMAIN results' : i < j => results'[i] < results'[j]
        <5>1. ASSUME NEW i \in DOMAIN results', NEW j \in DOMAIN results', i < j
              PROVE  results'[i] < results'[j]
          <6>1. i \in DOMAIN results /\ results'[i] = results[i]
            BY <3>6, <4>3, <5>1
          <6>2. CASE j = Len(results) + 1
            BY <4>1, <4>3, <6>1, <6>2
          <6>3. CASE j # Len(results) + 1
            <7>1. j \in DOMAIN results /\ results'[j] = results[j]
              BY <3>6, <4>3, <6>3
            <7> QED BY <5>1, <6>1, <7>1 DEF CallsOK
          <6> QED BY <6>2, <6>3
        <5> QED BY <5>1
      <4>6. \A j \in DOMAIN commands' : commands'[j].op = "call" =>
              /\ commands'[j].arg > Low'
              /\ \A i \in DOMAIN results' : results'[i] < commands'[j].arg
        <5>1. ASSUME NEW j \in DOMAIN commands', commands'[j].op = "call", NEW i \in DOMAIN results'
              PROVE  results'[i] < commands'[j].arg
          <6>1. CASE i = Len(results) + 1
            BY <4>2, <4>3, <5>1, <6>1
          <6>2. CASE i # Len(results) + 1
            <7>1. i \in DOMAIN results /\ results'[i] = results[i]
              BY <3>6, <4>3, <6>2
            <7> QED BY <3>3, <5>1, <7>1 DEF CallsOK
          <6> QED BY <6>1, <6>2
        <5>2. \A j \in DOMAIN commands' : commands'[j].op = "call" => commands'[j].arg > Low'
          BY <2>2, <3>3 DEF CallsOK
        <5> QED BY <5>1, <5>2
      <4> QED BY <3>7, <4>4, <4>5, <4>6 DEF CallsOK
    <3> QED BY <3>8, <3>9
  <2> QED BY <2>3, <2>4
<1> QED BY <1>5, <1>10, <1>11, <1>12, <1>13, <1>14, <1>15, <1>16, <1>17, <1>18, <1>19, <1>20,
           <1>21, <1>22, <1>23, <1>24, <1>25, <1>26, <1>27, <1>28, <1>29, <1>30, <1>31, <1>32,
           <1>33, <1>34, <1>35, <1>36, <1>37, <1>38
        DEF Next, Calls, MainContinues, ChildContinues

\* What a call() is given answers it, or a call before it by no more than the
\* abandoned ones.
LEMMA CallsAnswerThemselves ==
  Typed /\ CallsOK /\ CallReturns => Head(results) \in (call - abandoned)..call
<1> SUFFICES ASSUME Typed, CallsOK, CallReturns PROVE Head(results) \in (call - abandoned)..call
  OBVIOUS
<1>1. results \in Seq(1..call) /\ call \in Nat /\ abandoned \in Nat
  BY DEF Typed, TrafficTyped, MarksTyped
<1>2. results # <<>> /\ mpc = "calling"
  BY DEF CallReturns
<1>3. Head(results) = results[1] /\ 1 \in DOMAIN results
  BY <1>1, <1>2, TailIs
<1>4. results[1] > Low /\ results[1] \in 1..call
  BY <1>1, <1>3 DEF CallsOK
<1>5. Low = call - abandoned - 1
  BY <1>2 DEF Low
<1> QED BY <1>1, <1>3, <1>4, <1>5

-----------------------------------------------------------------------------
(* Orders: the commands that open and close the port.                      *)

\* The last command of a queue that opens or closes the port.
OrdersIn(q) == {i \in DOMAIN q : q[i].op \in {"open", "close"}}
LastOrder(q) == IF OrdersIn(q) = {} THEN "none" ELSE q[Max(OrdersIn(q))].op

\* The last order is that after which there is none.
LEMMA LastOrderIs ==
  ASSUME NEW S, NEW q \in Seq(S)
  PROVE  /\ LastOrder(q) \in {"none", "open", "close"}
         /\ LastOrder(q) = "none" <=> \A i \in 1..Len(q) : q[i].op \notin {"open", "close"}
         /\ \A m \in 1..Len(q) :
              /\ q[m].op \in {"open", "close"}
              /\ \A i \in 1..Len(q) : i > m => q[i].op \notin {"open", "close"}
              => LastOrder(q) = q[m].op
<1>1. DOMAIN q = 1..Len(q) /\ Len(q) \in Nat
  OBVIOUS
<1>2. CASE OrdersIn(q) = {}
  BY <1>1, <1>2 DEF OrdersIn, LastOrder
<1>3. CASE OrdersIn(q) # {}
  <2> DEFINE T == OrdersIn(q)
             x == Max(T)
  <2>1. T \in SUBSET (0..Len(q)) /\ T # {}
    BY <1>1, <1>3 DEF OrdersIn
  <2> HIDE DEF T
  <2>2. x \in T /\ \A y \in T : y <= x
    BY <1>1, <2>1, MaxOfBounded
  <2>3. LastOrder(q) = q[x].op
    BY <1>3 DEF LastOrder, T
  <2> HIDE DEF x
  <2>4. x \in 1..Len(q) /\ q[x].op \in {"open", "close"}
    BY <1>1, <2>2 DEF T, OrdersIn
  <2>5. ASSUME NEW m \in 1..Len(q), q[m].op \in {"open", "close"},
               \A i \in 1..Len(q) : i > m => q[i].op \notin {"open", "close"}
        PROVE  LastOrder(q) = q[m].op
    <3>1. m \in T
      BY <1>1, <2>5 DEF T, OrdersIn
    <3>2. m <= x /\ ~(x > m)
      BY <2>2, <2>4, <2>5, <3>1
    <3>3. x = m
      BY <1>1, <2>4, <3>2
    <3> QED BY <2>3, <3>3
  <2> QED BY <2>3, <2>4, <2>5
<1> QED BY <1>2, <1>3

\* An order at the end of the queue is the last one.
LEMMA OrderAppended ==
  ASSUME NEW S, NEW q \in Seq(S), NEW x \in S
  PROVE  LastOrder(Append(q, x)) = IF x.op \in {"open", "close"} THEN x.op ELSE LastOrder(q)
<1> DEFINE r == Append(q, x)
           N == Len(q)
<1>1. /\ r \in Seq(S) /\ Len(r) = N + 1 /\ N \in Nat
      /\ \A i \in 1..N + 1 : r[i] = IF i <= N THEN q[i] ELSE x
  BY AppendIs, AppendType
<1> HIDE DEF r
<1>2. /\ LastOrder(r) = "none" <=> \A i \in 1..N + 1 : r[i].op \notin {"open", "close"}
      /\ \A m \in 1..N + 1 :
           /\ r[m].op \in {"open", "close"}
           /\ \A i \in 1..N + 1 : i > m => r[i].op \notin {"open", "close"}
           => LastOrder(r) = r[m].op
  BY <1>1, LastOrderIs
<1>3. /\ LastOrder(q) = "none" <=> \A i \in 1..N : q[i].op \notin {"open", "close"}
      /\ \A m \in 1..N :
           /\ q[m].op \in {"open", "close"}
           /\ \A i \in 1..N : i > m => q[i].op \notin {"open", "close"}
           => LastOrder(q) = q[m].op
  BY LastOrderIs
<1> HIDE DEF N
<1>4. CASE x.op \in {"open", "close"}
  <2>1. N + 1 \in 1..N + 1 /\ r[N + 1] = x /\ \A i \in 1..N + 1 : ~(i > N + 1)
    BY <1>1
  <2> QED BY <1>2, <1>4, <2>1 DEF r
<1>5. CASE x.op \notin {"open", "close"}
  <2>1. CASE \A i \in 1..N : q[i].op \notin {"open", "close"}
    <3>1. \A i \in 1..N + 1 : r[i].op \notin {"open", "close"}
      BY <1>1, <1>5, <2>1
    <3>2. LastOrder(r) = "none" /\ LastOrder(q) = "none"
      BY <1>2, <1>3, <2>1, <3>1
    <3> QED BY <1>5, <3>2 DEF r
  <2>2. CASE \E i \in 1..N : q[i].op \in {"open", "close"}
    <3> DEFINE T == {i \in 1..N : q[i].op \in {"open", "close"}}
    <3>1. T # {} /\ T \in SUBSET (0..N)
      BY <1>1, <2>2
    <3>2. PICK m \in T : \A y \in T : y <= m
      <4> HIDE DEF T
      <4> QED BY <1>1, <3>1, MaxOfBounded
    <3>3. m \in 1..N /\ q[m].op \in {"open", "close"}
      OBVIOUS
    <3>4. \A i \in 1..N : i > m => q[i].op \notin {"open", "close"}
      BY <3>2, <3>3
    <3>5. LastOrder(q) = q[m].op
      BY <1>3, <3>3, <3>4
    <3>6. m \in 1..N + 1 /\ r[m] = q[m]
      BY <1>1, <3>3
    <3>7. \A i \in 1..N + 1 : i > m => r[i].op \notin {"open", "close"}
      BY <1>1, <1>5, <3>4
    <3>8. LastOrder(r) = r[m].op
      <4> HIDE DEF T
      <4> QED BY <1>2, <3>3, <3>6, <3>7
    <3> QED BY <1>5, <3>5, <3>6, <3>8 DEF r
  <2> QED BY <2>1, <2>2
<1> QED BY <1>4, <1>5

\* Taking a command leaves the last order, unless it was that.
LEMMA OrderTaken ==
  ASSUME NEW S, NEW q \in Seq(S), q # <<>>
  PROVE  LastOrder(q) = IF LastOrder(Tail(q)) # "none" THEN LastOrder(Tail(q))
                        ELSE IF Head(q).op \in {"open", "close"} THEN Head(q).op ELSE "none"
<1> DEFINE r == Tail(q)
           N == Len(q)
<1>1. /\ r \in Seq(S) /\ Len(r) = N - 1 /\ N \in Nat \ {0} /\ Head(q) = q[1]
      /\ \A i \in 1..N - 1 : r[i] = q[i + 1]
  BY TailIs, TailType
<1> HIDE DEF r
<1>2. /\ LastOrder(r) = "none" <=> \A i \in 1..N - 1 : r[i].op \notin {"open", "close"}
      /\ \A m \in 1..N - 1 :
           /\ r[m].op \in {"open", "close"}
           /\ \A i \in 1..N - 1 : i > m => r[i].op \notin {"open", "close"}
           => LastOrder(r) = r[m].op
  BY <1>1, LastOrderIs
<1>3. /\ LastOrder(q) = "none" <=> \A i \in 1..N : q[i].op \notin {"open", "close"}
      /\ \A m \in 1..N :
           /\ q[m].op \in {"open", "close"}
           /\ \A i \in 1..N : i > m => q[i].op \notin {"open", "close"}
           => LastOrder(q) = q[m].op
  BY LastOrderIs
<1> HIDE DEF N
<1>4. \A i \in 1..N : i # 1 => i - 1 \in 1..N - 1 /\ q[i] = r[i - 1]
  BY <1>1
<1>5. CASE \A i \in 1..N - 1 : r[i].op \notin {"open", "close"}
  <2>1. \A i \in 1..N : i # 1 => q[i].op \notin {"open", "close"}
    BY <1>4, <1>5
  <2>2. 1 \in 1..N /\ \A i \in 1..N : i > 1 => i # 1
    BY <1>1
  <2>3. LastOrder(r) = "none"
    BY <1>2, <1>5
  <2>4. CASE q[1].op \in {"open", "close"}
    <3>1. LastOrder(q) = q[1].op
      BY <1>3, <2>1, <2>2, <2>4
    <3> QED BY <1>1, <2>3, <2>4, <3>1 DEF r
  <2>5. CASE q[1].op \notin {"open", "close"}
    <3>1. LastOrder(q) = "none"
      BY <1>3, <2>1, <2>5
    <3> QED BY <1>1, <2>3, <2>5, <3>1 DEF r
  <2> QED BY <2>4, <2>5
<1>6. CASE \E i \in 1..N - 1 : r[i].op \in {"open", "close"}
  <2> DEFINE T == {i \in 1..N - 1 : r[i].op \in {"open", "close"}}
  <2>1. T # {} /\ T \in SUBSET (0..N)
    <3>1. \A i \in 1..N - 1 : i \in 0..N
      BY <1>1
    <3>2. T # {}
      BY <1>6
    <3> QED BY <3>1, <3>2
  <2>2. PICK m \in T : \A y \in T : y <= m
    <3> HIDE DEF T
    <3> QED BY <1>1, <2>1, MaxOfBounded
  <2>3. m \in 1..N - 1 /\ r[m].op \in {"open", "close"}
    OBVIOUS
  <2>4. \A i \in 1..N - 1 : i > m => r[i].op \notin {"open", "close"}
    BY <2>2, <2>3
  <2>5. LastOrder(r) = r[m].op
    BY <1>2, <2>3, <2>4
  <2>6. m + 1 \in 1..N /\ r[m] = q[m + 1]
    BY <1>1, <2>3
  <2>7. \A i \in 1..N : i > m + 1 => q[i].op \notin {"open", "close"}
    <3>1. \A i \in 1..N : i > m + 1 => i # 1 /\ i - 1 > m
      BY <1>1, <2>3
    <3> QED BY <1>4, <2>4, <3>1
  <2>8. LastOrder(q) = q[m + 1].op
    <3> HIDE DEF T
    <3> QED BY <1>3, <2>3, <2>6, <2>7
  <2> QED BY <2>3, <2>5, <2>6, <2>8 DEF r
<1> QED BY <1>5, <1>6

\* The port will be open when the child has worked off its commands.
WillBeOpen ==
  IF LastOrder(commands) # "none" THEN LastOrder(commands) = "open"
  ELSE \/ cpc \in Opening
       \/ cpc = "hook" /\ openOnStart
       \/ cpc \in {"loop", "check"} /\ portOpen

OrdersOK ==
  ~rough /\ ~dropped /\ cpc \notin {"off", "ending"} =>
    /\ mpc \in {"idle", "calling"} => (WillBeOpen <=> told)
    /\ mpc = "opening" => WillBeOpen
    /\ mpc \in {"closing", "xmodem", "finally", "reopen"} => ~WillBeOpen

\* The last order after a command.
LEMMA CommandOrders ==
  ASSUME Typed, NEW o, NEW a, Command(o, a), NEW k \in Nat, NEW n \in Nat, call <= k, sent <= n,
         [op |-> o, arg |-> a] \in CommandSet(k, n)
  PROVE  LastOrder(commands') = IF o \in {"open", "close"} THEN o ELSE LastOrder(commands)
<1>1. commands \in Seq(CommandSet(k, n))
  BY SetsGrow DEF Typed, TrafficTyped
<1>2. commands' = Append(commands, [op |-> o, arg |-> a])
  BY DEF Command
<1> QED BY <1>1, <1>2, OrderAppended

\* Every step keeps the port on its way to what was told.
LEMMA OrdersStep == Typed /\ ChildOK /\ OrdersOK /\ [Next]_vars => OrdersOK'
<1> SUFFICES ASSUME Typed, ChildOK, OrdersOK, [Next]_vars PROVE OrdersOK'
  OBVIOUS
<1> USE DEF vars, frozen, control, calls, port, writes, reads, history, marks
<1> USE DEF Opening, ChildOK, Typed
<1>1. call \in Nat /\ sent \in Nat /\ call <= call /\ sent <= sent
  BY DEF TrafficTyped
<1>2. \A o \in {"open", "close"} : Command(o, 0) => LastOrder(commands') = o
  BY <1>1, CommandOrders, CommandsMade
<1> USE DEF StateTyped
<1>10. CASE UNCHANGED vars
  BY <1>10 DEF OrdersOK, WillBeOpen
<1>11. CASE StartTransportProcess
  <2> DEFINE L == LastOrder(commands)
  <2>1. /\ told' = IF Orders = {} THEN openOnStart ELSE commands[Max(Orders)].op = "open"
        /\ cpc' = "hook" /\ mpc = "idle" /\ mpc' = mpc /\ commands' = commands
        /\ openOnStart' = openOnStart
    BY <1>11 DEF StartTransportProcess
  <2>2. /\ Orders = {} => L = "none"
        /\ Orders # {} => L = commands[Max(Orders)].op
    BY DEF LastOrder, Orders, OrdersIn
  <2>3. L \in {"none", "open", "close"} /\ (L = "none" => Orders = {})
    <3>1. commands \in Seq(CommandSet(call, sent)) /\ DOMAIN commands = 1..Len(commands)
      BY DEF TrafficTyped
    <3> QED BY <3>1, LastOrderIs DEF Orders
  <2> HIDE DEF L
  <2>4. told' <=> (IF L = "none" THEN openOnStart ELSE L = "open")
    BY <2>1, <2>2, <2>3
  <2>5. LastOrder(commands') = L
    BY <2>1 DEF L
  <2>6. WillBeOpen' <=> told'
    BY <2>1, <2>4, <2>5 DEF WillBeOpen
  <2> QED BY <2>1, <2>6 DEF OrdersOK
<1>12. CASE StopTransportProcess
  BY <1>12 DEF StopTransportProcess, StopEntry, OrdersOK, WillBeOpen
<1>13. CASE OpenTransport
  <2>1. LastOrder(commands') = "open"
    BY <1>13, <1>2 DEF OpenTransport
  <2> QED BY <1>13, <2>1 DEF OpenTransport, OrdersOK, WillBeOpen
<1>14. ASSUME NEW x \in BOOLEAN, CloseTransport(x) PROVE OrdersOK'
  <2>1. LastOrder(commands') = "close"
    BY <1>14, <1>2 DEF CloseTransport
  <2> QED BY <1>14, <2>1 DEF CloseTransport, OrdersOK, WillBeOpen
<1>15. CASE Call
  <2>1. LastOrder(commands') = LastOrder(commands)
    <3>1. [op |-> "call", arg |-> call + 1] \in CommandSet(call + 1, sent)
      BY <1>1, CommandsMade
    <3>2. call + 1 \in Nat /\ call <= call + 1 /\ Command("call", call + 1)
      BY <1>1, <1>15 DEF Call
    <3> QED BY <1>1, <3>1, <3>2, CommandOrders
  <2> QED BY <1>15, <2>1 DEF Call, OrdersOK, WillBeOpen
<1>16. ASSUME NEW n \in Nat, Send(n) PROVE OrdersOK'
  <2>1. LastOrder(commands') = LastOrder(commands)
    <3>1. [op |-> "write", arg |-> [i \in 1..n |-> sent + i]] \in CommandSet(call, sent + n)
      BY <1>1, CommandsMade
    <3>2. /\ sent + n \in Nat /\ sent <= sent + n
          /\ Command("write", [i \in 1..n |-> sent + i])
      BY <1>1, <1>16 DEF Send
    <3> QED BY <1>1, <3>1, <3>2, CommandOrders
  <2> QED BY <1>16, <2>1 DEF Send, OrdersOK, WillBeOpen
<1>17. CASE StopReturns
  BY <1>17 DEF StopReturns, AfterStop, OrdersOK, WillBeOpen
<1>18. CASE StopKills
  BY <1>18 DEF StopKills, OrdersOK, WillBeOpen
<1>19. CASE OpenReturns
  BY <1>19 DEF OpenReturns, OrdersOK, WillBeOpen
<1>20. CASE CloseReturns
  BY <1>20 DEF CloseReturns, OpenAhead, OrdersOK, WillBeOpen
<1>21. CASE PollTimesOut
  BY <1>21 DEF PollTimesOut, StopEntry, OrdersOK, WillBeOpen
<1>22. CASE XmodemDone
  BY <1>22 DEF XmodemDone, OrdersOK, WillBeOpen
<1>23. CASE CallReturns
  BY <1>23 DEF CallReturns, OrdersOK, WillBeOpen
<1>24. CASE ProcessExceptions
  BY <1>24 DEF ProcessExceptions, OrdersOK, WillBeOpen
<1>25. CASE ChildHook
  BY <1>25 DEF ChildHook, OrdersOK, WillBeOpen
<1>26. CASE ChildOpens
  BY <1>26 DEF ChildOpens, OrdersOK, WillBeOpen
<1>27. CASE ChildRaises
  BY <1>27 DEF ChildRaises, OrdersOK, WillBeOpen
<1>28. CASE ChildFails
  BY <1>28 DEF ChildFails, OrdersOK, WillBeOpen
<1>29. CASE ChildEnds
  BY <1>29 DEF ChildEnds, OrdersOK, WillBeOpen
<1>30. CASE ChildTerminates
  BY <1>30 DEF ChildTerminates, OrdersOK, WillBeOpen
<1>31. CASE ChildTakesCommand
  <2>1. CASE commands = <<>>
    BY <1>31, <2>1 DEF ChildTakesCommand, OrdersOK, WillBeOpen
  <2>2. CASE commands # <<>>
    <3> DEFINE c == Head(commands)
    <3>1. ProcessCommandMessage(c) /\ commands' = Tail(commands) /\ cpc = "loop"
          /\ UNCHANGED <<frozen, control, history>>
      BY <1>31, <2>2 DEF ChildTakesCommand
    <3>2. LastOrder(commands) =
            IF LastOrder(commands') # "none" THEN LastOrder(commands')
            ELSE IF c.op \in {"open", "close"} THEN c.op ELSE "none"
      BY <2>2, <3>1, OrderTaken DEF TrafficTyped
    <3>3. c.op \in {"open", "close", "call", "write"}
      <4>1. c \in CommandSet(call, sent)
        BY <2>2, TailType DEF TrafficTyped
      <4> QED BY <4>1, CommandCases
    <3> HIDE DEF c
    <3>4. /\ cpc' = IF c.op = "open" THEN "openCmd" ELSE "check"
          /\ portOpen' = (portOpen /\ c.op # "close")
      BY <3>1 DEF ProcessCommandMessage
    <3>5. mpc' = mpc /\ openOnStart' = openOnStart /\ told' = told /\ rough' = rough
          /\ dropped' = dropped
      BY <3>1
    <3>6. WillBeOpen' <=> WillBeOpen
      <4>1. CASE LastOrder(commands') # "none"
        BY <3>2, <4>1 DEF WillBeOpen
      <4>2. CASE LastOrder(commands') = "none" /\ c.op \in {"open", "close"}
        BY <3>1, <3>2, <3>4, <3>5, <4>2 DEF WillBeOpen
      <4>3. CASE LastOrder(commands') = "none" /\ c.op \notin {"open", "close"}
        BY <3>1, <3>2, <3>3, <3>4, <3>5, <4>3 DEF WillBeOpen
      <4> QED BY <4>1, <4>2, <4>3
    <3>7. cpc' \notin {"off", "ending"} /\ cpc \notin {"off", "ending"}
      BY <3>1, <3>4
    <3> QED BY <3>5, <3>6, <3>7 DEF OrdersOK
  <2> QED BY <2>1, <2>2
<1>32. CASE ChildWorksOpen
  BY <1>32 DEF ChildWorksOpen, OrdersOK, WillBeOpen
<1>33. CASE ChildWorksClosed
  BY <1>33 DEF ChildWorksClosed, OrdersOK, WillBeOpen
<1>34. CASE PortDrops
  BY <1>34 DEF PortDrops, OrdersOK, WillBeOpen
<1>35. ASSUME NEW c \in Characters, DeviceEmits(c) PROVE OrdersOK'
  BY <1>35 DEF DeviceEmits, OrdersOK, WillBeOpen
<1>36. CASE XmodemCloses
  BY <1>36 DEF XmodemCloses, OrdersOK, WillBeOpen
<1>37. CASE XmodemReopens
  <2>1. LastOrder(commands') = "open"
    BY <1>37, <1>2 DEF XmodemReopens
  <2> QED BY <1>37, <2>1 DEF XmodemReopens, OrdersOK, WillBeOpen
<1>38. CASE OtherChildFails
  BY <1>38 DEF OtherChildFails, OrdersOK, WillBeOpen
<1>39. CASE ChildFailsUnheard
  BY <1>39 DEF ChildFailsUnheard, OrdersOK, WillBeOpen
<1>9. \A n \in {1, MaxWriteBytes + 1} : n \in Nat
  BY LoadsAssumption
<1> QED BY <1>10, <1>11, <1>12, <1>13, <1>14, <1>15, <1>16, <1>17, <1>18, <1>19, <1>20, <1>21,
           <1>22, <1>23, <1>24, <1>25, <1>26, <1>27, <1>28, <1>29, <1>30, <1>31, <1>32, <1>33,
           <1>34, <1>35, <1>36, <1>37, <1>38, <1>39, <1>9
        DEF Next, Calls, MainContinues, ChildContinues

\* What a reader wants to know of the port follows.
LEMMA PortFollows ==
  Typed /\ ChildOK /\ OrdersOK /\ MainOK =>
    PortAsTold /\ PortHasOneOwner /\ TerminateIsForThisChild
<1> SUFFICES ASSUME Typed, ChildOK, OrdersOK, MainOK
             PROVE  PortAsTold /\ PortHasOneOwner /\ TerminateIsForThisChild
  OBVIOUS
<1>1. PortAsTold
  <2>1. commands = <<>> => LastOrder(commands) = "none"
    BY DEF LastOrder, OrdersIn
  <2>2. SUFFICES ASSUME cpc = "loop", commands = <<>>, mpc = "idle", ~dropped, ~rough
                 PROVE  (portOpen <=> told) /\ (openEvent <=> told)
    BY DEF PortAsTold, Typed, StateTyped
  <2> QED BY <2>1, <2>2 DEF OrdersOK, WillBeOpen, ChildOK, Opening
<1>2. PortHasOneOwner
  BY DEF MainOK, PortHasOneOwner
<1>3. TerminateIsForThisChild
  BY DEF ChildOK, TerminateIsForThisChild
<1> QED BY <1>1, <1>2, <1>3

-----------------------------------------------------------------------------
(* Bytes.                                                                  *)

\* The bytes on their way: at the device, in the child, in the command queue.
BytesOf(q) == FlattenSeq([i \in 1..Len(q) |-> Data(q[i])])
OnTheWay(w, p, q) == (w \o FlattenSeq(p)) \o BytesOf(q)
Increasing(a) == \A i, j \in 1..Len(a) : i < j => a[i] < a[j]

\* WritesInOrder, in terms of what is on the way.
LEMMA WritesInOrderIs ==
  WritesInOrder <=> /\ Increasing(OnTheWay(written, pending, commands))
                    /\ Len(OnTheWay(written, pending, commands)) + lost = sent
BY DEF WritesInOrder, OnTheWay, BytesOf, Queued, Increasing

DataOf(q) == [i \in 1..Len(q) |-> Data(q[i])]

\* The bytes in a command queue.
LEMMA DataType ==
  ASSUME NEW k, NEW n, NEW q \in Seq(CommandSet(k, n))
  PROVE  DataOf(q) \in Seq(Seq(1..n)) /\ BytesOf(q) \in Seq(1..n) /\ BytesOf(q) = FlattenSeq(DataOf(q))
<1>1. \A i \in 1..Len(q) : Data(q[i]) \in Seq(1..n)
  <2>1. \A i \in 1..Len(q) : q[i] \in CommandSet(k, n)
    OBVIOUS
  <2> QED BY <2>1, CommandCases
<1>2. DataOf(q) \in Seq(Seq(1..n))
  <2>1. Len(q) \in Nat
    OBVIOUS
  <2> QED BY <1>1, <2>1 DEF DataOf
<1>3. BytesOf(q) = FlattenSeq(DataOf(q))
  BY DEF BytesOf, DataOf
<1> QED BY <1>2, <1>3, FlattenType

BytesGrow(q, x) == BytesOf(Append(q, x)) = BytesOf(q) \o Data(x)

\* The bytes with one more command.
LEMMA BytesAppend ==
  ASSUME NEW k, NEW n, NEW q \in Seq(CommandSet(k, n)), NEW x \in CommandSet(k, n)
  PROVE  BytesGrow(q, x)
<1> DEFINE r == Append(q, x)
<1>1. /\ r \in Seq(CommandSet(k, n)) /\ Len(r) = Len(q) + 1 /\ Len(q) \in Nat
      /\ \A i \in 1..Len(q) + 1 : r[i] = IF i <= Len(q) THEN q[i] ELSE x
  BY AppendIs, AppendType
<1> HIDE DEF r
<1>2. DataOf(q) \in Seq(Seq(1..n)) /\ DataOf(r) \in Seq(Seq(1..n)) /\ Data(x) \in Seq(1..n)
  BY <1>1, DataType, CommandCases
<1>3. DataOf(r) = Append(DataOf(q), Data(x))
  <2> DEFINE a == DataOf(r)
             b == Append(DataOf(q), Data(x))
  <2>1. Len(DataOf(q)) = Len(q) /\ \A i \in 1..Len(q) : DataOf(q)[i] = Data(q[i])
    BY <1>1 DEF DataOf
  <2>2. Len(a) = Len(q) + 1 /\ \A i \in 1..Len(q) + 1 : a[i] = Data(r[i])
    BY <1>1 DEF DataOf
  <2>3. /\ b \in Seq(Seq(1..n)) /\ Len(b) = Len(q) + 1
        /\ \A i \in 1..Len(q) + 1 : b[i] = IF i <= Len(q) THEN DataOf(q)[i] ELSE Data(x)
    BY <1>2, <2>1, AppendIs, AppendType
  <2>4. a \in Seq(Seq(1..n))
    BY <1>2
  <2> HIDE DEF a, b
  <2>5. \A i \in 1..Len(a) : a[i] = b[i]
    BY <1>1, <2>1, <2>2, <2>3
  <2>6. a = b
    BY <2>2, <2>3, <2>4, <2>5, SeqEqual
  <2> QED BY <2>6 DEF a, b
<1>4. FlattenSeq(Append(DataOf(q), Data(x))) = FlattenSeq(DataOf(q)) \o Data(x)
  BY <1>2, FlattenAppend
<1> QED BY <1>1, <1>3, <1>4, DataType DEF r, BytesGrow

\* The bytes of the first command come first.
LEMMA BytesTaken ==
  ASSUME NEW k, NEW n, NEW q \in Seq(CommandSet(k, n)), q # <<>>
  PROVE  BytesOf(q) = Data(Head(q)) \o BytesOf(Tail(q))
<1> DEFINE r == Tail(q)
<1>1. /\ r \in Seq(CommandSet(k, n)) /\ Len(r) = Len(q) - 1 /\ Len(q) \in Nat \ {0}
      /\ Head(q) = q[1] /\ \A i \in 1..Len(q) - 1 : r[i] = q[i + 1]
  BY TailIs, TailType
<1> HIDE DEF r
<1>2. DataOf(q) \in Seq(Seq(1..n)) /\ DataOf(r) \in Seq(Seq(1..n))
  BY <1>1, DataType
<1>3. Len(DataOf(q)) = Len(q) /\ \A i \in 1..Len(q) : DataOf(q)[i] = Data(q[i])
  BY <1>1 DEF DataOf
<1>4. DataOf(q) # <<>> /\ Head(DataOf(q)) = Data(Head(q))
  <2>1. DataOf(q) # <<>>
    BY <1>1, <1>2, <1>3
  <2>2. Head(DataOf(q)) = DataOf(q)[1]
    BY <1>2, <2>1
  <2> QED BY <1>1, <1>3, <2>1, <2>2
<1>5. Tail(DataOf(q)) = DataOf(r)
  <2> DEFINE a == Tail(DataOf(q))
             b == DataOf(r)
  <2>1. /\ a \in Seq(Seq(1..n)) /\ Len(a) = Len(q) - 1
        /\ \A i \in 1..Len(q) - 1 : a[i] = DataOf(q)[i + 1]
    BY <1>2, <1>3, <1>4, TailIs, TailType
  <2>2. b \in Seq(Seq(1..n)) /\ Len(b) = Len(q) - 1 /\ \A i \in 1..Len(q) - 1 : b[i] = Data(r[i])
    BY <1>1, <1>2 DEF DataOf
  <2> HIDE DEF a, b
  <2>3. \A i \in 1..Len(q) - 1 : i + 1 \in 1..Len(q)
    BY <1>1
  <2>4. \A i \in 1..Len(a) : a[i] = b[i]
    BY <1>1, <1>3, <2>1, <2>2, <2>3
  <2>5. a = b
    BY <2>1, <2>2, <2>4, SeqEqual
  <2> QED BY <2>5 DEF a, b
<1>6. FlattenSeq(DataOf(q)) = Head(DataOf(q)) \o FlattenSeq(Tail(DataOf(q)))
  BY <1>2, <1>4, FlattenHeadTail
<1> QED BY <1>1, <1>4, <1>5, <1>6, DataType DEF r

\* Two sequences after each other.
LEMMA ConcatIs ==
  ASSUME NEW S, NEW a \in Seq(S), NEW b \in Seq(S)
  PROVE  /\ a \o b \in Seq(S) /\ Len(a \o b) = Len(a) + Len(b)
         /\ Len(a) \in Nat /\ Len(b) \in Nat
         /\ \A i \in 1..Len(a) : (a \o b)[i] = a[i]
         /\ \A i \in 1..Len(b) : (a \o b)[Len(a) + i] = b[i]
OBVIOUS

\* New bytes have greater numbers than all before.
LEMMA IncreasingAppend ==
  ASSUME NEW m \in Nat, NEW n \in Nat, NEW a \in Seq(1..m), Increasing(a)
  PROVE  /\ Increasing(a \o [i \in 1..n |-> m + i])
         /\ Len(a \o [i \in 1..n |-> m + i]) = Len(a) + n
<1> DEFINE d == [i \in 1..n |-> m + i]
           A == Len(a)
<1>1. d \in Seq(Int) /\ Len(d) = n /\ \A i \in 1..n : d[i] = m + i
  OBVIOUS
<1>2. a \in Seq(Int) /\ A \in Nat /\ \A i \in 1..A : a[i] \in 1..m
  OBVIOUS
<1> HIDE DEF d
<1>3. /\ Len(a \o d) = A + n /\ \A i \in 1..A : (a \o d)[i] = a[i]
      /\ \A i \in 1..n : (a \o d)[A + i] = d[i]
  BY <1>1, <1>2, ConcatIs
<1>4. ASSUME NEW i \in 1..A + n, NEW j \in 1..A + n, i < j PROVE (a \o d)[i] < (a \o d)[j]
  <2>1. CASE j <= A
    <3>1. i \in 1..A /\ j \in 1..A
      BY <1>2, <1>4, <2>1
    <3> QED BY <1>3, <1>4, <3>1 DEF Increasing
  <2>2. CASE i <= A /\ j > A
    <3>1. i \in 1..A /\ j - A \in 1..n /\ A + (j - A) = j
      BY <1>2, <1>4, <2>2
    <3>2. (a \o d)[i] = a[i] /\ (a \o d)[j] = m + (j - A) /\ a[i] \in 1..m
      BY <1>1, <1>2, <1>3, <3>1
    <3> QED BY <3>1, <3>2
  <2>3. CASE i > A
    <3>1. i - A \in 1..n /\ j - A \in 1..n /\ A + (i - A) = i /\ A + (j - A) = j
      BY <1>2, <1>4, <2>3
    <3>2. (a \o d)[i] = m + (i - A) /\ (a \o d)[j] = m + (j - A)
      BY <1>1, <1>3, <3>1
    <3> QED BY <1>4, <3>1, <3>2
  <2>4. j <= A \/ (i <= A /\ j > A) \/ i > A
    <3>1. A \in Int /\ i \in Int /\ j \in Int
      BY <1>2
    <3> HIDE DEF A
    <3> QED BY <3>1
  <2> QED BY <2>1, <2>2, <2>3, <2>4
<1> QED BY <1>3, <1>4 DEF Increasing, d

\* What remains in order when the middle is lost.
LEMMA IncreasingDrop ==
  ASSUME NEW m \in Nat, NEW w \in Seq(1..m), NEW p \in Seq(1..m), NEW q \in Seq(1..m),
         Increasing((w \o p) \o q)
  PROVE  /\ Increasing((w \o <<>>) \o q)
         /\ Len((w \o p) \o q) = Len((w \o <<>>) \o q) + Len(p)
<1> DEFINE x == (w \o p) \o q
           y == w \o q
           W == Len(w)
           P == Len(p)
           Q == Len(q)
<1>1. W \in Nat /\ P \in Nat /\ Q \in Nat /\ w \o <<>> = w
  OBVIOUS
<1>2. w \o p \in Seq(1..m) /\ Len(w \o p) = W + P /\ \A i \in 1..W : (w \o p)[i] = w[i]
  BY ConcatProperties
<1>3. /\ Len(x) = W + P + Q /\ (\A i \in 1..W + P : x[i] = (w \o p)[i])
      /\ \A i \in 1..Q : x[W + P + i] = q[i]
  BY <1>2, ConcatProperties
<1>4. /\ Len(y) = W + Q /\ (\A i \in 1..W : y[i] = w[i]) /\ \A i \in 1..Q : y[W + i] = q[i]
  BY ConcatProperties
<1> HIDE DEF x, y, W, P, Q
<1> DEFINE at(i) == IF i <= W THEN i ELSE i + P
<1>5. ASSUME NEW i \in 1..W + Q PROVE at(i) \in 1..W + P + Q /\ y[i] = x[at(i)]
  <2>1. CASE i <= W
    <3>1. i \in 1..W /\ i \in 1..W + P /\ at(i) = i
      BY <1>1, <2>1
    <3>2. y[i] = w[i] /\ x[i] = w[i]
      BY <1>2, <1>3, <1>4, <3>1
    <3>3. i \in 1..W + P + Q
      BY <1>1, <3>1
    <3> QED BY <3>1, <3>2, <3>3
  <2>2. CASE i > W
    <3>1. i - W \in 1..Q /\ W + (i - W) = i /\ at(i) = W + P + (i - W)
      BY <1>1, <2>2
    <3>2. y[W + (i - W)] = q[i - W] /\ x[W + P + (i - W)] = q[i - W]
      BY <1>3, <1>4, <3>1
    <3>3. at(i) \in 1..W + P + Q
      BY <1>1, <3>1
    <3> QED BY <3>1, <3>2, <3>3
  <2> QED BY <1>1, <2>1, <2>2
<1>6. \A i, j \in 1..W + Q : i < j => at(i) < at(j)
  BY <1>1
<1>7. \A i, j \in 1..W + P + Q : i < j => x[i] < x[j]
  BY <1>3 DEF Increasing, x
<1> HIDE DEF at
<1>8. Increasing(y)
  BY <1>4, <1>5, <1>6, <1>7 DEF Increasing
<1> QED BY <1>1, <1>3, <1>4, <1>8 DEF x, y, P

\* Associativity, where a command and where a chunk moves on.
CommandMoves(w, f, d, b) == (w \o (f \o d)) \o b = (w \o f) \o (d \o b)
ChunkMoves(w, c, f, b) == ((w \o c) \o f) \o b = (w \o (c \o f)) \o b
BytesFollow(a, b, d) == a \o (b \o d) = (a \o b) \o d

\* Concatenation is associative, in the three forms that are needed.
LEMMA Moves ==
  ASSUME NEW S, NEW a \in Seq(S), NEW b \in Seq(S), NEW c \in Seq(S), NEW d \in Seq(S)
  PROVE  CommandMoves(a, b, c, d) /\ ChunkMoves(a, b, c, d) /\ BytesFollow(a, b, c)
<1>1. BytesFollow(a, b, c)
  BY DEF BytesFollow
<1>2. CommandMoves(a, b, c, d)
  <2>1. b \o c \in Seq(S) /\ c \o d \in Seq(S)
    OBVIOUS
  <2>2. (b \o c) \o d = b \o (c \o d)
    OBVIOUS
  <2>3. (a \o (b \o c)) \o d = a \o ((b \o c) \o d)
    <3> DEFINE e == b \o c
    <3> HIDE DEF e
    <3>1. (a \o e) \o d = a \o (e \o d)
      BY <2>1, SMTT(40) DEF e
    <3> QED BY <3>1 DEF e
  <2>4. (a \o b) \o (c \o d) = a \o (b \o (c \o d))
    <3> DEFINE e == c \o d
    <3> HIDE DEF e
    <3>1. (a \o b) \o e = a \o (b \o e)
      BY <2>1, SMTT(40) DEF e
    <3> QED BY <3>1 DEF e
  <2> QED BY <2>2, <2>3, <2>4 DEF CommandMoves
<1>3. ChunkMoves(a, b, c, d)
  <2>1. (a \o b) \o c = a \o (b \o c)
    OBVIOUS
  <2> QED BY <2>1 DEF ChunkMoves
<1> QED BY <1>1, <1>2, <1>3

\* What is on its way, and what of it is where.
LEMMA WayTyped ==
  ASSUME Typed
  PROVE  /\ FlattenSeq(pending) \in Seq(1..sent) /\ BytesOf(commands) \in Seq(1..sent)
         /\ written \in Seq(1..sent) /\ sent \in Nat /\ lost \in Nat
         /\ written \o FlattenSeq(pending) \in Seq(1..sent)
         /\ OnTheWay(written, pending, commands) \in Seq(1..sent)
<1>1. /\ FlattenSeq(pending) \in Seq(1..sent) /\ written \in Seq(1..sent)
      /\ sent \in Nat /\ lost \in Nat
  BY FlattenType DEF Typed, TrafficTyped
<1>2. BytesOf(commands) \in Seq(1..sent)
  BY DataType DEF Typed, TrafficTyped
<1>3. written \o FlattenSeq(pending) \in Seq(1..sent)
  BY <1>1, ConcatType
<1>4. OnTheWay(written, pending, commands) \in Seq(1..sent)
  BY <1>2, <1>3, ConcatType DEF OnTheWay
<1> QED BY <1>1, <1>2, <1>3, <1>4

\* A command without bytes.
LEMMA NoBytes ==
  ASSUME Typed, NEW o, NEW a, Command(o, a), NEW k \in Nat, call <= k,
         [op |-> o, arg |-> a] \in CommandSet(k, sent), o # "write"
  PROVE  BytesOf(commands') = BytesOf(commands)
<1> DEFINE x == [op |-> o, arg |-> a]
<1>1. commands \in Seq(CommandSet(k, sent)) /\ commands' = Append(commands, x)
  <2>1. sent \in Nat /\ sent <= sent /\ call \in Nat
    BY DEF Typed, TrafficTyped
  <2> QED BY <2>1, SetsGrow DEF Typed, TrafficTyped, Command
<1>2. Data(x) = <<>>
  BY DEF Data
<1>3. BytesOf(Append(commands, x)) = BytesOf(commands) \o Data(x)
  <2>1. BytesGrow(commands, x)
    BY <1>1, BytesAppend
  <2> QED BY <2>1 DEF BytesGrow
<1>4. BytesOf(commands) \in Seq(1..sent)
  BY <1>1, DataType
<1> HIDE DEF x
<1>5. BytesOf(commands) \o <<>> = BytesOf(commands)
  BY <1>4
<1> QED BY <1>1, <1>2, <1>3, <1>5

\* Every step keeps the bytes whole and in order.
LEMMA WritesStep == Typed /\ WritesInOrder /\ [Next]_vars => WritesInOrder'
<1> SUFFICES ASSUME Typed, WritesInOrder, [Next]_vars PROVE WritesInOrder'
  OBVIOUS
<1> USE DEF vars, frozen, control, calls, port, writes, reads, history, marks
<1> USE DEF Typed
<1>1. call \in Nat /\ sent \in Nat /\ call <= call /\ lost \in Nat
  BY DEF TrafficTyped
<1>7. /\ Increasing(OnTheWay(written, pending, commands))
      /\ Len(OnTheWay(written, pending, commands)) + lost = sent
  BY WritesInOrderIs
<1>8. /\ Increasing(OnTheWay(written', pending', commands'))
      /\ Len(OnTheWay(written', pending', commands')) + lost' = sent'
      => WritesInOrder'
  BY DEF WritesInOrder, OnTheWay, BytesOf, Queued, Increasing
<1>2. UNCHANGED <<commands, sent, pending, written, lost>> => WritesInOrder'
  BY <1>7, <1>8
<1>3. BytesOf(commands') = BytesOf(commands) /\ UNCHANGED <<sent, pending, written, lost>>
        => WritesInOrder'
  BY <1>7, <1>8 DEF OnTheWay
<1>4. \A o \in {"open", "close"} : Command(o, 0) => BytesOf(commands') = BytesOf(commands)
  <2>1. ASSUME NEW o \in {"open", "close"}, Command(o, 0) PROVE BytesOf(commands') = BytesOf(commands)
    <3>1. [op |-> o, arg |-> 0] \in CommandSet(call, sent) /\ o # "write"
      BY <1>1, CommandsMade
    <3> QED BY <1>1, <2>1, <3>1, NoBytes
  <2> QED BY <2>1
<1>10. CASE UNCHANGED vars
  <2>1. UNCHANGED <<commands, sent, pending, written, lost>>
    BY <1>10
  <2> QED BY <1>2, <2>1

<1>11. CASE StartTransportProcess
  <2>1. UNCHANGED <<commands, sent, pending, written, lost>>
    BY <1>11 DEF StartTransportProcess
  <2> QED BY <1>2, <2>1
<1>12. CASE StopTransportProcess
  <2>1. UNCHANGED <<commands, sent, pending, written, lost>>
    BY <1>12 DEF StopTransportProcess, StopEntry
  <2> QED BY <1>2, <2>1
<1>13. CASE OpenTransport
  <2>1. BytesOf(commands') = BytesOf(commands) /\ UNCHANGED <<sent, pending, written, lost>>
    BY <1>13, <1>4 DEF OpenTransport
  <2> QED BY <1>3, <2>1
<1>14. ASSUME NEW x \in BOOLEAN, CloseTransport(x) PROVE WritesInOrder'
  <2>1. BytesOf(commands') = BytesOf(commands) /\ UNCHANGED <<sent, pending, written, lost>>
    BY <1>14, <1>4 DEF CloseTransport
  <2> QED BY <1>3, <2>1
<1>15. CASE Call
  <2>1. [op |-> "call", arg |-> call + 1] \in CommandSet(call + 1, sent)
    BY <1>1, CommandsMade
  <2>2. Command("call", call + 1) /\ call + 1 \in Nat /\ call <= call + 1
    BY <1>1, <1>15 DEF Call
  <2>3. BytesOf(commands') = BytesOf(commands) /\ UNCHANGED <<sent, pending, written, lost>>
    BY <2>1, <2>2, NoBytes, <1>15 DEF Call
  <2> QED BY <1>3, <2>3
<1>16. ASSUME NEW n \in Nat, Send(n) PROVE WritesInOrder'
  <2> DEFINE d == [i \in 1..n |-> sent + i]
             x == [op |-> "write", arg |-> d]
             all == OnTheWay(written, pending, commands)
  <2>1. commands' = Append(commands, x) /\ sent' = sent + n /\ UNCHANGED <<pending, written, lost>>
    BY <1>16 DEF Send, Command
  <2>2. x \in CommandSet(call, sent + n) /\ d \in Seq(1..sent + n) /\ Data(x) = d
    <3>1. x \in CommandSet(call, sent + n)
      BY <1>1, CommandsMade
    <3>2. Data(x) = d
      BY DEF Data
    <3>3. d \in Seq(1..sent + n)
      BY <3>1, <3>2, CommandCases
    <3> QED BY <3>1, <3>2, <3>3
  <2>3. Increasing(all \o d) /\ Len(all \o d) = Len(all) + n
    <3> HIDE DEF all
    <3>1. all \in Seq(1..sent) /\ Increasing(all)
      BY <1>7, WayTyped DEF all
    <3> QED BY <1>1, <3>1, IncreasingAppend
  <2>4. OnTheWay(written', pending', commands') = all \o d
    <3> DEFINE w == written \o FlattenSeq(pending)
               b == BytesOf(commands)
    <3>1. w \in Seq(1..sent + n) /\ b \in Seq(1..sent + n)
      <4>1. Seq(1..sent) \subseteq Seq(1..sent + n)
        BY <1>1, SetsGrow
      <4> QED BY <4>1, WayTyped
    <3>2. BytesOf(commands') = b \o d
      <4>1. commands \in Seq(CommandSet(call, sent + n))
        BY <1>1, SetsGrow, SMTT(40) DEF TrafficTyped
      <4> HIDE DEF x, d
      <4>2. BytesOf(Append(commands, x)) = BytesOf(commands) \o Data(x)
        <5>1. BytesGrow(commands, x)
          BY <2>2, <4>1, BytesAppend
        <5> QED BY <5>1 DEF BytesGrow
      <4> QED BY <2>1, <2>2, <4>2
    <3>3. BytesFollow(w, b, d)
      <4> HIDE DEF w, b, d
      <4> QED BY <2>2, <3>1, Moves
    <3>4. OnTheWay(written', pending', commands') = w \o (b \o d)
      <4> HIDE DEF d
      <4> QED BY <2>1, <3>2 DEF OnTheWay
    <3>5. all = w \o b
      BY DEF OnTheWay
    <3> HIDE DEF w, b, d, all
    <3> QED BY <3>3, <3>4, <3>5 DEF BytesFollow
  <2>5. Len(all) \in Nat /\ Len(all) + lost = sent
    <3>1. all \in Seq(1..sent)
      BY WayTyped
    <3> HIDE DEF all
    <3> QED BY <1>7, <3>1 DEF all
  <2> HIDE DEF all, d
  <2>6. Increasing(OnTheWay(written', pending', commands'))
    BY <2>3, <2>4
  <2>7. Len(OnTheWay(written', pending', commands')) + lost' = sent'
    <3>1. Len(OnTheWay(written', pending', commands')) = Len(all) + n
      BY <2>3, <2>4
    <3>2. lost' = lost /\ sent' = sent + n
      BY <2>1
    <3> QED BY <1>1, <2>5, <3>1, <3>2
  <2> QED BY <1>8, <2>6, <2>7
<1>17. CASE StopReturns
  <2>1. UNCHANGED <<commands, sent, pending, written, lost>>
    BY <1>17 DEF StopReturns
  <2> QED BY <1>2, <2>1
<1>18. CASE StopKills
  <2>1. UNCHANGED <<commands, sent, pending, written, lost>>
    BY <1>18 DEF StopKills
  <2> QED BY <1>2, <2>1
<1>19. CASE OpenReturns
  <2>1. UNCHANGED <<commands, sent, pending, written, lost>>
    BY <1>19 DEF OpenReturns
  <2> QED BY <1>2, <2>1
<1>20. CASE CloseReturns
  <2>1. UNCHANGED <<commands, sent, pending, written, lost>>
    BY <1>20 DEF CloseReturns
  <2> QED BY <1>2, <2>1
<1>21. CASE PollTimesOut
  <2>1. UNCHANGED <<commands, sent, pending, written, lost>>
    BY <1>21 DEF PollTimesOut
  <2> QED BY <1>2, <2>1
<1>22. CASE XmodemDone
  <2>1. UNCHANGED <<commands, sent, pending, written, lost>>
    BY <1>22 DEF XmodemDone
  <2> QED BY <1>2, <2>1
<1>23. CASE CallReturns
  <2>1. UNCHANGED <<commands, sent, pending, written, lost>>
    BY <1>23 DEF CallReturns
  <2> QED BY <1>2, <2>1
<1>24. CASE ProcessExceptions
  <2>1. UNCHANGED <<commands, sent, pending, written, lost>>
    BY <1>24 DEF ProcessExceptions
  <2> QED BY <1>2, <2>1
<1>25. CASE ChildHook
  <2> DEFINE f == FlattenSeq(pending)
             b == BytesOf(commands)
  <2>1. pending' = <<>> /\ lost' = lost + Len(f) /\ UNCHANGED <<commands, sent, written>>
    BY <1>25 DEF ChildHook
  <2>2. written \in Seq(1..sent) /\ f \in Seq(1..sent) /\ b \in Seq(1..sent)
    BY WayTyped
  <2>3. Increasing((written \o f) \o b) /\ Len((written \o f) \o b) + lost = sent
    BY <1>7 DEF OnTheWay
  <2>4. OnTheWay(written', pending', commands') = (written \o <<>>) \o b
    BY <2>1, FlattenNone DEF OnTheWay
  <2> HIDE DEF f, b
  <2>5. /\ Increasing((written \o <<>>) \o b)
        /\ Len((written \o f) \o b) = Len((written \o <<>>) \o b) + Len(f)
    BY <1>1, <2>2, <2>3, IncreasingDrop
  <2>6. Len(f) \in Nat /\ Len((written \o <<>>) \o b) \in Nat
    <3>1. (written \o <<>>) \o b \in Seq(1..sent)
      BY <2>2
    <3> QED BY <2>2, <3>1
  <2> DEFINE y == (written \o <<>>) \o b
  <2>7. Increasing(OnTheWay(written', pending', commands'))
    BY <2>4, <2>5
  <2>8. Len(OnTheWay(written', pending', commands')) = Len(y)
    BY <2>4
  <2> HIDE DEF y
  <2>9. Len(y) + Len(f) + lost = sent /\ Len(y) \in Nat
    BY <2>3, <2>5, <2>6 DEF y
  <2>10. Len(y) + lost' = sent'
    BY <1>1, <2>1, <2>6, <2>9
  <2> QED BY <1>8, <2>7, <2>8, <2>10
<1>26. CASE ChildOpens
  <2>1. UNCHANGED <<commands, sent, pending, written, lost>>
    BY <1>26 DEF ChildOpens
  <2> QED BY <1>2, <2>1
<1>27. CASE ChildRaises
  <2>1. UNCHANGED <<commands, sent, pending, written, lost>>
    BY <1>27 DEF ChildRaises
  <2> QED BY <1>2, <2>1
<1>28. CASE ChildFails
  <2>1. UNCHANGED <<commands, sent, pending, written, lost>>
    BY <1>28 DEF ChildFails
  <2> QED BY <1>2, <2>1
<1>29. CASE ChildEnds
  <2>1. UNCHANGED <<commands, sent, pending, written, lost>>
    BY <1>29 DEF ChildEnds
  <2> QED BY <1>2, <2>1
<1>30. CASE ChildTerminates
  <2>1. UNCHANGED <<commands, sent, pending, written, lost>>
    BY <1>30 DEF ChildTerminates
  <2> QED BY <1>2, <2>1
<1>31. CASE ChildTakesCommand
  <2>1. CASE commands = <<>>
    <3>1. UNCHANGED <<commands, sent, pending, written, lost>>
      BY <1>31, <2>1 DEF ChildTakesCommand
    <3> QED BY <1>2, <3>1
  <2>2. CASE commands # <<>>
    <3> DEFINE c == Head(commands)
               d == Data(c)
               E == IF c.op = "write" THEN EnqueueCommandWrites(c.arg) ELSE <<>>
               f == FlattenSeq(pending)
               b == BytesOf(Tail(commands))
    <3>1. commands' = Tail(commands) /\ pending' = pending \o E /\ UNCHANGED <<sent, written, lost>>
      BY <1>31, <2>2 DEF ChildTakesCommand, ProcessCommandMessage
    <3>2. c \in CommandSet(call, sent) /\ Tail(commands) \in Seq(CommandSet(call, sent))
      BY <2>2, TailType DEF TrafficTyped
    <3>3. d \in Seq(1..sent) /\ b \in Seq(1..sent) /\ f \in Seq(1..sent) /\ written \in Seq(1..sent)
      BY <3>2, CommandCases, DataType, WayTyped
    <3>4. E \in Seq(Seq(1..sent)) /\ FlattenSeq(E) = d
      <4>1. CASE c.op = "write"
        <5>1. c.arg \in Seq(1..sent)
          BY <3>2, <4>1, CommandCases
        <5>2. /\ EnqueueCommandWrites(c.arg) \in Seq(Seq(1..sent))
              /\ FlattenSeq(EnqueueCommandWrites(c.arg)) = c.arg
          BY <5>1, EnqueuedWhole
        <5> QED BY <4>1, <5>2 DEF Data
      <4>2. CASE c.op # "write"
        <5>1. E = <<>> /\ d = <<>> /\ <<>> \in Seq(Seq(1..sent))
          BY <4>2 DEF Data
        <5> QED BY <5>1, FlattenNone
      <4> QED BY <4>1, <4>2
    <3>5. BytesOf(commands) = d \o b
      <4>1. commands \in Seq(CommandSet(call, sent))
        BY DEF TrafficTyped
      <4> QED BY <2>2, <4>1, BytesTaken
    <3>6. FlattenSeq(pending') = f \o d
      <4>1. pending \in Seq(Seq(1..sent))
        BY DEF TrafficTyped
      <4> HIDE DEF E
      <4>2. FlattenSeq(pending \o E) = FlattenSeq(pending) \o FlattenSeq(E)
        BY <3>4, <4>1, FlattenConcat
      <4> QED BY <3>1, <3>4, <4>2
    <3> HIDE DEF c, d, E
    <3>7. OnTheWay(written', pending', commands') = (written \o (f \o d)) \o b
      BY <3>1, <3>6 DEF OnTheWay
    <3>8. OnTheWay(written, pending, commands) = (written \o f) \o (d \o b)
      BY <3>5 DEF OnTheWay
    <3> HIDE DEF f, b
    <3>9. CommandMoves(written, f, d, b)
      BY <3>3, Moves
    <3>10. OnTheWay(written', pending', commands') = OnTheWay(written, pending, commands)
      BY <3>7, <3>8, <3>9 DEF CommandMoves
    <3> QED BY <1>7, <1>8, <3>1, <3>10
  <2> QED BY <2>1, <2>2
<1>32. CASE ChildWorksOpen
  <2>1. TransportWrite /\ UNCHANGED <<commands, sent, lost>>
    BY <1>32 DEF ChildWorksOpen
  <2>2. CASE pending = <<>>
    <3>1. UNCHANGED <<commands, sent, pending, written, lost>>
      BY <2>1, <2>2 DEF TransportWrite
    <3> QED BY <1>2, <3>1
  <2>3. CASE pending # <<>>
    <3> DEFINE c == Head(pending)
               f == FlattenSeq(Tail(pending))
               b == BytesOf(commands)
    <3>1. pending' = Tail(pending) /\ written' = written \o c
      BY <2>1, <2>3 DEF TransportWrite
    <3>2. c \in Seq(1..sent) /\ Tail(pending) \in Seq(Seq(1..sent)) /\ pending \in Seq(Seq(1..sent))
      BY <2>3, TailType DEF TrafficTyped
    <3>3. f \in Seq(1..sent) /\ b \in Seq(1..sent) /\ written \in Seq(1..sent)
      BY <3>2, FlattenType, WayTyped
    <3>4. FlattenSeq(pending) = c \o f
      BY <2>3, <3>2, FlattenHeadTail
    <3>5. OnTheWay(written', pending', commands') = ((written \o c) \o f) \o b
      BY <2>1, <3>1 DEF OnTheWay
    <3>6. OnTheWay(written, pending, commands) = (written \o (c \o f)) \o b
      BY <3>4 DEF OnTheWay
    <3> HIDE DEF c, f, b
    <3>7. ChunkMoves(written, c, f, b)
      BY <3>2, <3>3, Moves
    <3>8. OnTheWay(written', pending', commands') = OnTheWay(written, pending, commands)
      BY <3>5, <3>6, <3>7 DEF ChunkMoves
    <3> QED BY <1>7, <1>8, <2>1, <3>8
  <2> QED BY <2>2, <2>3
<1>33. CASE ChildWorksClosed
  <2>1. UNCHANGED <<commands, sent, pending, written, lost>>
    BY <1>33 DEF ChildWorksClosed
  <2> QED BY <1>2, <2>1
<1>34. CASE PortDrops
  <2>1. UNCHANGED <<commands, sent, pending, written, lost>>
    BY <1>34 DEF PortDrops
  <2> QED BY <1>2, <2>1
<1>35. ASSUME NEW c \in Characters, DeviceEmits(c) PROVE WritesInOrder'
  <2>1. UNCHANGED <<commands, sent, pending, written, lost>>
    BY <1>35 DEF DeviceEmits
  <2> QED BY <1>2, <2>1
<1>36. CASE XmodemCloses
  <2>1. UNCHANGED <<commands, sent, pending, written, lost>>
    BY <1>36 DEF XmodemCloses
  <2> QED BY <1>2, <2>1
<1>37. CASE XmodemReopens
  <2>1. BytesOf(commands') = BytesOf(commands) /\ UNCHANGED <<sent, pending, written, lost>>
    BY <1>37, <1>4 DEF XmodemReopens
  <2> QED BY <1>3, <2>1
<1>38. CASE OtherChildFails
  <2>1. UNCHANGED <<commands, sent, pending, written, lost>>
    BY <1>38 DEF OtherChildFails
  <2> QED BY <1>2, <2>1
<1>39. CASE ChildFailsUnheard
  <2>1. UNCHANGED <<commands, sent, pending, written, lost>>
    BY <1>39 DEF ChildFailsUnheard
  <2> QED BY <1>2, <2>1
<1>9. \A n \in {1, MaxWriteBytes + 1} : n \in Nat
  BY LoadsAssumption
<1> QED BY <1>10, <1>11, <1>12, <1>13, <1>14, <1>15, <1>16, <1>17, <1>18, <1>19, <1>20, <1>21,
           <1>22, <1>23, <1>24, <1>25, <1>26, <1>27, <1>28, <1>29, <1>30, <1>31, <1>32, <1>33,
           <1>34, <1>35, <1>36, <1>37, <1>38, <1>39, <1>9
        DEF Next, Calls, MainContinues, ChildContinues

\* No bytes are on their way at first.
LEMMA WritesInit == Init => WritesInOrder
<1> SUFFICES ASSUME Init PROVE WritesInOrder
  OBVIOUS
<1>1. written = <<>> /\ pending = <<>> /\ commands = <<>> /\ lost = 0 /\ sent = 0
  BY DEF Init
<1>2. [i \in 1..Len(<<>>) |-> Data(<<>>[i])] = <<>>
  OBVIOUS
<1>3. BytesOf(<<>>) = <<>>
  BY <1>2, FlattenNone DEF BytesOf
<1>4. OnTheWay(written, pending, commands) = (<<>> \o <<>>) \o <<>>
  BY <1>1, <1>3, FlattenNone DEF OnTheWay
<1>5. (<<>> \o <<>>) \o <<>> = <<>> /\ Len(<<>>) = 0
  OBVIOUS
<1>6. Increasing(<<>>)
  BY <1>5 DEF Increasing
<1> QED BY <1>1, <1>4, <1>5, <1>6, WritesInOrderIs

-----------------------------------------------------------------------------
(* Text.                                                                   *)

\* What is framed and published of what was read, which begins with the lines x.
TextIs(x, t, b, p) ==
  /\ x \in Seq(Chars) /\ t = x \o b
  /\ Ended(x) /\ SameLines(p, LinesOf(x))

TextOK == ~partial => \E x : TextIs(x, decoded, buffer, published)

\* The empty sequence before and after another.
LEMMA Empty ==
  ASSUME NEW S, NEW a \in Seq(S)
  PROVE  a \o <<>> = a /\ <<>> \o a = a /\ <<>> \in Seq(S)
OBVIOUS

\* Complete lines after complete lines.
LEMMA EndedConcat ==
  ASSUME NEW x \in Seq(Chars), NEW y \in Seq(Chars), Ended(x), Ended(y)
  PROVE  Ended(x \o y)
<1>1. CASE y = <<>>
  <2>1. x \o y = x
    BY <1>1, Empty
  <2> QED BY <2>1
<1>2. CASE y # <<>>
  <2>1. /\ Len(x \o y) = Len(x) + Len(y) /\ Len(x) \in Nat /\ Len(y) \in Nat
        /\ \A i \in 1..Len(y) : (x \o y)[Len(x) + i] = y[i]
    BY ConcatIs
  <2>2. Len(y) \in 1..Len(y)
    BY <1>2, <2>1
  <2>3. (x \o y)[Len(x \o y)] = y[Len(y)]
    BY <2>1, <2>2
  <2> QED BY <1>2, <2>3 DEF Ended
<1> QED BY <1>1, <1>2

\* The empty text.
LEMMA LinesOfEmpty == LinesOf(<<>>) = <<>> /\ Ended(<<>>) /\ <<>> \in Seq(Chars)
<1>1. <<>> \in Seq(Chars) /\ NoNewline(<<>>, 1, Len(<<>>))
  BY DEF NoNewline
<1> QED BY <1>1, NoLines DEF Ended

\* A child that has read nothing.
LEMMA TextBegins == TextIs(<<>>, <<>>, <<>>, <<>>)
<1>1. <<>> \o <<>> = <<>>
  OBVIOUS
<1>2. SameLines(<<>>, <<>>)
  BY DEF SameLines
<1> QED BY <1>1, <1>2, LinesOfEmpty DEF TextIs

\* A read that publishes no partial line.
LEMMA TextIsRead ==
  ASSUME NEW x, NEW b \in Seq(Chars), NEW u \in Seq(Chars), NEW t,
         NEW p \in Seq(Seq(Chars)), NoNewline(b, 1, Len(b)), TextIs(x, t, b, p)
  PROVE  \E z : TextIs(z, t \o u, Rest(b \o u, Len(b)), p \o SplitNewlinesOnly(b \o u, Len(b)))
<1> DEFINE s == b \o u
           r == Rest(s, Len(b))
           l == SplitNewlinesOnly(s, Len(b))
<1>1. s \in Seq(Chars) /\ Len(b) \in 0..Len(s) /\ NoNewline(s, 1, Len(b))
  <2>1. /\ s \in Seq(Chars) /\ Len(s) = Len(b) + Len(u) /\ Len(b) \in Nat /\ Len(u) \in Nat
        /\ \A j \in 1..Len(b) : s[j] = b[j]
    BY ConcatIs
  <2> HIDE DEF s
  <2> QED BY <2>1 DEF NoNewline
<1> HIDE DEF s
<1>2. PICK y : RestOf(y, s, Len(b))
  BY <1>1, RestIs
<1>3. NoNewline(r, 1, Len(r)) /\ y \in Seq(Chars) /\ Ended(y) /\ s = y \o r
  BY <1>1, <1>2, RestIs DEF RestOf
<1>4. r \in Seq(Chars) /\ l \in Seq(Seq(Chars))
  BY <1>1, SplitKeeps
<1>5. SameLines(l, LinesOf(s))
  BY <1>1, SplitAgrees
<1> HIDE DEF r, l
<1>6. LinesOf(s) = LinesOf(y)
  <2>1. LinesOf(y \o r) = LinesOf(y) \o LinesOf(r)
    BY <1>3, <1>4, LinesConcat
  <2>2. LinesOf(r) = <<>>
    BY <1>3, <1>4, NoLines
  <2>3. LinesOf(y) \in Seq(Seq(Chars))
    BY <1>3, LinesType
  <2>4. LinesOf(y) \o <<>> = LinesOf(y)
    BY <2>3, Empty
  <2> QED BY <1>3, <2>1, <2>2, <2>4
<1>7. x \in Seq(Chars) /\ Ended(x) /\ t = x \o b /\ SameLines(p, LinesOf(x))
  BY DEF TextIs
<1>8. t \o u = (x \o y) \o r
  <2>1. BytesFollow(x, b, u)
    BY <1>7, Moves
  <2>2. t \o u = x \o s
    BY <1>7, <2>1 DEF BytesFollow, s
  <2>3. BytesFollow(x, y, r)
    BY <1>3, <1>4, <1>7, Moves
  <2>4. x \o s = (x \o y) \o r
    BY <1>3, <2>3 DEF BytesFollow
  <2> QED BY <2>2, <2>4
<1>9. SameLines(p \o l, LinesOf(x \o y))
  <2>1. LinesOf(x \o y) = LinesOf(x) \o LinesOf(y)
    BY <1>3, <1>7, LinesConcat
  <2>2. LinesOf(x) \in Seq(Seq(Chars)) /\ LinesOf(y) \in Seq(Seq(Chars))
    BY <1>3, <1>7, LinesType
  <2> DEFINE a == LinesOf(x)
             e == LinesOf(y)
  <2>3. SameLines(p, a) /\ SameLines(l, e) /\ a \in Seq(Seq(Chars)) /\ e \in Seq(Seq(Chars))
    BY <1>5, <1>6, <1>7, <2>2
  <2> HIDE DEF a, e
  <2>4. SameLines(p \o l, a \o e)
    BY <1>4, <2>3, SameLinesConcat
  <2> QED BY <2>1, <2>4 DEF a, e
<1>10. x \o y \in Seq(Chars) /\ Ended(x \o y)
  BY <1>3, <1>7, EndedConcat, ConcatType
<1>11. TextIs(x \o y, t \o u, r, p \o l)
  BY <1>8, <1>9, <1>10 DEF TextIs
<1> QED BY <1>11 DEF r, l, s

\* A read of u: the lines and the rest g are what was buffered and u.
ReadKept(a, b, u, g) == Strip(a \o g) = Strip(a \o b) \o Strip(u)

\* A read keeps the text that was framed.
LEMMA ReadKeeps ==
  ASSUME NEW a \in Seq(Chars), NEW b \in Seq(Chars), NEW u \in Seq(Chars),
         NEW g \in Seq(Chars), Strip(g) = Strip(b \o u)
  PROVE  ReadKept(a, b, u, g)
<1> DEFINE A == Strip(a)
           B == Strip(b)
           U == Strip(u)
<1>1. A \in Seq(Chars) /\ B \in Seq(Chars) /\ U \in Seq(Chars)
  BY StripType
<1>2. Strip(g) = B \o U
  BY StripConcat
<1>3. Strip(a \o g) = A \o (B \o U)
  BY <1>2, StripConcat
<1>4. Strip(a \o b) = A \o B
  BY StripConcat
<1> HIDE DEF A, B, U
<1>5. BytesFollow(A, B, U)
  BY <1>1, Moves
<1> QED BY <1>3, <1>4, <1>5 DEF BytesFollow, ReadKept, U

\* Reading n bytes.
LEMMA ReadStep ==
  ASSUME Typed, BufferOK, TextIsKept, TextOK, NEW n \in 0..Len(wire), NEW elapsed \in BOOLEAN,
         TransportRead(n, elapsed)
  PROVE  TextIsKept' /\ TextOK'
<1> DEFINE b == buffer
           u == Decode(SubSeq(wire, 1, n))
           s == b \o u
           l == SplitNewlinesOnly(s, Len(b))
           r == Rest(s, Len(b))
           now == elapsed /\ r # <<>>
           part == IF now THEN <<r>> ELSE <<>>
           P == FlattenSeq(published)
<1>1. /\ b \in Seq(Chars) /\ wire \in Seq(Bytes) /\ decoded \in Seq(Chars)
      /\ published \in Seq(Seq(Chars)) /\ NoNewline(b, 1, Len(b))
  BY DEF Typed, TrafficTyped, BufferOK
<1>3. u \in Seq(Chars) /\ s \in Seq(Chars) /\ Len(b) \in 0..Len(s) /\ NoNewline(s, 1, Len(b))
  BY <1>1, ReadIs
<1>4. /\ decoded' = decoded \o u /\ published' = (published \o l) \o part
      /\ buffer' = (IF now THEN <<>> ELSE r)
      /\ partial' = (partial \/ now)
  BY DEF TransportRead
<1> HIDE DEF b, u, s
<1>5. /\ l \in Seq(Seq(Chars)) /\ r \in Seq(Chars) /\ FlattenSeq(l) \in Seq(Chars)
      /\ Strip(FlattenSeq(l) \o r) = Strip(s)
  BY <1>3, SplitKeeps, FlattenType
<1>6. P \in Seq(Chars)
  BY <1>1, FlattenType
<1>7. TextIsKept'
  <2> DEFINE g == FlattenSeq(l) \o r
             F == FlattenSeq(l)
  <2>1. g \in Seq(Chars) /\ F \in Seq(Chars) /\ Strip(g) = Strip(b \o u)
    BY <1>5, ConcatType DEF s
  <2>2. FlattenSeq(published \o l) = P \o F /\ published \o l \in Seq(Seq(Chars))
    BY <1>1, <1>5, FlattenConcat, ConcatType
  <2>3. FlattenSeq(published') \o buffer' = (P \o F) \o r
    <3>1. CASE now
      <4>1. published' = (published \o l) \o <<r>> /\ buffer' = <<>>
        BY <1>4, <3>1
      <4>2. <<r>> \in Seq(Seq(Chars)) /\ FlattenSeq(<<r>>) = r
        BY <1>5, FlattenOne
      <4> DEFINE q == published \o l
      <4>3. q \in Seq(Seq(Chars)) /\ FlattenSeq(q) = P \o F
        BY <2>2
      <4> HIDE DEF q, r, P, F
      <4>4. FlattenSeq(q \o <<r>>) = (P \o F) \o r
        BY <4>2, <4>3, FlattenConcat, ZenonT(60)
      <4>5. (P \o F) \o r \in Seq(Chars)
        BY <1>5, <1>6, <2>1, ConcatType
      <4> QED BY <4>1, <4>4, <4>5, Empty DEF q
    <3>2. CASE ~now
      <4>1. published' = (published \o l) \o <<>> /\ buffer' = r
        BY <1>4, <3>2
      <4>2. published' = published \o l
        BY <2>2, <4>1, Empty
      <4> QED BY <2>2, <4>1, <4>2
    <3> QED BY <3>1, <3>2
  <2>4. BytesFollow(P, F, r)
    BY <1>5, <1>6, <2>1, Moves
  <2>5. FlattenSeq(published') \o buffer' = P \o g
    <3> HIDE DEF P
    <3> QED BY <2>3, <2>4 DEF BytesFollow
  <2>6. Strip(P \o g) = Strip(P \o b) \o Strip(u)
    <3> HIDE DEF P, g
    <3>1. ReadKept(P, b, u, g)
      BY <1>1, <1>3, <1>6, <2>1, ReadKeeps
    <3> QED BY <3>1 DEF ReadKept
  <2>7. Strip(P \o b) = Strip(decoded)
    BY DEF TextIsKept, b
  <2>8. Strip(decoded \o u) = Strip(decoded) \o Strip(u)
    BY <1>1, <1>3, StripConcat
  <2> HIDE DEF P, g, r, l
  <2>9. Strip(FlattenSeq(published') \o buffer') = Strip(decoded')
    BY <1>4, <2>5, <2>6, <2>7, <2>8
  <2> QED BY <2>9 DEF TextIsKept
<1>8. TextOK'
  <2>1. SUFFICES ASSUME ~partial' PROVE \E z : TextIs(z, decoded', buffer', published')
    BY DEF TextOK
  <2>2. ~partial /\ ~now
    BY <1>4, <2>1
  <2>3. published' = published \o l /\ buffer' = r
    <3>1. published' = (published \o l) \o <<>> /\ buffer' = r
      BY <1>4, <2>2
    <3>2. published \o l \in Seq(Seq(Chars))
      BY <1>1, <1>5, ConcatType
    <3> QED BY <3>1, <3>2, Empty
  <2>4. PICK x : TextIs(x, decoded, b, published)
    BY <2>2 DEF TextOK, b
  <2>5. \E z : TextIs(z, decoded \o u, Rest(b \o u, Len(b)),
                      published \o SplitNewlinesOnly(b \o u, Len(b)))
    BY <1>1, <1>3, <2>4, TextIsRead
  <2> QED BY <1>4, <2>3, <2>5 DEF s
<1> QED BY <1>7, <1>8

\* Every step keeps the text and its lines.
LEMMA TextStep ==
  Typed /\ BufferOK /\ TextIsKept /\ TextOK /\ [Next]_vars => (TextIsKept /\ TextOK)'
<1> SUFFICES ASSUME Typed, BufferOK, TextIsKept, TextOK, [Next]_vars PROVE (TextIsKept /\ TextOK)'
  OBVIOUS
<1> USE DEF vars, frozen, control, calls, port, writes, reads, history, marks
<1>1. UNCHANGED <<decoded, buffer, published, partial>> => TextIsKept' /\ TextOK'
  BY DEF TextIsKept, TextOK
<1>10. CASE UNCHANGED vars
  <2>1. UNCHANGED <<decoded, buffer, published, partial>>
    BY <1>10
  <2> QED BY <1>1, <2>1

<1>11. CASE StartTransportProcess
  <2>1. decoded' = <<>> /\ buffer' = <<>> /\ published' = <<>>
    BY <1>11 DEF StartTransportProcess
  <2>2. TextOK'
    BY <2>1, TextBegins DEF TextOK
  <2>3. <<>> \o <<>> = <<>>
    OBVIOUS
  <2> QED BY <2>1, <2>2, <2>3, FlattenNone DEF TextIsKept
<1>12. CASE StopTransportProcess
  <2>1. UNCHANGED <<decoded, buffer, published, partial>>
    BY <1>12 DEF StopTransportProcess
  <2> QED BY <1>1, <2>1
<1>13. CASE OpenTransport
  <2>1. UNCHANGED <<decoded, buffer, published, partial>>
    BY <1>13 DEF OpenTransport
  <2> QED BY <1>1, <2>1
<1>14. ASSUME NEW x \in BOOLEAN, CloseTransport(x) PROVE (TextIsKept /\ TextOK)'
  <2>1. UNCHANGED <<decoded, buffer, published, partial>>
    BY <1>14 DEF CloseTransport
  <2> QED BY <1>1, <2>1
<1>15. CASE Call
  <2>1. UNCHANGED <<decoded, buffer, published, partial>>
    BY <1>15 DEF Call
  <2> QED BY <1>1, <2>1
<1>16. ASSUME NEW n \in Nat, Send(n) PROVE (TextIsKept /\ TextOK)'
  <2>1. UNCHANGED <<decoded, buffer, published, partial>>
    BY <1>16 DEF Send
  <2> QED BY <1>1, <2>1
<1>17. CASE StopReturns
  <2>1. UNCHANGED <<decoded, buffer, published, partial>>
    BY <1>17 DEF StopReturns
  <2> QED BY <1>1, <2>1
<1>18. CASE StopKills
  <2>1. UNCHANGED <<decoded, buffer, published, partial>>
    BY <1>18 DEF StopKills
  <2> QED BY <1>1, <2>1
<1>19. CASE OpenReturns
  <2>1. UNCHANGED <<decoded, buffer, published, partial>>
    BY <1>19 DEF OpenReturns
  <2> QED BY <1>1, <2>1
<1>20. CASE CloseReturns
  <2>1. UNCHANGED <<decoded, buffer, published, partial>>
    BY <1>20 DEF CloseReturns
  <2> QED BY <1>1, <2>1
<1>21. CASE PollTimesOut
  <2>1. UNCHANGED <<decoded, buffer, published, partial>>
    BY <1>21 DEF PollTimesOut
  <2> QED BY <1>1, <2>1
<1>22. CASE XmodemDone
  <2>1. UNCHANGED <<decoded, buffer, published, partial>>
    BY <1>22 DEF XmodemDone
  <2> QED BY <1>1, <2>1
<1>23. CASE CallReturns
  <2>1. UNCHANGED <<decoded, buffer, published, partial>>
    BY <1>23 DEF CallReturns
  <2> QED BY <1>1, <2>1
<1>24. CASE ProcessExceptions
  <2>1. UNCHANGED <<decoded, buffer, published, partial>>
    BY <1>24 DEF ProcessExceptions
  <2> QED BY <1>1, <2>1
<1>25. CASE ChildHook
  <2>1. UNCHANGED <<decoded, buffer, published, partial>>
    BY <1>25 DEF ChildHook
  <2> QED BY <1>1, <2>1
<1>26. CASE ChildOpens
  <2>1. UNCHANGED <<decoded, buffer, published, partial>>
    BY <1>26 DEF ChildOpens
  <2> QED BY <1>1, <2>1
<1>27. CASE ChildRaises
  <2>1. UNCHANGED <<decoded, buffer, published, partial>>
    BY <1>27 DEF ChildRaises
  <2> QED BY <1>1, <2>1
<1>28. CASE ChildFails
  <2>1. UNCHANGED <<decoded, buffer, published, partial>>
    BY <1>28 DEF ChildFails
  <2> QED BY <1>1, <2>1
<1>29. CASE ChildEnds
  <2>1. UNCHANGED <<decoded, buffer, published, partial>>
    BY <1>29 DEF ChildEnds
  <2> QED BY <1>1, <2>1
<1>30. CASE ChildTerminates
  <2>1. UNCHANGED <<decoded, buffer, published, partial>>
    BY <1>30 DEF ChildTerminates
  <2> QED BY <1>1, <2>1
<1>31. CASE ChildTakesCommand
  <2>1. UNCHANGED <<decoded, buffer, published, partial>>
    BY <1>31 DEF ChildTakesCommand
  <2> QED BY <1>1, <2>1
<1>32. CASE ChildWorksOpen
  <2>1. PICK n \in 0..Len(wire), elapsed \in BOOLEAN : TransportRead(n, elapsed)
    BY <1>32 DEF ChildWorksOpen
  <2> QED BY <2>1, ReadStep
<1>33. CASE ChildWorksClosed
  <2>1. UNCHANGED <<decoded, buffer, published, partial>>
    BY <1>33 DEF ChildWorksClosed
  <2> QED BY <1>1, <2>1
<1>34. CASE PortDrops
  <2>1. UNCHANGED <<decoded, buffer, published, partial>>
    BY <1>34 DEF PortDrops
  <2> QED BY <1>1, <2>1
<1>35. ASSUME NEW c \in Characters, DeviceEmits(c) PROVE (TextIsKept /\ TextOK)'
  <2>1. UNCHANGED <<decoded, buffer, published, partial>>
    BY <1>35 DEF DeviceEmits
  <2> QED BY <1>1, <2>1
<1>36. CASE XmodemCloses
  <2>1. UNCHANGED <<decoded, buffer, published, partial>>
    BY <1>36 DEF XmodemCloses
  <2> QED BY <1>1, <2>1
<1>37. CASE XmodemReopens
  <2>1. UNCHANGED <<decoded, buffer, published, partial>>
    BY <1>37 DEF XmodemReopens
  <2> QED BY <1>1, <2>1
<1>38. CASE OtherChildFails
  <2>1. UNCHANGED <<decoded, buffer, published, partial>>
    BY <1>38 DEF OtherChildFails
  <2> QED BY <1>1, <2>1
<1>39. CASE ChildFailsUnheard
  <2>1. UNCHANGED <<decoded, buffer, published, partial>>
    BY <1>39 DEF ChildFailsUnheard
  <2> QED BY <1>1, <2>1
<1>9. \A n \in {1, MaxWriteBytes + 1} : n \in Nat
  BY LoadsAssumption
<1> QED BY <1>10, <1>11, <1>12, <1>13, <1>14, <1>15, <1>16, <1>17, <1>18, <1>19, <1>20, <1>21,
           <1>22, <1>23, <1>24, <1>25, <1>26, <1>27, <1>28, <1>29, <1>30, <1>31, <1>32, <1>33,
           <1>34, <1>35, <1>36, <1>37, <1>38, <1>39, <1>9
        DEF Next, Calls, MainContinues, ChildContinues

\* There is no text at first.
LEMMA TextInit == Init => TextIsKept /\ TextOK
<1> SUFFICES ASSUME Init PROVE TextIsKept /\ TextOK
  OBVIOUS
<1>1. decoded = <<>> /\ buffer = <<>> /\ published = <<>>
  BY DEF Init
<1>2. <<>> \o <<>> = <<>>
  OBVIOUS
<1> QED BY <1>1, <1>2, TextBegins, FlattenNone DEF TextIsKept, TextOK

\* What a reader wants to know of the lines follows.
LEMMA LinesFollow == Typed /\ BufferOK /\ TextOK => LinesAsWhole
<1> SUFFICES ASSUME Typed, BufferOK, TextOK, ~partial
             PROVE  LET lines == LinesOf(decoded)
                    IN  /\ Len(published) = Len(lines)
                        /\ \A k \in DOMAIN lines :
                             /\ Strip(published[k]) = Strip(lines[k])
                             /\ Len(lines[k]) > FirstWidth(lines[k]) + 1
                                  => published[k] = lines[k]
  BY DEF LinesAsWhole
<1>1. PICK x : TextIs(x, decoded, buffer, published)
  BY DEF TextOK
<1>2. /\ x \in Seq(Chars) /\ buffer \in Seq(Chars)
      /\ decoded = x \o buffer /\ Ended(x) /\ SameLines(published, LinesOf(x))
  BY <1>1 DEF TextIs, Typed, TrafficTyped
<1>5. LinesOf(decoded) = LinesOf(x)
  <2>1. LinesOf(decoded) = LinesOf(x) \o LinesOf(buffer)
    BY <1>2, LinesConcat
  <2>2. LinesOf(buffer) = <<>>
    BY <1>2, NoLines DEF BufferOK
  <2>3. LinesOf(x) \in Seq(Seq(Chars))
    BY <1>2, LinesType
  <2> QED BY <2>1, <2>2, <2>3, Empty
<1>6. DOMAIN LinesOf(x) = 1..Len(LinesOf(x))
  <2>1. LinesOf(x) \in Seq(Seq(Chars))
    BY <1>2, LinesType
  <2> QED BY <2>1
<1> QED BY <1>2, <1>5, <1>6 DEF SameLines, SameLine

-----------------------------------------------------------------------------
(* Characters that a read ended inside of.                                 *)

\* Of the text t the bytes d were read and decoded, those of w were not; reads
\* ended after the bytes whose numbers are in o.
Cuts(t, d, w, o) ==
  /\ Len(t) = Len(d) + Len(w) /\ \A j \in 1..Len(w) : w[j] = t[Len(d) + j]
  /\ \A i \in 1..Len(t) : t[i] = "lead" => i + 1 \in 1..Len(t) /\ t[i + 1] = "cont"
  /\ \A i \in 2..Len(t) : t[i] = "cont" => t[i - 1] = "lead"
  /\ o \subseteq 0..Len(d) /\ \A i \in o : i # 0 => t[i] = "lead"
  /\ 0 \in o <=> Len(t) > 0 /\ t[1] = "cont"
  /\ Len(d) > 0 /\ t[Len(d)] = "lead" => Len(d) \in o
  /\ \A i \in 1..Len(d) : d[i] = IF i \in o \/ i - 1 \in o THEN "?" ELSE t[i]

CutsOK == Cuts(text, decoded, wire, torn)

\* A child that takes over the bytes that its predecessor did not read.
LEMMA CutsBegin ==
  ASSUME NEW t \in Seq(Bytes), NEW d \in Seq(Chars), NEW w \in Seq(Bytes), NEW o \in SUBSET Nat,
         Cuts(t, d, w, o)
  PROVE  Cuts(w, <<>>, w, IF w # <<>> /\ Head(w) = "cont" THEN {0} ELSE {})
<1>1. /\ Len(t) \in Nat /\ Len(d) \in Nat /\ Len(w) \in Nat
      /\ w # <<>> <=> Len(w) > 0
      /\ w # <<>> => Head(w) = w[1]
      /\ Len(<<>>) = 0
  BY EmptySeq
<1>2. \A j \in 1..Len(w) : w[j] = "lead" => j + 1 \in 1..Len(w) /\ w[j + 1] = "cont"
  <2> TAKE j \in 1..Len(w)
  <2> HAVE w[j] = "lead"
  <2>1. Len(d) + j \in 1..Len(t) /\ t[Len(d) + j] = "lead"
    BY <1>1 DEF Cuts
  <2>2. Len(d) + j + 1 \in 1..Len(t) /\ t[Len(d) + j + 1] = "cont"
    BY <2>1 DEF Cuts
  <2>3. j + 1 \in 1..Len(w) /\ Len(d) + (j + 1) = Len(d) + j + 1
    BY <1>1, <2>2 DEF Cuts
  <2> QED BY <2>2, <2>3 DEF Cuts
<1>3. \A j \in 2..Len(w) : w[j] = "cont" => w[j - 1] = "lead"
  <2> TAKE j \in 2..Len(w)
  <2> HAVE w[j] = "cont"
  <2>1. Len(d) + j \in 2..Len(t) /\ t[Len(d) + j] = "cont"
    BY <1>1 DEF Cuts
  <2>2. t[Len(d) + j - 1] = "lead"
    BY <2>1 DEF Cuts
  <2>3. j - 1 \in 1..Len(w) /\ Len(d) + (j - 1) = Len(d) + j - 1
    BY <1>1
  <2> QED BY <2>2, <2>3 DEF Cuts
<1> QED BY <1>1, <1>2, <1>3 DEF Cuts

\* The device says the bytes c of a character.
LEMMA CutsGrow ==
  ASSUME NEW t \in Seq(Bytes), NEW d \in Seq(Chars), NEW w \in Seq(Bytes), NEW o \in SUBSET Nat,
         Cuts(t, d, w, o), NEW c \in Characters
  PROVE  Cuts(t \o c, d, w \o c, o)
<1>1. /\ c \in Seq(Bytes) /\ Len(c) \in 1..2 /\ c[1] # "cont"
      /\ \A i \in 1..Len(c) : c[i] = "lead" => i + 1 \in 1..Len(c) /\ c[i + 1] = "cont"
      /\ \A i \in 2..Len(c) : c[i] = "cont" => c[i - 1] = "lead"
  <2>1. c \in Seq(Bytes)
    BY CharacterType
  <2>2. c = <<"a">> \/ c = <<"\r">> \/ c = <<"\n">> \/ c = <<"lead", "cont">>
    BY DEF Characters
  <2> QED BY <2>1, <2>2
<1>2. /\ Len(t \o c) = Len(t) + Len(c) /\ Len(t) \in Nat /\ Len(c) \in Nat
      /\ \A i \in 1..Len(t) : (t \o c)[i] = t[i]
      /\ \A i \in 1..Len(c) : (t \o c)[Len(t) + i] = c[i]
  BY <1>1, ConcatIs
<1>3. /\ Len(w \o c) = Len(w) + Len(c) /\ Len(w) \in Nat /\ Len(d) \in Nat
      /\ \A i \in 1..Len(w) : (w \o c)[i] = w[i]
      /\ \A i \in 1..Len(c) : (w \o c)[Len(w) + i] = c[i]
  BY <1>1, ConcatIs
<1> DEFINE s == t \o c
           v == w \o c
<1>4. \A i \in 1..Len(s) : i \in 1..Len(t) \/ (i - Len(t) \in 1..Len(c) /\ s[i] = c[i - Len(t)])
  <2> TAKE i \in 1..Len(s)
  <2>1. i \in 1..Len(t) \/ i - Len(t) \in 1..Len(c)
    BY <1>2
  <2>2. Len(t) + (i - Len(t)) = i
    BY <1>2
  <2> QED BY <1>2, <2>1, <2>2
<1>5. Len(t) = Len(d) + Len(w)
  BY DEF Cuts
<1>6. \A j \in 1..Len(v) : v[j] = s[Len(d) + j]
  <2> TAKE j \in 1..Len(v)
  <2>1. CASE j \in 1..Len(w)
    <3>1. Len(d) + j \in 1..Len(t)
      BY <1>3, <1>5, <2>1
    <3> QED BY <1>2, <1>3, <2>1, <3>1 DEF Cuts
  <2>2. CASE j \notin 1..Len(w)
    <3>1. j - Len(w) \in 1..Len(c) /\ Len(w) + (j - Len(w)) = j
          /\ Len(d) + j = Len(t) + (j - Len(w))
      BY <1>3, <1>5, <2>2
    <3> QED BY <1>2, <1>3, <3>1
  <2> QED BY <2>1, <2>2
<1> HIDE DEF s, v
<1>7. Len(s) = Len(t) + Len(c) /\ Len(v) = Len(w) + Len(c)
  BY <1>2, <1>3 DEF s, v
<1>8. \A i \in 1..Len(t) : s[i] = t[i]
  BY <1>2 DEF s
<1>9. \A i \in 1..Len(s) : s[i] = "lead" => i + 1 \in 1..Len(s) /\ s[i + 1] = "cont"
  <2> TAKE i \in 1..Len(s)
  <2> HAVE s[i] = "lead"
  <2>1. CASE i \in 1..Len(t)
    <3>1. i + 1 \in 1..Len(t) /\ t[i + 1] = "cont"
      BY <1>8, <2>1 DEF Cuts
    <3> QED BY <1>2, <1>7, <1>8, <3>1
  <2>2. CASE i \notin 1..Len(t)
    <3>1. i - Len(t) \in 1..Len(c) /\ c[i - Len(t)] = "lead"
      BY <1>4, <2>2
    <3>2. i - Len(t) + 1 \in 1..Len(c) /\ c[i - Len(t) + 1] = "cont"
      BY <1>1, <3>1
    <3>3. i + 1 \in 1..Len(s) /\ Len(t) + (i - Len(t) + 1) = i + 1
      BY <1>2, <1>7, <3>2
    <3> QED BY <1>2, <3>2, <3>3 DEF s
  <2> QED BY <2>1, <2>2
<1>10. \A i \in 2..Len(s) : s[i] = "cont" => s[i - 1] = "lead"
  <2> TAKE i \in 2..Len(s)
  <2> HAVE s[i] = "cont"
  <2>0. i \in 1..Len(s)
    BY <1>2, <1>7
  <2>1. CASE i \in 1..Len(t)
    <3>1. i \in 2..Len(t) /\ i - 1 \in 1..Len(t)
      BY <1>2, <2>1
    <3> QED BY <1>8, <2>1, <3>1 DEF Cuts
  <2>2. CASE i \notin 1..Len(t)
    <3>1. i - Len(t) \in 1..Len(c) /\ c[i - Len(t)] = "cont"
      BY <1>4, <2>0, <2>2
    <3>2. i - Len(t) \in 2..Len(c)
      BY <1>1, <3>1
    <3>3. c[i - Len(t) - 1] = "lead" /\ i - Len(t) - 1 \in 1..Len(c)
      BY <1>1, <3>1, <3>2
    <3>4. Len(t) + (i - Len(t) - 1) = i - 1
      BY <1>2
    <3> QED BY <1>2, <3>3, <3>4 DEF s
  <2> QED BY <2>1, <2>2
<1>11. 0 \in o <=> Len(s) > 0 /\ s[1] = "cont"
  <2>1. CASE Len(t) > 0
    <3>1. 1 \in 1..Len(t) /\ Len(s) > 0
      BY <1>2, <1>7, <2>1
    <3> QED BY <1>8, <2>1, <3>1 DEF Cuts
  <2>2. CASE ~(Len(t) > 0)
    <3>1. Len(t) = 0 /\ 1 \in 1..Len(c) /\ Len(t) + 1 = 1
      BY <1>1, <1>2, <2>2
    <3>2. s[1] = c[1]
      BY <1>2, <3>1 DEF s
    <3> QED BY <1>1, <2>2, <3>2 DEF Cuts
  <2> QED BY <2>1, <2>2
<1>12. \A i \in 1..Len(d) : i \in 1..Len(t)
  BY <1>2, <1>3, <1>5
<1>13. \A i \in o : i # 0 => i \in 1..Len(d)
  BY <1>3 DEF Cuts
<1>14. \A i \in o : i # 0 => s[i] = "lead"
  BY <1>8, <1>12, <1>13 DEF Cuts
<1>15. Len(d) > 0 /\ s[Len(d)] = "lead" => Len(d) \in o
  <2>1. Len(d) > 0 => Len(d) \in 1..Len(d)
    BY <1>3
  <2> QED BY <1>8, <1>12, <2>1 DEF Cuts
<1>16. \A i \in 1..Len(d) : d[i] = IF i \in o \/ i - 1 \in o THEN "?" ELSE s[i]
  BY <1>8, <1>12 DEF Cuts
<1>17. Len(s) = Len(d) + Len(v) /\ o \subseteq 0..Len(d)
  BY <1>2, <1>3, <1>5, <1>7 DEF Cuts
<1> QED BY <1>6, <1>9, <1>10, <1>11, <1>14, <1>15, <1>16, <1>17 DEF Cuts, s, v

\* What a read of the first n bytes of w makes of them.
LEMMA DecodedIs ==
  ASSUME NEW w \in Seq(Bytes), NEW n \in 0..Len(w)
  PROVE  LET u == Decode(SubSeq(w, 1, n))
         IN  /\ u \in Seq(Chars) /\ Len(u) = n
             /\ \A i \in 1..n :
                  u[i] = IF CASE w[i] = "lead" -> i < n /\ w[i + 1] = "cont"
                              [] w[i] = "cont" -> i > 1 /\ w[i - 1] = "lead"
                              [] OTHER -> TRUE
                         THEN w[i] ELSE "?"
<1> DEFINE s == SubSeq(w, 1, n)
           u == Decode(s)
<1>1. s \in Seq(Bytes) /\ Len(s) = n /\ \A i \in 1..n : s[i] = w[i]
  BY WireParts
<1> HIDE DEF s
<1>2. u \in Seq(Chars) /\ Len(u) = n /\ \A i \in 1..n : u[i] = IF IsWhole(s, i) THEN s[i] ELSE "?"
  BY <1>1, DecodeType
<1>3. ASSUME NEW i \in 1..n
      PROVE  IsWhole(s, i) <=> CASE w[i] = "lead" -> i < n /\ w[i + 1] = "cont"
                                 [] w[i] = "cont" -> i > 1 /\ w[i - 1] = "lead"
                                 [] OTHER -> TRUE
  <2>1. s[i] = w[i] /\ (i < n => s[i + 1] = w[i + 1]) /\ (i > 1 => s[i - 1] = w[i - 1])
    <3>1. (i < n => i + 1 \in 1..n) /\ (i > 1 => i - 1 \in 1..n)
      OBVIOUS
    <3> QED BY <1>1, <3>1
  <2>2. "lead" # "cont"
    OBVIOUS
  <2>3. CASE w[i] = "lead"
    BY <1>1, <2>1, <2>2, <2>3 DEF IsWhole
  <2>4. CASE w[i] = "cont"
    BY <1>1, <2>1, <2>2, <2>4 DEF IsWhole
  <2>5. CASE w[i] # "lead" /\ w[i] # "cont"
    BY <1>1, <2>1, <2>2, <2>5 DEF IsWhole
  <2> QED BY <2>3, <2>4, <2>5
<1> QED BY <1>1, <1>2, <1>3 DEF s

\* A read of n bytes.
LEMMA CutsRead ==
  ASSUME NEW t \in Seq(Bytes), NEW d \in Seq(Chars), NEW w \in Seq(Bytes), NEW o \in SUBSET Nat,
         Cuts(t, d, w, o), NEW n \in 0..Len(w)
  PROVE  Cuts(t, d \o Decode(SubSeq(w, 1, n)), SubSeq(w, n + 1, Len(w)),
              IF n > 0 /\ w[n] = "lead" THEN o \cup {Len(d) + n} ELSE o)
<1> DEFINE u == Decode(SubSeq(w, 1, n))
           v == SubSeq(w, n + 1, Len(w))
           e == d \o u
           q == IF n > 0 /\ w[n] = "lead" THEN o \cup {Len(d) + n} ELSE o
<1>1. /\ u \in Seq(Chars) /\ Len(u) = n
      /\ \A i \in 1..n :
           u[i] = IF CASE w[i] = "lead" -> i < n /\ w[i + 1] = "cont"
                       [] w[i] = "cont" -> i > 1 /\ w[i - 1] = "lead"
                       [] OTHER -> TRUE
                  THEN w[i] ELSE "?"
  BY DecodedIs
<1>2. Len(v) = Len(w) - n /\ \A j \in 1..Len(w) - n : v[j] = w[n + j]
  OBVIOUS
<1> HIDE DEF u, v
<1>3. /\ Len(e) = Len(d) + n /\ Len(d) \in Nat /\ n \in Nat /\ Len(t) \in Nat /\ Len(w) \in Nat
      /\ \A i \in 1..Len(d) : e[i] = d[i]
      /\ \A i \in 1..n : e[Len(d) + i] = u[i]
  <2>3. u \in Seq(Chars)
    BY <1>1
  <2>1. /\ Len(e) = Len(d) + Len(u) /\ Len(d) \in Nat
        /\ \A i \in 1..Len(d) : e[i] = d[i]
        /\ \A i \in 1..Len(u) : e[Len(d) + i] = u[i]
    BY <2>3, ConcatIs
  <2>2. n \in Nat /\ Len(t) \in Nat /\ Len(w) \in Nat /\ Len(u) = n
    BY <1>1
  <2> QED BY <2>1, <2>2
<1> HIDE DEF e
<1>4. Len(t) = Len(d) + Len(w)
  BY DEF Cuts
<1>5. \A i \in 1..n : w[i] = t[Len(d) + i] /\ Len(d) + i \in 1..Len(t)
  BY <1>3, <1>4 DEF Cuts
<1>6. \A j \in 1..Len(v) : v[j] = t[Len(e) + j]
  <2> TAKE j \in 1..Len(v)
  <2>1. n + j \in 1..Len(w) /\ Len(d) + (n + j) = Len(e) + j /\ v[j] = w[n + j]
    BY <1>2, <1>3
  <2> QED BY <2>1 DEF Cuts
<1>7. q \subseteq 0..Len(e) /\ \A i \in q : i # 0 => t[i] = "lead"
  <2>1. o \subseteq 0..Len(e)
    BY <1>3 DEF Cuts
  <2>2. CASE n > 0 /\ w[n] = "lead"
    <3>1. n \in 1..n /\ Len(d) + n \in 0..Len(e) /\ q = o \cup {Len(d) + n}
      BY <1>3, <2>2
    <3> QED BY <1>5, <2>1, <2>2, <3>1 DEF Cuts
  <2>3. CASE ~(n > 0 /\ w[n] = "lead")
    BY <2>1, <2>3 DEF Cuts
  <2> QED BY <2>2, <2>3
<1>8. 0 \in q <=> Len(t) > 0 /\ t[1] = "cont"
  <2>1. n > 0 => Len(d) + n # 0
    BY <1>3
  <2> QED BY <2>1 DEF Cuts
<1>9. Len(e) > 0 /\ t[Len(e)] = "lead" => Len(e) \in q
  <2>1. CASE n > 0
    <3>1. n \in 1..n /\ Len(e) = Len(d) + n
      BY <1>3, <2>1
    <3> QED BY <1>5, <2>1, <3>1
  <2>2. CASE ~(n > 0)
    <3>1. Len(e) = Len(d) /\ q = o
      BY <1>3, <2>2
    <3> QED BY <3>1 DEF Cuts
  <2> QED BY <2>1, <2>2
<1>10. \A i \in 1..Len(d) : e[i] = IF i \in q \/ i - 1 \in q THEN "?" ELSE t[i]
  <2> TAKE i \in 1..Len(d)
  <2>1. d[i] = IF i \in o \/ i - 1 \in o THEN "?" ELSE t[i]
    BY DEF Cuts
  <2>2. n > 0 => i # Len(d) + n /\ i - 1 # Len(d) + n
    BY <1>3
  <2>3. (i \in q <=> i \in o) /\ (i - 1 \in q <=> i - 1 \in o)
    BY <2>2
  <2> QED BY <1>3, <2>1, <2>3
<1>11. ASSUME NEW k \in 1..n
       PROVE  e[Len(d) + k] = IF Len(d) + k \in q \/ Len(d) + k - 1 \in q
                              THEN "?" ELSE t[Len(d) + k]
  <2> DEFINE i == Len(d) + k
  <2>1. i \in 1..Len(t) /\ w[k] = t[i] /\ e[i] = u[k]
    BY <1>3, <1>5
  <2>2. i \in q <=> k = n /\ t[i] = "lead"
    <3>1. i \notin o
      BY <1>3 DEF Cuts
    <3>2. n > 0 /\ (i = Len(d) + n <=> k = n)
      <4>1. n > 0
        OBVIOUS
      <4>2. k \in Nat /\ n \in Nat /\ Len(d) \in Nat
        BY <1>3
      <4>3. Len(d) + k = Len(d) + n <=> k = n
        BY <4>2
      <4> QED BY <4>1, <4>3
    <3> QED BY <2>1, <3>1, <3>2
  <2>3. i - 1 \in q <=> k = 1 /\ t[i] = "cont"
    <3>1. i - 1 # Len(d) + n
      BY <1>3
    <3>2. i - 1 \in q <=> i - 1 \in o
      BY <3>1
    <3>3. CASE k # 1
      <4>1. i - 1 \notin 0..Len(d)
        BY <1>3, <3>3
      <4> QED BY <3>2, <3>3, <4>1 DEF Cuts
    <3>4. CASE k = 1 /\ Len(d) = 0
      <4>1. i - 1 = 0 /\ i = 1 /\ Len(t) > 0
        BY <1>3, <1>5, <3>4
      <4> QED BY <3>2, <3>4, <4>1 DEF Cuts
    <3>5. CASE k = 1 /\ Len(d) > 0
      <4>1. /\ i - 1 = Len(d) /\ Len(d) \in 1..Len(t) /\ i = Len(d) + 1 /\ Len(d) # 0
            /\ i \in 2..Len(t) /\ i - 1 = Len(d)
        BY <1>3, <1>5, <2>1, <3>5
      <4>2. Len(d) \in o <=> t[Len(d)] = "lead"
        BY <3>5, <4>1 DEF Cuts
      <4>3. t[Len(d)] = "lead" <=> t[i] = "cont"
        BY <4>1 DEF Cuts
      <4> QED BY <3>2, <3>5, <4>1, <4>2, <4>3
    <3> QED BY <1>3, <3>3, <3>4, <3>5
  <2>4. "lead" # "cont"
    OBVIOUS
  <2>5. CASE t[i] = "lead"
    <3>1. t[i + 1] = "cont"
      BY <2>1, <2>5 DEF Cuts
    <3>2. k < n => w[k + 1] = "cont"
      <4>1. k < n => k + 1 \in 1..n /\ Len(d) + (k + 1) = i + 1
        BY <1>3
      <4> QED BY <1>5, <3>1, <4>1
    <3>3. u[k] = IF k < n THEN w[k] ELSE "?"
      BY <1>1, <2>1, <2>5, <3>2
    <3> QED BY <2>1, <2>2, <2>3, <2>4, <2>5, <3>3
  <2>6. CASE t[i] = "cont"
    <3>1. k > 1 => w[k - 1] = "lead"
      <4>1. k > 1 => k - 1 \in 1..n /\ Len(d) + (k - 1) = i - 1 /\ i \in 2..Len(t)
        BY <1>3, <2>1
      <4>2. k > 1 => t[i - 1] = "lead"
        BY <2>6, <4>1 DEF Cuts
      <4>3. k > 1 => w[k - 1] = t[Len(d) + (k - 1)]
        BY <1>5, <4>1
      <4> QED BY <4>1, <4>2, <4>3
    <3>2. u[k] = IF k > 1 THEN w[k] ELSE "?"
      BY <1>1, <2>1, <2>4, <2>6, <3>1
    <3> QED BY <2>1, <2>2, <2>3, <2>4, <2>6, <3>2
  <2>7. CASE t[i] # "lead" /\ t[i] # "cont"
    <3>1. u[k] = w[k]
      BY <1>1, <2>1, <2>7
    <3> QED BY <2>1, <2>2, <2>3, <2>7, <3>1
  <2> QED BY <2>5, <2>6, <2>7
<1>12. \A i \in 1..Len(e) : e[i] = IF i \in q \/ i - 1 \in q THEN "?" ELSE t[i]
  <2> TAKE i \in 1..Len(e)
  <2>1. i \in 1..Len(d) \/ (i - Len(d) \in 1..n /\ Len(d) + (i - Len(d)) = i)
    BY <1>3
  <2> HIDE DEF q
  <2>2. CASE i \in 1..Len(d)
    BY <1>10, <2>2
  <2>3. CASE i - Len(d) \in 1..n /\ Len(d) + (i - Len(d)) = i
    <3> DEFINE k == i - Len(d)
    <3>1. k \in 1..n /\ Len(d) + k = i
      BY <2>3
    <3> HIDE DEF k
    <3>2. e[Len(d) + k] = IF Len(d) + k \in q \/ Len(d) + k - 1 \in q
                          THEN "?" ELSE t[Len(d) + k]
      BY <1>11, <3>1
    <3> QED BY <3>1, <3>2
  <2> QED BY <2>1, <2>2, <2>3
<1>13. Len(t) = Len(e) + Len(v)
  BY <1>2, <1>3, <1>4
<1> QED BY <1>6, <1>7, <1>8, <1>9, <1>12, <1>13 DEF Cuts, e, u, v

\* Every step keeps what is known of the bytes that were read.
LEMMA CutsStep == Typed /\ CutsOK /\ [Next]_vars => CutsOK'
<1> SUFFICES ASSUME Typed, CutsOK, [Next]_vars PROVE CutsOK'
  OBVIOUS
<1> USE DEF vars, frozen, control, calls, port, writes, reads, history, marks
<1>1. UNCHANGED <<text, wire, decoded, torn>> => CutsOK'
  BY DEF CutsOK
<1>2. /\ text \in Seq(Bytes) /\ wire \in Seq(Bytes) /\ decoded \in Seq(Chars)
      /\ torn \in SUBSET Nat /\ Cuts(text, decoded, wire, torn)
  BY DEF Typed, TrafficTyped, MarksTyped, CutsOK
<1>10. CASE UNCHANGED vars
  <2>1. UNCHANGED <<text, wire, decoded, torn>>
    BY <1>10
  <2> QED BY <1>1, <2>1
<1>11. CASE StartTransportProcess
  <2>1. /\ text' = wire /\ wire' = wire /\ decoded' = <<>>
        /\ torn' = IF wire # <<>> /\ Head(wire) = "cont" THEN {0} ELSE {}
    BY <1>11 DEF StartTransportProcess
  <2>2. Cuts(wire, <<>>, wire, IF wire # <<>> /\ Head(wire) = "cont" THEN {0} ELSE {})
    BY <1>2, CutsBegin
  <2> QED BY <2>1, <2>2 DEF CutsOK
<1>12. CASE StopTransportProcess
  <2>1. UNCHANGED <<text, wire, decoded, torn>>
    BY <1>12 DEF StopTransportProcess
  <2> QED BY <1>1, <2>1
<1>13. CASE OpenTransport
  <2>1. UNCHANGED <<text, wire, decoded, torn>>
    BY <1>13 DEF OpenTransport
  <2> QED BY <1>1, <2>1
<1>14. ASSUME NEW x \in BOOLEAN, CloseTransport(x) PROVE CutsOK'
  <2>1. UNCHANGED <<text, wire, decoded, torn>>
    BY <1>14 DEF CloseTransport
  <2> QED BY <1>1, <2>1
<1>15. CASE Call
  <2>1. UNCHANGED <<text, wire, decoded, torn>>
    BY <1>15 DEF Call
  <2> QED BY <1>1, <2>1
<1>16. ASSUME NEW n \in Nat, Send(n) PROVE CutsOK'
  <2>1. UNCHANGED <<text, wire, decoded, torn>>
    BY <1>16 DEF Send
  <2> QED BY <1>1, <2>1
<1>17. CASE StopReturns
  <2>1. UNCHANGED <<text, wire, decoded, torn>>
    BY <1>17 DEF StopReturns
  <2> QED BY <1>1, <2>1
<1>18. CASE StopKills
  <2>1. UNCHANGED <<text, wire, decoded, torn>>
    BY <1>18 DEF StopKills
  <2> QED BY <1>1, <2>1
<1>19. CASE OpenReturns
  <2>1. UNCHANGED <<text, wire, decoded, torn>>
    BY <1>19 DEF OpenReturns
  <2> QED BY <1>1, <2>1
<1>20. CASE CloseReturns
  <2>1. UNCHANGED <<text, wire, decoded, torn>>
    BY <1>20 DEF CloseReturns
  <2> QED BY <1>1, <2>1
<1>21. CASE PollTimesOut
  <2>1. UNCHANGED <<text, wire, decoded, torn>>
    BY <1>21 DEF PollTimesOut
  <2> QED BY <1>1, <2>1
<1>22. CASE XmodemDone
  <2>1. UNCHANGED <<text, wire, decoded, torn>>
    BY <1>22 DEF XmodemDone
  <2> QED BY <1>1, <2>1
<1>23. CASE CallReturns
  <2>1. UNCHANGED <<text, wire, decoded, torn>>
    BY <1>23 DEF CallReturns
  <2> QED BY <1>1, <2>1
<1>24. CASE ProcessExceptions
  <2>1. UNCHANGED <<text, wire, decoded, torn>>
    BY <1>24 DEF ProcessExceptions
  <2> QED BY <1>1, <2>1
<1>25. CASE ChildHook
  <2>1. UNCHANGED <<text, wire, decoded, torn>>
    BY <1>25 DEF ChildHook
  <2> QED BY <1>1, <2>1
<1>26. CASE ChildOpens
  <2>1. UNCHANGED <<text, wire, decoded, torn>>
    BY <1>26 DEF ChildOpens
  <2> QED BY <1>1, <2>1
<1>27. CASE ChildRaises
  <2>1. UNCHANGED <<text, wire, decoded, torn>>
    BY <1>27 DEF ChildRaises
  <2> QED BY <1>1, <2>1
<1>28. CASE ChildFails
  <2>1. UNCHANGED <<text, wire, decoded, torn>>
    BY <1>28 DEF ChildFails
  <2> QED BY <1>1, <2>1
<1>29. CASE ChildEnds
  <2>1. UNCHANGED <<text, wire, decoded, torn>>
    BY <1>29 DEF ChildEnds
  <2> QED BY <1>1, <2>1
<1>30. CASE ChildTerminates
  <2>1. UNCHANGED <<text, wire, decoded, torn>>
    BY <1>30 DEF ChildTerminates
  <2> QED BY <1>1, <2>1
<1>31. CASE ChildTakesCommand
  <2>1. UNCHANGED <<text, wire, decoded, torn>>
    BY <1>31 DEF ChildTakesCommand
  <2> QED BY <1>1, <2>1
<1>32. CASE ChildWorksOpen
  <2>1. PICK m \in 0..Len(wire), elapsed \in BOOLEAN : TransportRead(m, elapsed)
    BY <1>32 DEF ChildWorksOpen
  <2>2. /\ text' = text /\ wire' = SubSeq(wire, m + 1, Len(wire))
        /\ decoded' = decoded \o Decode(SubSeq(wire, 1, m))
        /\ torn' = IF m > 0 /\ wire[m] = "lead" THEN torn \cup {Len(decoded) + m} ELSE torn
    BY <2>1 DEF TransportRead
  <2>3. Cuts(text, decoded \o Decode(SubSeq(wire, 1, m)), SubSeq(wire, m + 1, Len(wire)),
             IF m > 0 /\ wire[m] = "lead" THEN torn \cup {Len(decoded) + m} ELSE torn)
    BY <1>2, CutsRead
  <2> QED BY <2>2, <2>3 DEF CutsOK
<1>33. CASE ChildWorksClosed
  <2>1. UNCHANGED <<text, wire, decoded, torn>>
    BY <1>33 DEF ChildWorksClosed
  <2> QED BY <1>1, <2>1
<1>34. CASE PortDrops
  <2>1. UNCHANGED <<text, wire, decoded, torn>>
    BY <1>34 DEF PortDrops
  <2> QED BY <1>1, <2>1
<1>35. ASSUME NEW c \in Characters, DeviceEmits(c) PROVE CutsOK'
  <2>1. text' = text \o c /\ wire' = wire \o c /\ UNCHANGED <<decoded, torn>>
    BY <1>35 DEF DeviceEmits
  <2>2. Cuts(text \o c, decoded, wire \o c, torn)
    BY <1>2, CutsGrow
  <2> QED BY <2>1, <2>2 DEF CutsOK
<1>36. CASE XmodemCloses
  <2>1. UNCHANGED <<text, wire, decoded, torn>>
    BY <1>36 DEF XmodemCloses
  <2> QED BY <1>1, <2>1
<1>37. CASE XmodemReopens
  <2>1. UNCHANGED <<text, wire, decoded, torn>>
    BY <1>37 DEF XmodemReopens
  <2> QED BY <1>1, <2>1
<1>38. CASE OtherChildFails
  <2>1. UNCHANGED <<text, wire, decoded, torn>>
    BY <1>38 DEF OtherChildFails
  <2> QED BY <1>1, <2>1
<1>39. CASE ChildFailsUnheard
  <2>1. UNCHANGED <<text, wire, decoded, torn>>
    BY <1>39 DEF ChildFailsUnheard
  <2> QED BY <1>1, <2>1
<1>9. \A k \in {1, MaxWriteBytes + 1} : k \in Nat
  BY LoadsAssumption
<1> QED BY <1>10, <1>11, <1>12, <1>13, <1>14, <1>15, <1>16, <1>17, <1>18, <1>19, <1>20,
           <1>21, <1>22, <1>23, <1>24, <1>25, <1>26, <1>27, <1>28, <1>29, <1>30, <1>31, <1>32,
           <1>33, <1>34, <1>35, <1>36, <1>37, <1>38, <1>39, <1>9
        DEF Next, Calls, MainContinues, ChildContinues

\* Nothing was said at first.
LEMMA CutsInit == Init => CutsOK
<1>1. Len(<<>>) = 0
  OBVIOUS
<1> QED BY <1>1 DEF Init, CutsOK, Cuts

\* What a reader wants to know of the characters follows.
LEMMA CharactersFollow == CutsOK => CharactersKept
BY DEF CutsOK, Cuts, CharactersKept, TornAt

\* What holds of the child, the port and the calls holds at first.
LEMMA ControlInit == Init => ChildOK /\ MainOK /\ OrdersOK /\ CallsOK
BY DEF Init, ChildOK, MainOK, OrdersOK, CallsOK, Low

IInv ==
  /\ Typed /\ BufferOK /\ ChildOK /\ MainOK /\ OrdersOK
  /\ WritesInOrder /\ TextIsKept /\ TextOK /\ CutsOK

\* All of it is invariant.
LEMMA Inductive == Spec => []IInv
<1>1. Init => IInv
  BY InitTyped, ControlInit, WritesInit, TextInit, CutsInit DEF IInv
<1>2. IInv /\ [Next]_vars => IInv'
  <2> SUFFICES ASSUME IInv, [Next]_vars PROVE IInv'
    OBVIOUS
  <2>1. /\ Typed /\ BufferOK /\ ChildOK /\ MainOK /\ OrdersOK /\ WritesInOrder
        /\ TextIsKept /\ TextOK /\ CutsOK
    BY DEF IInv
  <2>2. (Typed /\ BufferOK)'
    BY <2>1, TypedStep
  <2>3. ChildOK' /\ MainOK' /\ OrdersOK'
    BY <2>1, ChildStep, MainStep, OrdersStep
  <2>4. WritesInOrder' /\ (TextIsKept /\ TextOK)' /\ CutsOK'
    BY <2>1, WritesStep, TextStep, CutsStep
  <2> QED BY <2>2, <2>3, <2>4 DEF IInv
<1> QED BY <1>1, <1>2, PTL DEF Spec

\* The type invariant of the component follows.
LEMMA TypesFollow == Typed /\ WritesInOrder => TypeOK
<1> SUFFICES ASSUME Typed, WritesInOrder PROVE TypeOK
  OBVIOUS
<1>1. Len(OnTheWay(written, pending, commands)) + lost = sent
  BY WritesInOrderIs
<1>2. OnTheWay(written, pending, commands) \in Seq(1..sent) /\ sent \in Nat /\ lost \in Nat
  BY WayTyped
<1>3. Len(OnTheWay(written, pending, commands)) \in Nat
  BY <1>2
<1>4. lost \in 0..sent
  BY <1>1, <1>2, <1>3
<1>5. {text, wire} \subseteq Seq(Bytes) /\ {decoded, buffer} \subseteq Seq(Bytes \cup {"?"})
  BY DEF Typed, TrafficTyped, Chars
<1> QED BY <1>4, <1>5 DEF TypeOK, Typed, StateTyped, TrafficTyped, MarksTyped

\* For any load, chunk size and number of restarts, and wherever a signal of
\* another process ends what the main process does: the port ends as the last
\* open_transport or close_transport that returned said; it has two owners only
\* when close_transport met a child that had yet to open it, or when a signal cut
\* off the end of a transfer; and the terminate event is set only for a child that
\* is being stopped (PortIsRight).
THEOREM PortStaysRight == Spec => []PortIsRight
<1>1. IInv => PortIsRight
  BY PortFollows, TypesFollow DEF IInv, PortIsRight
<1> QED BY <1>1, Inductive, PTL

\* For any load and chunk size, and however the text is cut into reads: bytes
\* arrive in order, whole and once; every byte that the device said is decoded, but
\* for the characters that a read ended inside of; and the published lines are
\* those of the text that was decoded (TrafficIsWhole).
THEOREM TrafficStaysWhole == Spec => []TrafficIsWhole
<1>1. IInv => TrafficIsWhole
  BY LinesFollow, CharactersFollow DEF IInv, TrafficIsWhole
<1> QED BY <1>1, Inductive, PTL

\* For any number of calls, restarts, failures and signals, the answer that ends a
\* call() is that of the call, or of one before it by no more than the number of
\* calls that an exception ended (CallAnswersItself).
THEOREM CallsGetTheirOwnAnswer == Spec => CallAnswersItself
<1>1. Init => Typed /\ BufferOK /\ CallsOK
  BY InitTyped, ControlInit
<1>2. (Typed /\ BufferOK /\ CallsOK) /\ [Next]_vars => (Typed /\ BufferOK /\ CallsOK)'
  <2> SUFFICES ASSUME Typed, BufferOK, CallsOK, [Next]_vars PROVE (Typed /\ BufferOK /\ CallsOK)'
    OBVIOUS
  <2>1. (Typed /\ BufferOK)'
    BY TypedStep
  <2> QED BY <2>1, CallsStep
<1>3. Typed /\ CallsOK /\ [Next]_vars
        => [CallReturns => Head(results) \in (call - abandoned)..call]_vars
  BY CallsAnswerThemselves
<1> QED BY <1>1, <1>2, <1>3, PTL DEF Spec, CallAnswersItself
=============================================================================
