--------------------------- MODULE SequenceLemmas ---------------------------
(***************************************************************************)
(* Facts about sets of numbers, about flattened sequences and about        *)
(* sequences that elements are taken from, which the proofs about the      *)
(* components use.                                                         *)
(***************************************************************************)
EXTENDS Integers, SequencesExt, SequenceTheorems, FiniteSetTheorems, WellFoundedInduction, TLAPS

-----------------------------------------------------------------------------
(* Sets of numbers.                                                        *)

\* The smallest element of a set of naturals is in it and is the smallest.
LEMMA MinIs ==
  ASSUME NEW S \in SUBSET Nat, S # {}
  PROVE  Min(S) \in S /\ \A y \in S : Min(S) <= y
  <1> DEFINE R == {ss \in Nat \X Nat : ss[1] < ss[2]}
  <1>1. IsWellFoundedOn(R, Nat)
    BY NatLessThanWellFounded DEF OpToRel
  <1>2. PICK x \in S : \A y \in S : ~ (<<y, x>> \in R)
    <2> HIDE DEF R
    <2> QED BY <1>1, WFMin
  <1>3. ASSUME NEW y \in S PROVE x <= y
    <2>1. x \in Nat /\ y \in Nat /\ <<y, x>> \notin R BY <1>2
    <2>2. ~(y < x) BY <2>1
    <2> QED BY <2>1, <2>2
  <1> QED BY <1>3 DEF Min

\* The largest one of a bounded set.
LEMMA MaxIs ==
  ASSUME NEW n \in Nat, NEW S \in SUBSET (0..n), S # {}
  PROVE  Max(S) \in S /\ \A y \in S : Max(S) >= y
  <1> DEFINE T == {m \in 0..n : n - m \in S}
  <1>1. T \in SUBSET Nat /\ T # {}
    <2>1. PICK y \in S : TRUE OBVIOUS
    <2>2. n - y \in 0..n /\ n - (n - y) = y BY <2>1
    <2>3. n - y \in T BY <2>1, <2>2
    <2>4. T \in SUBSET Nat OBVIOUS
    <2> HIDE DEF T
    <2> QED BY <2>3, <2>4
  <1>2. Min(T) \in T /\ \A y \in T : Min(T) <= y
    <2> HIDE DEF T
    <2> QED BY <1>1, MinIs
  <1> DEFINE k == n - Min(T)
  <1>3. k \in S BY <1>2
  <1>4. ASSUME NEW y \in S PROVE k >= y
    <2>1. n - y \in T
      <3>1. n - y \in 0..n /\ n - (n - y) = y OBVIOUS
      <3> QED BY <3>1
    <2>2. Min(T) <= n - y BY <1>2, <2>1
    <2>3. Min(T) \in 0..n BY <1>2
    <2> QED BY <2>2, <2>3
  <1> HIDE DEF k
  <1> QED BY <1>3, <1>4 DEF Max

\* A set that holds 0 and the successor of each of its naturals holds them all.
LEMMA InductionOnNat ==
  ASSUME NEW S, 0 \in S, \A i \in Nat : i \in S => i + 1 \in S
  PROVE  Nat \subseteq S
  <1> DEFINE R == {ss \in Nat \X Nat : ss[1] < ss[2]}
             Out == {i \in Nat : i \notin S}
  <1>1. IsWellFoundedOn(R, Nat)
    BY NatLessThanWellFounded DEF OpToRel
  <1>2. ASSUME Out # {} PROVE FALSE
    <2>1. PICK x \in Out : \A y \in Out : ~ (<<y, x>> \in R)
      <3>1. Out \subseteq Nat OBVIOUS
      <3> HIDE DEF R, Out
      <3> QED BY <1>1, <1>2, <3>1, WFMin
    <2>2. x - 1 \in Nat /\ x - 1 < x
      BY <2>1
    <2>3. <<x - 1, x>> \in R
      BY <2>1, <2>2
    <2>4. x - 1 \in S
      BY <2>1, <2>2, <2>3
    <2>5. x - 1 + 1 = x
      BY <2>1
    <2> QED BY <2>1, <2>2, <2>4, <2>5
  <1> QED BY <1>2

\* A recursion along 0..n has a solution: S is where its values are.
LEMMA RecursionOnNat ==
  ASSUME NEW S, NEW a \in S, NEW m \in Nat, NEW step \in [1..m -> [S -> S]]
  PROVE  \E f \in [0..m -> S] :
           f[0] = a /\ \A i \in 1..m : f[i] = step[i][f[i - 1]]
  <1> DEFINE Solves(f, n) == f[0] = a /\ \A i \in 1..n : f[i] = step[i][f[i - 1]]
             N == {n \in Nat : n <= m => \E f \in [0..n -> S] : Solves(f, n)}
  <1>1. 0 \in N
    <2>1. [i \in 0..0 |-> a] \in [0..0 -> S] /\ Solves([i \in 0..0 |-> a], 0)
      OBVIOUS
    <2> QED BY <2>1
  <1>2. ASSUME NEW n \in Nat, n \in N PROVE n + 1 \in N
    <2> SUFFICES ASSUME n + 1 <= m PROVE \E f \in [0..(n + 1) -> S] : Solves(f, n + 1)
      OBVIOUS
    <2>1. PICK f \in [0..n -> S] : Solves(f, n)
      BY <1>2
    <2> DEFINE g == [i \in 0..(n + 1) |-> IF i = n + 1 THEN step[n + 1][f[n]] ELSE f[i]]
    <2>2. n + 1 \in 1..m /\ f[n] \in S
      BY <2>1
    <2>3. step[n + 1][f[n]] \in S
      BY <2>2
    <2>4. g \in [0..(n + 1) -> S]
      BY <2>1, <2>3
    <2>5. \A i \in 0..n : g[i] = f[i]
      OBVIOUS
    <2>6. g[n + 1] = step[n + 1][f[n]]
      OBVIOUS
    <2>7. ASSUME NEW i \in 1..(n + 1) PROVE g[i] = step[i][g[i - 1]]
      <3>1. CASE i = n + 1
        <4>1. g[i - 1] = f[n] BY <2>5, <3>1
        <4> QED BY <2>6, <3>1, <4>1
      <3>2. CASE i # n + 1
        <4>1. i \in 1..n /\ i - 1 \in 0..n BY <3>2
        <4> HIDE DEF g
        <4> QED BY <2>1, <2>5, <4>1
      <3> QED BY <3>1, <3>2
    <2>8. Solves(g, n + 1)
      <3>1. g[0] = a BY <2>1, <2>5
      <3> HIDE DEF g
      <3> QED BY <2>7, <3>1
    <2> QED BY <2>4, <2>8
  <1>3. m \in N
    <2> HIDE DEF N
    <2> QED BY <1>1, <1>2, InductionOnNat
  <1> QED BY <1>3

-----------------------------------------------------------------------------
(* Flattened sequences.                                                    *)

\* The same with opaque names, for provers that get lost in sets of functions.
IsStep(Q, n, step) == step \in [1..n -> [Q -> Q]]
IsRecursion(Q, n, a, step, f) ==
  f \in [0..n -> Q] /\ f[0] = a /\ \A i \in 1..n : f[i] = step[i][f[i - 1]]

LEMMA Recursion ==
  ASSUME NEW Q, NEW a \in Q, NEW n \in Nat, NEW step, IsStep(Q, n, step)
  PROVE  \E f : IsRecursion(Q, n, a, step, f)
  <1>1. \E f \in [0..n -> Q] : f[0] = a /\ \A i \in 1..n : f[i] = step[i][f[i - 1]]
    <2>1. step \in [1..n -> [Q -> Q]] BY DEF IsStep
    <2> QED BY <2>1, RecursionOnNat
  <1> QED BY <1>1 DEF IsRecursion

AreParts(S, n, part) == \A i \in 1..n : part[i] \in Seq(S)
IsConcat(S, n, part, f) ==
  f \in [0..n -> Seq(S)] /\ f[0] = <<>> /\ \A i \in 1..n : f[i] = f[i - 1] \o part[i]

LEMMA ConcatRecursion ==
  ASSUME NEW S, NEW n \in Nat, NEW part, AreParts(S, n, part)
  PROVE  \E f : IsConcat(S, n, part, f)
  <1> DEFINE step == [i \in 1..n |-> [w \in Seq(S) |-> w \o part[i]]]
  <1>1. step \in [1..n -> [Seq(S) -> Seq(S)]]
    BY ConcatProperties DEF AreParts
  <1> HIDE DEF step
  <1>2. PICK f \in [0..n -> Seq(S)] : f[0] = <<>> /\ \A i \in 1..n : f[i] = step[i][f[i - 1]]
    <2>1. IsStep(Seq(S), n, step) BY <1>1 DEF IsStep
    <2>2. <<>> \in Seq(S) OBVIOUS
    <2>3. \E f : IsRecursion(Seq(S), n, <<>>, step, f) BY <2>1, <2>2, Recursion, Zenon
    <2> QED BY <2>3 DEF IsRecursion
  <1>3. ASSUME NEW i \in 1..n PROVE f[i] = f[i - 1] \o part[i]
    <2>1. i - 1 \in 0..n OBVIOUS
    <2>2. f[i - 1] \in Seq(S) BY <1>2, <2>1
    <2>3. step[i][f[i - 1]] = f[i - 1] \o part[i] BY <2>2 DEF step
    <2> QED BY <1>2, <2>3
  <1> QED BY <1>2, <1>3 DEF IsConcat

\* What the recursion of FlattenSeq computes.
LEMMA FlattenSteps ==
  ASSUME NEW S, NEW ss \in Seq(Seq(S)), ss # <<>>
  PROVE  \E u \in [1..Len(ss) -> Seq(S)] :
           /\ FlattenSeq(ss) = u[Len(ss)]
           /\ u[1] = ss[1]
           /\ \A i \in 2..Len(ss) : u[i] = u[i - 1] \o ss[i]
  <1> DEFINE Q == Seq(S)
             n == Len(ss)
             Body(f) == [i \in 1..n |-> IF i = 1 THEN ss[i] ELSE f[i - 1] \o ss[i]]
  <1>1. n \in Nat /\ n # 0 /\ \A i \in 1..n : ss[i] \in Q
    OBVIOUS
  <1>2. PICK f \in [0..n -> Q] : f[0] = <<>> /\ \A i \in 1..n : f[i] = f[i - 1] \o ss[i]
    <2>1. n \in Nat /\ \A i \in 1..n : ss[i] \in Seq(S) BY <1>1
    <2> HIDE DEF n, Body
    <2>2. AreParts(S, n, ss) BY <2>1 DEF AreParts
    <2>3. \E f : IsConcat(S, n, ss, f) BY <2>1, <2>2, ConcatRecursion, Zenon
    <2> QED BY <2>3 DEF IsConcat
  <1>4. \A i \in 1..n : f[i - 1] \in Q /\ f[i] = f[i - 1] \o ss[i]
    <2> SUFFICES ASSUME NEW i \in 1..n PROVE f[i - 1] \in Q /\ f[i] = f[i - 1] \o ss[i]
      OBVIOUS
    <2>1. i - 1 \in 0..n BY <1>1
    <2>2. f[i - 1] \in Q
      <3> HIDE DEF Q
      <3> QED BY <1>2, <2>1
    <2> QED BY <1>2, <2>2
  <1> DEFINE g == [i \in 1..n |-> f[i]]
  <1>5. g \in [1..n -> Q]
    <2> HIDE DEF Q
    <2> QED BY <1>1, <1>2
  <1>6. g[1] = ss[1]
    <2>1. f[1] = f[0] \o ss[1]
      <3>1. 1 \in 1..n /\ 1 - 1 = 0 BY <1>1
      <3> QED BY <1>4, <3>1
    <2>2. ss[1] \in Q /\ 1 \in 1..n BY <1>1
    <2>3. <<>> \o ss[1] = ss[1] BY <2>2
    <2> QED BY <1>2, <2>1, <2>2, <2>3
  <1>7. \A i \in 2..n : g[i] = g[i - 1] \o ss[i]
    <2> SUFFICES ASSUME NEW i \in 2..n PROVE g[i] = g[i - 1] \o ss[i]
      OBVIOUS
    <2>1. i \in 1..n /\ i - 1 \in 1..n BY <1>1
    <2> QED BY <1>4, <2>1
  <1>8. g = Body(g)
    <2>1. ASSUME NEW i \in 1..n PROVE g[i] = Body(g)[i]
      <3> HIDE DEF g
      <3>1. CASE i = 1 BY <1>6, <3>1
      <3>2. CASE i # 1
        <4>1. i \in 2..n BY <1>1, <3>2
        <4> QED BY <1>7, <3>2, <4>1
      <3> QED BY <3>1, <3>2
    <2>2. g = [i \in 1..n |-> g[i]] OBVIOUS
    <2> HIDE DEF g
    <2> QED BY <2>1, <2>2
  <1> DEFINE h == CHOOSE x : x = Body(x)
  <1> HIDE DEF g
  <1>9. h = Body(h)
    <2> HIDE DEF Body
    <2> QED BY <1>8
  <1>10. FlattenSeq(ss) = h[n]
    BY <1>1 DEF FlattenSeq
  <1> HIDE DEF h
  <1>11. \A i \in 1..n : h[i] = IF i = 1 THEN ss[i] ELSE h[i - 1] \o ss[i]
    <2>1. \A i \in 1..n : h[i] = Body(h)[i] BY <1>9
    <2> QED BY <2>1
  <1>12. h[n] = g[n]
    <2> DEFINE T == {i \in Nat : i + 1 <= n => h[i + 1] = g[i + 1]}
    <2>1. 0 \in T
      <3>1. h[1] = ss[1] BY <1>1, <1>11
      <3> QED BY <1>6, <3>1
    <2>2. ASSUME NEW i \in Nat, i \in T PROVE i + 1 \in T
      <3> SUFFICES ASSUME (i + 1) + 1 <= n PROVE h[(i + 1) + 1] = g[(i + 1) + 1]
        OBVIOUS
      <3>1. (i + 1) + 1 \in 2..n /\ (i + 1) + 1 \in 1..n /\ ((i + 1) + 1) - 1 = i + 1 /\ (i + 1) + 1 # 1
        BY <1>1
      <3>2. h[i + 1] = g[i + 1] BY <1>1, <2>2, <3>1
      <3>3. h[(i + 1) + 1] = h[i + 1] \o ss[(i + 1) + 1] BY <1>11, <3>1
      <3>4. g[(i + 1) + 1] = g[i + 1] \o ss[(i + 1) + 1] BY <1>7, <3>1
      <3> QED BY <3>2, <3>3, <3>4
    <2>3. Nat \subseteq T
      <3> HIDE DEF T
      <3> QED BY <2>1, <2>2, InductionOnNat
    <2>4. n - 1 \in Nat /\ (n - 1) + 1 = n BY <1>1
    <2>5. n - 1 \in T BY <2>3, <2>4
    <2> QED BY <1>1, <2>4, <2>5
  <1> QED BY <1>5, <1>6, <1>7, <1>10, <1>12

LEMMA InFirst ==
  ASSUME NEW x \in Nat, NEW y \in Nat, NEW p \in Nat, NEW l \in Nat, NEW k \in 1..l, p + l <= x
  PROVE  p + k \in 1..(x + y) /\ p + k <= x
  OBVIOUS

LEMMA InSecond ==
  ASSUME NEW x \in Nat, NEW y \in Nat, NEW k \in 1..y
  PROVE  x + k \in 1..(x + y) /\ ~(x + k <= x) /\ (x + k) - x = k
  OBVIOUS

\* The parts of a flattened sequence lie one behind the other: o says where
\* each ends.
Placed(ss, f, o) ==
  /\ o \in [0..Len(ss) -> Nat]
  /\ o[0] = 0
  /\ \A i \in 1..Len(ss) : o[i] = o[i - 1] + Len(ss[i])
  /\ Len(f) = o[Len(ss)]
  /\ \A i \in 1..Len(ss) : \A k \in 1..Len(ss[i]) : f[o[i - 1] + k] = ss[i][k]

LEMMA FlattenIs ==
  ASSUME NEW S, NEW ss \in Seq(Seq(S))
  PROVE  FlattenSeq(ss) \in Seq(S) /\ \E o : Placed(ss, FlattenSeq(ss), o)
  <1> DEFINE n == Len(ss)
  <1>1. n \in Nat /\ \A i \in 1..n : ss[i] \in Seq(S)
    OBVIOUS
  <1>2. CASE ss = <<>>
    <2> DEFINE o == [i \in 0..0 |-> 0]
    <2>1. FlattenSeq(ss) = <<>> /\ n = 0 BY <1>2 DEF FlattenSeq
    <2>2. o \in [0..n -> Nat] /\ o[0] = 0 BY <2>1
    <2> HIDE DEF o
    <2>3. Placed(ss, FlattenSeq(ss), o)
      <3>1. 1..Len(ss) = {} BY <2>1
      <3>2. Len(FlattenSeq(ss)) = 0 BY <2>1
      <3> QED BY <2>1, <2>2, <3>1, <3>2 DEF Placed
    <2> QED BY <2>1, <2>3
  <1>3. CASE ss # <<>>
    <2>1. PICK u \in [1..n -> Seq(S)] :
            /\ FlattenSeq(ss) = u[n]
            /\ u[1] = ss[1]
            /\ \A i \in 2..n : u[i] = u[i - 1] \o ss[i]
      BY <1>3, FlattenSteps
    <2>2. n # 0 /\ \A i \in 1..n : u[i] \in Seq(S) /\ Len(u[i]) \in Nat
      <3>1. n # 0 BY <1>3
      <3>2. \A i \in 1..n : u[i] \in Seq(S) BY <2>1
      <3>3. \A w \in Seq(S) : Len(w) \in Nat BY LenProperties
      <3> QED BY <3>1, <3>2, <3>3
    <2> DEFINE o == [i \in 0..n |-> IF i = 0 THEN 0 ELSE Len(u[i])]
               At(j) == \A i \in 1..j : \A k \in 1..Len(ss[i]) : u[j][o[i - 1] + k] = ss[i][k]
               T == {j \in Nat : j + 1 <= n => At(j + 1)}
    <2>3. o \in [0..n -> Nat] /\ o[0] = 0 /\ \A i \in 1..n : o[i] = Len(u[i])
      BY <1>1, <2>2
    <2> HIDE DEF o
    <2>4. \A i \in 1..n : o[i] = o[i - 1] + Len(ss[i])
      <3> SUFFICES ASSUME NEW i \in 1..n PROVE o[i] = o[i - 1] + Len(ss[i])
        OBVIOUS
      <3>1. ss[i] \in Seq(S) /\ Len(ss[i]) \in Nat BY <1>1, LenProperties
      <3>2. CASE i = 1
        <4>1. o[i] = Len(ss[1]) /\ o[i - 1] = 0 BY <2>1, <2>3, <3>2
        <4> QED BY <3>1, <3>2, <4>1
      <3>3. CASE i # 1
        <4>1. i \in 2..n /\ i - 1 \in 1..n BY <1>1, <3>3
        <4>2. u[i - 1] \in Seq(S) /\ u[i] = u[i - 1] \o ss[i] BY <2>1, <2>2, <4>1
        <4>3. Len(u[i]) = Len(u[i - 1]) + Len(ss[i]) BY <3>1, <4>2, ConcatProperties
        <4> QED BY <2>3, <4>1, <4>3
      <3> QED BY <3>2, <3>3
    <2>5. 0 \in T
      <3> SUFFICES ASSUME NEW k \in 1..Len(ss[1]) PROVE u[1][o[1 - 1] + k] = ss[1][k]
        OBVIOUS
      <3>1. o[1 - 1] + k = k BY <2>3
      <3> QED BY <2>1, <3>1
    <2>6. ASSUME NEW j \in Nat, j \in T PROVE j + 1 \in T
      <3> SUFFICES ASSUME (j + 1) + 1 <= n PROVE At((j + 1) + 1)
        <4>1. j + 1 \in Nat OBVIOUS
        <4> QED BY <4>1, Zenon
      <3> DEFINE a == j + 1
                 b == a + 1
      <3>1. a \in 1..n /\ b \in 2..n /\ b \in 1..n /\ b - 1 = a BY <1>1
      <3>2. At(a) BY <1>1, <2>6, <3>1
      <3> HIDE DEF a
      <3>3. u[a] \in Seq(S) /\ ss[b] \in Seq(S) /\ u[b] = u[a] \o ss[b]
        BY <1>1, <2>1, <2>2, <3>1
      <3> SUFFICES ASSUME NEW i \in 1..b, NEW k \in 1..Len(ss[i]) PROVE u[b][o[i - 1] + k] = ss[i][k]
        BY DEF a
      <3>4. ss[i] \in Seq(S) /\ Len(ss[i]) \in Nat /\ i \in 1..n /\ i - 1 \in 0..n
        BY <1>1, <3>1, LenProperties
      <3>5. o[i - 1] \in Nat BY <2>3, <3>4
      <3>6. Len(u[a]) = o[a] /\ Len(u[a]) \in Nat /\ Len(ss[b]) \in Nat BY <2>3, <3>1, <3>3, LenProperties
      <3>7. \A m \in 1..(Len(u[a]) + Len(ss[b])) :
              u[b][m] = IF m <= Len(u[a]) THEN u[a][m] ELSE ss[b][m - Len(u[a])]
        BY <3>3, ConcatProperties
      <3>8. CASE i = b
        <4>1. o[i - 1] = o[a] BY <3>1, <3>8
        <4>2. o[a] + k \in 1..(Len(u[a]) + Len(ss[b])) /\ ~(o[a] + k <= Len(u[a]))
              /\ (o[a] + k) - Len(u[a]) = k
          <5>1. k \in 1..Len(ss[b]) BY <3>8
          <5>2. k \in Nat /\ 1 <= k /\ k <= Len(ss[b]) BY <3>6, <5>1
          <5> HIDE DEF b
          <5>3. o[a] + k \in 1..(o[a] + Len(ss[b])) /\ ~(o[a] + k <= o[a]) /\ (o[a] + k) - o[a] = k
            BY <3>6, <5>1, InSecond
          <5> QED BY <3>6, <5>3
        <4>3. u[b][o[a] + k] = ss[b][k] BY <3>7, <4>2
        <4> QED BY <3>8, <4>1, <4>3
      <3>9. CASE i # b
        <4>1. i \in 1..a BY <3>1, <3>9
        <4>2. o[i] <= o[a]
          <5> DEFINE M == {m \in Nat : i + m <= a => o[i] <= o[i + m]}
          <5>1. 0 \in M BY <2>3, <3>4
          <5>2. ASSUME NEW m \in Nat, m \in M PROVE m + 1 \in M
            <6> SUFFICES ASSUME i + (m + 1) <= a PROVE o[i] <= o[i + (m + 1)]
              OBVIOUS
            <6>1. i + (m + 1) \in 1..n /\ (i + (m + 1)) - 1 = i + m /\ i + m <= a /\ i + m \in 0..n
              BY <3>1, <3>4
            <6>2. o[i + (m + 1)] = o[i + m] + Len(ss[i + (m + 1)]) BY <2>4, <6>1
            <6>3. Len(ss[i + (m + 1)]) \in Nat BY <1>1, <6>1, LenProperties
            <6>4. o[i + m] \in Nat /\ o[i] \in Nat BY <2>3, <3>4, <6>1
            <6>5. o[i] <= o[i + m] BY <5>2, <6>1
            <6> QED BY <6>2, <6>3, <6>4, <6>5
          <5>3. Nat \subseteq M
            <6> HIDE DEF M
            <6> QED BY <5>1, <5>2, InductionOnNat
          <5>4. a - i \in Nat /\ i + (a - i) = a BY <3>1, <4>1
          <5>5. a - i \in M BY <5>3, <5>4
          <5> QED BY <3>1, <5>4, <5>5
        <4>3. o[i] = o[i - 1] + Len(ss[i]) /\ o[i] \in Nat /\ o[a] \in Nat BY <2>3, <2>4, <3>1, <3>4
        <4>4. o[i - 1] + k \in 1..(Len(u[a]) + Len(ss[b])) /\ o[i - 1] + k <= Len(u[a])
          <5> HIDE DEF b
          <5>1. o[i - 1] + Len(ss[i]) <= Len(u[a]) BY <3>6, <4>2, <4>3
          <5> QED BY <3>4, <3>5, <3>6, <5>1, InFirst
        <4>5. u[b][o[i - 1] + k] = u[a][o[i - 1] + k] BY <3>7, <4>4
        <4>6. u[a][o[i - 1] + k] = ss[i][k] BY <3>2, <4>1 DEF a
        <4> QED BY <4>5, <4>6
      <3> QED BY <3>8, <3>9
    <2>7. At(n)
      <3>1. Nat \subseteq T
        <4> HIDE DEF T
        <4> QED BY <2>5, <2>6, InductionOnNat
      <3>2. n - 1 \in Nat /\ (n - 1) + 1 = n BY <1>1, <2>2
      <3>3. n - 1 \in T BY <3>1, <3>2
      <3> QED BY <1>1, <3>2, <3>3
    <2>8. FlattenSeq(ss) \in Seq(S) /\ Len(FlattenSeq(ss)) = o[n]
      <3>1. n \in 1..n BY <1>1, <2>2
      <3> QED BY <2>1, <2>2, <2>3, <3>1
    <2>9. Placed(ss, FlattenSeq(ss), o)
      BY <2>1, <2>3, <2>4, <2>7, <2>8 DEF Placed
    <2> QED BY <2>8, <2>9
  <1> QED BY <1>2, <1>3

\* The ends do not go back, and every position lies in one of the parts.
LEMMA PlacedInOrder ==
  ASSUME NEW S, NEW ss \in Seq(Seq(S)), NEW f, NEW o, Placed(ss, f, o),
         NEW i \in 0..Len(ss), NEW j \in i..Len(ss)
  PROVE  o[i] <= o[j]
  <1> DEFINE n == Len(ss)
             M == {m \in Nat : i + m <= n => o[i] <= o[i + m]}
  <1>1. n \in Nat /\ o \in [0..n -> Nat] /\ \A k \in 1..n : o[k] = o[k - 1] + Len(ss[k])
    <2>1. n \in Nat BY LenProperties
    <2> QED BY <2>1, Zenon DEF Placed
  <1>2. \A k \in 1..n : Len(ss[k]) \in Nat
    <2>1. \A k \in 1..n : ss[k] \in Seq(S) OBVIOUS
    <2>2. \A w \in Seq(S) : Len(w) \in Nat BY LenProperties
    <2> QED BY <2>1, <2>2
  <1> HIDE DEF n
  <1>3. i \in 0..n /\ j \in i..n BY DEF n
  <1>4. 0 \in M BY <1>1, <1>3
  <1>5. ASSUME NEW m \in Nat, m \in M PROVE m + 1 \in M
    <2> SUFFICES ASSUME i + (m + 1) <= n PROVE o[i] <= o[i + (m + 1)]
      OBVIOUS
    <2>1. i + (m + 1) \in 1..n /\ (i + (m + 1)) - 1 = i + m /\ i + m <= n /\ i + m \in 0..n
      BY <1>1, <1>3
    <2>2. o[i + (m + 1)] = o[i + m] + Len(ss[i + (m + 1)]) BY <1>1, <2>1
    <2>3. Len(ss[i + (m + 1)]) \in Nat BY <1>2, <2>1
    <2>4. o[i + m] \in Nat /\ o[i] \in Nat BY <1>1, <1>3, <2>1
    <2>5. o[i] <= o[i + m] BY <1>5, <2>1
    <2> QED BY <2>2, <2>3, <2>4, <2>5
  <1>6. Nat \subseteq M
    <2> HIDE DEF M
    <2> QED BY <1>4, <1>5, InductionOnNat
  <1>7. j - i \in Nat /\ i + (j - i) = j /\ j <= n BY <1>1, <1>3
  <1>8. j - i \in M BY <1>6, <1>7
  <1> QED BY <1>7, <1>8

InPart(ss, f, o, x) ==
  \E i \in 1..Len(ss) : \E k \in 1..Len(ss[i]) : x = o[i - 1] + k /\ f[x] = ss[i][k]

LEMMA PlacedSomewhere ==
  ASSUME NEW S, NEW ss \in Seq(Seq(S)), NEW f, NEW o, Placed(ss, f, o),
         NEW x \in 1..Len(f)
  PROVE  InPart(ss, f, o, x)
  <1> DEFINE n == Len(ss)
             I == {i \in 0..n : x <= o[i]}
             m == Min(I)
  <1>1. /\ n \in Nat /\ o \in [0..n -> Nat] /\ o[0] = 0 /\ Len(f) = o[n] /\ Len(f) \in Nat
        /\ \A k \in 1..n : o[k] = o[k - 1] + Len(ss[k])
    BY DEF Placed
  <1>2. \A k \in 1..n : Len(ss[k]) \in Nat
    <2>1. \A k \in 1..n : ss[k] \in Seq(S) OBVIOUS
    <2>2. \A w \in Seq(S) : Len(w) \in Nat BY LenProperties
    <2> QED BY <2>1, <2>2
  <1> HIDE DEF n
  <1>3. n \in I BY <1>1
  <1>4. I \in SUBSET Nat /\ I # {}
    <2>1. \A y \in I : y \in Nat BY <1>1
    <2> HIDE DEF I
    <2> QED BY <1>3, <2>1
  <1>5. m \in I /\ \A y \in I : m <= y
    <2> HIDE DEF I
    <2> QED BY <1>4, MinIs
  <1> HIDE DEF m
  <1>6. m \in 1..n
    <2>1. m # 0 BY <1>1, <1>5
    <2> QED BY <1>1, <1>5, <2>1
  <1>7. m - 1 \in 0..n /\ m - 1 \notin I BY <1>1, <1>5, <1>6
  <1>8. o[m - 1] < x /\ x <= o[m] /\ o[m - 1] \in Nat BY <1>1, <1>5, <1>7
  <1>9. o[m] = o[m - 1] + Len(ss[m]) /\ Len(ss[m]) \in Nat BY <1>1, <1>2, <1>6
  <1>10. x - o[m - 1] \in 1..Len(ss[m]) /\ x = o[m - 1] + (x - o[m - 1])
    BY <1>8, <1>9
  <1>11. f[x] = ss[m][x - o[m - 1]]
    BY <1>6, <1>10 DEF Placed, n
  <1> QED BY <1>6, <1>10, <1>11 DEF n, InPart

\* A set of offsets is determined by the parts.
LEMMA PlacedOnce ==
  ASSUME NEW S, NEW ss \in Seq(Seq(S)), NEW f, NEW o, Placed(ss, f, o),
         NEW tt \in Seq(Seq(S)), NEW g, NEW p, Placed(tt, g, p),
         Len(tt) <= Len(ss), \A i \in 1..Len(tt) : tt[i] = ss[i]
  PROVE  p[Len(tt)] = o[Len(tt)]
  <1> DEFINE n == Len(tt)
             M == {m \in Nat : m <= n => p[m] = o[m]}
  <1>1. /\ n \in Nat /\ n <= Len(ss) /\ Len(ss) \in Nat
        /\ p[0] = 0 /\ \A i \in 1..n : p[i] = p[i - 1] + Len(tt[i])
        /\ o[0] = 0 /\ \A i \in 1..Len(ss) : o[i] = o[i - 1] + Len(ss[i])
    BY DEF Placed
  <1> HIDE DEF n
  <1>2. 0 \in M BY <1>1
  <1>3. ASSUME NEW m \in Nat, m \in M PROVE m + 1 \in M
    <2> SUFFICES ASSUME m + 1 <= n PROVE p[m + 1] = o[m + 1]
      OBVIOUS
    <2>1. m + 1 \in 1..n /\ m + 1 \in 1..Len(ss) /\ (m + 1) - 1 = m /\ p[m] = o[m]
      BY <1>1, <1>3
    <2>2. tt[m + 1] = ss[m + 1] BY <2>1 DEF n
    <2> QED BY <1>1, <2>1, <2>2
  <1>4. Nat \subseteq M
    <2> HIDE DEF M
    <2> QED BY <1>2, <1>3, InductionOnNat
  <1>5. n \in M BY <1>1, <1>4
  <1> QED BY <1>1, <1>5 DEF n

-----------------------------------------------------------------------------
(* A sequence that elements are taken from and others join.                *)

\* Some element of s is in S; at most one is; every one in S is ahead of
\* every one in T; before every one in S there is one in T; behind one in S
\* there is one in T, and behind that one in U.
Has(s, S) == \E i \in 1..Len(s) : s[i] \in S
Alone(s, S) == \A i, j \in 1..Len(s) : s[i] \in S /\ s[j] \in S => i = j
Ahead(s, S, T) == \A i, j \in 1..Len(s) : s[i] \in S /\ s[j] \in T => i < j
Led(s, S, T) == \A j \in 1..Len(s) : s[j] \in S => \E i \in 1..(j - 1) : s[i] \in T
HasPair(s, S, T) == \E i, j \in 1..Len(s) : i < j /\ s[i] \in S /\ s[j] \in T
HasTriple(s, S, T, U) ==
  \E i, j, k \in 1..Len(s) : i < j /\ j < k /\ s[i] \in S /\ s[j] \in T /\ s[k] \in U

\* s without its element k.
Without(s, k) == [i \in 1..(Len(s) - 1) |-> s[IF i < k THEN i ELSE i + 1]]

LEMMA WithoutIs ==
  ASSUME NEW X, NEW s \in Seq(X), NEW k \in 1..Len(s)
  PROVE  /\ Without(s, k) \in Seq(X) /\ Len(Without(s, k)) = Len(s) - 1
         /\ \A i \in 1..(Len(s) - 1) : Without(s, k)[i] = s[IF i < k THEN i ELSE i + 1]
         /\ \A i \in 1..Len(s) : i < k => i \in 1..(Len(s) - 1) /\ Without(s, k)[i] = s[i]
         /\ \A i \in 1..Len(s) : i > k => i - 1 \in 1..(Len(s) - 1) /\ Without(s, k)[i - 1] = s[i]
  <1>1. \A i \in 1..(Len(s) - 1) : (IF i < k THEN i ELSE i + 1) \in 1..Len(s)
    OBVIOUS
  <1>2. \A i \in 1..(Len(s) - 1) : s[IF i < k THEN i ELSE i + 1] \in X
    BY <1>1
  <1>3. Len(s) - 1 \in Nat OBVIOUS
  <1> DEFINE n == Len(s) - 1
             w == [i \in 1..n |-> s[IF i < k THEN i ELSE i + 1]]
  <1>4. w \in [1..n -> X] BY <1>2
  <1>5. w \in Seq(X) /\ Len(w) = n
    <2> HIDE DEF w, n
    <2>1. n \in Nat BY <1>3 DEF n
    <2>2. w \in Seq(X) BY <1>4, <2>1
    <2>3. DOMAIN w = 1..n BY <1>4
    <2> QED BY <2>1, <2>2, <2>3
  <1>6. \A i \in 1..n : w[i] = s[IF i < k THEN i ELSE i + 1] OBVIOUS
  <1>7. \A i \in 1..Len(s) : i < k => i \in 1..n /\ w[i] = s[i]
    <2> HIDE DEF w
    <2> QED BY <1>6
  <1>8. \A i \in 1..Len(s) : i > k => i - 1 \in 1..n /\ w[i - 1] = s[i]
    <2> HIDE DEF w
    <2> TAKE i \in 1..Len(s)
    <2> HAVE i > k
    <2>1. i - 1 \in 1..n /\ ~(i - 1 < k) /\ (i - 1) + 1 = i OBVIOUS
    <2> QED BY <1>6, <2>1
  <1>9. Without(s, k) = w BY DEF Without
  <1> HIDE DEF w
  <1> QED BY <1>5, <1>6, <1>7, <1>8, <1>9

\* What is left when element k is taken.
LEMMA WithoutKeeps ==
  ASSUME NEW X, NEW s \in Seq(X), NEW k \in 1..Len(s)
  PROVE  LET w == Without(s, k) IN
         /\ \A S : Has(w, S) => Has(s, S)
         /\ \A S : s[k] \notin S /\ Has(s, S) => Has(w, S)
         /\ \A S : Alone(s, S) => Alone(w, S)
         /\ \A S : Alone(s, S) /\ s[k] \in S => ~Has(w, S)
         /\ \A S, T : Ahead(s, S, T) => Ahead(w, S, T)
         /\ \A S, T : Ahead(s, S, T) /\ s[k] \in T /\ k = 1 => ~Has(w, S)
         /\ \A S, T : s[k] \notin T /\ Led(s, S, T) => Led(w, S, T)
         /\ \A S, T : Led(s, S, T) /\ k = 1 => s[k] \notin S
  <1> DEFINE w == Without(s, k)
             f(i) == IF i < k THEN i ELSE i + 1
             n == Len(s) - 1
  <1>1. w \in Seq(X) /\ Len(w) = n /\ \A i \in 1..n : w[i] = s[f(i)]
    BY WithoutIs
  <1>2. \A i \in 1..n : f(i) \in 1..Len(s) /\ f(i) # k
    OBVIOUS
  <1>3. \A i, j \in 1..n : (i < j <=> f(i) < f(j)) /\ (f(i) = f(j) => i = j)
    OBVIOUS
  <1>4. \A i \in 1..Len(s) : i # k => \E j \in 1..n : f(j) = i
    <2> TAKE i \in 1..Len(s)
    <2> HAVE i # k
    <2>1. CASE i < k BY <2>1
    <2>2. CASE i > k
      <3>1. i - 1 \in 1..n /\ f(i - 1) = i BY <2>2
      <3> QED BY <3>1
    <2> QED BY <2>1, <2>2
  <1>5. Len(s) \in Nat /\ n \in Nat OBVIOUS
  <1> HIDE DEF w, f, n
  <1>6. \A S : Has(w, S) => Has(s, S)
    BY <1>1, <1>2 DEF Has
  <1>7. \A S : s[k] \notin S /\ Has(s, S) => Has(w, S)
    <2> TAKE S
    <2> HAVE s[k] \notin S /\ Has(s, S)
    <2>1. PICK i \in 1..Len(s) : s[i] \in S BY DEF Has
    <2>2. PICK j \in 1..n : f(j) = i BY <1>4, <2>1
    <2> QED BY <1>1, <2>1, <2>2 DEF Has
  <1>8. \A S : Alone(s, S) => Alone(w, S)
    BY <1>1, <1>2, <1>3 DEF Alone
  <1>9. \A S : Alone(s, S) /\ s[k] \in S => ~Has(w, S)
    BY <1>1, <1>2 DEF Alone, Has
  <1>10. \A S, T : Ahead(s, S, T) => Ahead(w, S, T)
    BY <1>1, <1>2, <1>3 DEF Ahead
  <1>11. \A S, T : Ahead(s, S, T) /\ s[k] \in T /\ k = 1 => ~Has(w, S)
    BY <1>1, <1>2, <1>5 DEF Ahead, Has
  <1>12. \A S, T : s[k] \notin T /\ Led(s, S, T) => Led(w, S, T)
    <2> TAKE S, T
    <2> HAVE s[k] \notin T /\ Led(s, S, T)
    <2> SUFFICES ASSUME NEW j \in 1..n, w[j] \in S PROVE \E i \in 1..(j - 1) : w[i] \in T
      BY <1>1 DEF Led
    <2>1. PICK i \in 1..(f(j) - 1) : s[i] \in T
      BY <1>1, <1>2 DEF Led
    <2>2. i \in 1..Len(s) /\ i # k /\ f(j) \in 1..Len(s) /\ i < f(j)
      BY <1>2, <1>5, <2>1
    <2>3. PICK h \in 1..n : f(h) = i BY <1>4, <2>2
    <2>4. h < j BY <1>3, <2>2, <2>3
    <2> QED BY <1>1, <1>5, <2>1, <2>3, <2>4
  <1>13. \A S, T : Led(s, S, T) /\ k = 1 => s[k] \notin S
    BY <1>5 DEF Led
  <1> QED BY <1>6, <1>7, <1>8, <1>9, <1>10, <1>11, <1>12, <1>13 DEF w

\* What there is when t comes behind s.
LEMMA Joins ==
  ASSUME NEW X, NEW s \in Seq(X), NEW t \in Seq(X)
  PROVE  LET w == s \o t IN
         /\ w \in Seq(X)
         /\ \A S : Has(w, S) <=> Has(s, S) \/ Has(t, S)
         /\ \A S : Alone(s, S) /\ Alone(t, S) /\ ~(Has(s, S) /\ Has(t, S)) => Alone(w, S)
         /\ \A S, T : Ahead(s, S, T) /\ Ahead(t, S, T) /\ ~(Has(s, T) /\ Has(t, S)) => Ahead(w, S, T)
         /\ \A S, T : Led(s, S, T) /\ (Led(t, S, T) \/ Has(s, T)) => Led(w, S, T)
  <1> DEFINE w == s \o t
             m == Len(s)
             n == Len(t)
  <1>1. /\ w \in Seq(X) /\ Len(w) = m + n /\ m \in Nat /\ n \in Nat
        /\ \A i \in 1..m : w[i] = s[i]
        /\ \A i \in 1..n : w[m + i] = t[i]
    OBVIOUS
  <1>2. \A i \in 1..(m + n) : i \in 1..m \/ \E j \in 1..n : i = m + j
    <2> TAKE i \in 1..(m + n)
    <2>1. CASE i <= m BY <1>1, <2>1
    <2>2. CASE i > m
      <3>1. i - m \in 1..n /\ i = m + (i - m) BY <1>1, <2>2
      <3> QED BY <3>1
    <2> QED BY <1>1, <2>1, <2>2
  <1>3. /\ \A i \in 1..m : i \in 1..(m + n)
        /\ \A i \in 1..n : m + i \in 1..(m + n)
    BY <1>1
  <1> HIDE DEF w, m, n
  <1>4. \A S : Has(w, S) <=> Has(s, S) \/ Has(t, S)
    <2> TAKE S
    <2>1. Has(w, S) => Has(s, S) \/ Has(t, S)
      <3> HAVE Has(w, S)
      <3>1. PICK i \in 1..(m + n) : w[i] \in S BY <1>1 DEF Has
      <3> QED BY <1>1, <1>2, <3>1 DEF Has, m, n
    <2>2. Has(s, S) => Has(w, S) BY <1>1, <1>3 DEF Has, m
    <2>3. Has(t, S) => Has(w, S)
      <3> HAVE Has(t, S)
      <3>1. PICK i \in 1..n : t[i] \in S BY DEF Has, n
      <3> QED BY <1>1, <1>3, <3>1 DEF Has
    <2> QED BY <2>1, <2>2, <2>3
  <1>5. \A S : Alone(s, S) /\ Alone(t, S) /\ ~(Has(s, S) /\ Has(t, S)) => Alone(w, S)
    <2> TAKE S
    <2> HAVE Alone(s, S) /\ Alone(t, S) /\ ~(Has(s, S) /\ Has(t, S))
    <2> SUFFICES ASSUME NEW i \in 1..(m + n), NEW j \in 1..(m + n), w[i] \in S, w[j] \in S
                 PROVE  i = j
      BY <1>1 DEF Alone
    <2>1. CASE i \in 1..m /\ j \in 1..m BY <1>1, <2>1 DEF Alone, m
    <2>2. CASE i \in 1..m /\ j \notin 1..m
      <3>1. PICK h \in 1..n : j = m + h BY <1>2, <2>2
      <3> QED BY <1>1, <2>2, <3>1 DEF Has, m, n
    <2>3. CASE i \notin 1..m /\ j \in 1..m
      <3>1. PICK h \in 1..n : i = m + h BY <1>2, <2>3
      <3> QED BY <1>1, <2>3, <3>1 DEF Has, m, n
    <2>4. CASE i \notin 1..m /\ j \notin 1..m
      <3>1. PICK h \in 1..n : i = m + h BY <1>2, <2>4
      <3>2. PICK l \in 1..n : j = m + l BY <1>2, <2>4
      <3>3. h = l BY <1>1, <3>1, <3>2 DEF Alone, n
      <3> QED BY <3>1, <3>2, <3>3
    <2> QED BY <2>1, <2>2, <2>3, <2>4
  <1>6. \A S, T : Ahead(s, S, T) /\ Ahead(t, S, T) /\ ~(Has(s, T) /\ Has(t, S)) => Ahead(w, S, T)
    <2> TAKE S, T
    <2> HAVE Ahead(s, S, T) /\ Ahead(t, S, T) /\ ~(Has(s, T) /\ Has(t, S))
    <2> SUFFICES ASSUME NEW i \in 1..(m + n), NEW j \in 1..(m + n), w[i] \in S, w[j] \in T
                 PROVE  i < j
      BY <1>1 DEF Ahead
    <2>1. CASE i \in 1..m /\ j \in 1..m BY <1>1, <2>1 DEF Ahead, m
    <2>2. CASE i \in 1..m /\ j \notin 1..m
      <3>1. PICK h \in 1..n : j = m + h BY <1>2, <2>2
      <3> QED BY <1>1, <2>2, <3>1
    <2>3. CASE i \notin 1..m /\ j \in 1..m
      <3>1. PICK h \in 1..n : i = m + h BY <1>2, <2>3
      <3> QED BY <1>1, <2>3, <3>1 DEF Has, m, n
    <2>4. CASE i \notin 1..m /\ j \notin 1..m
      <3>1. PICK h \in 1..n : i = m + h BY <1>2, <2>4
      <3>2. PICK l \in 1..n : j = m + l BY <1>2, <2>4
      <3>3. h < l BY <1>1, <3>1, <3>2 DEF Ahead, n
      <3> QED BY <1>1, <3>1, <3>2, <3>3
    <2> QED BY <2>1, <2>2, <2>3, <2>4
  <1>7. \A S, T : Led(s, S, T) /\ (Led(t, S, T) \/ Has(s, T)) => Led(w, S, T)
    <2> TAKE S, T
    <2> HAVE Led(s, S, T) /\ (Led(t, S, T) \/ Has(s, T))
    <2> SUFFICES ASSUME NEW j \in 1..(m + n), w[j] \in S PROVE \E i \in 1..(j - 1) : w[i] \in T
      BY <1>1 DEF Led
    <2>1. CASE j \in 1..m
      <3>1. PICK i \in 1..(j - 1) : s[i] \in T BY <1>1, <2>1 DEF Led, m
      <3>2. i \in 1..m BY <1>1, <2>1
      <3> QED BY <1>1, <3>1, <3>2
    <2>2. CASE j \notin 1..m
      <3>1. PICK h \in 1..n : j = m + h BY <1>2, <2>2
      <3>2. CASE Has(s, T)
        <4>1. PICK i \in 1..m : s[i] \in T BY <3>2 DEF Has, m
        <4>2. i \in 1..(j - 1) BY <1>1, <3>1
        <4> QED BY <1>1, <4>1, <4>2
      <3>3. CASE Led(t, S, T)
        <4>1. t[h] \in S /\ h \in 1..Len(t) BY <1>1, <3>1 DEF n
        <4>2. PICK i \in 1..(h - 1) : t[i] \in T BY <3>3, <4>1 DEF Led
        <4>3. i \in 1..n /\ m + i \in 1..(j - 1) BY <1>1, <3>1
        <4>4. w[m + i] \in T BY <1>1, <4>2, <4>3
        <4> QED BY <4>3, <4>4
      <3> QED BY <3>2, <3>3
    <2> QED BY <2>1, <2>2
  <1> QED BY <1>1, <1>4, <1>5, <1>6, <1>7 DEF w

\* The next element of inbox is its first.
LEMMA TailIs ==
  ASSUME NEW X, NEW s \in Seq(X), s # <<>>
  PROVE  /\ 1 \in 1..Len(s) /\ Head(s) = s[1] /\ Head(s) \in X
         /\ Tail(s) = Without(s, 1)
  <1>1. 1 \in 1..Len(s) /\ Head(s) = s[1] /\ Head(s) \in X OBVIOUS
  <1>2. /\ Without(s, 1) \in Seq(X) /\ Len(Without(s, 1)) = Len(s) - 1
        /\ \A i \in 1..(Len(s) - 1) : Without(s, 1)[i] = s[i + 1]
    BY <1>1, WithoutIs
  <1>3. /\ Tail(s) \in Seq(X) /\ Len(Tail(s)) = Len(s) - 1
        /\ \A i \in 1..(Len(s) - 1) : Tail(s)[i] = s[i + 1]
    OBVIOUS
  <1>4. Tail(s) = Without(s, 1)
    <2> DEFINE w == Without(s, 1)
               u == Tail(s)
    <2>1. w \in Seq(X) /\ u \in Seq(X) /\ Len(w) = Len(u) /\ \A i \in 1..Len(w) : w[i] = u[i]
      BY <1>2, <1>3
    <2> HIDE DEF w, u
    <2>2. w = u BY <2>1, SeqEqual
    <2> QED BY <2>2 DEF w, u
  <1> QED BY <1>1, <1>4

\* What comes in an order stays in it when t joins.
LEMMA JoinsInOrder ==
  ASSUME NEW X, NEW s \in Seq(X), NEW t \in Seq(X)
  PROVE  LET w == s \o t IN
         /\ \A S, T : HasPair(s, S, T) \/ HasPair(t, S, T) => HasPair(w, S, T)
         /\ \A S, T, U : HasTriple(s, S, T, U) \/ HasTriple(t, S, T, U) => HasTriple(w, S, T, U)
  <1> DEFINE w == s \o t
             n == Len(s)
  <1>1. /\ n \in Nat /\ Len(t) \in Nat /\ Len(w) = n + Len(t)
        /\ \A i \in 1..n : w[i] = s[i]
        /\ \A i \in 1..Len(t) : w[n + i] = t[i]
    OBVIOUS
  <1> HIDE DEF w
  <1>2. /\ \A i \in 1..n : i \in 1..Len(w) /\ w[i] = s[i]
        /\ \A i \in 1..Len(t) : n + i \in 1..Len(w) /\ w[n + i] = t[i]
        /\ \A i, j \in 1..Len(t) : i < j => n + i < n + j
    BY <1>1
  <1>3. ASSUME NEW S, NEW T PROVE HasPair(s, S, T) => HasPair(w, S, T)
    <2>1. 1..n = 1..Len(s) OBVIOUS
    <2> QED BY <1>2, <2>1 DEF HasPair
  <1>4. ASSUME NEW S, NEW T PROVE HasPair(t, S, T) => HasPair(w, S, T)
    <2> SUFFICES ASSUME NEW i \in 1..Len(t), NEW j \in 1..Len(t), i < j, t[i] \in S, t[j] \in T
                 PROVE  HasPair(w, S, T)
      BY DEF HasPair
    <2>1. /\ n + i \in 1..Len(w) /\ n + j \in 1..Len(w) /\ n + i < n + j
          /\ w[n + i] \in S /\ w[n + j] \in T
      BY <1>2
    <2> QED BY <2>1 DEF HasPair
  <1>5. ASSUME NEW S, NEW T, NEW U PROVE HasTriple(s, S, T, U) => HasTriple(w, S, T, U)
    BY <1>2 DEF HasTriple
  <1>6. ASSUME NEW S, NEW T, NEW U PROVE HasTriple(t, S, T, U) => HasTriple(w, S, T, U)
    <2> SUFFICES ASSUME NEW i \in 1..Len(t), NEW j \in 1..Len(t), NEW k \in 1..Len(t),
                        i < j, j < k, t[i] \in S, t[j] \in T, t[k] \in U
                 PROVE  HasTriple(w, S, T, U)
      BY DEF HasTriple
    <2>1. /\ n + i \in 1..Len(w) /\ n + j \in 1..Len(w) /\ n + k \in 1..Len(w)
          /\ n + i < n + j /\ n + j < n + k
          /\ w[n + i] \in S /\ w[n + j] \in T /\ w[n + k] \in U
      BY <1>2
    <2> QED BY <2>1 DEF HasTriple
  <1> QED BY <1>3, <1>4, <1>5, <1>6 DEF w

\* When the first is taken, what came behind it is left.
LEMMA FirstTaken ==
  ASSUME NEW X, NEW s \in Seq(X), 1 \in 1..Len(s)
  PROVE  LET w == Without(s, 1) IN
         /\ \A S, T : HasPair(s, S, T) => Has(w, T) /\ (s[1] \notin S => HasPair(w, S, T))
         /\ \A S, T, U : HasTriple(s, S, T, U) =>
              HasPair(w, T, U) /\ (s[1] \notin S => HasTriple(w, S, T, U))
  <1> DEFINE w == Without(s, 1)
             n == Len(s)
  <1>1. n \in Nat OBVIOUS
  <1>2. /\ Len(w) = n - 1
        /\ \A i \in 1..n : i > 1 => i - 1 \in 1..(n - 1) /\ w[i - 1] = s[i]
    BY WithoutIs
  <1> HIDE DEF w
  <1>3. \A i \in 1..n : i > 1 => i - 1 \in 1..Len(w) /\ w[i - 1] = s[i] BY <1>2
  <1>4. \A i, j \in 1..n : i < j => j > 1 /\ (i # 1 => i > 1 /\ i - 1 < j - 1) BY <1>1
  <1>5. ASSUME NEW S, NEW T, HasPair(s, S, T)
        PROVE  Has(w, T) /\ (s[1] \notin S => HasPair(w, S, T))
    <2>1. PICK i \in 1..n, j \in 1..n : i < j /\ s[i] \in S /\ s[j] \in T BY <1>5 DEF HasPair
    <2>2. j > 1 /\ j - 1 \in 1..Len(w) /\ w[j - 1] \in T BY <1>3, <1>4, <2>1
    <2>3. ASSUME s[1] \notin S PROVE HasPair(w, S, T)
      <3>1. i > 1 /\ i - 1 < j - 1 BY <1>4, <2>1, <2>3
      <3>2. i - 1 \in 1..Len(w) /\ w[i - 1] \in S BY <1>3, <2>1, <3>1
      <3> QED BY <2>2, <3>1, <3>2 DEF HasPair
    <2> QED BY <2>2, <2>3 DEF Has
  <1>6. ASSUME NEW S, NEW T, NEW U, HasTriple(s, S, T, U)
        PROVE  HasPair(w, T, U) /\ (s[1] \notin S => HasTriple(w, S, T, U))
    <2>1. PICK i \in 1..n, j \in 1..n, k \in 1..n :
                 i < j /\ j < k /\ s[i] \in S /\ s[j] \in T /\ s[k] \in U
      BY <1>6 DEF HasTriple
    <2>2. j > 1 /\ k > 1 /\ j # 1 /\ j - 1 < k - 1 BY <1>4, <2>1
    <2>3. /\ j - 1 \in 1..Len(w) /\ w[j - 1] \in T
          /\ k - 1 \in 1..Len(w) /\ w[k - 1] \in U
      BY <1>3, <2>1, <2>2
    <2>4. ASSUME s[1] \notin S PROVE HasTriple(w, S, T, U)
      <3>1. i > 1 /\ i - 1 < j - 1 BY <1>4, <2>1, <2>4
      <3>2. i - 1 \in 1..Len(w) /\ w[i - 1] \in S BY <1>3, <2>1, <3>1
      <3> QED BY <2>2, <2>3, <3>1, <3>2 DEF HasTriple
    <2> QED BY <2>2, <2>3, <2>4 DEF HasPair
  <1> QED BY <1>5, <1>6 DEF w

\* What of a sequence is last, first of it backwards.
LEMMA ReverseIs ==
  ASSUME NEW X, NEW s \in Seq(X)
  PROVE  /\ Reverse(s) \in Seq(X) /\ Len(Reverse(s)) = Len(s)
         /\ \A i \in 1..Len(s) : Reverse(s)[i] = s[(Len(s) - i) + 1]
  <1> DEFINE n == Len(s)
             r == Reverse(s)
  <1>1. n \in Nat /\ \A i \in 1..n : s[i] \in X /\ (n - i) + 1 \in 1..n
    OBVIOUS
  <1>2. r = [i \in 1..n |-> s[(n - i) + 1]] BY DEF Reverse
  <1> HIDE DEF n
  <1>3. r \in [1..n -> X] /\ \A i \in 1..n : r[i] = s[(n - i) + 1] BY <1>1, <1>2
  <1> HIDE DEF r
  <1>4. r \in Seq(X) /\ DOMAIN r = 1..n BY <1>1, <1>3
  <1>5. Len(r) = n BY <1>1, <1>4
  <1> QED BY <1>3, <1>4, <1>5 DEF n, r

\* The last one, and what is left without it.
LEMMA LastIs ==
  ASSUME NEW X, NEW s \in Seq(X), s # <<>>
  PROVE  /\ Len(s) \in Nat \ {0} /\ Last(s) = s[Len(s)] /\ Last(s) \in X
         /\ Front(s) \in Seq(X) /\ Len(Front(s)) = Len(s) - 1
         /\ \A i \in 1..(Len(s) - 1) : Front(s)[i] = s[i]
  <1>1. Len(s) \in Nat \ {0} /\ \A i \in 1..Len(s) : s[i] \in X OBVIOUS
  <1> DEFINE n == Len(s) - 1
  <1>2. Front(s) = SubSeq(s, 1, n) BY DEF Front
  <1>3. n \in Nat /\ \A i \in 1..n : s[i] \in X BY <1>1
  <1>4. /\ SubSeq(s, 1, n) \in Seq(X)
        /\ Len(SubSeq(s, 1, n)) = IF 1 <= n THEN (n - 1) + 1 ELSE 0
        /\ \A i \in 1..((n - 1) + 1) : SubSeq(s, 1, n)[i] = s[(1 + i) - 1]
    BY <1>3, SubSeqProperties
  <1>5. Last(s) = s[Len(s)] BY DEF Last
  <1> HIDE DEF n
  <1>6. (n - 1) + 1 = n /\ \A i \in 1..n : (1 + i) - 1 = i BY <1>3
  <1>7. Len(SubSeq(s, 1, n)) = n BY <1>3, <1>4, <1>6
  <1> QED BY <1>1, <1>2, <1>4, <1>5, <1>6, <1>7 DEF n

\* recv() takes the last of what is stashed: the first on the line.
LEMMA StashedTaken ==
  ASSUME NEW X, NEW p \in Seq(X), NEW w \in Seq(X), p # <<>>
  PROVE  LET s == Reverse(p) \o w IN
         /\ s \in Seq(X) /\ 1 \in 1..Len(s) /\ Last(p) = s[1] /\ Last(p) \in X
         /\ Front(p) \in Seq(X)
         /\ Reverse(Front(p)) \o w = Without(s, 1)
  <1> DEFINE s == Reverse(p) \o w
             f == Front(p)
             t == Reverse(f) \o w
             n == Len(p)
             m == Len(w)
             u == Without(s, 1)
  <1>1. /\ n \in Nat \ {0} /\ m \in Nat /\ Last(p) = p[n] /\ Last(p) \in X
        /\ f \in Seq(X) /\ Len(f) = n - 1 /\ \A i \in 1..(n - 1) : f[i] = p[i]
    BY LastIs
  <1>2. /\ Reverse(p) \in Seq(X) /\ Len(Reverse(p)) = n
        /\ \A i \in 1..n : Reverse(p)[i] = p[(n - i) + 1]
    BY ReverseIs
  <1>3. /\ Reverse(f) \in Seq(X) /\ Len(Reverse(f)) = n - 1
        /\ \A i \in 1..(n - 1) : Reverse(f)[i] = f[((n - 1) - i) + 1]
    BY <1>1, ReverseIs
  <1>4. /\ s \in Seq(X) /\ Len(s) = n + m
        /\ \A i \in 1..(n + m) : s[i] = IF i <= n THEN p[(n - i) + 1] ELSE w[i - n]
    <2>1. \A i \in 1..(n + m) : i <= n => i \in 1..n BY <1>1
    <2> DEFINE r == Reverse(p)
    <2>2. /\ r \in Seq(X) /\ Len(r) = n /\ \A i \in 1..n : r[i] = p[(n - i) + 1]
      BY <1>2
    <2> HIDE DEF r
    <2>3. /\ r \o w \in Seq(X) /\ Len(r \o w) = Len(r) + Len(w)
          /\ \A i \in 1..(Len(r) + Len(w)) :
               (r \o w)[i] = IF i <= Len(r) THEN r[i] ELSE w[i - Len(r)]
      BY <2>2, ConcatProperties
    <2>4. s = r \o w BY DEF r
    <2> HIDE DEF s, n, m
    <2>5. m = Len(w) BY DEF m
    <2> QED BY <2>1, <2>2, <2>3, <2>4, <2>5
  <1>5. /\ t \in Seq(X) /\ Len(t) = (n - 1) + m
        /\ \A i \in 1..((n - 1) + m) : t[i] = IF i <= n - 1 THEN p[n - i] ELSE w[i - (n - 1)]
    <2>1. \A i \in 1..(n - 1) : ((n - 1) - i) + 1 = n - i /\ n - i \in 1..(n - 1) BY <1>1
    <2>2. \A i \in 1..(n - 1) : Reverse(f)[i] = p[n - i] BY <1>1, <1>3, <2>1
    <2>3. \A i \in 1..((n - 1) + m) : i <= n - 1 => i \in 1..(n - 1) BY <1>1
    <2> DEFINE r == Reverse(f)
    <2>4. /\ r \in Seq(X) /\ Len(r) = n - 1 /\ \A i \in 1..(n - 1) : r[i] = p[n - i]
      BY <1>3, <2>2
    <2> HIDE DEF r
    <2>5. /\ r \o w \in Seq(X) /\ Len(r \o w) = Len(r) + Len(w)
          /\ \A i \in 1..(Len(r) + Len(w)) :
               (r \o w)[i] = IF i <= Len(r) THEN r[i] ELSE w[i - Len(r)]
      BY <2>4, ConcatProperties
    <2>6. t = r \o w BY DEF r
    <2> HIDE DEF t, n, m
    <2>7. m = Len(w) BY DEF m
    <2> QED BY <2>3, <2>4, <2>5, <2>6, <2>7
  <1> HIDE DEF s, t, f, n, m
  <1>6. 1 \in 1..Len(s) /\ s[1] = p[n]
    BY <1>1, <1>4
  <1>7. /\ u \in Seq(X) /\ Len(u) = Len(s) - 1
        /\ \A i \in 1..(Len(s) - 1) : u[i] = s[IF i < 1 THEN i ELSE i + 1]
    BY <1>4, <1>6, WithoutIs
  <1> HIDE DEF u
  <1>8. Len(u) = Len(t) /\ \A i \in 1..Len(t) : u[i] = t[i]
    <2>1. Len(u) = Len(t) BY <1>1, <1>4, <1>5, <1>7
    <2>2. ASSUME NEW i \in 1..Len(t) PROVE u[i] = t[i]
      <3>1. i \in 1..(Len(s) - 1) /\ i + 1 \in 1..(n + m) /\ ~(i < 1) /\ i \in 1..((n - 1) + m)
        BY <1>1, <1>4, <1>5
      <3>2. u[i] = s[i + 1] BY <1>7, <3>1
      <3>3. CASE i <= n - 1
        <4>1. i + 1 <= n /\ (n - (i + 1)) + 1 = n - i BY <1>1, <3>1, <3>3
        <4> QED BY <1>4, <1>5, <3>1, <3>2, <3>3, <4>1
      <3>4. CASE ~(i <= n - 1)
        <4>1. ~(i + 1 <= n) /\ (i + 1) - n = i - (n - 1) BY <1>1, <3>1, <3>4
        <4> QED BY <1>4, <1>5, <3>1, <3>2, <3>4, <4>1
      <3> QED BY <3>3, <3>4
    <2> QED BY <2>1, <2>2
  <1>9. t = u BY <1>5, <1>7, <1>8, SeqEqual
  <1> QED BY <1>1, <1>4, <1>6, <1>9 DEF s, t, u, f

=============================================================================
