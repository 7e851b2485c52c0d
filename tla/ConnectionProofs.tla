-------------------------- MODULE ConnectionProofs --------------------------
(***************************************************************************)
(* What recv() and its pending vector promise, for any number of frames    *)
(* and every way the network cuts them into reads: Connection implements   *)
(* FrameBag, a frame is overtaken at most once, nothing is left behind,    *)
(* and so the configuration GvpClient caches is at most one behind.        *)
(***************************************************************************)
EXTENDS GvpClient, SequenceTheorems, FiniteSetTheorems, TLAPS

Handed == Elements(delivered) \cup rejected

\* The frames up to Top have been read.
Top == sent - Len(wire)

\* The wire holds the frames behind Top, pending the ones just below it.
Shape ==
  /\ sent \in Nat /\ open \in BOOLEAN
  /\ wire \in Seq(Nat) /\ pending \in Seq(Nat)
  /\ delivered \in Seq(Nat) /\ rejected \in SUBSET Nat
  /\ ret \in {"None", "Message", "WireError", "Disconnected"}
  /\ Len(wire) <= sent
  /\ \A i \in 1..Len(wire) : wire[i] = Top + i
  /\ Len(pending) > 0 => Len(pending) < Top
  /\ \A i \in 1..Len(pending) : pending[i] = Top - i

\* The frames handed out: Top, which overtook what is pending, and the ones
\* below what is pending.
HandedOnes == Handed = {n \in 1..Top : n = Top \/ n < Top - Len(pending)}

Distinct == \A i, j \in DOMAIN delivered : delivered[i] = delivered[j] => i = j

Closed == ret = "Disconnected" => ~open /\ wire = <<>> /\ pending = <<>>

IInv == Shape /\ HandedOnes /\ Distinct /\ OvertakenOnce /\ Closed

-----------------------------------------------------------------------------
(* Lemmas about the sequences.                                             *)

LEMMA FrontLast ==
  ASSUME NEW s \in Seq(Nat), s # <<>>
  PROVE  /\ Len(s) \in Nat /\ Len(s) > 0
         /\ Last(s) = s[Len(s)]
         /\ Front(s) \in Seq(Nat) /\ Len(Front(s)) = Len(s) - 1
         /\ \A i \in 1..(Len(s) - 1) : Front(s)[i] = s[i]
  <1>1. Len(s) \in Nat /\ Len(s) > 0 /\ \A i \in 1..Len(s) : s[i] \in Nat
    BY EmptySeq, ElementOfSeq
  <1> DEFINE k == Len(s) - 1
  <1>2. k \in Int /\ 1 \in Int /\ \A i \in 1..k : s[i] \in Nat
    BY <1>1
  <1>3. /\ SubSeq(s, 1, k) \in Seq(Nat)
        /\ Len(SubSeq(s, 1, k)) = IF 1 <= k THEN k - 1 + 1 ELSE 0
        /\ \A i \in 1..(k - 1 + 1) : SubSeq(s, 1, k)[i] = s[1 + i - 1]
    <2> HIDE DEF k
    <2> QED BY <1>2, SubSeqProperties
  <1>4. Front(s) = SubSeq(s, 1, k)
    BY DEF Front
  <1> HIDE DEF k
  <1>5. \A i \in 1..k : i \in 1..(k - 1 + 1) /\ s[1 + i - 1] = s[i]
    BY <1>2
  <1>6. \A i \in 1..k : Front(s)[i] = s[i]
    BY <1>3, <1>4, <1>5, Zenon
  <1>7. k >= 0 => Len(Front(s)) = k
    BY <1>2, <1>3, <1>4
  <1> QED BY <1>1, <1>3, <1>4, <1>6, <1>7 DEF Last, k

\* What one read hands out and stashes.
LEMMA StashIs ==
  ASSUME NEW s \in Seq(Nat), s # <<>>
  PROVE  /\ First(s) = s[Len(s)]
         /\ Stash(s) \in Seq(Nat) /\ Len(Stash(s)) = Len(s) - 1
         /\ \A i \in 1..(Len(s) - 1) : Stash(s)[i] = s[Len(s) - i]
  <1> DEFINE f == Front(s)
  <1>1. /\ Len(s) \in Nat /\ Len(s) > 0 /\ Last(s) = s[Len(s)]
        /\ f \in Seq(Nat) /\ Len(f) = Len(s) - 1
        /\ \A i \in 1..(Len(s) - 1) : f[i] = s[i]
    BY FrontLast
  <1>2. Stash(s) = [i \in 1..Len(f) |-> f[(Len(f) - i) + 1]]
    BY DEF Stash, Reverse
  <1> HIDE DEF f
  <1>3. \A i \in 1..Len(f) : (Len(f) - i) + 1 \in 1..Len(f) /\ f[(Len(f) - i) + 1] \in Nat
    BY <1>1, ElementOfSeq
  <1>4. Stash(s) \in Seq(Nat) /\ Len(Stash(s)) = Len(f)
    BY <1>1, <1>2, <1>3, SMT
  <1>5. ASSUME NEW i \in 1..(Len(s) - 1) PROVE Stash(s)[i] = s[Len(s) - i]
    <2>1. i \in 1..Len(f) /\ Len(s) - i \in 1..(Len(s) - 1) /\ (Len(f) - i) + 1 = Len(s) - i
      BY <1>1
    <2>2. Stash(s)[i] = f[(Len(f) - i) + 1]
      BY <1>2, <2>1, Zenon
    <2>3. f[Len(s) - i] = s[Len(s) - i]
      BY <1>1, <2>1
    <2> QED BY <2>1, <2>2, <2>3
  <1> QED BY <1>1, <1>4, <1>5 DEF First

\* The elements after an append.
LEMMA ElementsAppend ==
  ASSUME NEW s \in Seq(Nat), NEW n \in Nat
  PROVE  Elements(Append(s, n)) = Elements(s) \cup {n}
  <1>1. /\ Append(s, n) \in Seq(Nat) /\ Len(Append(s, n)) = Len(s) + 1 /\ Len(s) \in Nat
        /\ \A i \in 1..Len(s) : Append(s, n)[i] = s[i]
        /\ Append(s, n)[Len(s) + 1] = n
    BY AppendProperties
  <1> QED BY <1>1 DEF Elements

-----------------------------------------------------------------------------
(* One frame handed out.                                                   *)

\* HandOut returns the frame or counts it as rejected, once.
LEMMA HandOutIs ==
  ASSUME delivered \in Seq(Nat), rejected \in SUBSET Nat, NEW n \in Nat, HandOut(n)
  PROVE  /\ delivered' \in Seq(Nat) /\ rejected' \in SUBSET Nat
         /\ Handed' = Handed \cup {n}
         /\ delivered' = delivered \/ delivered' = Append(delivered, n)
         /\ ret' \in {"Message", "WireError"}
         /\ ret' = "Message" => delivered' = Append(delivered, n)
         /\ ret' # "Message" => delivered' = delivered
  <1>1. CASE n \in Corrupt
    <2>1. rejected' = rejected \cup {n} /\ ret' = "WireError" /\ delivered' = delivered
      BY <1>1 DEF HandOut
    <2>2. Handed' = Handed \cup {n}
      BY <2>1 DEF Handed, Elements
    <2> QED BY <2>1, <2>2
  <1>2. CASE n \notin Corrupt
    <2>1. delivered' = Append(delivered, n) /\ ret' = "Message" /\ rejected' = rejected
      BY <1>2 DEF HandOut
    <2>2. Elements(delivered') = Elements(delivered) \cup {n}
      BY <2>1, ElementsAppend
    <2>3. Elements(delivered)' = Elements(delivered')
      BY DEF Elements
    <2>4. Handed' = Handed \cup {n}
      BY <2>1, <2>2, <2>3 DEF Handed
    <2>5. delivered' \in Seq(Nat)
      BY <2>1, AppendProperties
    <2> QED BY <2>1, <2>4, <2>5
  <1> QED BY <1>1, <1>2

\* A new frame that at most one of those returned is ahead of may follow them.
LEMMA NextInOrder ==
  ASSUME delivered \in Seq(Nat), Distinct, OvertakenOnce, NEW n \in Nat,
         n \notin Elements(delivered),
         \A a, b \in Elements(delivered) : a > n /\ b > n => a = b,
         delivered' = delivered \/ delivered' = Append(delivered, n)
  PROVE  Distinct' /\ OvertakenOnce'
  <1>1. CASE delivered' = delivered
    BY <1>1 DEF Distinct, OvertakenOnce
  <1>2. CASE delivered' = Append(delivered, n)
    <2> DEFINE l == Len(delivered)
    <2>1. /\ l \in Nat /\ DOMAIN delivered = 1..l /\ DOMAIN delivered' = 1..(l + 1)
          /\ \A i \in 1..l : delivered'[i] = delivered[i]
          /\ delivered'[l + 1] = n
      BY <1>2, AppendProperties, LenProperties
    <2> HIDE DEF l
    <2>2. \A i \in 1..l : delivered[i] \in Elements(delivered)
      BY <2>1 DEF Elements
    <2>3. Distinct'
      BY <2>1, <2>2 DEF Distinct
    <2>4. ASSUME NEW i \in 1..(l + 1), NEW j \in 1..(i - 1), NEW k \in 1..(i - 1),
                 delivered'[j] > delivered'[i], delivered'[k] > delivered'[i]
          PROVE  j = k
      <3>1. j \in 1..l /\ k \in 1..l
        BY <2>1
      <3>2. CASE i = l + 1
        BY <2>1, <2>2, <2>4, <3>1, <3>2 DEF Distinct
      <3>3. CASE i \in 1..l
        BY <2>1, <2>4, <3>1, <3>3 DEF OvertakenOnce
      <3> QED BY <2>1, <3>2, <3>3
    <2>5. OvertakenOnce'
      BY <2>1, <2>4 DEF OvertakenOnce
    <2> QED BY <2>3, <2>5
  <1> QED BY <1>1, <1>2

-----------------------------------------------------------------------------
(* The invariant.                                                          *)

LEMMA InitInv == Init => IInv
  <1> SUFFICES ASSUME Init PROVE IInv
    OBVIOUS
  <1>1. Len(<<>>) = 0 /\ <<>> \in Seq(Nat) /\ DOMAIN <<>> = {}
    BY EmptySeq
  <1>2. Shape
    BY <1>1 DEF Init, Shape, Top
  <1>3. HandedOnes
    BY <1>1 DEF Init, HandedOnes, Handed, Elements, Top
  <1> QED BY <1>1, <1>2, <1>3 DEF Init, IInv, Distinct, OvertakenOnce, Closed

\* The frame handed out is the one below what stays pending.
LEMMA PendingIs ==
  ASSUME IInv, RecvPending
  PROVE  /\ Last(pending) = Top - Len(pending) /\ Last(pending) \in Nat
         /\ 0 < Last(pending) /\ Last(pending) < Top
         /\ Last(pending) \notin Handed
         /\ Top' = Top /\ Top \in Nat
         /\ pending' \in Seq(Nat) /\ Len(pending') = Len(pending) - 1
         /\ Len(pending) \in Nat \ {0}
         /\ \A i \in 1..Len(pending') : pending'[i] = pending[i]
  <1>1. /\ Len(pending) \in Nat /\ Len(pending) > 0
        /\ Last(pending) = pending[Len(pending)]
        /\ Front(pending) \in Seq(Nat) /\ Len(Front(pending)) = Len(pending) - 1
        /\ \A i \in 1..(Len(pending) - 1) : Front(pending)[i] = pending[i]
    BY FrontLast DEF IInv, Shape, RecvPending
  <1>2. pending' = Front(pending) /\ sent' = sent /\ wire' = wire
    BY DEF RecvPending
  <1>3. Top' = Top
    BY <1>2 DEF Top
  <1>4. sent \in Nat /\ Len(wire) \in Nat /\ Len(wire) <= sent
    BY LenProperties DEF IInv, Shape
  <1>5. Top \in Nat
    BY <1>4 DEF Top
  <1>6. Last(pending) = Top - Len(pending) /\ Len(pending) < Top
    BY <1>1 DEF IInv, Shape
  <1>7. Last(pending) \notin Handed
    BY <1>1, <1>5, <1>6 DEF IInv, HandedOnes
  <1> QED BY <1>1, <1>2, <1>3, <1>5, <1>6, <1>7

LEMMA PendingInv == ASSUME IInv, RecvPending PROVE IInv'
  <1> DEFINE n == Last(pending)
  <1>1. HandOut(n) /\ sent' = sent /\ wire' = wire /\ open' = open
    BY DEF RecvPending
  <1>2. /\ n = Top - Len(pending) /\ n \in Nat /\ 0 < n /\ n < Top /\ n \notin Handed
        /\ Top' = Top /\ Top \in Nat
        /\ pending' \in Seq(Nat) /\ Len(pending') = Len(pending) - 1
        /\ Len(pending) \in Nat \ {0}
        /\ \A i \in 1..Len(pending') : pending'[i] = pending[i]
    BY PendingIs
  <1> HIDE DEF n
  <1>3. /\ delivered' \in Seq(Nat) /\ rejected' \in SUBSET Nat
        /\ Handed' = Handed \cup {n}
        /\ delivered' = delivered \/ delivered' = Append(delivered, n)
        /\ ret' \in {"Message", "WireError"}
    BY <1>1, <1>2, HandOutIs DEF IInv, Shape
  <1>4. Shape'
    BY <1>1, <1>2, <1>3 DEF IInv, Shape
  <1>5. HandedOnes'
    <2>1. Handed = {m \in 1..Top : m = Top \/ m < Top - Len(pending)}
      BY DEF IInv, HandedOnes
    <2>2. /\ n \in 1..Top
          /\ \A m \in 1..Top : m < Top - Len(pending') <=> m < Top - Len(pending) \/ m = n
      <3> DEFINE t == Top
                 p == Len(pending)
                 q == Len(pending')
      <3>1. n = t - p /\ n \in Nat /\ 0 < n /\ n < t /\ t \in Nat /\ q = p - 1 /\ p \in Nat \ {0}
        BY <1>2
      <3> HIDE DEF t, p, q
      <3>2. n \in 1..t /\ \A m \in 1..t : m < t - q <=> m < t - p \/ m = n
        BY <3>1
      <3> QED BY <3>2 DEF t, p, q
    <2>3. Handed' = {m \in 1..Top : m = Top \/ m < Top - Len(pending')}
      BY <1>3, <2>1, <2>2, Zenon
    <2> QED BY <1>2, <2>3 DEF HandedOnes
  <1>6. \A a, b \in Elements(delivered) : a > n /\ b > n => a = b
    <2>1. \A a \in Elements(delivered) : a \in Nat /\ (a = Top \/ a < n)
      BY <1>2 DEF IInv, HandedOnes, Handed
    <2> QED BY <1>2, <2>1
  <1>7. Distinct' /\ OvertakenOnce'
    BY <1>2, <1>3, <1>6, NextInOrder DEF IInv, Shape, Handed
  <1>8. Closed'
    BY <1>3 DEF Closed
  <1> QED BY <1>4, <1>5, <1>7, <1>8 DEF IInv

\* A read of k frames hands out the last of them and stashes the others.
LEMMA ReadIs ==
  ASSUME IInv, RecvRead
  PROVE  \E k \in 1..Len(wire) :
           /\ HandOut(Top + k)
           /\ pending' \in Seq(Nat) /\ Len(pending') = k - 1
           /\ \A i \in 1..(k - 1) : pending'[i] = Top + k - i
           /\ wire' \in Seq(Nat) /\ Len(wire') = Len(wire) - k
           /\ \A i \in 1..(Len(wire) - k) : wire'[i] = Top + k + i
           /\ Top' = Top + k
  <1>1. PICK k \in 1..Len(wire) :
          /\ HandOut(First(SubSeq(wire, 1, k)))
          /\ pending' = Stash(SubSeq(wire, 1, k))
          /\ wire' = SubSeq(wire, k + 1, Len(wire))
    BY DEF RecvRead
  <1> DEFINE l == Len(wire)
             s == SubSeq(wire, 1, k)
  <1>2. /\ l \in Nat /\ sent \in Nat /\ l <= sent /\ k \in Nat /\ 1 <= k /\ k <= l
        /\ Top = sent - l /\ sent' = sent
        /\ \A i \in 1..l : wire[i] \in Nat /\ wire[i] = Top + i
    BY LenProperties, ElementOfSeq DEF IInv, Shape, Top, RecvRead
  <1> HIDE DEF l
  <1>3. s \in Seq(Nat) /\ Len(s) = k /\ \A i \in 1..k : s[i] = wire[i]
    <2>1. 1 \in Int /\ k \in Int /\ \A i \in 1..k : wire[i] \in Nat
      BY <1>2
    <2>2. /\ s \in Seq(Nat) /\ Len(s) = IF 1 <= k THEN k - 1 + 1 ELSE 0
          /\ \A i \in 1..(k - 1 + 1) : s[i] = wire[1 + i - 1]
      BY <2>1, SubSeqProperties
    <2> HIDE DEF s
    <2>3. \A i \in 1..k : i \in 1..(k - 1 + 1) /\ 1 + i - 1 = i
      BY <1>2
    <2>4. \A i \in 1..k : s[i] = wire[i]
      BY <2>2, <2>3, Zenon
    <2>5. Len(s) = k
      BY <1>2, <2>2
    <2> QED BY <2>2, <2>4, <2>5
  <1>4. /\ wire' \in Seq(Nat) /\ Len(wire') = l - k
        /\ \A i \in 1..(l - k) : wire'[i] = wire[k + i]
    <2>1. k + 1 \in Int /\ l \in Int /\ \A i \in (k + 1)..l : wire[i] \in Nat
      BY <1>2
    <2>2. wire' = SubSeq(wire, k + 1, l)
      BY <1>1 DEF l
    <2>3. /\ wire' \in Seq(Nat)
          /\ Len(wire') = IF k + 1 <= l THEN l - (k + 1) + 1 ELSE 0
          /\ \A i \in 1..(l - (k + 1) + 1) : wire'[i] = wire[(k + 1) + i - 1]
      BY <2>1, <2>2, SubSeqProperties
    <2>4. \A i \in 1..(l - k) : i \in 1..(l - (k + 1) + 1) /\ (k + 1) + i - 1 = k + i
      BY <1>2
    <2>5. \A i \in 1..(l - k) : wire'[i] = wire[k + i]
      BY <2>3, <2>4, Zenon
    <2>6. Len(wire') = l - k
      BY <1>2, <2>3
    <2> QED BY <2>3, <2>5, <2>6
  <1> HIDE DEF s
  <1>5. s # <<>>
    BY <1>2, <1>3, EmptySeq
  <1>6. /\ First(s) = s[Len(s)]
        /\ Stash(s) \in Seq(Nat) /\ Len(Stash(s)) = Len(s) - 1
        /\ \A i \in 1..(Len(s) - 1) : Stash(s)[i] = s[Len(s) - i]
    BY <1>3, <1>5, StashIs
  <1>7. First(s) = Top + k
    <2>1. First(s) = wire[k]
      BY <1>2, <1>3, <1>6
    <2>2. k \in 1..l
      BY <1>2
    <2> QED BY <1>2, <2>1, <2>2
  <1>8. HandOut(Top + k) /\ pending' = Stash(s)
    BY <1>1, <1>7 DEF s
  <1>9. ASSUME NEW i \in 1..(k - 1) PROVE pending'[i] = Top + k - i
    <2>1. k - i \in 1..k /\ k - i \in 1..l /\ i \in 1..(Len(s) - 1)
      BY <1>2, <1>3
    <2>2. pending'[i] = s[Len(s) - i]
      BY <1>6, <1>8, <2>1
    <2>3. s[Len(s) - i] = wire[k - i]
      BY <1>3, <2>1
    <2>4. wire[k - i] = Top + (k - i)
      BY <1>2, <2>1
    <2> QED BY <1>2, <2>2, <2>3, <2>4
  <1>10. ASSUME NEW i \in 1..(l - k) PROVE wire'[i] = Top + k + i
    <2>1. k + i \in 1..l
      BY <1>2
    <2> QED BY <1>2, <1>4, <2>1
  <1>11. Top' = Top + k
    <2>1. Top' = sent' - Len(wire')
      BY DEF Top
    <2> QED BY <1>2, <1>4, <2>1
  <1>12. pending' \in Seq(Nat) /\ Len(pending') = k - 1
    BY <1>3, <1>6, <1>8
  <1> QED BY <1>4, <1>8, <1>9, <1>10, <1>11, <1>12 DEF l

LEMMA ReadInv == ASSUME IInv, RecvRead PROVE IInv'
  <1>1. PICK k \in 1..Len(wire) :
          /\ HandOut(Top + k)
          /\ pending' \in Seq(Nat) /\ Len(pending') = k - 1
          /\ \A i \in 1..(k - 1) : pending'[i] = Top + k - i
          /\ wire' \in Seq(Nat) /\ Len(wire') = Len(wire) - k
          /\ \A i \in 1..(Len(wire) - k) : wire'[i] = Top + k + i
          /\ Top' = Top + k
    BY ReadIs
  <1>2. /\ Len(wire) \in Nat /\ sent \in Nat /\ Len(wire) <= sent
        /\ k \in Nat /\ 1 <= k /\ k <= Len(wire)
        /\ Top \in Nat /\ sent' = sent /\ open' = open /\ Len(pending) = 0
    <2>1. Len(wire) \in Nat /\ sent \in Nat /\ Len(wire) <= sent
      BY LenProperties DEF IInv, Shape
    <2>2. sent' = sent /\ open' = open /\ Len(pending) = 0
      BY EmptySeq DEF RecvRead
    <2> QED BY <2>1, <2>2 DEF Top
  <1> DEFINE n == Top + k
  <1>3. n \in Nat /\ n > Top
    BY <1>2
  <1>4. Handed = 1..Top
    <2>1. \A m \in 1..Top : m = Top \/ m < Top - Len(pending)
      BY <1>2
    <2> QED BY <2>1, Zenon DEF IInv, HandedOnes
  <1>5. /\ delivered' \in Seq(Nat) /\ rejected' \in SUBSET Nat
        /\ Handed' = Handed \cup {n}
        /\ delivered' = delivered \/ delivered' = Append(delivered, n)
        /\ ret' \in {"Message", "WireError"}
    BY <1>1, <1>3, HandOutIs DEF IInv, Shape
  <1>6. Shape'
    <2>1. \A i \in 1..Len(wire') : wire'[i] = Top' + i
      BY <1>1
    <2>2. ASSUME NEW i \in 1..Len(pending') PROVE pending'[i] = Top' - i
      <3>1. i \in 1..(k - 1)
        BY <1>1
      <3>2. pending'[i] = Top + k - i
        BY <1>1, <3>1, Zenon
      <3>3. Top' = Top + k
        BY <1>1, Zenon
      <3>4. Top \in Int /\ k \in Int /\ i \in Int
        BY <1>2
      <3> QED BY <3>2, <3>3, <3>4
    <2>3. Len(wire') <= sent' /\ (Len(pending') > 0 => Len(pending') < Top')
      BY <1>1, <1>2
    <2>4. open \in BOOLEAN
      BY DEF IInv, Shape
    <2> QED BY <1>1, <1>2, <1>5, <2>1, <2>2, <2>3, <2>4 DEF Shape
  <1>7. HandedOnes'
    <2>1. n \in 1..n /\ n - Len(pending') = Top + 1
      BY <1>1, <1>2
    <2>2. \A m : m \in 1..n /\ (m = n \/ m < Top + 1) <=> m \in 1..Top \/ m = n
      BY <1>2
    <2>3. Handed' = {m \in 1..n : m = n \/ m < n - Len(pending')}
      BY <1>4, <1>5, <2>1, <2>2, Zenon
    <2> QED BY <1>1, <2>3 DEF HandedOnes
  <1> HIDE DEF n
  <1>8. \A a \in Elements(delivered) : a \in Nat /\ a < n
    BY <1>2, <1>3, <1>4 DEF Handed
  <1>9. Distinct' /\ OvertakenOnce'
    <2>1. n \notin Elements(delivered)
      BY <1>3, <1>8
    <2>2. \A a, b \in Elements(delivered) : a > n /\ b > n => a = b
      BY <1>3, <1>8
    <2> QED BY <1>3, <1>5, <2>1, <2>2, NextInOrder DEF IInv, Shape
  <1>10. Closed'
    BY <1>5 DEF Closed
  <1> QED BY <1>6, <1>7, <1>9, <1>10 DEF IInv

LEMMA SendInv == ASSUME IInv, DeviceSends PROVE IInv'
  <1>1. /\ open /\ sent' = sent + 1 /\ wire' = Append(wire, sent + 1)
        /\ open' = open /\ pending' = pending /\ delivered' = delivered
        /\ rejected' = rejected /\ ret' = ret
    BY DEF DeviceSends
  <1>2. sent \in Nat /\ Len(wire) \in Nat /\ wire \in Seq(Nat) /\ sent + 1 \in Nat
    BY LenProperties DEF IInv, Shape
  <1>3. /\ wire' \in Seq(Nat) /\ Len(wire') = Len(wire) + 1
        /\ \A i \in 1..Len(wire) : wire'[i] = wire[i]
        /\ wire'[Len(wire) + 1] = sent + 1
    BY <1>1, <1>2, AppendProperties
  <1>4. Top' = Top /\ Top = sent - Len(wire)
    BY <1>1, <1>2, <1>3 DEF Top
  <1>5. ASSUME NEW i \in 1..Len(wire') PROVE wire'[i] = Top' + i
    <2>1. \A j \in 1..Len(wire) : wire[j] = Top + j
      BY DEF IInv, Shape
    <2>2. CASE i \in 1..Len(wire)
      BY <1>3, <1>4, <2>1, <2>2
    <2>3. CASE i = Len(wire) + 1
      BY <1>2, <1>3, <1>4, <2>3
    <2> QED BY <1>2, <1>3, <2>2, <2>3
  <1>6. Shape'
    BY <1>1, <1>2, <1>3, <1>4, <1>5 DEF IInv, Shape
  <1>7. HandedOnes' /\ Distinct' /\ OvertakenOnce'
    BY <1>1, <1>4 DEF IInv, HandedOnes, Handed, Elements, Distinct, OvertakenOnce
  <1>8. Closed'
    BY <1>1 DEF IInv, Closed
  <1> QED BY <1>6, <1>7, <1>8 DEF IInv

\* The steps that move no frame.
LEMMA StillInv ==
  ASSUME IInv, DeviceCloses \/ RecvNothing \/ RecvDisconnected \/ UNCHANGED vars
  PROVE  IInv'
  <1>1. /\ sent' = sent /\ wire' = wire /\ pending' = pending
        /\ delivered' = delivered /\ rejected' = rejected
    BY DEF DeviceCloses, RecvNothing, RecvDisconnected, vars
  <1>2. open' \in BOOLEAN /\ ret' \in {"None", "Message", "WireError", "Disconnected"}
    BY DEF IInv, Shape, DeviceCloses, RecvNothing, RecvDisconnected, vars
  <1>3. Top' = Top
    BY <1>1 DEF Top
  <1>4. Shape'
    BY <1>1, <1>2, <1>3 DEF IInv, Shape
  <1>5. HandedOnes' /\ Distinct' /\ OvertakenOnce'
    BY <1>1, <1>3 DEF IInv, HandedOnes, Handed, Elements, Distinct, OvertakenOnce
  <1>6. Closed'
    BY <1>1 DEF IInv, Closed, DeviceCloses, RecvNothing, RecvDisconnected, vars
  <1> QED BY <1>4, <1>5, <1>6 DEF IInv

LEMMA NextInv == IInv /\ [Next]_vars => IInv'
  BY PendingInv, ReadInv, SendInv, StillInv DEF Next, Recv

LEMMA InvHolds == Spec => []IInv
  BY InitInv, NextInv, PTL DEF Spec

-----------------------------------------------------------------------------
(* The theorems.                                                           *)

\* However the network cuts the stream into reads, a frame is overtaken by at
\* most one later one on its way through the pending vector.
THEOREM Overtaken == Spec => []OvertakenOnce
  <1>1. IInv => OvertakenOnce
    BY DEF IInv
  <1> QED BY <1>1, InvHolds, PTL

\* recv() reports a disconnect only when every frame sent has been handed out.
THEOREM Nothing == Spec => []NothingLeftBehind
  <1>1. ASSUME IInv, ret = "Disconnected" PROVE Handed = 1..sent
    <2>1. wire = <<>> /\ pending = <<>> /\ sent \in Nat
      BY <1>1 DEF IInv, Closed, Shape
    <2>2. Len(wire) = 0 /\ Len(pending) = 0
      BY <2>1, EmptySeq
    <2>3. Top = sent
      BY <2>1, <2>2 DEF Top
    <2>4. \A m \in 1..sent : m = sent \/ m < sent - Len(pending)
      BY <2>1, <2>2
    <2> QED BY <1>1, <2>3, <2>4, Zenon DEF IInv, HandedOnes
  <1>2. IInv => NothingLeftBehind
    BY <1>1 DEF NothingLeftBehind, Handed
  <1> QED BY <1>2, InvHolds, PTL

\* The frames on the wire and pending, by their numbers.
OpenOf(s, t, p) == {m \in Nat : (t < m /\ m <= s) \/ (t - p <= m /\ m < t)}

LEMMA OpenIs ==
  ASSUME NEW w \in Seq(Nat), NEW p \in Seq(Nat), NEW t \in Nat,
         \A i \in 1..Len(w) : w[i] = t + i,
         \A i \in 1..Len(p) : p[i] = t - i,
         Len(p) > 0 => Len(p) < t
  PROVE  Elements(w) \cup Elements(p) = OpenOf(t + Len(w), t, Len(p))
  <1>1. /\ Len(w) \in Nat /\ Len(p) \in Nat
        /\ DOMAIN w = 1..Len(w) /\ DOMAIN p = 1..Len(p)
    BY LenProperties
  <1>2. Elements(w) = {m \in Nat : t < m /\ m <= t + Len(w)}
    <2>1. \A i \in 1..Len(w) : w[i] \in Nat /\ t < w[i] /\ w[i] <= t + Len(w)
      BY <1>1
    <2>2. ASSUME NEW m \in Nat, t < m, m <= t + Len(w)
          PROVE  m - t \in 1..Len(w) /\ w[m - t] = m
      BY <1>1, <2>2
    <2> QED BY <1>1, <2>1, <2>2 DEF Elements
  <1>3. Elements(p) = {m \in Nat : t - Len(p) <= m /\ m < t}
    <2>1. \A i \in 1..Len(p) : p[i] \in Nat /\ t - Len(p) <= p[i] /\ p[i] < t
      BY <1>1
    <2>2. ASSUME NEW m \in Nat, t - Len(p) <= m, m < t
          PROVE  t - m \in 1..Len(p) /\ p[t - m] = m
      BY <1>1, <2>2
    <2> QED BY <1>1, <2>1, <2>2 DEF Elements
  <1> QED BY <1>2, <1>3 DEF OpenOf

\* A connection hands out every frame once and nothing else: pending loses,
\* duplicates and invents none, also when a frame of a read does not decode.
THEOREM Implements == Spec => EachFrameOnce
  <1> DEFINE inFlight == Elements(wire) \cup Elements(pending)
             Open == OpenOf(sent, Top, Len(pending))
  <1>2. Init => Frames!Init
    BY DEF Init, Frames!Init, Elements
  <1>3. ASSUME IInv, IInv', [Next]_vars PROVE [Frames!Next]_(Frames!vars)
    <2>1. /\ inFlight = Open /\ inFlight' = Open'
          /\ sent \in Nat /\ Top \in Nat /\ Len(wire) \in Nat /\ Len(pending) \in Nat
          /\ Top = sent - Len(wire) /\ Top' = sent' - Len(wire')
      <3>1. sent \in Nat /\ Len(wire) \in Nat /\ Len(wire) <= sent /\ Len(pending) \in Nat
        BY <1>3, LenProperties DEF IInv, Shape
      <3>2. sent' \in Nat /\ Len(wire') \in Nat /\ Len(wire') <= sent'
        BY <1>3, LenProperties DEF IInv, Shape
      <3>3. Top = sent - Len(wire) /\ Top' = sent' - Len(wire')
        BY DEF Top
      <3>4. Top \in Nat /\ Top + Len(wire) = sent /\ Top' \in Nat /\ Top' + Len(wire') = sent'
        BY <3>1, <3>2, <3>3
      <3>5. inFlight = OpenOf(Top + Len(wire), Top, Len(pending))
        BY <1>3, <3>4, OpenIs DEF IInv, Shape
      <3>6. inFlight' = OpenOf(Top' + Len(wire'), Top', Len(pending'))
        <4>1. /\ wire' \in Seq(Nat) /\ pending' \in Seq(Nat)
              /\ \A i \in 1..Len(wire') : wire'[i] = Top' + i
              /\ \A i \in 1..Len(pending') : pending'[i] = Top' - i
              /\ Len(pending') > 0 => Len(pending') < Top'
          BY <1>3 DEF IInv, Shape
        <4>2. Elements(wire') \cup Elements(pending') = OpenOf(Top' + Len(wire'), Top', Len(pending'))
          BY <3>4, <4>1, OpenIs
        <4> QED BY <4>2 DEF Elements
      <3>7. Open' = OpenOf(sent', Top', Len(pending'))
        BY DEF OpenOf
      <3> QED BY <3>1, <3>3, <3>4, <3>5, <3>6, <3>7
    <2> HIDE DEF inFlight
    <2>2. CASE DeviceSends
      <3>1. /\ sent' = sent + 1 /\ Handed' = Handed /\ pending' = pending /\ Top' = Top
        <4>1. sent' = sent + 1 /\ wire' = Append(wire, sent + 1) /\ pending' = pending
              /\ delivered' = delivered /\ rejected' = rejected
          BY <2>2 DEF DeviceSends
        <4>2. Len(wire') = Len(wire) + 1
          BY <1>3, <2>1, <4>1, AppendProperties DEF IInv, Shape
        <4> QED BY <2>1, <4>1, <4>2 DEF Handed, Elements
      <3>2. Open' = Open \cup {sent + 1}
        BY <2>1, <3>1 DEF OpenOf
      <3>3. Frames!Send
        BY <2>1, <3>1, <3>2 DEF Frames!Send, Handed, inFlight
      <3> QED BY <3>3 DEF Frames!Next
    <2>3. CASE RecvPending
      <3> DEFINE n == Last(pending)
      <3>1. /\ n = Top - Len(pending) /\ n \in Nat /\ n < Top /\ Top' = Top
            /\ Len(pending') = Len(pending) - 1 /\ Len(pending) \in Nat \ {0}
        BY <1>3, <2>3, PendingIs
      <3>2. sent' = sent /\ HandOut(n)
        BY <2>3 DEF RecvPending
      <3> HIDE DEF n
      <3>3. Handed' = Handed \cup {n}
        BY <1>3, <3>1, <3>2, HandOutIs DEF IInv, Shape
      <3>4. n \in Open /\ Open' = Open \ {n}
        BY <2>1, <3>1, <3>2 DEF OpenOf
      <3> QED BY <2>1, <3>2, <3>3, <3>4 DEF Frames!Next, Frames!HandOut, Handed, inFlight
    <2>4. CASE RecvRead
      <3>1. PICK k \in 1..Len(wire) :
              /\ HandOut(Top + k)
              /\ Len(pending') = k - 1
              /\ Top' = Top + k
        BY <1>3, <2>4, ReadIs
      <3> DEFINE n == Top + k
      <3>2. sent' = sent /\ Len(pending) = 0
        BY <2>4, EmptySeq DEF RecvRead
      <3>3. k \in Nat /\ n \in Nat /\ Top < n /\ n <= sent /\ 1 <= k
        BY <2>1
      <3>4. Handed' = Handed \cup {n}
        BY <1>3, <3>1, <3>3, HandOutIs DEF IInv, Shape
      <3>5. n \in Open /\ Open' = Open \ {n}
        BY <2>1, <3>1, <3>2, <3>3 DEF OpenOf
      <3> QED BY <2>1, <3>2, <3>4, <3>5 DEF Frames!Next, Frames!HandOut, Handed, inFlight
    <2>5. CASE DeviceCloses \/ RecvNothing \/ RecvDisconnected \/ UNCHANGED vars
      BY <2>5 DEF DeviceCloses, RecvNothing, RecvDisconnected, vars, Frames!vars, Elements
    <2> QED BY <1>3, <2>2, <2>3, <2>4, <2>5 DEF Next, Recv
  <1> QED BY <1>2, <1>3, InvHolds, PTL DEF Spec, EachFrameOnce, Frames!Spec

\* A client that caches configurations is a connection.
LEMMA GvpInv == GvpSpec => []IInv
  <1>1. GvpInit => Init
    BY DEF GvpInit
  <1>2. [GvpNext]_gvpVars => [Next]_vars
    BY DEF GvpNext, PollMessage, PollOther, Camera, Next, Recv, gvpVars
  <1> QED BY <1>1, <1>2, InitInv, NextInv, PTL DEF GvpSpec

\* What the cached configuration is: none, or one that arrived and that at
\* most one of those that arrived is newer than.
CacheInv ==
  /\ config = 0 => ConfigsReturned = {}
  /\ config # 0 => config \in ConfigsReturned
  /\ \A a, b \in ConfigsReturned : a > config /\ b > config => a = b

\* At most one of the frames returned is ahead of the next one.
LEMMA OneAhead ==
  ASSUME IInv, RecvPending \/ RecvRead
  PROVE  \E n \in Nat \ {0} :
           /\ HandOut(n)
           /\ \A a, b \in Elements(delivered) : a > n /\ b > n => a = b
  <1>1. \A a \in Elements(delivered) :
          a \in Nat /\ a <= Top /\ (a = Top \/ a < Top - Len(pending))
    <2>1. Elements(delivered) \subseteq {m \in 1..Top : m = Top \/ m < Top - Len(pending)}
      BY DEF IInv, HandedOnes, Handed
    <2>2. Top \in Nat
      BY LenProperties DEF IInv, Shape, Top
    <2> QED BY <2>1, <2>2
  <1>2. CASE RecvPending
    <2>1. /\ Last(pending) = Top - Len(pending) /\ Last(pending) \in Nat /\ 0 < Last(pending)
          /\ Last(pending) < Top /\ Top \in Nat
      BY <1>2, PendingIs
    <2>2. HandOut(Last(pending))
      BY <1>2 DEF RecvPending
    <2> DEFINE n == Last(pending)
    <2>3. \A a, b \in Elements(delivered) : a > n /\ b > n => a = b
      BY <1>1, <2>1
    <2>4. n \in Nat \ {0}
      BY <2>1
    <2> QED BY <2>2, <2>3, <2>4
  <1>3. CASE RecvRead
    <2>1. PICK k \in 1..Len(wire) : HandOut(Top + k)
      BY <1>3, ReadIs
    <2>2. Len(wire) \in Nat /\ Top \in Nat
      BY LenProperties DEF IInv, Shape, Top
    <2>3. /\ Top + k \in Nat \ {0}
          /\ \A a, b \in Elements(delivered) : a > Top + k /\ b > Top + k => a = b
      BY <1>1, <2>2
    <2> QED BY <2>1, <2>3
  <1> QED BY <1>2, <1>3

LEMMA CacheNext == IInv /\ CacheInv /\ [GvpNext]_gvpVars => CacheInv'
  <1> SUFFICES ASSUME IInv, CacheInv, [GvpNext]_gvpVars PROVE CacheInv'
    OBVIOUS
  <1>1. CASE PollMessage
    <2>1. PICK n \in Nat \ {0} :
            /\ HandOut(n)
            /\ \A a, b \in Elements(delivered) : a > n /\ b > n => a = b
      BY <1>1, OneAhead DEF PollMessage
    <2>2. config' = IF ret' = "Message" THEN Cached(Last(delivered')) ELSE config
      BY <1>1 DEF PollMessage
    <2>3. CASE ret' # "Message"
      <3>1. delivered' = delivered /\ config' = config
        BY <2>1, <2>2, <2>3, HandOutIs DEF IInv, Shape
      <3> QED BY <3>1 DEF CacheInv, ConfigsReturned, Elements
    <2>4. CASE ret' = "Message"
      <3>1. delivered' = Append(delivered, n)
        BY <2>1, <2>4, HandOutIs DEF IInv, Shape
      <3>2. delivered \in Seq(Nat)
        BY DEF IInv, Shape
      <3>3. Last(delivered') = n
        BY <3>1, <3>2, AppendProperties DEF Last
      <3>4. Elements(delivered') = Elements(delivered) \cup {n}
        BY <3>1, <3>2, ElementsAppend
      <3>5. ConfigsReturned' = (Elements(delivered) \cup {n}) \cap Configs
        BY <3>4 DEF ConfigsReturned, Elements
      <3>6. config' = IF n \in Configs THEN n ELSE config
        BY <2>2, <2>4, <3>3 DEF Cached
      <3>7. CASE n \in Configs
        <4>1. n \in ConfigsReturned' /\ config' = n /\ n # 0
          BY <2>1, <3>5, <3>6, <3>7
        <4>2. \A a \in ConfigsReturned' : a \in Elements(delivered) \/ a = n
          BY <3>5
        <4>3. \A a, b \in ConfigsReturned' : a > n /\ b > n => a = b
          BY <2>1, <4>2
        <4> QED BY <4>1, <4>3 DEF CacheInv
      <3>8. CASE n \notin Configs
        <4>1. ConfigsReturned' = ConfigsReturned /\ config' = config
          BY <3>5, <3>6, <3>8 DEF ConfigsReturned
        <4> QED BY <4>1 DEF CacheInv
      <3> QED BY <3>7, <3>8
    <2> QED BY <2>3, <2>4
  <1>2. CASE PollOther \/ Camera \/ UNCHANGED gvpVars
    <2>1. delivered' = delivered /\ config' = config
      BY <1>2 DEF PollOther, Camera, gvpVars, vars, RecvNothing, RecvDisconnected,
                  DeviceSends, DeviceCloses
    <2> QED BY <2>1 DEF CacheInv, ConfigsReturned, Elements
  <1> QED BY <1>1, <1>2 DEF GvpNext

\* The configuration config() returns is one the camera sent, and of those
\* that arrived at most one is newer, however messages are batched in reads.
THEOREM ConfigLag == GvpSpec => []ConfigLagsByOne
  <1>1. GvpInit => CacheInv
    BY EmptySeq DEF GvpInit, Init, CacheInv, ConfigsReturned, Elements
  <1>2. ASSUME IInv, CacheInv PROVE ConfigLagsByOne
    <2> DEFINE Newer == {n \in ConfigsReturned : n > config}
    <2>1. config = 0 <=> ConfigsReturned = {}
      BY <1>2 DEF CacheInv
    <2>2. config # 0 => config \in ConfigsReturned
      BY <1>2 DEF CacheInv
    <2>3. Cardinality(Newer) <= 1
      <3>1. \A a, b \in Newer : a = b
        BY <1>2 DEF CacheInv
      <3> HIDE DEF Newer
      <3>2. CASE Newer = {}
        BY <3>2, FS_EmptySet
      <3>3. CASE Newer # {}
        <4>1. PICK a : Newer = {a}
          BY <3>1, <3>3
        <4>2. Cardinality({a}) = 1
          BY FS_Singleton, Zenon
        <4> QED BY <4>1, <4>2
      <3> QED BY <3>2, <3>3
    <2> QED BY <2>1, <2>2, <2>3 DEF ConfigLagsByOne
  <1> QED BY <1>1, <1>2, GvpInv, CacheNext, PTL DEF GvpSpec
=============================================================================
