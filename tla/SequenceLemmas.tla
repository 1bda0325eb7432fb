--------------------------- MODULE SequenceLemmas ---------------------------
(***************************************************************************)
(* Lemmas that the proofs of several components need.                      *)
(*                                                                         *)
(* Numbers and loops: a loop of the code is a recursive function of the    *)
(* number of rounds; here is when there is such a function, and what is    *)
(* true when it ends.                                                      *)
(*                                                                         *)
(* Sequences: what taking the head of a sequence and appending to it do to *)
(* a concatenation and to a prefix (the job list of grpool and the sendCh  *)
(* of a connection are read and written in no other way), and which items  *)
(* are left when one after another is taken out (StrArray).                *)
(***************************************************************************)
EXTENDS Integers, Sequences, SequenceTheorems, WellFoundedInduction, TLAPS

\* A set of natural numbers has a least one.
LEMMA LeastNumber ==
  ASSUME NEW S \in SUBSET Nat, S # {}
  PROVE  \E i \in S : \A j \in S : i <= j
<1> DEFINE Less == {ss \in Nat \X Nat : ss[1] < ss[2]}
<1>1. IsWellFoundedOn(Less, Nat)
  BY NatLessThanWellFounded DEF OpToRel
<1>2. \A i, j \in Nat : <<j, i>> \notin Less => i <= j
  OBVIOUS
<1> HIDE DEF Less
<1>3. PICK i \in S : \A j \in S : <<j, i>> \notin Less
  BY <1>1, WFMin, Zenon
<1>4. \A j \in S : i <= j
  BY <1>2, <1>3
<1> QED
  BY <1>4

\* A function on 1 .. n is a sequence of length n.
LEMMA FunctionIsSeq ==
  ASSUME NEW V, NEW n \in Nat, NEW f \in [1 .. n -> V]
  PROVE  f \in Seq(V) /\ Len(f) = n /\ DOMAIN f = 1 .. n
<1>1. \A k \in 1 .. n : f[k] \in V
  OBVIOUS
<1>2. [k \in 1 .. n |-> f[k]] \in Seq(V) /\ Len([k \in 1 .. n |-> f[k]]) = n
  BY <1>1
<1>3. f = [k \in 1 .. n |-> f[k]]
  OBVIOUS
<1> QED
  BY <1>2, <1>3

\* What holds of 0 and of the next number holds of all numbers up to n.
LEMMA CountUp ==
  ASSUME NEW n \in Nat, NEW S, 0 \in S, \A k \in 1 .. n : k - 1 \in S => k \in S
  PROVE  \A k \in 0 .. n : k \in S
<1> DEFINE Bad == {m \in 0 .. n : m \notin S}
<1>1. SUFFICES ASSUME Bad # {} PROVE FALSE
  OBVIOUS
<1>2. PICK m \in Bad : \A j \in Bad : m <= j
  <2>1. Bad \in SUBSET Nat
    OBVIOUS
  <2> HIDE DEF Bad
  <2> QED
    BY <1>1, <2>1, LeastNumber
<1>3. m \in 1 .. n /\ m - 1 \in 0 .. n /\ m - 1 \notin Bad
  BY <1>2
<1> QED
  BY <1>2, <1>3

\* Division of natural numbers.
LEMMA DivOf ==
  ASSUME NEW m \in Nat, NEW d \in Nat, d > 0
  PROVE  m \div d \in Nat /\ (m \div d) * d <= m /\ m < (m \div d) * d + d
OBVIOUS

\* A loop of n rounds: round k makes an element of D[k] of one of D[k - 1].
Rounds(n, D, start, Round) ==
  start \in D[0] /\ \A k \in 1 .. n : \A s \in D[k - 1] : Round[<<k, s>>] \in D[k]

\* The same of the states f[k] that a loop goes through.
Stays(n, D, f) ==
  f[0] \in D[0] /\ \A k \in 1 .. n : f[k - 1] \in D[k - 1] => f[k] \in D[k]

\* There are states that such rounds make of one another.
LEMMA LoopExists ==
  ASSUME NEW n \in Nat, NEW D, NEW start, NEW Round, Rounds(n, D, start, Round)
  PROVE  \E f : /\ f = [k \in 0 .. n |-> f[k]] /\ f[0] = start
                /\ \A k \in 0 .. n : f[k] \in D[k]
                /\ \A k \in 1 .. n : f[k - 1] \in D[k - 1] /\ f[k] = Round[<<k, f[k - 1]>>]
<1> USE DEF Rounds
<1> DEFINE Step(f, k) == IF k = 0 THEN start ELSE Round[<<k, f[k - 1]>>]
           Runs(m, f) == f = [k \in 0 .. m |-> Step(f, k)]
           S == {m \in 0 .. n : \E f : Runs(m, f) /\ \A k \in 0 .. m : f[k] \in D[k]}
<1>1. 0 \in S
  <2>1. PICK f : f = [k \in 0 .. 0 |-> start]
    OBVIOUS
  <2>2. \A k \in 0 .. 0 : k = 0
    OBVIOUS
  <2>3. Runs(0, f) /\ \A k \in 0 .. 0 : f[k] \in D[k]
    BY <2>1, <2>2
  <2> QED
    BY <2>3
<1>2. ASSUME NEW m \in 1 .. n, m - 1 \in S PROVE m \in S
  <2>1. PICK f : Runs(m - 1, f) /\ \A k \in 0 .. m - 1 : f[k] \in D[k]
    BY <1>2
  <2>2. PICK e : e = Round[<<m, f[m - 1]>>] /\ e \in D[m]
    <3>1. m - 1 \in 0 .. m - 1
      OBVIOUS
    <3> QED
      BY <2>1, <3>1
  <2>3. PICK g : g = [k \in 0 .. m |-> IF k = m THEN e ELSE f[k]]
    OBVIOUS
  <2>4. ASSUME NEW k \in 0 .. m PROVE g[k] = Step(g, k) /\ g[k] \in D[k]
    <3>1. CASE k = m
      <4>1. m # 0 /\ m - 1 \in 0 .. m /\ m - 1 # m
        OBVIOUS
      <4>2. g[m] = e /\ g[m - 1] = f[m - 1]
        BY <2>3, <4>1
      <4> QED
        BY <2>2, <3>1, <4>1, <4>2
    <3>2. CASE k # m
      <4>1. k \in 0 .. m - 1 /\ (k # 0 => k - 1 \in 0 .. m /\ k - 1 # m)
        BY <3>2
      <4>2. g[k] = f[k] /\ (k # 0 => g[k - 1] = f[k - 1])
        BY <2>3, <3>2, <4>1
      <4>3. f[k] = Step(f, k) /\ f[k] \in D[k]
        <5>1. \A i \in 0 .. m - 1 : f[i] = Step(f, i)
          BY <2>1
        <5> QED
          BY <2>1, <4>1, <5>1
      <4> QED
        BY <4>2, <4>3
    <3> QED
      BY <3>1, <3>2
  <2>5. Runs(m, g)
    <3>1. g = [k \in 0 .. m |-> g[k]]
      BY <2>3
    <3>2. \A k \in 0 .. m : g[k] = Step(g, k)
      BY <2>4
    <3> QED
      BY <3>1, <3>2
  <2>6. m \in 0 .. n
    OBVIOUS
  <2> QED
    BY <2>4, <2>5, <2>6
<1>3. n \in S
  <2>1. n \in 0 .. n
    OBVIOUS
  <2> HIDE DEF S
  <2> QED
    BY <1>1, <1>2, <2>1, CountUp
<1>4. PICK f : Runs(n, f) /\ \A k \in 0 .. n : f[k] \in D[k]
  BY <1>3
<1>5. \A k \in 0 .. n : f[k] = Step(f, k)
  BY <1>4
<1>6. f = [k \in 0 .. n |-> f[k]]
  BY <1>4, <1>5
<1>7. 0 \in 0 .. n /\ \A k \in 1 .. n : k \in 0 .. n /\ k - 1 \in 0 .. n /\ k # 0
  OBVIOUS
<1> QED
  BY <1>4, <1>5, <1>6, <1>7

\* The last one is what it should be.
LEMMA LoopEnds ==
  ASSUME NEW n \in Nat, NEW D, NEW f, Stays(n, D, f)
  PROVE  f[n] \in D[n]
<1> USE DEF Stays
<1> DEFINE S == {k \in 0 .. n : f[k] \in D[k]}
<1>1. 0 \in S
  OBVIOUS
<1>2. \A k \in 1 .. n : k - 1 \in S => k \in S
  OBVIOUS
<1>3. n \in 0 .. n
  OBVIOUS
<1> HIDE DEF S
<1>4. n \in S
  BY <1>1, <1>2, <1>3, CountUp
<1> QED
  BY <1>4 DEF S

-----------------------------------------------------------------------------
(* The head, the end and parts of a sequence.                              *)

\* Taking the head of the list and appending it to what was taken before
\* changes the concatenation of the two in nothing.
LEMMA MoveHead ==
  ASSUME NEW S, NEW s \in Seq(S), NEW l \in Seq(S), l # <<>>
  PROVE  Append(s, Head(l)) \o Tail(l) = s \o l
<1>1. Head(l) \in S /\ Tail(l) \in Seq(S)
  BY HeadTailProperties
<1>2. <<Head(l)>> \o Tail(l) = l
  BY <1>1, SeqEqual, ConcatProperties, HeadTailProperties
<1>3. Append(s, Head(l)) = s \o <<Head(l)>> /\ <<Head(l)>> \in Seq(S)
  BY <1>1, AppendIsConcat
<1> QED
  BY <1>1, <1>2, <1>3, ConcatAssociative

\* A push at the end of the list is a push at the end of the concatenation.
LEMMA PushLast ==
  ASSUME NEW S, NEW s \in Seq(S), NEW l \in Seq(S), NEW e \in S
  PROVE  s \o Append(l, e) = Append(s \o l, e)
<1>1. <<e>> \in Seq(S) /\ s \o l \in Seq(S)
  BY ConcatProperties
<1>2. Append(s \o l, e) = (s \o l) \o <<e>> /\ Append(l, e) = l \o <<e>>
  BY <1>1, AppendIsConcat
<1> QED
  BY <1>1, <1>2, ConcatAssociative

\* A push leaves the prefixes of a sequence as they were.
LEMMA PrefixOfPush ==
  ASSUME NEW S, NEW s \in Seq(S), NEW e \in S, NEW n \in 0 .. Len(s)
  PROVE  n \in 0 .. Len(Append(s, e)) /\ SubSeq(Append(s, e), 1, n) = SubSeq(s, 1, n)
<1>1. /\ Append(s, e) \in Seq(S) /\ Len(Append(s, e)) = Len(s) + 1
      /\ \A i \in 1 .. Len(s) : Append(s, e)[i] = s[i]
      /\ Len(s) \in Nat
  BY AppendProperties, LenProperties
<1>2. /\ 1 \in 1 .. Len(s) + 1 /\ n \in 1 - 1 .. Len(s)
      /\ 1 \in 1 .. Len(Append(s, e)) + 1 /\ n \in 1 - 1 .. Len(Append(s, e))
  BY <1>1
<1>3. /\ SubSeq(s, 1, n) \in Seq(S) /\ Len(SubSeq(s, 1, n)) = n - 1 + 1
      /\ \A i \in 1 .. n - 1 + 1 : SubSeq(s, 1, n)[i] = s[1 + i - 1]
  BY <1>2, SubSeqProperties
<1>4. /\ SubSeq(Append(s, e), 1, n) \in Seq(S)
      /\ Len(SubSeq(Append(s, e), 1, n)) = n - 1 + 1
      /\ \A i \in 1 .. n - 1 + 1 : SubSeq(Append(s, e), 1, n)[i] = Append(s, e)[1 + i - 1]
  BY <1>1, <1>2, SubSeqProperties
<1>5. \A i \in 1 .. n : SubSeq(Append(s, e), 1, n)[i] = SubSeq(s, 1, n)[i]
  BY <1>1, <1>3, <1>4
<1> QED
  BY <1>1, <1>2, <1>3, <1>4, <1>5, SeqEqual

\* The first part of a concatenation is a prefix of it.
LEMMA PrefixOfConcat ==
  ASSUME NEW S, NEW s \in Seq(S), NEW l \in Seq(S)
  PROVE  Len(s) \in 0 .. Len(s \o l) /\ s = SubSeq(s \o l, 1, Len(s))
<1>1. /\ s \o l \in Seq(S) /\ Len(s \o l) = Len(s) + Len(l)
      /\ \A i \in 1 .. Len(s) + Len(l) :
           (s \o l)[i] = IF i <= Len(s) THEN s[i] ELSE l[i - Len(s)]
      /\ Len(s) \in Nat /\ Len(l) \in Nat
  BY ConcatProperties, LenProperties
<1>2. 1 \in 1 .. Len(s \o l) + 1 /\ Len(s) \in 1 - 1 .. Len(s \o l)
  BY <1>1
<1>3. /\ SubSeq(s \o l, 1, Len(s)) \in Seq(S)
      /\ Len(SubSeq(s \o l, 1, Len(s))) = Len(s) - 1 + 1
      /\ \A i \in 1 .. Len(s) - 1 + 1 : SubSeq(s \o l, 1, Len(s))[i] = (s \o l)[1 + i - 1]
  BY <1>1, <1>2, SubSeqProperties
<1>4. \A i \in 1 .. Len(s) : SubSeq(s \o l, 1, Len(s))[i] = s[i]
  BY <1>1, <1>3
<1> QED
  BY <1>1, <1>2, <1>3, <1>4, SeqEqual

\* The first element of the second part comes after the first part.
LEMMA HeadOfSecond ==
  ASSUME NEW S, NEW s \in Seq(S), NEW l \in Seq(S), l # <<>>
  PROVE  Len(s) < Len(s \o l) /\ (s \o l)[Len(s) + 1] = Head(l)
<1>1. /\ Len(s \o l) = Len(s) + Len(l)
      /\ \A i \in 1 .. Len(s) + Len(l) :
           (s \o l)[i] = IF i <= Len(s) THEN s[i] ELSE l[i - Len(s)]
      /\ Len(s) \in Nat /\ Len(l) \in Nat
  BY ConcatProperties, LenProperties
<1>2. Len(l) > 0 /\ Head(l) = l[1]
  BY <1>1, EmptySeq
<1> QED
  BY <1>1, <1>2

\* The elements of a sequence after a push.
LEMMA PushElements ==
  ASSUME NEW S, NEW s \in Seq(S), NEW e \in S
  PROVE  /\ DOMAIN Append(s, e) = DOMAIN s \cup {Len(s) + 1}
         /\ \A i \in DOMAIN s : i \in Nat /\ i < Len(s) + 1 /\ Append(s, e)[i] = s[i]
         /\ Append(s, e)[Len(s) + 1] = e
         /\ Len(s) \in Nat
<1>1. /\ Append(s, e) \in Seq(S) /\ Len(Append(s, e)) = Len(s) + 1
      /\ \A i \in 1 .. Len(s) : Append(s, e)[i] = s[i]
      /\ Append(s, e)[Len(s) + 1] = e
  BY AppendProperties
<1>2. DOMAIN s = 1 .. Len(s) /\ DOMAIN Append(s, e) = 1 .. Len(s) + 1 /\ Len(s) \in Nat
  BY <1>1, LenProperties
<1> QED
  BY <1>1, <1>2

\* The elements of a sequence without its head, and where they were.
LEMMA TailElements ==
  ASSUME NEW S, NEW s \in Seq(S), s # <<>>
  PROVE  /\ 1 \in DOMAIN s /\ Head(s) = s[1]
         /\ \A i \in DOMAIN Tail(s) : /\ i \in Nat /\ 1 < i + 1
                                      /\ i + 1 \in DOMAIN s /\ Tail(s)[i] = s[i + 1]
<1>1. /\ Tail(s) \in Seq(S) /\ Len(Tail(s)) = Len(s) - 1 /\ Head(s) = s[1]
      /\ \A i \in 1 .. Len(Tail(s)) : Tail(s)[i] = s[i + 1]
  BY HeadTailProperties
<1>2. DOMAIN s = 1 .. Len(s) /\ DOMAIN Tail(s) = 1 .. Len(Tail(s)) /\ Len(s) \in Nat
  BY <1>1, LenProperties
<1>3. Len(s) > 0
  BY <1>2, EmptySeq
<1> QED
  BY <1>1, <1>2, <1>3
\* A sequence of one item.
LEMMA OneItem ==
  ASSUME NEW S, NEW e \in S
  PROVE  \E s \in Seq(S) : s = <<e>> /\ Len(s) = 1 /\ s[1] = e
<1>1. <<e>> \in Seq(S) /\ Len(<<e>>) = 1 /\ <<e>>[1] = e
  OBVIOUS
<1> QED
  BY <1>1

\* The first n items of a sequence.
LEMMA FrontOf ==
  ASSUME NEW S, NEW s \in Seq(S), NEW n \in Nat, n <= Len(s)
  PROVE  /\ SubSeq(s, 1, n) \in Seq(S) /\ Len(SubSeq(s, 1, n)) = n
         /\ \A k \in 1 .. n : SubSeq(s, 1, n)[k] = s[k]
<1>1. Len(s) \in Nat /\ 1 \in 1 .. Len(s) + 1 /\ n \in 1 - 1 .. Len(s)
  BY LenProperties
<1>2. /\ SubSeq(s, 1, n) \in Seq(S) /\ Len(SubSeq(s, 1, n)) = n - 1 + 1
      /\ \A k \in 1 .. n - 1 + 1 : SubSeq(s, 1, n)[k] = s[1 + k - 1]
  BY <1>1, SubSeqProperties
<1>3. n - 1 + 1 = n /\ \A k \in 1 .. n : 1 + k - 1 = k
  OBVIOUS
<1> QED
  BY <1>2, <1>3

\* The items of a sequence from m to n.
LEMMA PartOf ==
  ASSUME NEW S, NEW s \in Seq(S), NEW m \in Nat \ {0}, NEW n \in Nat, m <= n + 1, n <= Len(s)
  PROVE  /\ SubSeq(s, m, n) \in Seq(S) /\ Len(SubSeq(s, m, n)) = n + 1 - m
         /\ \A k \in 1 .. n + 1 - m : SubSeq(s, m, n)[k] = s[k + m - 1]
<1>1. Len(s) \in Nat /\ m \in 1 .. Len(s) + 1 /\ n \in m - 1 .. Len(s)
  BY LenProperties
<1>2. /\ SubSeq(s, m, n) \in Seq(S) /\ Len(SubSeq(s, m, n)) = n - m + 1
      /\ \A k \in 1 .. n - m + 1 : SubSeq(s, m, n)[k] = s[m + k - 1]
  BY <1>1, SubSeqProperties
<1>3. n - m + 1 = n + 1 - m /\ \A k \in 1 .. n + 1 - m : m + k - 1 = k + m - 1
  OBVIOUS
<1> QED
  BY <1>2, <1>3
\* Behind the last item there is none.
LEMMA BehindAll ==
  ASSUME NEW S, NEW s \in Seq(S), NEW n \in Nat, n = Len(s)
  PROVE  SubSeq(s, n + 1, n) = <<>>
<1>1. PICK m \in Nat \ {0} : m = n + 1 /\ m <= n + 1 /\ n + 1 - m = 0
  OBVIOUS
<1>2. SubSeq(s, m, n) \in Seq(S) /\ Len(SubSeq(s, m, n)) = n + 1 - m
  BY <1>1, PartOf
<1> QED
  BY <1>1, <1>2, EmptySeq

-----------------------------------------------------------------------------
(* Items left out of a sequence.                                           *)

\* A sequence without the item behind the first i.
Without(l, i) == SubSeq(l, 1, i) \o SubSeq(l, i + 2, Len(l))

\* The n - 1 items of w are those of l but the one behind the first i.
Misses(w, l, n, i) ==
  Len(w) = n - 1 /\ \A k \in 1 .. n - 1 : w[k] = IF k <= i THEN l[k] ELSE l[k + 1]

\* Without is what Misses says.
LEMMA WithoutOne ==
  ASSUME NEW S, NEW l \in Seq(S), NEW n \in Nat, n = Len(l), NEW i \in Nat, i < n
  PROVE  Without(l, i) \in Seq(S) /\ Misses(Without(l, i), l, n, i)
<1> PICK w : w = SubSeq(l, 1, i) \o SubSeq(l, i + 2, n)
  OBVIOUS
<1>1. PICK front \in Seq(S) : /\ front = SubSeq(l, 1, i) /\ Len(front) = i
                              /\ \A k \in 1 .. i : front[k] = l[k]
  <2>1. i <= Len(l)
    OBVIOUS
  <2>2. /\ SubSeq(l, 1, i) \in Seq(S) /\ Len(SubSeq(l, 1, i)) = i
        /\ \A k \in 1 .. i : SubSeq(l, 1, i)[k] = l[k]
    BY <2>1, FrontOf
  <2>3. PICK front : front = SubSeq(l, 1, i)
    OBVIOUS
  <2> QED
    BY <2>2, <2>3
<1>2. PICK rear \in Seq(S) : /\ rear = SubSeq(l, i + 2, n) /\ Len(rear) = n - 1 - i
                             /\ \A k \in 1 .. n - 1 - i : rear[k] = l[k + i + 1]
  <2>1. PICK m \in Nat \ {0} : m = i + 2 /\ m <= n + 1 /\ n + 1 - m = n - 1 - i
    OBVIOUS
  <2>2. /\ SubSeq(l, m, n) \in Seq(S) /\ Len(SubSeq(l, m, n)) = n + 1 - m
        /\ \A k \in 1 .. n + 1 - m : SubSeq(l, m, n)[k] = l[k + m - 1]
    BY <2>1, PartOf
  <2>3. PICK rear \in Seq(S) : /\ rear = SubSeq(l, m, n) /\ Len(rear) = n + 1 - m
                               /\ \A k \in 1 .. n + 1 - m : rear[k] = l[k + m - 1]
    BY <2>2
  <2>4. rear = SubSeq(l, i + 2, n) /\ Len(rear) = n - 1 - i
    BY <2>1, <2>3
  <2>5. ASSUME NEW k \in 1 .. n - 1 - i PROVE rear[k] = l[k + i + 1]
    <3>1. k \in 1 .. n + 1 - m /\ k + m - 1 = k + i + 1
      BY <2>1
    <3> QED
      BY <2>3, <3>1
  <2> QED
    BY <2>4, <2>5
<1>3. /\ w \in Seq(S) /\ Len(w) = Len(front) + Len(rear)
      /\ \A k \in 1 .. Len(front) + Len(rear) :
           w[k] = IF k <= Len(front) THEN front[k] ELSE rear[k - Len(front)]
  <2>1. w = front \o rear
    BY <1>1, <1>2
  <2>2. /\ front \o rear \in Seq(S) /\ Len(front \o rear) = Len(front) + Len(rear)
        /\ \A k \in 1 .. Len(front) + Len(rear) :
             (front \o rear)[k] = IF k <= Len(front) THEN front[k] ELSE rear[k - Len(front)]
    BY ConcatProperties
  <2> QED
    BY <2>1, <2>2
<1>4. Len(front) + Len(rear) = n - 1
  <2>1. Len(front) = i /\ Len(rear) = n - 1 - i
    BY <1>1, <1>2
  <2> QED
    BY <2>1
<1>5. ASSUME NEW k \in 1 .. n - 1 PROVE w[k] = IF k <= i THEN l[k] ELSE l[k + 1]
  <2>1. w[k] = IF k <= i THEN front[k] ELSE rear[k - i]
    BY <1>1, <1>3, <1>4
  <2>2. CASE k <= i
    <3>1. k \in 1 .. i
      BY <2>2
    <3> QED
      BY <1>1, <2>1, <2>2, <3>1
  <2>3. CASE ~(k <= i)
    <3>1. k - i \in 1 .. n - 1 - i /\ k - i + i + 1 = k + 1
      BY <2>3
    <3> QED
      BY <1>2, <2>1, <2>3, <3>1
  <2> QED
    BY <2>2, <2>3
<1>6. w = Without(l, i)
  BY DEF Without
<1> QED
  BY <1>3, <1>4, <1>5, <1>6 DEF Misses

\* l is made of items of s in their order: its item k is item o[k] of s.
Selects(o, s, l) ==
  /\ o \in [1 .. Len(l) -> 1 .. Len(s)]
  /\ \A j, k \in 1 .. Len(l) : j < k => o[j] < o[k]
  /\ \A k \in 1 .. Len(l) : l[k] = s[o[k]]

\* The places of the items that are left when one is left out.
Skip(o, n, i) == [k \in 1 .. n - 1 |-> IF k <= i THEN o[k] ELSE o[k + 1]]

\* The first n - 1 numbers of q are the first n of o but for o[i + 1].
Drops(q, o, n, i) ==
  \A p : (\E k \in 1 .. n - 1 : q[k] = p) <=> (\E k \in 1 .. n : o[k] = p) /\ p # o[i + 1]

\* All items of a sequence, in their order.
LEMMA SelectsAll ==
  ASSUME NEW S, NEW s \in Seq(S)
  PROVE  Selects([k \in 1 .. Len(s) |-> k], s, s)
<1>1. Len(s) \in Nat
  BY LenProperties
<1> QED
  BY <1>1 DEF Selects

\* Who selects items and leaves one out still selects items, all but that one.
LEMMA LeaveOut ==
  ASSUME NEW S, NEW s \in Seq(S), NEW l \in Seq(S), NEW n \in Nat, n = Len(l),
         NEW i \in Nat, i < n, NEW w, w = Without(l, i),
         NEW o, Selects(o, s, l)
  PROVE  Selects(Skip(o, n, i), s, w) /\ Drops(Skip(o, n, i), o, n, i)
<1>1. /\ w \in Seq(S) /\ Len(w) = n - 1
      /\ \A k \in 1 .. n - 1 : w[k] = IF k <= i THEN l[k] ELSE l[k + 1]
  <2>1. Without(l, i) \in Seq(S) /\ Misses(Without(l, i), l, n, i)
    BY WithoutOne
  <2> QED
    BY <2>1 DEF Misses
<1>2. PICK q : q = Skip(o, n, i)
  OBVIOUS
<1>3. \A k \in 1 .. n - 1 : k \in 1 .. n /\ k + 1 \in 1 .. n
  OBVIOUS
<1>4. \A k \in 1 .. n - 1 : q[k] = IF k <= i THEN o[k] ELSE o[k + 1]
  BY <1>2 DEF Skip
<1>5. PICK m \in Nat : m = Len(s)
  BY LenProperties
<1>6. /\ o \in [1 .. n -> 1 .. m]
      /\ \A j, k \in 1 .. n : j < k => o[j] < o[k]
      /\ \A k \in 1 .. n : l[k] = s[o[k]]
  BY <1>5 DEF Selects
<1>7. q \in [1 .. n - 1 -> 1 .. m]
  BY <1>2, <1>3, <1>6 DEF Skip
<1>8. ASSUME NEW j \in 1 .. n - 1, NEW k \in 1 .. n - 1, j < k PROVE q[j] < q[k]
  <2>1. PICK j2 \in 1 .. n, k2 \in 1 .. n :
          /\ j2 = IF j <= i THEN j ELSE j + 1
          /\ k2 = IF k <= i THEN k ELSE k + 1
    BY <1>3
  <2>2. j2 < k2
    BY <1>8, <2>1
  <2>3. q[j] = o[j2] /\ q[k] = o[k2]
    BY <1>4, <2>1
  <2> QED
    BY <1>6, <2>2, <2>3
<1>9. ASSUME NEW k \in 1 .. n - 1 PROVE w[k] = s[q[k]]
  BY <1>1, <1>3, <1>4, <1>6
<1>10. Selects(q, s, w)
  BY <1>1, <1>5, <1>7, <1>8, <1>9 DEF Selects
<1>11. i + 1 \in 1 .. n
  OBVIOUS
<1>12. ASSUME NEW k \in 1 .. n - 1 PROVE (\E j \in 1 .. n : o[j] = q[k]) /\ q[k] # o[i + 1]
  <2>1. PICK j \in 1 .. n : j = (IF k <= i THEN k ELSE k + 1) /\ j # i + 1
    BY <1>3
  <2>2. q[k] = o[j]
    BY <1>4, <2>1
  <2>3. j < i + 1 \/ i + 1 < j
    BY <2>1
  <2>4. o[j] \in Int /\ o[i + 1] \in Int /\ (o[j] < o[i + 1] \/ o[i + 1] < o[j])
    BY <1>6, <1>11, <2>3
  <2> QED
    BY <2>2, <2>4
<1>13. ASSUME NEW j \in 1 .. n, j # i + 1 PROVE \E k \in 1 .. n - 1 : q[k] = o[j]
  <2>1. CASE j <= i
    <3>1. j \in 1 .. n - 1
      BY <2>1
    <3> QED
      BY <1>4, <2>1, <3>1
  <2>2. CASE ~(j <= i)
    <3>1. PICK k \in 1 .. n - 1 : k + 1 = j /\ ~(k <= i)
      <4>1. j - 1 \in 1 .. n - 1 /\ j - 1 + 1 = j /\ ~(j - 1 <= i)
        BY <1>13, <2>2
      <4> QED
        BY <4>1
    <3> QED
      BY <1>4, <3>1
  <2> QED
    BY <2>1, <2>2
<1>14. ASSUME NEW p
       PROVE  (\E k \in 1 .. n - 1 : q[k] = p) <=> (\E k \in 1 .. n : o[k] = p) /\ p # o[i + 1]
  <2>1. ASSUME NEW k \in 1 .. n - 1, q[k] = p
        PROVE  (\E j \in 1 .. n : o[j] = p) /\ p # o[i + 1]
    BY <1>12, <2>1
  <2>2. ASSUME NEW j \in 1 .. n, o[j] = p, p # o[i + 1]
        PROVE  \E k \in 1 .. n - 1 : q[k] = p
    BY <1>13, <2>2
  <2> QED
    BY <2>1, <2>2
<1> QED
  BY <1>2, <1>10, <1>14 DEF Drops
=============================================================================
