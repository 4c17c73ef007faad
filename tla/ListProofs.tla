----------------------------- MODULE ListProofs -----------------------------
(***************************************************************************)
(* What Among makes of a list of any length, by induction over its prefixes. *)
(* The induction is stated with sets of numbers.                            *)
(***************************************************************************)
EXTENDS Lists, WellFoundedInduction, TLAPS

\* The order of the numbers, as a relation.
Below == {ss \in Nat \X Nat : ss[1] < ss[2]}

\* There is no endless descent below a number.
LEMMA BelowIsWellFounded == IsWellFoundedOn(Below, Nat)
<1>1. Below = OpToRel(<, Nat)
  BY Zenon DEF OpToRel, Below
<1> QED
  BY <1>1, NatLessThanWellFounded

\* Induction: a set with 0 and the successor of each of its numbers has them all.
LEMMA SetInduction ==
  ASSUME NEW S, 0 \in S, \A n \in Nat : n \in S => n + 1 \in S
  PROVE  Nat \subseteq S
<1> DEFINE T == Nat \ S
<1> SUFFICES ASSUME T # {} PROVE FALSE
  OBVIOUS
<1>1. PICK m \in T : \A y \in T : <<y, m>> \notin Below
  <2>1. T \subseteq Nat /\ T # {}
    OBVIOUS
  <2> HIDE DEF T
  <2>2. \E x \in T : \A y \in T : ~ (<<y, x>> \in Below)
    BY <2>1, WFMin, BelowIsWellFounded
  <2> QED
    BY <2>2
<1>2. m # 0 /\ m - 1 \in Nat
  OBVIOUS
<1>3. <<m - 1, m>> \in Below
  <2> DEFINE q == <<m - 1, m>>
  <2>1. q \in Nat \X Nat /\ q[1] < q[2]
    BY <1>2
  <2> QED
    BY <2>1 DEF Below
<1>4. m - 1 \in S
  BY <1>1, <1>2, <1>3
<1> QED
  BY <1>2, <1>4

\* One more item.
More(s, S, i, q) == IF s[i] \in S THEN Append(q, s[i]) ELSE q

\* k lists what Among keeps of each prefix of s that has at most n items.
Keeps(k, s, S, n) == k[0] = <<>> /\ \A i \in 1..n : k[i] = More(s, S, i, k[i - 1])

\* What the kept items of a prefix are.
Faithful(q, s, S, n) ==
  /\ Len(q) <= n
  /\ \A i \in 1..Len(q) : q[i] \in S /\ \E j \in 1..n : q[i] = s[j]
  /\ \A j \in 1..n : s[j] \in S => \E i \in 1..Len(q) : q[i] = s[j]

\* One more item leaves them so.
LEMMA MoreIsFaithful ==
  ASSUME NEW R, NEW s \in Seq(R), NEW S, NEW n \in Nat, n + 1 \in 1..Len(s),
         NEW q \in Seq(R), Faithful(q, s, S, n)
  PROVE  More(s, S, n + 1, q) \in Seq(R) /\ Faithful(More(s, S, n + 1, q), s, S, n + 1)
<1>1. s[n + 1] \in R
  OBVIOUS
<1>2. CASE s[n + 1] \in S
  <2> DEFINE r == Append(q, s[n + 1])
  <2>1. /\ r \in Seq(R) /\ Len(r) = Len(q) + 1 /\ r[Len(q) + 1] = s[n + 1]
        /\ \A i \in 1..Len(q) : r[i] = q[i]
    BY <1>1
  <2>2. More(s, S, n + 1, q) = r
    BY <1>2 DEF More
  <2> HIDE DEF r
  <2>3. Faithful(r, s, S, n + 1)
    <3>1. Len(r) <= n + 1
      BY <2>1 DEF Faithful
    <3>2. ASSUME NEW i \in 1..Len(r) PROVE r[i] \in S /\ \E j \in 1..(n + 1) : r[i] = s[j]
      <4>1. CASE i \in 1..Len(q)
        BY <2>1, <4>1 DEF Faithful
      <4>2. CASE i = Len(q) + 1
        BY <1>2, <2>1, <4>2
      <4> QED
        BY <2>1, <4>1, <4>2
    <3>3. ASSUME NEW j \in 1..(n + 1), s[j] \in S PROVE \E i \in 1..Len(r) : r[i] = s[j]
      <4>1. CASE j \in 1..n
        <5>1. PICK i \in 1..Len(q) : q[i] = s[j]
          BY <3>3, <4>1 DEF Faithful
        <5> QED
          BY <2>1, <5>1
      <4>2. CASE j = n + 1
        <5>1. Len(q) + 1 \in 1..Len(r)
          BY <2>1
        <5> QED
          BY <2>1, <4>2, <5>1
      <4> QED
        BY <4>1, <4>2
    <3> QED
      BY <3>1, <3>2, <3>3 DEF Faithful
  <2> QED
    BY <2>1, <2>2, <2>3
<1>3. CASE s[n + 1] \notin S
  <2>1. More(s, S, n + 1, q) = q
    BY <1>3 DEF More
  <2>2. Faithful(q, s, S, n + 1)
    <3>1. \A j \in 1..(n + 1) : j \in 1..n \/ j = n + 1
      OBVIOUS
    <3>2. 1..n \subseteq 1..(n + 1)
      OBVIOUS
    <3> QED
      BY <1>3, <3>1, <3>2 DEF Faithful
  <2> QED
    BY <2>1, <2>2
<1> QED
  BY <1>2, <1>3

\* Every prefix of a list has what Among keeps of it.
LEMMA PrefixesAreKept ==
  ASSUME NEW R, NEW s \in Seq(R), NEW S
  PROVE  \E k \in [0..Len(s) -> Seq(R)] : Keeps(k, s, S, Len(s))
<1> DEFINE N == {n \in Nat : n <= Len(s) => \E k \in [0..n -> Seq(R)] : Keeps(k, s, S, n)}
<1>1. 0 \in N
  <2> DEFINE k == [i \in 0..0 |-> <<>>]
  <2>1. k \in [0..0 -> Seq(R)] /\ k[0] = <<>>
    OBVIOUS
  <2>2. Keeps(k, s, S, 0)
    BY <2>1 DEF Keeps
  <2> QED
    BY <2>1, <2>2
<1>2. ASSUME NEW n \in Nat, n \in N PROVE n + 1 \in N
  <2> SUFFICES ASSUME n + 1 <= Len(s)
               PROVE  \E k \in [0..(n + 1) -> Seq(R)] : Keeps(k, s, S, n + 1)
    OBVIOUS
  <2>1. PICK k \in [0..n -> Seq(R)] : Keeps(k, s, S, n)
    BY <1>2
  <2> DEFINE m == [i \in 0..(n + 1) |-> IF i <= n THEN k[i] ELSE More(s, S, n + 1, k[n])]
  <2>2. n + 1 \in 1..Len(s) /\ k[n] \in Seq(R) /\ s[n + 1] \in R
    BY <2>1
  <2>3. More(s, S, n + 1, k[n]) \in Seq(R)
    BY <2>2 DEF More
  <2>4. m \in [0..(n + 1) -> Seq(R)]
    BY <2>1, <2>3
  <2>5. /\ \A i \in 0..n : m[i] = k[i]
        /\ m[n + 1] = More(s, S, n + 1, k[n])
    OBVIOUS
  <2> HIDE DEF m
  <2>6. Keeps(m, s, S, n + 1)
    <3>1. m[0] = <<>>
      BY <2>1, <2>5 DEF Keeps
    <3>2. ASSUME NEW i \in 1..(n + 1) PROVE m[i] = More(s, S, i, m[i - 1])
      <4>1. CASE i \in 1..n
        <5>1. m[i] = k[i] /\ m[i - 1] = k[i - 1]
          BY <2>5, <4>1
        <5> QED
          BY <2>1, <4>1, <5>1 DEF Keeps
      <4>2. CASE i = n + 1
        BY <2>5, <4>2
      <4> QED
        BY <4>1, <4>2
    <3> QED
      BY <3>1, <3>2 DEF Keeps
  <2> QED
    BY <2>4, <2>6
<1> HIDE DEF N
<1>3. Nat \subseteq N
  BY <1>1, <1>2, SetInduction
<1> QED
  BY <1>3 DEF N

\* The comprehension is a list of the items it is to keep, and of all of them.
THEOREM AmongIsFaithful ==
  ASSUME NEW R, NEW s \in Seq(R), NEW S
  PROVE  Among(s, S) \in Seq(R) /\ Faithful(Among(s, S), s, S, Len(s))
<1> DEFINE kept[i \in 0..Len(s)] ==
             IF i = 0 THEN <<>>
             ELSE IF s[i] \in S THEN Append(kept[i - 1], s[i]) ELSE kept[i - 1]
<1>1. Among(s, S) = kept[Len(s)]
  BY DEF Among
<1>2. kept = [i \in 0..Len(s) |->
                IF i = 0 THEN <<>>
                ELSE IF s[i] \in S THEN Append(kept[i - 1], s[i]) ELSE kept[i - 1]]
  <2>1. PICK k \in [0..Len(s) -> Seq(R)] : Keeps(k, s, S, Len(s))
    BY PrefixesAreKept
  <2>2. k = [i \in 0..Len(s) |->
               IF i = 0 THEN <<>>
               ELSE IF s[i] \in S THEN Append(k[i - 1], s[i]) ELSE k[i - 1]]
    <3> DEFINE g == [i \in 0..Len(s) |->
                      IF i = 0 THEN <<>>
                      ELSE IF s[i] \in S THEN Append(k[i - 1], s[i]) ELSE k[i - 1]]
    <3>1. ASSUME NEW i \in 0..Len(s) PROVE k[i] = g[i]
      <4>1. CASE i = 0
        BY <2>1, <4>1 DEF Keeps
      <4>2. CASE i # 0
        <5>1. i \in 1..Len(s)
          BY <4>2
        <5>2. k[i] = More(s, S, i, k[i - 1])
          BY <2>1, <5>1 DEF Keeps
        <5> QED
          BY <4>2, <5>2 DEF More
      <4> QED
        BY <4>1, <4>2
    <3>2. DOMAIN k = DOMAIN g /\ k = [i \in DOMAIN k |-> k[i]]
      BY <2>1
    <3> QED
      BY <3>1, <3>2
  <2> QED
    BY <2>2, Zenon
<1> HIDE DEF kept
<1>3. kept[0] = <<>> /\ \A i \in 1..Len(s) : kept[i] = More(s, S, i, kept[i - 1])
  <2>1. 0 \in 0..Len(s) /\ \A i \in 1..Len(s) : i \in 0..Len(s) /\ i # 0
    OBVIOUS
  <2>2. kept[0] = <<>>
    BY <1>2, <2>1
  <2>3. ASSUME NEW i \in 1..Len(s) PROVE kept[i] = More(s, S, i, kept[i - 1])
    BY <1>2, <2>1 DEF More
  <2> QED
    BY <2>2, <2>3
<1> DEFINE N == {n \in Nat : n <= Len(s) => kept[n] \in Seq(R) /\ Faithful(kept[n], s, S, n)}
<1>4. 0 \in N
  <2>1. kept[0] = <<>> /\ <<>> \in Seq(R) /\ Len(<<>>) = 0
    BY <1>3
  <2>2. Faithful(<<>>, s, S, 0)
    BY <2>1 DEF Faithful
  <2> QED
    BY <2>1, <2>2
<1>5. ASSUME NEW n \in Nat, n \in N PROVE n + 1 \in N
  <2> SUFFICES ASSUME n + 1 <= Len(s)
               PROVE  kept[n + 1] \in Seq(R) /\ Faithful(kept[n + 1], s, S, n + 1)
    OBVIOUS
  <2>1. n + 1 \in 1..Len(s) /\ kept[n] \in Seq(R) /\ Faithful(kept[n], s, S, n)
    BY <1>5
  <2>2. kept[n + 1] = More(s, S, n + 1, kept[n])
    BY <1>3, <2>1
  <2> QED
    BY <2>1, <2>2, MoreIsFaithful
<1> HIDE DEF N
<1>6. Nat \subseteq N
  BY <1>4, <1>5, SetInduction
<1>7. Len(s) \in N /\ Len(s) \in Nat
  BY <1>6
<1> QED
  BY <1>1, <1>7 DEF N
=============================================================================
