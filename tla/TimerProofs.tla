---------------------------- MODULE TimerProofs ----------------------------
(***************************************************************************)
(* Proofs about Timer, for every set of events, every pool of timeouts,    *)
(* every delay and every lateness of checkalarms.                          *)
(*                                                                         *)
(* A delta list is first shown to be a table: Link, Unlink and counting the*)
(* head down change the sum of the deltas up to a member, its deadline,    *)
(* for one member or for all alike.  What the list functions of timer.c    *)
(* and timeout.c do is then said of the two tables only, and the invariant *)
(* IInv relates the tables to each other.                                  *)
(***************************************************************************)
EXTENDS Timer, SequenceTheorems, FiniteSetTheorems, WellFoundedInduction, TLAPS

(***************************************************************************)
(* Sums of deltas                                                          *)
(***************************************************************************)
\* A set of numbers has a least one.
LEMMA LeastIs ==
    ASSUME NEW S, S \subseteq Nat, S # {}
    PROVE  \E x \in S : \A y \in S : x <= y
<1>1. PICK x \in S : \A y \in S : ~(<<y, x>> \in OpToRel(<, Nat))
  BY NatLessThanWellFounded, WFMin
<1>2. \A y \in S : ~(y < x)
  BY <1>1 DEF OpToRel
<1>3. \A y \in S : x <= y
  BY <1>2
<1> QED BY <1>3

IsDelta(s) == Len(s) \in Nat /\ \A i \in 1 .. Len(s) : s[i].delta \in Int

\* f sums the first n deltas of s.
SumsTo(s, n, f) ==
    /\ f \in [0 .. n -> Int] /\ f[0] = 0
    /\ \A i \in 1 .. n : f[i] = f[i - 1] + s[i].delta

Sums(s, f) == SumsTo(s, Len(s), f)

\* The deltas of a list have sums: those of one more follow from those of fewer.
LEMMA SumsExist ==
    ASSUME NEW s, IsDelta(s)
    PROVE  \E f : Sums(s, f)
<1> DEFINE Bad == {n \in 0 .. Len(s) : ~\E f : SumsTo(s, n, f)}
<1>1. SUFFICES ASSUME Bad # {} PROVE FALSE
  BY DEF IsDelta, Sums
<1>2. PICK n \in Bad : \A m \in Bad : n <= m
  <2>1. Bad \subseteq Nat
    BY DEF IsDelta
  <2> HIDE DEF Bad
  <2> QED BY <1>1, <2>1, LeastIs
<1>3. n \in 0 .. Len(s) /\ ~(\E f : SumsTo(s, n, f)) /\ Len(s) \in Nat
  BY <1>2 DEF IsDelta
<1>4. n # 0
  <2>1. SumsTo(s, 0, [i \in 0 .. 0 |-> 0])
    BY DEF SumsTo
  <2> QED BY <1>3, <2>1
<1>5. n - 1 \in 0 .. Len(s) /\ n - 1 \notin Bad
  BY <1>2, <1>3, <1>4
<1>6. PICK f : SumsTo(s, n - 1, f)
  BY <1>5
<1>7. SumsTo(s, n, [i \in 0 .. n |-> IF i = n THEN f[n - 1] + s[n].delta ELSE f[i]])
  <2> DEFINE g == [i \in 0 .. n |-> IF i = n THEN f[n - 1] + s[n].delta ELSE f[i]]
  <2>1. s[n].delta \in Int /\ n - 1 \in 0 .. n - 1 /\ f[n - 1] \in Int
    BY <1>3, <1>4, <1>6 DEF IsDelta, SumsTo
  <2>2. \A i \in 0 .. n : i # n => i \in 0 .. n - 1
    BY <1>3
  <2>3. g \in [0 .. n -> Int]
    BY <1>6, <2>1, <2>2 DEF SumsTo
  <2>4. g[0] = 0
    BY <1>3, <1>4, <1>6 DEF SumsTo
  <2>5. ASSUME NEW i \in 1 .. n PROVE g[i] = g[i - 1] + s[i].delta
    <3>1. i - 1 \in 0 .. n /\ i \in 0 .. n /\ i - 1 # n
      BY <1>3
    <3>2. i # n => i \in 1 .. n - 1
      BY <1>3
    <3> QED BY <1>6, <3>1, <3>2 DEF SumsTo
  <2> QED BY <2>3, <2>4, <2>5 DEF SumsTo
<1> QED BY <1>3, <1>7

\* There is one such function only, so the recursive function Prefix is it.
LEMMA PrefixIs ==
    ASSUME NEW s, IsDelta(s), NEW f, Sums(s, f)
    PROVE  Prefix(s) = f
<1> DEFINE Eq(g) == g = [i \in 0 .. Len(s) |-> IF i = 0 THEN 0 ELSE g[i - 1] + s[i].delta]
<1>1. Prefix(s) = CHOOSE g : Eq(g)
  BY DEF Prefix
<1>2. Eq(f)
  <2>1. f = [i \in 0 .. Len(s) |-> f[i]]
    BY DEF Sums, SumsTo
  <2>2. \A i \in 0 .. Len(s) : f[i] = IF i = 0 THEN 0 ELSE f[i - 1] + s[i].delta
    <3>1. \A i \in 0 .. Len(s) : i # 0 => i \in 1 .. Len(s)
      BY DEF IsDelta
    <3> QED BY <3>1 DEF Sums, SumsTo
  <2> QED BY <2>1, <2>2
<1>3. ASSUME NEW g, Eq(g) PROVE g = f
  <2> DEFINE Bad == {n \in 0 .. Len(s) : g[n] # f[n]}
  <2>1. g = [i \in 0 .. Len(s) |-> g[i]] /\ \A i \in 0 .. Len(s) : g[i] = IF i = 0 THEN 0 ELSE g[i - 1] + s[i].delta
    BY <1>3
  <2>2. CASE Bad # {}
    <3>1. PICK n \in Bad : \A m \in Bad : n <= m
      <4>1. Bad \subseteq Nat
        BY DEF IsDelta
      <4> HIDE DEF Bad
      <4> QED BY <2>2, <4>1, LeastIs
    <3>2. n \in 0 .. Len(s) /\ g[n] # f[n] /\ Len(s) \in Nat
      BY <3>1 DEF IsDelta
    <3>3. n # 0
      BY <2>1, <3>2 DEF Sums, SumsTo
    <3>4. n - 1 \in 0 .. Len(s) /\ n - 1 \notin Bad /\ n \in 1 .. Len(s)
      BY <3>1, <3>2, <3>3
    <3>5. g[n - 1] = f[n - 1]
      BY <3>4
    <3>6. g[n] = g[n - 1] + s[n].delta
      BY <2>1, <3>2, <3>3
    <3>7. f[n] = f[n - 1] + s[n].delta
      BY <3>4 DEF Sums, SumsTo
    <3> QED BY <3>2, <3>5, <3>6, <3>7
  <2>3. CASE Bad = {}
    <3>1. \A i \in 0 .. Len(s) : g[i] = f[i]
      BY <2>3
    <3>2. f = [i \in 0 .. Len(s) |-> f[i]]
      BY DEF Sums, SumsTo
    <3>3. g = [i \in 0 .. Len(s) |-> g[i]]
      BY <2>1
    <3> HIDE DEF Bad, Eq
    <3> QED BY <3>1, <3>2, <3>3
  <2> QED BY <2>2, <2>3
<1> QED BY <1>1, <1>2, <1>3

\* Prefix gives the sums.
LEMMA PrefixSums ==
    ASSUME NEW s, IsDelta(s)
    PROVE  Sums(s, Prefix(s))
BY SumsExist, PrefixIs

\* The sums as facts about each place
LEMMA PrefixAt ==
    ASSUME NEW s, IsDelta(s)
    PROVE  /\ Prefix(s)[0] = 0
           /\ \A i \in 0 .. Len(s) : Prefix(s)[i] \in Int
           /\ \A i \in 1 .. Len(s) : i - 1 \in 0 .. Len(s) /\ Prefix(s)[i] = Prefix(s)[i - 1] + s[i].delta
<1>1. \A i \in 1 .. Len(s) : i - 1 \in 0 .. Len(s)
  BY DEF IsDelta
<1> QED BY <1>1, PrefixSums DEF Sums, SumsTo

(***************************************************************************)
(* Links and unlinks.  Ord: all members but the first, which may be        *)
(* overdue, are due in order.                                              *)
(***************************************************************************)
Ord(s) == \A i \in 2 .. Len(s) : s[i].delta >= 0

\* In a list in order, who is behind is due later.
LEMMA OrdLater ==
    ASSUME NEW s, IsDelta(s), Ord(s), NEW i \in 1 .. Len(s), NEW j \in 1 .. Len(s), i <= j
    PROVE  Prefix(s)[i] <= Prefix(s)[j]
<1> DEFINE P == Prefix(s)
           Bad == {n \in i .. Len(s) : ~(P[i] <= P[n])}
<1>1. Len(s) \in Nat /\ i \in Nat /\ j \in Nat /\ \A n \in 0 .. Len(s) : P[n] \in Int
  BY PrefixAt DEF IsDelta
<1>2. CASE Bad # {}
  <2>1. Bad \subseteq Nat
    BY <1>1
  <2> HIDE DEF P
  <2>2. PICK n \in Bad : \A m \in Bad : n <= m
    <3> HIDE DEF Bad
    <3> QED BY <1>2, <2>1, LeastIs
  <2>3. n \in i .. Len(s) /\ ~(P[i] <= P[n])
    BY <2>2
  <2>4. n # i
    BY <1>1, <2>3
  <2>5. n - 1 \in i .. Len(s) /\ n \in 2 .. Len(s) /\ n \in 1 .. Len(s) /\ n - 1 \notin Bad
    BY <1>1, <2>2, <2>3, <2>4
  <2>6. P[n] = P[n - 1] + s[n].delta /\ s[n].delta >= 0 /\ s[n].delta \in Int
    BY <2>5, PrefixAt DEF P, Ord, IsDelta
  <2>7. P[i] <= P[n - 1] /\ P[n - 1] \in Int /\ P[i] \in Int
    BY <1>1, <2>5
  <2> QED BY <2>3, <2>6, <2>7
<1>3. CASE Bad = {}
  <2>1. j \in i .. Len(s)
    BY <1>1
  <2> QED BY <1>3, <2>1
<1> QED BY <1>2, <1>3

\* Where a member with the deadline d belongs
Place(s, d, k) ==
    /\ k \in 0 .. Len(s)
    /\ \A i \in 1 .. k : Prefix(s)[i] <= d
    /\ \A i \in k + 1 .. Len(s) : Prefix(s)[i] > d

\* DueBy is the last place whose sum is not beyond d.
LEMMA DueByIs ==
    ASSUME NEW s, IsDelta(s), Ord(s), NEW d \in Int
    PROVE  Place(s, d, DueBy(s, d))
<1> DEFINE P == Prefix(s)
           Goes(k) == /\ \A i \in 1 .. k : P[i] <= d
                      /\ k < Len(s) => P[k+1] > d
           Late == {i \in 1 .. Len(s) : P[i] > d}
<1>1. Len(s) \in Nat /\ \A n \in 0 .. Len(s) : P[n] \in Int
  BY PrefixAt DEF IsDelta
<1>2. \E k \in 0 .. Len(s) : Goes(k)
  <2>1. CASE Late = {}
    <3>1. Len(s) \in 0 .. Len(s) /\ ~(Len(s) < Len(s))
      BY <1>1
    <3>2. \A i \in 1 .. Len(s) : P[i] <= d
      BY <1>1, <2>1
    <3> QED BY <3>1, <3>2
  <2>2. CASE Late # {}
    <3>1. Late \subseteq Nat
      BY <1>1
    <3>2. PICK n \in Late : \A m \in Late : n <= m
      <4> HIDE DEF Late
      <4> QED BY <2>2, <3>1, LeastIs
    <3>3. n \in 1 .. Len(s) /\ P[n] > d
      BY <3>2
    <3>4. n - 1 \in 0 .. Len(s) /\ (n - 1) + 1 = n
      BY <1>1, <3>3
    <3>5. ASSUME NEW i \in 1 .. n - 1 PROVE P[i] <= d
      <4>1. i \in 1 .. Len(s) /\ i \notin Late
        BY <1>1, <3>2, <3>3
      <4>2. i \in 0 .. Len(s)
        BY <4>1
      <4> QED BY <1>1, <4>1, <4>2
    <3> HIDE DEF P
    <3> QED BY <3>3, <3>4, <3>5
  <2> QED BY <2>1, <2>2
<1>3. DueBy(s, d) = CHOOSE k \in 0 .. Len(s) : Goes(k)
  BY DEF DueBy
<1> PICK k : k = DueBy(s, d)
  OBVIOUS
<1>4. k \in 0 .. Len(s) /\ Goes(k)
  <2> HIDE DEF Goes
  <2> QED BY <1>2, <1>3
<1>5. ASSUME NEW i \in k + 1 .. Len(s) PROVE P[i] > d
  <2>1. k < Len(s) /\ k + 1 \in 1 .. Len(s) /\ i \in 1 .. Len(s) /\ k + 1 <= i
    BY <1>1, <1>4
  <2>2. P[k + 1] <= P[i]
    BY <2>1, OrdLater
  <2>3. P[k + 1] \in Int /\ P[i] \in Int /\ P[k + 1] > d
    BY <1>1, <1>4, <2>1
  <2> QED BY <2>2, <2>3
<1> QED BY <1>4, <1>5 DEF Place

\* R is a set of records with a field delta that may be any number.
Deltas(R) ==
    \A y \in R : y.delta \in Int /\ \A n \in Int : [y EXCEPT !.delta = n] \in R /\ [y EXCEPT !.delta = n].delta = n

\* A sequence of records with deltas has deltas.
LEMMA SeqIsDelta ==
    ASSUME NEW R, Deltas(R), NEW s \in Seq(R)
    PROVE  IsDelta(s) /\ \A i \in 1 .. Len(s) : s[i] \in R
<1>1. Len(s) \in Nat /\ \A i \in 1 .. Len(s) : s[i] \in R
  OBVIOUS
<1> QED BY <1>1 DEF IsDelta, Deltas

\* A function on 1 .. n is a sequence.
LEMMA FunctionSeq ==
    ASSUME NEW R, NEW n \in Nat, NEW f \in [1 .. n -> R]
    PROVE  f \in Seq(R) /\ Len(f) = n
OBVIOUS

\* What Link makes of a list
Linked(s, x, d, k, n) ==
    /\ Len(n) = Len(s) + 1
    /\ \A i \in 1 .. k : n[i] = s[i]
    /\ n[k + 1] = [x EXCEPT !.delta = d - Prefix(s)[k]]
    /\ k < Len(s) => n[k + 2] = [s[k + 1] EXCEPT !.delta = Prefix(s)[k + 1] - d]
    /\ \A i \in k + 3 .. Len(s) + 1 : n[i] = s[i - 1]

\* Link puts a member in, and takes its delta from the next one.
LEMMA LinkIs ==
    ASSUME NEW R, Deltas(R), NEW s \in Seq(R), NEW x \in R, NEW d \in Int, NEW k \in 0 .. Len(s),
           NEW n, n = Link(s, x, d, k)
    PROVE  n \in Seq(R) /\ Linked(s, x, d, k, n)
<1> DEFINE P == Prefix(s)
<1>1. /\ IsDelta(s) /\ Len(s) \in Nat /\ k \in Nat /\ k <= Len(s)
      /\ \A i \in 0 .. Len(s) : P[i] \in Int
      /\ \A i \in 1 .. Len(s) : s[i] \in R
  BY SeqIsDelta, PrefixAt DEF IsDelta
<1> HIDE DEF P
<1> DEFINE g(i) == CASE i <= k     -> s[i]
                     [] i = k + 1  -> [x EXCEPT !.delta = d - P[k]]
                     [] i = k + 2  -> [s[k+1] EXCEPT !.delta = P[k+1] - d]
                     [] OTHER      -> s[i-1]
<1>2. n = [i \in 1 .. Len(s) + 1 |-> g(i)]
  BY DEF Link, P
<1>3. ASSUME NEW i \in 1 .. k PROVE g(i) = s[i] /\ i \in 1 .. Len(s) /\ i \in 1 .. Len(s) + 1
  BY <1>1
<1>4. /\ g(k + 1) = [x EXCEPT !.delta = d - P[k]] /\ d - P[k] \in Int /\ k + 1 \in 1 .. Len(s) + 1
  BY <1>1
<1>5. ASSUME k < Len(s)
      PROVE  /\ g(k + 2) = [s[k+1] EXCEPT !.delta = P[k+1] - d]
             /\ P[k+1] - d \in Int /\ k + 1 \in 1 .. Len(s) /\ k + 2 \in 1 .. Len(s) + 1
  BY <1>1, <1>5
<1>6. ASSUME NEW i \in k + 3 .. Len(s) + 1
      PROVE  g(i) = s[i - 1] /\ i - 1 \in 1 .. Len(s) /\ i \in 1 .. Len(s) + 1
  BY <1>1
<1> HIDE DEF g
<1>7. \A i \in 1 .. Len(s) + 1 : i \in 1 .. k \/ i = k + 1 \/ (k < Len(s) /\ i = k + 2) \/ i \in k + 3 .. Len(s) + 1
  BY <1>1
<1>8. ASSUME NEW i \in 1 .. Len(s) + 1 PROVE g(i) \in R
  <2>1. CASE i \in 1 .. k
    BY <1>1, <1>3, <2>1
  <2>2. CASE i = k + 1
    BY <1>4, <2>2 DEF Deltas
  <2>3. CASE k < Len(s) /\ i = k + 2
    BY <1>1, <1>5, <2>3 DEF Deltas
  <2>4. CASE i \in k + 3 .. Len(s) + 1
    BY <1>1, <1>6, <2>4
  <2> QED BY <1>7, <2>1, <2>2, <2>3, <2>4
<1>9. n \in [1 .. Len(s) + 1 -> R] /\ Len(s) + 1 \in Nat
  BY <1>1, <1>2, <1>8
<1>10. n \in Seq(R) /\ Len(n) = Len(s) + 1
  BY <1>9, FunctionSeq
<1>11. \A i \in 1 .. Len(s) + 1 : n[i] = g(i)
  BY <1>2
<1> QED BY <1>3, <1>4, <1>5, <1>6, <1>10, <1>11 DEF Linked, P

\* Link moves no sum, and gives the new member d.
LEMMA LinkPrefix ==
    ASSUME NEW R, Deltas(R), NEW s \in Seq(R), NEW x \in R, NEW d \in Int, NEW k \in 0 .. Len(s),
           NEW n \in Seq(R), Linked(s, x, d, k, n)
    PROVE  \A i \in 0 .. Len(n) :
              Prefix(n)[i] = IF i <= k THEN Prefix(s)[i] ELSE IF i = k + 1 THEN d ELSE Prefix(s)[i - 1]
<1> DEFINE P == Prefix(s)
           f == [i \in 0 .. Len(n) |-> IF i <= k THEN P[i] ELSE IF i = k + 1 THEN d ELSE P[i - 1]]
<1>1. /\ IsDelta(s) /\ IsDelta(n) /\ Len(s) \in Nat /\ k \in Nat /\ k <= Len(s)
      /\ P[0] = 0 /\ \A i \in 0 .. Len(s) : P[i] \in Int
      /\ \A i \in 1 .. Len(s) : s[i] \in R /\ s[i].delta \in Int /\ P[i] = P[i - 1] + s[i].delta
  BY SeqIsDelta, PrefixAt DEF IsDelta
<1>2. /\ Len(n) = Len(s) + 1
      /\ \A i \in 1 .. k : n[i] = s[i]
      /\ n[k + 1].delta = d - P[k]
      /\ k < Len(s) => n[k + 2].delta = P[k + 1] - d
      /\ \A i \in k + 3 .. Len(s) + 1 : n[i] = s[i - 1]
  <2>1. d - P[k] \in Int
    BY <1>1
  <2>2. k < Len(s) => k + 1 \in 1 .. Len(s) /\ P[k + 1] - d \in Int
    BY <1>1
  <2>3. n[k + 1].delta = d - P[k]
    <3> DEFINE y == d - P[k]
    <3>1. n[k + 1] = [x EXCEPT !.delta = y]
      BY DEF Linked
    <3>2. y \in Int
      BY <2>1
    <3> HIDE DEF y
    <3>3. n[k + 1].delta = y
      BY <3>1, <3>2 DEF Deltas
    <3> QED BY <3>3 DEF y
  <2>4. k < Len(s) => n[k + 2].delta = P[k + 1] - d
    <3> DEFINE y == P[k + 1] - d
    <3>1. k < Len(s) => n[k + 2] = [s[k + 1] EXCEPT !.delta = y] /\ s[k + 1] \in R
      BY <1>1, <2>2 DEF Linked
    <3>2. k < Len(s) => y \in Int
      BY <2>2
    <3> HIDE DEF y
    <3>3. ASSUME k < Len(s) PROVE n[k + 2].delta = y
      <4>1. n[k + 2] = [s[k + 1] EXCEPT !.delta = y] /\ s[k + 1] \in R /\ y \in Int
        BY <3>1, <3>2, <3>3
      <4> QED BY <4>1 DEF Deltas
    <3> QED BY <3>3 DEF y
  <2> QED BY <1>1, <2>3, <2>4 DEF Linked
<1> HIDE DEF P
<1>3. \A i \in 0 .. Len(n) : f[i] = IF i <= k THEN P[i] ELSE IF i = k + 1 THEN d ELSE P[i - 1]
  OBVIOUS
<1>4. ASSUME NEW i \in 0 .. Len(n) PROVE f[i] \in Int
  <2>1. i <= k => i \in 0 .. Len(s)
    BY <1>1
  <2>2. ~(i <= k) /\ i # k + 1 => i - 1 \in 0 .. Len(s)
    BY <1>1, <1>2
  <2> QED BY <1>1, <1>3, <2>1, <2>2
<1>5. f \in [0 .. Len(n) -> Int]
  BY <1>4
<1>6. f[0] = 0
  BY <1>1, <1>2, <1>3
<1>7. ASSUME NEW i \in 1 .. Len(n) PROVE f[i] = f[i - 1] + n[i].delta
  <2>0. i - 1 \in 0 .. Len(n) /\ i \in 0 .. Len(n)
    BY <1>1, <1>2
  <2>1. CASE i <= k
    <3>1. i \in 1 .. k /\ i \in 1 .. Len(s) /\ i - 1 <= k
      BY <1>1, <2>1
    <3> QED BY <1>1, <1>2, <1>3, <2>0, <2>1, <3>1
  <2>2. CASE i = k + 1
    <3>1. f[i] = d /\ f[i - 1] = P[k] /\ P[k] \in Int
      BY <1>1, <1>3, <2>0, <2>2
    <3> QED BY <1>2, <2>2, <3>1
  <2>3. CASE i = k + 2
    <3>1. k < Len(s) /\ k + 1 \in 0 .. Len(s)
      BY <1>1, <1>2, <2>3
    <3>2. f[i] = P[k + 1] /\ f[i - 1] = d /\ P[k + 1] \in Int
      BY <1>1, <1>3, <2>0, <2>3, <3>1
    <3> QED BY <1>2, <2>3, <3>1, <3>2
  <2>4. CASE i > k + 2
    <3>1. i \in k + 3 .. Len(s) + 1 /\ i - 1 \in 1 .. Len(s) /\ (i - 1) - 1 = i - 2
      BY <1>1, <1>2, <2>4
    <3>2. f[i] = P[i - 1] /\ f[i - 1] = P[i - 2]
      <4>1. ~(i <= k) /\ i # k + 1 /\ ~(i - 1 <= k) /\ i - 1 # k + 1
        BY <1>1, <2>4
      <4> QED BY <1>3, <2>0, <3>1, <4>1
    <3>3. P[i - 1] = P[i - 2] + s[i - 1].delta
      BY <1>1, <3>1
    <3> QED BY <1>2, <3>1, <3>2, <3>3
  <2> QED BY <1>1, <2>1, <2>2, <2>3, <2>4
<1>8. Sums(n, f)
  BY <1>5, <1>6, <1>7 DEF Sums, SumsTo
<1>9. Prefix(n) = f
  BY <1>1, <1>8, PrefixIs
<1> QED BY <1>3, <1>9 DEF P

\* A list in which each member was put where it belongs is in order.
LEMMA LinkOrd ==
    ASSUME NEW R, Deltas(R), NEW s \in Seq(R), NEW x \in R, NEW d \in Int, NEW k \in 0 .. Len(s),
           NEW n \in Seq(R), Linked(s, x, d, k, n), Ord(s),
           k >= 1 => Prefix(s)[k] <= d,
           k < Len(s) => d <= Prefix(s)[k + 1]
    PROVE  Ord(n)
<1> DEFINE P == Prefix(s)
<1>1. /\ IsDelta(s) /\ Len(s) \in Nat /\ k \in Nat /\ k <= Len(s)
      /\ \A i \in 0 .. Len(s) : P[i] \in Int
      /\ \A i \in 1 .. Len(s) : s[i] \in R
  BY SeqIsDelta, PrefixAt DEF IsDelta
<1> HIDE DEF P
<1>2. ASSUME NEW i \in 2 .. Len(n) PROVE n[i].delta >= 0
  <2>1. CASE i <= k
    BY <1>1, <2>1 DEF Linked, Ord
  <2>2. CASE i = k + 1
    <3>1. P[k] \in Int /\ P[k] <= d
      BY <1>1, <2>2 DEF P
    <3> DEFINE y == d - P[k]
    <3>2. n[i] = [x EXCEPT !.delta = y]
      BY <2>2 DEF Linked, P
    <3>3. y \in Int /\ y >= 0
      BY <3>1
    <3> HIDE DEF y
    <3> QED BY <3>2, <3>3 DEF Deltas
  <2>3. CASE i = k + 2
    <3>1. k < Len(s) /\ k + 1 \in 1 .. Len(s)
      BY <1>1, <2>3 DEF Linked
    <3>2. P[k + 1] - d \in Int /\ P[k + 1] \in Int /\ d <= P[k + 1]
      BY <1>1, <3>1 DEF P
    <3> DEFINE y == P[k + 1] - d
    <3>3. n[i] = [s[k + 1] EXCEPT !.delta = y] /\ s[k + 1] \in R
      BY <1>1, <2>3, <3>1 DEF Linked, P
    <3>4. y \in Int /\ y >= 0
      BY <3>2
    <3> HIDE DEF y
    <3> QED BY <3>3, <3>4 DEF Deltas
  <2>4. CASE i > k + 2
    <3>1. i \in k + 3 .. Len(s) + 1 /\ i - 1 \in 2 .. Len(s)
      BY <1>1, <2>4 DEF Linked
    <3> QED BY <3>1 DEF Linked, Ord
  <2> QED BY <1>1, <2>1, <2>2, <2>3, <2>4
<1> QED BY <1>2 DEF Ord

\* What Unlink makes of a list
Unlinked(s, i, n) ==
    /\ Len(n) = Len(s) - 1
    /\ \A j \in 1 .. i - 1 : n[j] = s[j]
    /\ i < Len(s) => n[i] = [s[i + 1] EXCEPT !.delta = @ + s[i].delta]
    /\ \A j \in i + 1 .. Len(s) - 1 : n[j] = s[j + 1]

\* Unlink takes a member out, and gives its delta to the next one.
LEMMA UnlinkIs ==
    ASSUME NEW R, Deltas(R), NEW s \in Seq(R), NEW i \in 1 .. Len(s), NEW n, n = Unlink(s, i)
    PROVE  n \in Seq(R) /\ Unlinked(s, i, n)
<1>1. /\ IsDelta(s) /\ Len(s) \in Nat /\ i \in Nat /\ i <= Len(s) /\ Len(s) - 1 \in Nat
      /\ \A j \in 1 .. Len(s) : s[j] \in R /\ s[j].delta \in Int
  BY SeqIsDelta DEF IsDelta
<1> DEFINE y == s[i + 1].delta + s[i].delta
           g(j) == CASE j < i -> s[j]
                     [] j = i -> [s[i+1] EXCEPT !.delta = @ + s[i].delta]
                     [] OTHER -> s[j+1]
<1>2. n = [j \in 1 .. Len(s) - 1 |-> g(j)]
  BY DEF Unlink
<1>3. ASSUME NEW j \in 1 .. i - 1 PROVE g(j) = s[j] /\ j \in 1 .. Len(s) /\ j \in 1 .. Len(s) - 1
  BY <1>1
<1>4. g(i) = [s[i+1] EXCEPT !.delta = @ + s[i].delta] /\ (i < Len(s) => y \in Int /\ i \in 1 .. Len(s) - 1 /\ s[i + 1] \in R)
  BY <1>1
<1>5. ASSUME NEW j \in i + 1 .. Len(s) - 1 PROVE g(j) = s[j + 1] /\ j + 1 \in 1 .. Len(s) /\ j \in 1 .. Len(s) - 1
  BY <1>1
<1> HIDE DEF g
<1>6. \A j \in 1 .. Len(s) - 1 : j \in 1 .. i - 1 \/ (i < Len(s) /\ j = i) \/ j \in i + 1 .. Len(s) - 1
  BY <1>1
<1>7. g(i) = [s[i+1] EXCEPT !.delta = y]
  BY <1>4
<1> HIDE DEF y
<1>8. ASSUME NEW j \in 1 .. Len(s) - 1 PROVE g(j) \in R
  <2>1. CASE j \in 1 .. i - 1
    BY <1>1, <1>3, <2>1
  <2>2. CASE i < Len(s) /\ j = i
    BY <1>4, <1>7, <2>2 DEF Deltas
  <2>3. CASE j \in i + 1 .. Len(s) - 1
    BY <1>1, <1>5, <2>3
  <2> QED BY <1>6, <2>1, <2>2, <2>3
<1>9. n \in [1 .. Len(s) - 1 -> R]
  BY <1>2, <1>8
<1>10. n \in Seq(R) /\ Len(n) = Len(s) - 1
  BY <1>1, <1>9, FunctionSeq
<1>11. \A j \in 1 .. Len(s) - 1 : n[j] = g(j)
  BY <1>2
<1> QED BY <1>3, <1>4, <1>5, <1>10, <1>11 DEF Unlinked

\* The one that inherited a delta is due when it was.
LEMMA UnlinkDelta ==
    ASSUME NEW R, Deltas(R), NEW s \in Seq(R), NEW i \in 1 .. Len(s), NEW n \in Seq(R), Unlinked(s, i, n), i < Len(s)
    PROVE  n[i].delta = s[i + 1].delta + s[i].delta
<1> DEFINE y == s[i + 1].delta + s[i].delta
<1>1. s[i + 1] \in R /\ s[i] \in R
  <2>1. Len(s) \in Nat /\ i + 1 \in 1 .. Len(s)
    OBVIOUS
  <2> QED BY <2>1, SeqIsDelta
<1>2. n[i] = [s[i + 1] EXCEPT !.delta = y]
  BY DEF Unlinked
<1>3. y \in Int
  BY <1>1 DEF Deltas
<1> HIDE DEF y
<1>4. n[i].delta = y
  BY <1>1, <1>2, <1>3 DEF Deltas
<1> QED BY <1>4 DEF y

\* Unlink moves no sum.
LEMMA UnlinkPrefix ==
    ASSUME NEW R, Deltas(R), NEW s \in Seq(R), NEW i \in 1 .. Len(s), NEW n \in Seq(R), Unlinked(s, i, n)
    PROVE  \A j \in 0 .. Len(n) : Prefix(n)[j] = IF j < i THEN Prefix(s)[j] ELSE Prefix(s)[j + 1]
<1> DEFINE P == Prefix(s)
           f == [j \in 0 .. Len(n) |-> IF j < i THEN P[j] ELSE P[j + 1]]
<1>1. /\ IsDelta(s) /\ IsDelta(n) /\ Len(s) \in Nat /\ i \in Nat /\ 1 <= i /\ i <= Len(s)
      /\ P[0] = 0 /\ \A j \in 0 .. Len(s) : P[j] \in Int
      /\ \A j \in 1 .. Len(s) : s[j] \in R /\ s[j].delta \in Int /\ P[j] = P[j - 1] + s[j].delta
      /\ Len(n) = Len(s) - 1
  BY SeqIsDelta, PrefixAt DEF IsDelta, Unlinked
<1>2. i < Len(s) => n[i].delta = s[i + 1].delta + s[i].delta
  BY UnlinkDelta
<1> HIDE DEF P
<1>3. \A j \in 0 .. Len(n) : f[j] = IF j < i THEN P[j] ELSE P[j + 1]
  OBVIOUS
<1>4. ASSUME NEW j \in 0 .. Len(n) PROVE f[j] \in Int
  <2>1. j \in 0 .. Len(s) /\ j + 1 \in 0 .. Len(s)
    BY <1>1
  <2> QED BY <1>1, <1>3, <2>1
<1>5. f \in [0 .. Len(n) -> Int]
  BY <1>4
<1>6. f[0] = 0
  BY <1>1, <1>3
<1>7. ASSUME NEW j \in 1 .. Len(n) PROVE f[j] = f[j - 1] + n[j].delta
  <2>0. j - 1 \in 0 .. Len(n) /\ j \in 0 .. Len(n) /\ (j - 1) + 1 = j /\ j \in 1 .. Len(s) /\ j + 1 \in 1 .. Len(s)
    BY <1>1
  <2>1. CASE j < i
    <3>1. n[j] = s[j] /\ j - 1 < i
      BY <1>1, <2>0, <2>1 DEF Unlinked
    <3> QED BY <1>1, <1>3, <2>0, <2>1, <3>1
  <2>2. CASE j = i
    <3>1. i < Len(s) /\ j - 1 < i
      BY <1>1, <2>0, <2>2
    <3>2. f[j] = P[j + 1] /\ f[j - 1] = P[j - 1]
      BY <1>3, <2>0, <2>2, <3>1
    <3>3. P[j + 1] = P[j] + s[j + 1].delta /\ P[j] = P[j - 1] + s[j].delta
      BY <1>1, <2>0
    <3>4. P[j - 1] \in Int /\ s[j].delta \in Int /\ s[j + 1].delta \in Int
      BY <1>1, <2>0
    <3> QED BY <1>2, <2>2, <3>1, <3>2, <3>3, <3>4
  <2>3. CASE j > i
    <3>1. n[j] = s[j + 1]
      <4>1. j \in i + 1 .. Len(s) - 1
        BY <1>1, <2>0, <2>3
      <4> QED BY <4>1 DEF Unlinked
    <3>2. f[j] = P[j + 1] /\ f[j - 1] = P[j]
      BY <1>1, <1>3, <2>0, <2>3
    <3>3. P[j + 1] = P[j] + s[j + 1].delta
      BY <1>1, <2>0
    <3> QED BY <3>1, <3>2, <3>3
  <2> QED BY <1>1, <2>1, <2>2, <2>3
<1>8. Sums(n, f)
  BY <1>5, <1>6, <1>7 DEF Sums, SumsTo
<1>9. Prefix(n) = f
  BY <1>1, <1>8, PrefixIs
<1> QED BY <1>3, <1>9 DEF P

\* Unlink keeps the order of the sums.
LEMMA UnlinkOrd ==
    ASSUME NEW R, Deltas(R), NEW s \in Seq(R), NEW i \in 1 .. Len(s), NEW n \in Seq(R), Unlinked(s, i, n), Ord(s)
    PROVE  Ord(n)
<1>1. /\ Len(s) \in Nat /\ i \in Nat /\ 1 <= i /\ i <= Len(s) /\ Len(n) = Len(s) - 1
      /\ \A j \in 1 .. Len(s) : s[j] \in R /\ s[j].delta \in Int
  BY SeqIsDelta DEF IsDelta, Unlinked
<1>2. ASSUME NEW j \in 2 .. Len(n) PROVE n[j].delta >= 0
  <2>1. CASE j < i
    <3>1. n[j] = s[j] /\ j \in 2 .. Len(s)
      BY <1>1, <2>1 DEF Unlinked
    <3> QED BY <3>1 DEF Ord
  <2>2. CASE j = i
    <3>0. i < Len(s) /\ i \in 2 .. Len(s) /\ i + 1 \in 2 .. Len(s)
      BY <1>1, <2>2
    <3>1. n[j].delta = s[i + 1].delta + s[i].delta
      BY <2>2, <3>0, UnlinkDelta
    <3> QED BY <1>1, <3>0, <3>1 DEF Ord
  <2>3. CASE j > i
    <3>1. j \in i + 1 .. Len(s) - 1 /\ j + 1 \in 2 .. Len(s)
      BY <1>1, <2>3
    <3>2. n[j] = s[j + 1]
      BY <3>1 DEF Unlinked
    <3> QED BY <3>1, <3>2 DEF Ord
  <2> QED BY <1>1, <2>1, <2>2, <2>3
<1> QED BY <1>2 DEF Ord

(***************************************************************************)
(* The list allevents as a table of deadlines                              *)
(***************************************************************************)
EvRec == [ev : Events, delta : Int]
EvOnce(s) == \A i, j \in 1 .. Len(s) : s[i].ev = s[j].ev => i = j
EvAt(s, y) == Prefix(s)[EvIndex(s, y)]
EvList(s) == s \in Seq(EvRec) /\ EvOnce(s) /\ Ord(s)

\* Counting down keeps the name.
LEMMA EvRecord ==
    /\ Deltas(EvRec)
    /\ \A y \in EvRec : \A n \in Int : [y EXCEPT !.delta = n].ev = y.ev
<1>1. ASSUME NEW y \in EvRec, NEW n \in Int
      PROVE  /\ y.delta \in Int /\ [y EXCEPT !.delta = n] \in EvRec
             /\ [y EXCEPT !.delta = n].delta = n /\ [y EXCEPT !.delta = n].ev = y.ev
  BY <1>1 DEF EvRec
<1>2. \A y \in EvRec : y.delta \in Int
  BY DEF EvRec
<1>3. QED
  BY <1>1, <1>2, Zenon DEF Deltas

\* Each name has one place.
LEMMA EvIndexIs ==
    ASSUME NEW s, EvOnce(s), NEW i \in 1 .. Len(s)
    PROVE  EvIndex(s, s[i].ev) = i /\ s[i].ev \in Armed(s)
BY DEF EvOnce, EvIndex, Armed

\* A name in the list has a place.
LEMMA EvIndexOf ==
    ASSUME NEW s, NEW y \in Armed(s)
    PROVE  EvIndex(s, y) \in 1 .. Len(s) /\ s[EvIndex(s, y)].ev = y
BY DEF EvIndex, Armed

\* Taking a member out leaves the times of the others alone.
LEMMA EvRemoved ==
    ASSUME NEW s, EvList(s), NEW i \in 1 .. Len(s), NEW n, n = Unlink(s, i)
    PROVE  /\ EvList(n) /\ Armed(n) = Armed(s) \ {s[i].ev}
           /\ \A y \in Armed(n) : EvAt(n, y) = EvAt(s, y)
<1>0. s \in Seq(EvRec) /\ EvOnce(s) /\ Ord(s)
  BY DEF EvList
<1>1. n \in Seq(EvRec) /\ Unlinked(s, i, n)
  BY <1>0, EvRecord, UnlinkIs
<1>2. Ord(n)
  BY <1>0, <1>1, EvRecord, UnlinkOrd
<1>3. /\ IsDelta(s) /\ IsDelta(n)
      /\ \A j \in 1 .. Len(s) : s[j] \in EvRec
      /\ \A j \in 1 .. Len(n) : n[j] \in EvRec
  BY <1>0, <1>1, EvRecord, SeqIsDelta
<1>4. Len(s) \in Nat /\ Len(n) = Len(s) - 1
  BY <1>1, <1>3 DEF Unlinked, IsDelta
<1> DEFINE To(j) == IF j < i THEN j ELSE j + 1
<1>5. ASSUME NEW j \in 1 .. Len(n)
      PROVE  /\ To(j) \in 1 .. Len(s) /\ To(j) # i
             /\ n[j].ev = s[To(j)].ev
             /\ Prefix(n)[j] = Prefix(s)[To(j)]
  <2>1. To(j) \in 1 .. Len(s) /\ To(j) # i
    BY <1>4
  <2>2. Prefix(n)[j] = Prefix(s)[To(j)]
    BY <1>0, <1>1, <1>4, EvRecord, UnlinkPrefix
  <2>3. CASE j # i
    <3>1. n[j] = s[To(j)]
      <4>1. CASE j < i
        <5>1. j \in 1 .. i - 1 /\ To(j) = j
          BY <4>1, <1>4
        <5>2. QED
          BY <5>1, <1>1 DEF Unlinked
      <4>2. CASE j > i
        <5>1. j \in i + 1 .. Len(s) - 1 /\ To(j) = j + 1
          BY <4>2, <1>4
        <5>2. QED
          BY <5>1, <1>1 DEF Unlinked
      <4>3. QED
        BY <2>3, <4>1, <4>2, <1>4
    <3>2. QED
      BY <3>1, <2>1, <2>2
  <2>4. CASE j = i
    <3> DEFINE y == s[i + 1]
               c == y.delta + s[i].delta
    <3>1. y \in EvRec /\ c \in Int /\ n[j] = [y EXCEPT !.delta = c]
      <4>1. i + 1 \in 1 .. Len(s) /\ i < Len(s)
        BY <1>4, <2>4
      <4>2. y.delta \in Int /\ s[i].delta \in Int
        BY <4>1, <1>3 DEF IsDelta
      <4>3. QED
        BY <4>1, <4>2, <1>1, <1>3, <2>4 DEF Unlinked
    <3> HIDE DEF y, c
    <3>2. n[j].ev = y.ev
      BY <3>1, EvRecord
    <3>3. QED
      BY <3>2, <2>1, <2>2, <2>4, <1>4 DEF y
  <2>5. QED
    BY <2>3, <2>4
<1>6. ASSUME NEW j \in 1 .. Len(s), j # i
      PROVE  \E m \in 1 .. Len(n) : To(m) = j
  <2>1. CASE j < i
    BY <2>1, <1>4
  <2>2. CASE j > i
    <3>1. j - 1 \in 1 .. Len(n) /\ To(j - 1) = j
      BY <2>2, <1>4
    <3>2. QED
      BY <3>1
  <2>3. QED
    BY <1>6, <2>1, <2>2, <1>4
<1>7. \A j, m \in 1 .. Len(n) : To(j) = To(m) => j = m
  BY <1>4
<1> HIDE DEF To
<1>8. EvOnce(n)
  BY <1>0, <1>5, <1>7 DEF EvOnce
<1>9. Armed(n) = Armed(s) \ {s[i].ev}
  <2>1. ASSUME NEW y \in Armed(n)
        PROVE  y \in Armed(s) /\ y # s[i].ev
    BY <1>0, <1>5 DEF Armed, EvOnce
  <2>2. ASSUME NEW y \in Armed(s), y # s[i].ev
        PROVE  y \in Armed(n)
    <3>1. PICK j \in 1 .. Len(s) : s[j].ev = y
      BY DEF Armed
    <3>2. PICK m \in 1 .. Len(n) : To(m) = j
      BY <3>1, <2>2, <1>6
    <3>3. n[m].ev = y
      BY <3>1, <3>2, <1>5
    <3>4. QED
      BY <3>3 DEF Armed
  <2>3. QED
    BY <2>1, <2>2
<1>10. ASSUME NEW y \in Armed(n)
       PROVE  EvAt(n, y) = EvAt(s, y)
  <2>1. PICK m \in 1 .. Len(n) : n[m].ev = y
    BY DEF Armed
  <2>2. EvIndex(n, y) = m
    BY <2>1, <1>8, EvIndexIs
  <2>3. To(m) \in 1 .. Len(s) /\ s[To(m)].ev = y
    BY <2>1, <1>5
  <2>4. EvIndex(s, y) = To(m)
    BY <2>3, <1>0, EvIndexIs
  <2>5. QED
    BY <2>1, <2>2, <2>4, <1>5 DEF EvAt
<1>11. QED
  BY <1>1, <1>2, <1>8, <1>9, <1>10 DEF EvList

\* So does putting one in, which is due when it was asked for.
LEMMA EvInserted ==
    ASSUME NEW s, EvList(s), NEW x \in EvRec, x.ev \notin Armed(s), NEW d \in Int,
           NEW k \in 0 .. Len(s), k >= 1 => Prefix(s)[k] <= d, k < Len(s) => d <= Prefix(s)[k + 1],
           NEW n, n = Link(s, x, d, k)
    PROVE  /\ EvList(n) /\ Armed(n) = Armed(s) \cup {x.ev}
           /\ \A y \in Armed(s) : EvAt(n, y) = EvAt(s, y)
           /\ EvAt(n, x.ev) = d
           /\ n # <<>> /\ (n[1].ev = x.ev <=> k = 0)
<1>0. s \in Seq(EvRec) /\ EvOnce(s) /\ Ord(s)
  BY DEF EvList
<1>1. n \in Seq(EvRec) /\ Linked(s, x, d, k, n)
  BY <1>0, EvRecord, LinkIs
<1>2. Ord(n)
  BY <1>0, <1>1, EvRecord, LinkOrd
<1>3. /\ IsDelta(s) /\ IsDelta(n)
      /\ \A j \in 1 .. Len(s) : s[j] \in EvRec
      /\ \A j \in 1 .. Len(n) : n[j] \in EvRec
  BY <1>0, <1>1, EvRecord, SeqIsDelta
<1>4. Len(s) \in Nat /\ Len(n) = Len(s) + 1
  BY <1>1, <1>3 DEF Linked, IsDelta
<1> DEFINE To(j) == IF j <= k THEN j ELSE j + 1
<1>5. n[k + 1].ev = x.ev  /\ k + 1 \in 1 .. Len(n) /\ Prefix(n)[k + 1] = d
  <2>1. k + 1 \in 1 .. Len(n)
    BY <1>4
  <2>2. Prefix(n)[k + 1] = d
    BY <1>0, <1>1, <1>4, EvRecord, LinkPrefix
  <2> DEFINE c == d - Prefix(s)[k]
  <2>3. c \in Int /\ n[k + 1] = [x EXCEPT !.delta = c]
    BY <1>1, <1>3, PrefixAt DEF Linked
  <2> HIDE DEF c
  <2>4. QED
    BY <2>1, <2>2, <2>3, EvRecord
<1>6. ASSUME NEW j \in 1 .. Len(s)
      PROVE  /\ To(j) \in 1 .. Len(n) /\ To(j) # k + 1
             /\ n[To(j)].ev = s[j].ev
             /\ Prefix(n)[To(j)] = Prefix(s)[j]
  <2>1. To(j) \in 1 .. Len(n) /\ To(j) # k + 1 /\ To(j) \in 0 .. Len(n)
    BY <1>4
  <2>2. Prefix(n)[To(j)] = Prefix(s)[j]
    <3>1. \A i \in 0 .. Len(n) :
              Prefix(n)[i] = IF i <= k THEN Prefix(s)[i] ELSE IF i = k + 1 THEN d ELSE Prefix(s)[i - 1]
      BY <1>0, <1>1, EvRecord, LinkPrefix
    <3>2. CASE j <= k
      BY <3>1, <3>2, <2>1
    <3>3. CASE ~(j <= k)
      <4>1. To(j) = j + 1 /\ ~(j + 1 <= k) /\ j + 1 # k + 1 /\ (j + 1) - 1 = j
        BY <3>3, <1>4
      <4>2. QED
        BY <4>1, <3>1, <2>1
    <3>4. QED
      BY <3>2, <3>3
  <2>3. CASE j <= k
    BY <1>1, <1>4, <2>1, <2>2, <2>3 DEF Linked
  <2>4. CASE j = k + 1
    <3> DEFINE y == s[k + 1]
               c == Prefix(s)[k + 1] - d
    <3>1. y \in EvRec /\ c \in Int /\ n[To(j)] = [y EXCEPT !.delta = c]
      <4>1. k + 1 \in 1 .. Len(s) /\ k < Len(s) /\ To(j) = k + 2 /\ k + 1 \in 0 .. Len(s)
        BY <1>4, <2>4
      <4>2. Prefix(s)[k + 1] \in Int
        BY <4>1, <1>3, PrefixAt
      <4>3. QED
        BY <4>1, <4>2, <1>1, <1>3 DEF Linked
    <3> HIDE DEF y, c
    <3>2. n[To(j)].ev = y.ev
      BY <3>1, EvRecord
    <3>3. QED
      BY <3>2, <2>1, <2>2, <2>4 DEF y
  <2>5. CASE j > k + 1
    <3>1. To(j) = j + 1 /\ j + 1 \in k + 3 .. Len(s) + 1 /\ (j + 1) - 1 = j
      BY <2>5, <1>4
    <3>2. n[To(j)] = s[j]
      BY <3>1, <1>1 DEF Linked
    <3>3. QED
      BY <3>2, <2>1, <2>2
  <2>6. QED
    BY <2>3, <2>4, <2>5, <1>4
<1>7. ASSUME NEW m \in 1 .. Len(n), m # k + 1
      PROVE  \E j \in 1 .. Len(s) : To(j) = m
  <2>1. CASE m <= k
    <3>1. m \in 1 .. Len(s) /\ To(m) = m
      BY <2>1, <1>4
    <3>2. QED
      BY <3>1
  <2>2. CASE m > k + 1
    <3>1. m - 1 \in 1 .. Len(s) /\ To(m - 1) = m
      BY <2>2, <1>4
    <3>2. QED
      BY <3>1
  <2>3. QED
    BY <1>7, <2>1, <2>2, <1>4
<1>8. \A i, j \in 1 .. Len(s) : To(i) = To(j) => i = j
  BY <1>4
<1>9. k = 0 <=> 1 = k + 1
  OBVIOUS
<1> HIDE DEF To
<1>10. ASSUME NEW m \in 1 .. Len(n), m # k + 1
       PROVE  n[m].ev \in Armed(s) /\ n[m].ev # x.ev
  <2>1. PICK j \in 1 .. Len(s) : To(j) = m
    BY <1>7, <1>10
  <2>2. n[m].ev = s[j].ev
    BY <2>1, <1>6
  <2>3. QED
    BY <2>2 DEF Armed
<1>11. EvOnce(n)
  <2>1. ASSUME NEW i \in 1 .. Len(n), NEW j \in 1 .. Len(n), n[i].ev = n[j].ev
        PROVE  i = j
    <3>1. CASE i = k + 1 \/ j = k + 1
      BY <3>1, <2>1, <1>5, <1>10
    <3>2. CASE i # k + 1 /\ j # k + 1
      <4>1. PICK a \in 1 .. Len(s) : To(a) = i
        BY <3>2, <1>7
      <4>2. PICK b \in 1 .. Len(s) : To(b) = j
        BY <3>2, <1>7
      <4>3. a = b
        BY <4>1, <4>2, <2>1, <1>6, <1>0 DEF EvOnce
      <4>4. QED
        BY <4>1, <4>2, <4>3
    <3>3. QED
      BY <3>1, <3>2
  <2>2. QED
    BY <2>1 DEF EvOnce
<1>12. Armed(n) = Armed(s) \cup {x.ev}
  <2>1. ASSUME NEW y \in Armed(n)
        PROVE  y \in Armed(s) \cup {x.ev}
    BY <1>5, <1>10 DEF Armed
  <2>2. ASSUME NEW y \in Armed(s)
        PROVE  y \in Armed(n)
    BY <1>6 DEF Armed
  <2>3. x.ev \in Armed(n)
    BY <1>5 DEF Armed
  <2>4. QED
    BY <2>1, <2>2, <2>3
<1>13. ASSUME NEW y \in Armed(s)
       PROVE  EvAt(n, y) = EvAt(s, y)
  <2>1. PICK j \in 1 .. Len(s) : s[j].ev = y
    BY DEF Armed
  <2>2. EvIndex(s, y) = j
    BY <2>1, <1>0, EvIndexIs
  <2>3. To(j) \in 1 .. Len(n) /\ n[To(j)].ev = y
    BY <2>1, <1>6
  <2>4. EvIndex(n, y) = To(j)
    BY <2>3, <1>11, EvIndexIs
  <2>5. QED
    BY <2>1, <2>2, <2>4, <1>6 DEF EvAt
<1>14. EvAt(n, x.ev) = d
  <2>1. EvIndex(n, x.ev) = k + 1
    BY <1>5, <1>11, EvIndexIs
  <2>2. QED
    BY <2>1, <1>5 DEF EvAt
<1>15. n # <<>> /\ (n[1].ev = x.ev <=> k = 0)
  <2>1. n # <<>> /\ 1 \in 1 .. Len(n)
    BY <1>4
  <2>2. QED
    BY <2>1, <1>5, <1>10, <1>9
<1>16. QED
  BY <1>1, <1>2, <1>11, <1>12, <1>13, <1>14, <1>15 DEF EvList

\* Counting the head down moves everything alike.
LEMMA EvCountedDown ==
    ASSUME NEW s, EvList(s), s # <<>>, NEW c \in Int, NEW n, n = [s EXCEPT ![1].delta = @ - c]
    PROVE  /\ EvList(n) /\ Armed(n) = Armed(s) /\ n # <<>> /\ n[1].delta = s[1].delta - c
           /\ \A y \in Armed(s) : EvAt(n, y) = EvAt(s, y) - c
<1>0. s \in Seq(EvRec) /\ EvOnce(s) /\ Ord(s)
  BY DEF EvList
<1>1. IsDelta(s) /\ Len(s) \in Nat /\ 1 \in 1 .. Len(s) /\ \A j \in 1 .. Len(s) : s[j] \in EvRec
  BY <1>0, EvRecord, SeqIsDelta
<1> DEFINE y1 == s[1]
           b == y1.delta - c
<1>2. y1 \in EvRec /\ b \in Int
  BY <1>1 DEF IsDelta
<1>3. n = [s EXCEPT ![1] = [y1 EXCEPT !.delta = b]]
  OBVIOUS
<1> HIDE DEF b, y1
<1>4. [y1 EXCEPT !.delta = b] \in EvRec /\ [y1 EXCEPT !.delta = b].delta = b /\ [y1 EXCEPT !.delta = b].ev = y1.ev
  <2>1. Deltas(EvRec) /\ [y1 EXCEPT !.delta = b].ev = y1.ev
    BY <1>2, EvRecord
  <2>2. QED
    BY <2>1, <1>2 DEF Deltas
<1>5. /\ n \in Seq(EvRec) /\ Len(n) = Len(s) /\ n[1].delta = b
      /\ \A j \in 1 .. Len(s) : n[j].ev = s[j].ev
      /\ \A j \in 2 .. Len(s) : n[j] = s[j]
  <2>1. n \in Seq(EvRec) /\ Len(n) = Len(s) /\ n[1] = [y1 EXCEPT !.delta = b] /\ \A j \in 2 .. Len(s) : n[j] = s[j]
    BY <1>0, <1>1, <1>3, <1>4
  <2>2. y1 = s[1]
    BY DEF y1
  <2>3. \A j \in 1 .. Len(s) : j = 1 \/ j \in 2 .. Len(s)
    BY <1>1
  <2> QED
    BY <2>1, <2>2, <2>3, <1>4
<1>6. Ord(n) /\ EvOnce(n) /\ Armed(n) = Armed(s)
  BY <1>0, <1>5 DEF Ord, EvOnce, Armed
<1>7. ASSUME NEW j \in 1 .. Len(s)
      PROVE  Prefix(n)[j] = Prefix(s)[j] - c
  <2>0. IsDelta(n)
    BY <1>5, EvRecord, SeqIsDelta
  <2> DEFINE f == [i \in 0 .. Len(s) |-> IF i = 0 THEN 0 ELSE Prefix(s)[i] - c]
  <2>1. Sums(n, f)
    <3>1. /\ Prefix(s)[0] = 0
          /\ \A i \in 0 .. Len(s) : Prefix(s)[i] \in Int
          /\ \A i \in 1 .. Len(s) : i - 1 \in 0 .. Len(s) /\ Prefix(s)[i] = Prefix(s)[i - 1] + s[i].delta
      BY <1>1, PrefixAt
    <3>2. f \in [0 .. Len(s) -> Int] /\ f[0] = 0
      BY <3>1, <1>1
    <3>3. ASSUME NEW i \in 1 .. Len(s)
          PROVE  f[i] = f[i - 1] + n[i].delta
      <4>0. i \in 0 .. Len(s) /\ i - 1 \in 0 .. Len(s) /\ s[i].delta \in Int /\ n[i].delta \in Int
        BY <1>1, <1>5, <2>0 DEF IsDelta
      <4>1. CASE i = 1
        <5>1. f[1] = Prefix(s)[1] - c /\ f[0] = 0 /\ Prefix(s)[1] = Prefix(s)[0] + s[1].delta
          BY <4>0, <4>1, <3>1
        <5>2. Prefix(s)[0] = 0 /\ n[1].delta = s[1].delta - c
          BY <3>1, <1>5 DEF b, y1
        <5>3. QED
          BY <5>1, <5>2, <4>0, <4>1, <1>2 DEF b, y1
      <4>2. CASE i # 1
        <5>1. f[i] = Prefix(s)[i] - c /\ f[i - 1] = Prefix(s)[i - 1] - c /\ Prefix(s)[i] = Prefix(s)[i - 1] + s[i].delta
          BY <4>0, <4>2, <3>1, <1>1
        <5>2. n[i] = s[i] /\ Prefix(s)[i - 1] \in Int
          BY <4>2, <1>5, <3>1, <4>0
        <5>3. n[i].delta = s[i].delta /\ c \in Int
          BY <5>2
        <5> HIDE DEF f
        <5>4. QED
          BY <5>1, <5>2, <5>3, <4>0
      <4>3. QED
        BY <4>1, <4>2
    <3> HIDE DEF f
    <3>4. QED
      BY <3>2, <3>3, <1>5 DEF Sums, SumsTo
  <2>2. f[j] = Prefix(s)[j] - c
    BY <1>1
  <2> HIDE DEF f
  <2>3. Prefix(n) = f
    BY <2>0, <2>1, PrefixIs
  <2>4. QED
    BY <2>2, <2>3
<1>8. ASSUME NEW y \in Armed(s)
      PROVE  EvAt(n, y) = EvAt(s, y) - c
  <2>1. PICK j \in 1 .. Len(s) : s[j].ev = y
    BY DEF Armed
  <2>2. EvIndex(s, y) = j
    BY <2>1, <1>0, EvIndexIs
  <2>3. j \in 1 .. Len(n) /\ n[j].ev = y
    BY <2>1, <1>5
  <2>4. EvIndex(n, y) = j
    BY <2>3, <1>6, EvIndexIs
  <2>5. QED
    BY <2>1, <2>2, <2>4, <1>5, <1>7 DEF EvAt
<1>9. QED
  <2>1. n # <<>>
    BY <1>1, <1>5
  <2>2. n[1].delta = s[1].delta - c
    BY <1>5 DEF b, y1
  <2>3. QED
    BY <2>1, <2>2, <1>5, <1>6, <1>8 DEF EvList

\* The head is due first.
LEMMA EvHeadFirst ==
    ASSUME NEW s, EvList(s), s # <<>>
    PROVE  /\ 1 \in 1 .. Len(s) /\ s[1].ev \in Armed(s) /\ EvAt(s, s[1].ev) = s[1].delta
           /\ \A y \in Armed(s) : EvAt(s, y) \in Int /\ EvAt(s, y) >= s[1].delta
<1>1. s \in Seq(EvRec) /\ EvOnce(s) /\ Ord(s)
  BY DEF EvList
<1>2. IsDelta(s) /\ 1 \in 1 .. Len(s) /\ Len(s) \in Nat
  BY <1>1, EvRecord, SeqIsDelta DEF IsDelta
<1>3. s[1].ev \in Armed(s) /\ EvIndex(s, s[1].ev) = 1
  BY <1>1, <1>2, EvIndexIs
<1>4. Prefix(s)[1] = s[1].delta
  BY <1>2, PrefixAt DEF IsDelta
<1>5. ASSUME NEW y \in Armed(s)
      PROVE  EvAt(s, y) \in Int /\ EvAt(s, y) >= s[1].delta
  <2>1. EvIndex(s, y) \in 1 .. Len(s)
    BY EvIndexOf
  <2>2. Prefix(s)[1] <= Prefix(s)[EvIndex(s, y)]
    BY <1>1, <1>2, <2>1, OrdLater
  <2>3. Prefix(s)[EvIndex(s, y)] \in Int
    BY <1>2, <2>1, PrefixAt
  <2>4. s[1].delta \in Int
    BY <1>2 DEF IsDelta
  <2>5. QED
    BY <2>2, <2>3, <2>4, <1>4 DEF EvAt
<1>6. QED
  BY <1>2, <1>3, <1>4, <1>5 DEF EvAt

(***************************************************************************)
(* The list tlist as a table of deadlines                                  *)
(***************************************************************************)
ToRec == {t \in [id : Pool \cup Static, func : {"check_events", "if_doinput"}, delta : Int] :
             t.func = "check_events" => t.id \in Pool}
IdOnce(s) == \A i, j \in 1 .. Len(s) : s[i].id = s[j].id => i = j
IdAt(s, y) == Prefix(s)[IndexOf(s, y)]
FuncOf(s, y) == s[IndexOf(s, y)].func
IdList(s) == s \in Seq(ToRec) /\ IdOnce(s) /\ Ord(s)

\* Counting down keeps the name.
LEMMA IdRecord ==
    /\ Deltas(ToRec)
    /\ \A y \in ToRec : \A n \in Int : [y EXCEPT !.delta = n].id = y.id /\ [y EXCEPT !.delta = n].func = y.func
<1>1. ASSUME NEW y \in ToRec, NEW n \in Int
      PROVE  /\ y.delta \in Int /\ [y EXCEPT !.delta = n] \in ToRec
             /\ [y EXCEPT !.delta = n].delta = n /\ [y EXCEPT !.delta = n].id = y.id /\ [y EXCEPT !.delta = n].func = y.func
  BY <1>1 DEF ToRec
<1>2. \A y \in ToRec : y.delta \in Int
  BY DEF ToRec
<1>3. QED
  BY <1>1, <1>2, Zenon DEF Deltas

\* Each name has one place.
LEMMA IdIndexIs ==
    ASSUME NEW s, IdOnce(s), NEW i \in 1 .. Len(s)
    PROVE  IndexOf(s, s[i].id) = i /\ s[i].id \in Ids(s)
BY DEF IdOnce, IndexOf, Ids

\* A name in the list has a place.
LEMMA IdIndexOf ==
    ASSUME NEW s, NEW y \in Ids(s)
    PROVE  IndexOf(s, y) \in 1 .. Len(s) /\ s[IndexOf(s, y)].id = y
BY DEF IndexOf, Ids

\* Taking a member out leaves the times of the others alone.
LEMMA IdRemoved ==
    ASSUME NEW s, IdList(s), NEW i \in 1 .. Len(s), NEW n, n = Unlink(s, i)
    PROVE  /\ IdList(n) /\ Ids(n) = Ids(s) \ {s[i].id}
           /\ \A y \in Ids(n) : IdAt(n, y) = IdAt(s, y) /\ FuncOf(n, y) = FuncOf(s, y)
<1>0. s \in Seq(ToRec) /\ IdOnce(s) /\ Ord(s)
  BY DEF IdList
<1>1. n \in Seq(ToRec) /\ Unlinked(s, i, n)
  BY <1>0, IdRecord, UnlinkIs
<1>2. Ord(n)
  BY <1>0, <1>1, IdRecord, UnlinkOrd
<1>3. /\ IsDelta(s) /\ IsDelta(n)
      /\ \A j \in 1 .. Len(s) : s[j] \in ToRec
      /\ \A j \in 1 .. Len(n) : n[j] \in ToRec
  BY <1>0, <1>1, IdRecord, SeqIsDelta
<1>4. Len(s) \in Nat /\ Len(n) = Len(s) - 1
  BY <1>1, <1>3 DEF Unlinked, IsDelta
<1> DEFINE To(j) == IF j < i THEN j ELSE j + 1
<1>5. ASSUME NEW j \in 1 .. Len(n)
      PROVE  /\ To(j) \in 1 .. Len(s) /\ To(j) # i
             /\ n[j].id = s[To(j)].id /\ n[j].func = s[To(j)].func
             /\ Prefix(n)[j] = Prefix(s)[To(j)]
  <2>1. To(j) \in 1 .. Len(s) /\ To(j) # i
    BY <1>4
  <2>2. Prefix(n)[j] = Prefix(s)[To(j)]
    BY <1>0, <1>1, <1>4, IdRecord, UnlinkPrefix
  <2>3. CASE j # i
    <3>1. n[j] = s[To(j)]
      <4>1. CASE j < i
        <5>1. j \in 1 .. i - 1 /\ To(j) = j
          BY <4>1, <1>4
        <5>2. QED
          BY <5>1, <1>1 DEF Unlinked
      <4>2. CASE j > i
        <5>1. j \in i + 1 .. Len(s) - 1 /\ To(j) = j + 1
          BY <4>2, <1>4
        <5>2. QED
          BY <5>1, <1>1 DEF Unlinked
      <4>3. QED
        BY <2>3, <4>1, <4>2, <1>4
    <3>2. QED
      BY <3>1, <2>1, <2>2
  <2>4. CASE j = i
    <3> DEFINE y == s[i + 1]
               c == y.delta + s[i].delta
    <3>1. y \in ToRec /\ c \in Int /\ n[j] = [y EXCEPT !.delta = c]
      <4>1. i + 1 \in 1 .. Len(s) /\ i < Len(s)
        BY <1>4, <2>4
      <4>2. y.delta \in Int /\ s[i].delta \in Int
        BY <4>1, <1>3 DEF IsDelta
      <4>3. QED
        BY <4>1, <4>2, <1>1, <1>3, <2>4 DEF Unlinked
    <3> HIDE DEF y, c
    <3>2. n[j].id = y.id /\ n[j].func = y.func
      BY <3>1, IdRecord
    <3>3. QED
      BY <3>2, <2>1, <2>2, <2>4, <1>4 DEF y
  <2>5. QED
    BY <2>3, <2>4
<1>6. ASSUME NEW j \in 1 .. Len(s), j # i
      PROVE  \E m \in 1 .. Len(n) : To(m) = j
  <2>1. CASE j < i
    BY <2>1, <1>4
  <2>2. CASE j > i
    <3>1. j - 1 \in 1 .. Len(n) /\ To(j - 1) = j
      BY <2>2, <1>4
    <3>2. QED
      BY <3>1
  <2>3. QED
    BY <1>6, <2>1, <2>2, <1>4
<1>7. \A j, m \in 1 .. Len(n) : To(j) = To(m) => j = m
  BY <1>4
<1> HIDE DEF To
<1>8. IdOnce(n)
  BY <1>0, <1>5, <1>7 DEF IdOnce
<1>9. Ids(n) = Ids(s) \ {s[i].id}
  <2>1. ASSUME NEW y \in Ids(n)
        PROVE  y \in Ids(s) /\ y # s[i].id
    BY <1>0, <1>5 DEF Ids, IdOnce
  <2>2. ASSUME NEW y \in Ids(s), y # s[i].id
        PROVE  y \in Ids(n)
    <3>1. PICK j \in 1 .. Len(s) : s[j].id = y
      BY DEF Ids
    <3>2. PICK m \in 1 .. Len(n) : To(m) = j
      BY <3>1, <2>2, <1>6
    <3>3. n[m].id = y
      BY <3>1, <3>2, <1>5
    <3>4. QED
      BY <3>3 DEF Ids
  <2>3. QED
    BY <2>1, <2>2
<1>10. ASSUME NEW y \in Ids(n)
       PROVE  IdAt(n, y) = IdAt(s, y) /\ FuncOf(n, y) = FuncOf(s, y)
  <2>1. PICK m \in 1 .. Len(n) : n[m].id = y
    BY DEF Ids
  <2>2. IndexOf(n, y) = m
    BY <2>1, <1>8, IdIndexIs
  <2>3. To(m) \in 1 .. Len(s) /\ s[To(m)].id = y
    BY <2>1, <1>5
  <2>4. IndexOf(s, y) = To(m)
    BY <2>3, <1>0, IdIndexIs
  <2>5. QED
    BY <2>1, <2>2, <2>4, <1>5 DEF IdAt, FuncOf
<1>11. QED
  BY <1>1, <1>2, <1>8, <1>9, <1>10 DEF IdList

\* So does putting one in, which is due when it was asked for.
LEMMA IdInserted ==
    ASSUME NEW s, IdList(s), NEW x \in ToRec, x.id \notin Ids(s), NEW d \in Int,
           NEW k \in 0 .. Len(s), k >= 1 => Prefix(s)[k] <= d, k < Len(s) => d <= Prefix(s)[k + 1],
           NEW n, n = Link(s, x, d, k)
    PROVE  /\ IdList(n) /\ Ids(n) = Ids(s) \cup {x.id}
           /\ \A y \in Ids(s) : IdAt(n, y) = IdAt(s, y) /\ FuncOf(n, y) = FuncOf(s, y)
           /\ IdAt(n, x.id) = d /\ FuncOf(n, x.id) = x.func
           /\ n # <<>> /\ (n[1].id = x.id <=> k = 0)
<1>0. s \in Seq(ToRec) /\ IdOnce(s) /\ Ord(s)
  BY DEF IdList
<1>1. n \in Seq(ToRec) /\ Linked(s, x, d, k, n)
  BY <1>0, IdRecord, LinkIs
<1>2. Ord(n)
  BY <1>0, <1>1, IdRecord, LinkOrd
<1>3. /\ IsDelta(s) /\ IsDelta(n)
      /\ \A j \in 1 .. Len(s) : s[j] \in ToRec
      /\ \A j \in 1 .. Len(n) : n[j] \in ToRec
  BY <1>0, <1>1, IdRecord, SeqIsDelta
<1>4. Len(s) \in Nat /\ Len(n) = Len(s) + 1
  BY <1>1, <1>3 DEF Linked, IsDelta
<1> DEFINE To(j) == IF j <= k THEN j ELSE j + 1
<1>5. n[k + 1].id = x.id /\ n[k + 1].func = x.func /\ k + 1 \in 1 .. Len(n) /\ Prefix(n)[k + 1] = d
  <2>1. k + 1 \in 1 .. Len(n)
    BY <1>4
  <2>2. Prefix(n)[k + 1] = d
    BY <1>0, <1>1, <1>4, IdRecord, LinkPrefix
  <2> DEFINE c == d - Prefix(s)[k]
  <2>3. c \in Int /\ n[k + 1] = [x EXCEPT !.delta = c]
    BY <1>1, <1>3, PrefixAt DEF Linked
  <2> HIDE DEF c
  <2>4. QED
    BY <2>1, <2>2, <2>3, IdRecord
<1>6. ASSUME NEW j \in 1 .. Len(s)
      PROVE  /\ To(j) \in 1 .. Len(n) /\ To(j) # k + 1
             /\ n[To(j)].id = s[j].id /\ n[To(j)].func = s[j].func
             /\ Prefix(n)[To(j)] = Prefix(s)[j]
  <2>1. To(j) \in 1 .. Len(n) /\ To(j) # k + 1 /\ To(j) \in 0 .. Len(n)
    BY <1>4
  <2>2. Prefix(n)[To(j)] = Prefix(s)[j]
    <3>1. \A i \in 0 .. Len(n) :
              Prefix(n)[i] = IF i <= k THEN Prefix(s)[i] ELSE IF i = k + 1 THEN d ELSE Prefix(s)[i - 1]
      BY <1>0, <1>1, IdRecord, LinkPrefix
    <3>2. CASE j <= k
      BY <3>1, <3>2, <2>1
    <3>3. CASE ~(j <= k)
      <4>1. To(j) = j + 1 /\ ~(j + 1 <= k) /\ j + 1 # k + 1 /\ (j + 1) - 1 = j
        BY <3>3, <1>4
      <4>2. QED
        BY <4>1, <3>1, <2>1
    <3>4. QED
      BY <3>2, <3>3
  <2>3. CASE j <= k
    BY <1>1, <1>4, <2>1, <2>2, <2>3 DEF Linked
  <2>4. CASE j = k + 1
    <3> DEFINE y == s[k + 1]
               c == Prefix(s)[k + 1] - d
    <3>1. y \in ToRec /\ c \in Int /\ n[To(j)] = [y EXCEPT !.delta = c]
      <4>1. k + 1 \in 1 .. Len(s) /\ k < Len(s) /\ To(j) = k + 2 /\ k + 1 \in 0 .. Len(s)
        BY <1>4, <2>4
      <4>2. Prefix(s)[k + 1] \in Int
        BY <4>1, <1>3, PrefixAt
      <4>3. QED
        BY <4>1, <4>2, <1>1, <1>3 DEF Linked
    <3> HIDE DEF y, c
    <3>2. n[To(j)].id = y.id /\ n[To(j)].func = y.func
      BY <3>1, IdRecord
    <3>3. QED
      BY <3>2, <2>1, <2>2, <2>4 DEF y
  <2>5. CASE j > k + 1
    <3>1. To(j) = j + 1 /\ j + 1 \in k + 3 .. Len(s) + 1 /\ (j + 1) - 1 = j
      BY <2>5, <1>4
    <3>2. n[To(j)] = s[j]
      BY <3>1, <1>1 DEF Linked
    <3>3. QED
      BY <3>2, <2>1, <2>2
  <2>6. QED
    BY <2>3, <2>4, <2>5, <1>4
<1>7. ASSUME NEW m \in 1 .. Len(n), m # k + 1
      PROVE  \E j \in 1 .. Len(s) : To(j) = m
  <2>1. CASE m <= k
    <3>1. m \in 1 .. Len(s) /\ To(m) = m
      BY <2>1, <1>4
    <3>2. QED
      BY <3>1
  <2>2. CASE m > k + 1
    <3>1. m - 1 \in 1 .. Len(s) /\ To(m - 1) = m
      BY <2>2, <1>4
    <3>2. QED
      BY <3>1
  <2>3. QED
    BY <1>7, <2>1, <2>2, <1>4
<1>8. \A i, j \in 1 .. Len(s) : To(i) = To(j) => i = j
  BY <1>4
<1>9. k = 0 <=> 1 = k + 1
  OBVIOUS
<1> HIDE DEF To
<1>10. ASSUME NEW m \in 1 .. Len(n), m # k + 1
       PROVE  n[m].id \in Ids(s) /\ n[m].id # x.id
  <2>1. PICK j \in 1 .. Len(s) : To(j) = m
    BY <1>7, <1>10
  <2>2. n[m].id = s[j].id
    BY <2>1, <1>6
  <2>3. QED
    BY <2>2 DEF Ids
<1>11. IdOnce(n)
  <2>1. ASSUME NEW i \in 1 .. Len(n), NEW j \in 1 .. Len(n), n[i].id = n[j].id
        PROVE  i = j
    <3>1. CASE i = k + 1 \/ j = k + 1
      BY <3>1, <2>1, <1>5, <1>10
    <3>2. CASE i # k + 1 /\ j # k + 1
      <4>1. PICK a \in 1 .. Len(s) : To(a) = i
        BY <3>2, <1>7
      <4>2. PICK b \in 1 .. Len(s) : To(b) = j
        BY <3>2, <1>7
      <4>3. a = b
        BY <4>1, <4>2, <2>1, <1>6, <1>0 DEF IdOnce
      <4>4. QED
        BY <4>1, <4>2, <4>3
    <3>3. QED
      BY <3>1, <3>2
  <2>2. QED
    BY <2>1 DEF IdOnce
<1>12. Ids(n) = Ids(s) \cup {x.id}
  <2>1. ASSUME NEW y \in Ids(n)
        PROVE  y \in Ids(s) \cup {x.id}
    BY <1>5, <1>10 DEF Ids
  <2>2. ASSUME NEW y \in Ids(s)
        PROVE  y \in Ids(n)
    BY <1>6 DEF Ids
  <2>3. x.id \in Ids(n)
    BY <1>5 DEF Ids
  <2>4. QED
    BY <2>1, <2>2, <2>3
<1>13. ASSUME NEW y \in Ids(s)
       PROVE  IdAt(n, y) = IdAt(s, y) /\ FuncOf(n, y) = FuncOf(s, y)
  <2>1. PICK j \in 1 .. Len(s) : s[j].id = y
    BY DEF Ids
  <2>2. IndexOf(s, y) = j
    BY <2>1, <1>0, IdIndexIs
  <2>3. To(j) \in 1 .. Len(n) /\ n[To(j)].id = y
    BY <2>1, <1>6
  <2>4. IndexOf(n, y) = To(j)
    BY <2>3, <1>11, IdIndexIs
  <2>5. QED
    BY <2>1, <2>2, <2>4, <1>6 DEF IdAt, FuncOf
<1>14. IdAt(n, x.id) = d /\ FuncOf(n, x.id) = x.func
  <2>1. IndexOf(n, x.id) = k + 1
    BY <1>5, <1>11, IdIndexIs
  <2>2. QED
    BY <2>1, <1>5 DEF IdAt, FuncOf
<1>15. n # <<>> /\ (n[1].id = x.id <=> k = 0)
  <2>1. n # <<>> /\ 1 \in 1 .. Len(n)
    BY <1>4
  <2>2. QED
    BY <2>1, <1>5, <1>10, <1>9
<1>16. QED
  BY <1>1, <1>2, <1>11, <1>12, <1>13, <1>14, <1>15 DEF IdList

\* The timeouts n are those of s, each c earlier.
Earlier(n, s, c) ==
    /\ IdList(n) /\ Ids(n) = Ids(s)
    /\ \A y \in Ids(s) : IdAt(n, y) = IdAt(s, y) - c /\ FuncOf(n, y) = FuncOf(s, y)

\* Counting the head down moves everything alike.
LEMMA IdCountedDown ==
    ASSUME NEW s, IdList(s), s # <<>>, NEW c \in Int, NEW n, n = [s EXCEPT ![1].delta = @ - c]
    PROVE  Earlier(n, s, c)
<1>0. s \in Seq(ToRec) /\ IdOnce(s) /\ Ord(s)
  BY DEF IdList
<1>1. IsDelta(s) /\ Len(s) \in Nat /\ 1 \in 1 .. Len(s) /\ \A j \in 1 .. Len(s) : s[j] \in ToRec
  BY <1>0, IdRecord, SeqIsDelta
<1> DEFINE y1 == s[1]
           b == y1.delta - c
<1>2. y1 \in ToRec /\ b \in Int
  BY <1>1 DEF IsDelta
<1>3. n = [s EXCEPT ![1] = [y1 EXCEPT !.delta = b]]
  OBVIOUS
<1> HIDE DEF b, y1
<1>4. [y1 EXCEPT !.delta = b] \in ToRec /\ [y1 EXCEPT !.delta = b].delta = b /\ [y1 EXCEPT !.delta = b].id = y1.id /\ [y1 EXCEPT !.delta = b].func = y1.func
  <2>1. Deltas(ToRec) /\ [y1 EXCEPT !.delta = b].id = y1.id /\ [y1 EXCEPT !.delta = b].func = y1.func
    BY <1>2, IdRecord
  <2>2. QED
    BY <2>1, <1>2 DEF Deltas
<1>5. /\ n \in Seq(ToRec) /\ Len(n) = Len(s) /\ n[1].delta = b
      /\ \A j \in 1 .. Len(s) : n[j].id = s[j].id /\ n[j].func = s[j].func
      /\ \A j \in 2 .. Len(s) : n[j] = s[j]
  <2>1. n \in Seq(ToRec) /\ Len(n) = Len(s) /\ n[1] = [y1 EXCEPT !.delta = b] /\ \A j \in 2 .. Len(s) : n[j] = s[j]
    BY <1>0, <1>1, <1>3, <1>4
  <2>2. y1 = s[1]
    BY DEF y1
  <2>3. \A j \in 1 .. Len(s) : j = 1 \/ j \in 2 .. Len(s)
    BY <1>1
  <2> QED
    BY <2>1, <2>2, <2>3, <1>4
<1>6. Ord(n) /\ IdOnce(n) /\ Ids(n) = Ids(s)
  BY <1>0, <1>5 DEF Ord, IdOnce, Ids
<1>7. ASSUME NEW j \in 1 .. Len(s)
      PROVE  Prefix(n)[j] = Prefix(s)[j] - c
  <2>0. IsDelta(n)
    BY <1>5, IdRecord, SeqIsDelta
  <2> DEFINE f == [i \in 0 .. Len(s) |-> IF i = 0 THEN 0 ELSE Prefix(s)[i] - c]
  <2>1. Sums(n, f)
    <3>1. /\ Prefix(s)[0] = 0
          /\ \A i \in 0 .. Len(s) : Prefix(s)[i] \in Int
          /\ \A i \in 1 .. Len(s) : i - 1 \in 0 .. Len(s) /\ Prefix(s)[i] = Prefix(s)[i - 1] + s[i].delta
      BY <1>1, PrefixAt
    <3>2. f \in [0 .. Len(s) -> Int] /\ f[0] = 0
      BY <3>1, <1>1
    <3>3. ASSUME NEW i \in 1 .. Len(s)
          PROVE  f[i] = f[i - 1] + n[i].delta
      <4>0. i \in 0 .. Len(s) /\ i - 1 \in 0 .. Len(s) /\ s[i].delta \in Int /\ n[i].delta \in Int
        BY <1>1, <1>5, <2>0 DEF IsDelta
      <4>1. CASE i = 1
        <5>1. f[1] = Prefix(s)[1] - c /\ f[0] = 0 /\ Prefix(s)[1] = Prefix(s)[0] + s[1].delta
          BY <4>0, <4>1, <3>1
        <5>2. Prefix(s)[0] = 0 /\ n[1].delta = s[1].delta - c
          BY <3>1, <1>5 DEF b, y1
        <5>3. QED
          BY <5>1, <5>2, <4>0, <4>1, <1>2 DEF b, y1
      <4>2. CASE i # 1
        <5>1. f[i] = Prefix(s)[i] - c /\ f[i - 1] = Prefix(s)[i - 1] - c /\ Prefix(s)[i] = Prefix(s)[i - 1] + s[i].delta
          BY <4>0, <4>2, <3>1, <1>1
        <5>2. n[i] = s[i] /\ Prefix(s)[i - 1] \in Int
          BY <4>2, <1>5, <3>1, <4>0
        <5>3. n[i].delta = s[i].delta /\ c \in Int
          BY <5>2
        <5> HIDE DEF f
        <5>4. QED
          BY <5>1, <5>2, <5>3, <4>0
      <4>3. QED
        BY <4>1, <4>2
    <3> HIDE DEF f
    <3>4. QED
      BY <3>2, <3>3, <1>5 DEF Sums, SumsTo
  <2>2. f[j] = Prefix(s)[j] - c
    BY <1>1
  <2> HIDE DEF f
  <2>3. Prefix(n) = f
    BY <2>0, <2>1, PrefixIs
  <2>4. QED
    BY <2>2, <2>3
<1>8. ASSUME NEW y \in Ids(s)
      PROVE  IdAt(n, y) = IdAt(s, y) - c /\ FuncOf(n, y) = FuncOf(s, y)
  <2>1. PICK j \in 1 .. Len(s) : s[j].id = y
    BY DEF Ids
  <2>2. IndexOf(s, y) = j
    BY <2>1, <1>0, IdIndexIs
  <2>3. j \in 1 .. Len(n) /\ n[j].id = y
    BY <2>1, <1>5
  <2>4. IndexOf(n, y) = j
    BY <2>3, <1>6, IdIndexIs
  <2>5. QED
    BY <2>1, <2>2, <2>4, <1>5, <1>7 DEF IdAt, FuncOf
<1>9. QED
  BY <1>5, <1>6, <1>8 DEF IdList, Earlier

\* The head is due first.
LEMMA IdHeadFirst ==
    ASSUME NEW s, IdList(s), s # <<>>
    PROVE  /\ 1 \in 1 .. Len(s) /\ s[1].id \in Ids(s) /\ IdAt(s, s[1].id) = s[1].delta
           /\ FuncOf(s, s[1].id) = s[1].func
           /\ \A y \in Ids(s) : IdAt(s, y) \in Int /\ IdAt(s, y) >= s[1].delta
<1>1. s \in Seq(ToRec) /\ IdOnce(s) /\ Ord(s)
  BY DEF IdList
<1>2. IsDelta(s) /\ 1 \in 1 .. Len(s) /\ Len(s) \in Nat
  BY <1>1, IdRecord, SeqIsDelta DEF IsDelta
<1>3. s[1].id \in Ids(s) /\ IndexOf(s, s[1].id) = 1
  BY <1>1, <1>2, IdIndexIs
<1>4. Prefix(s)[1] = s[1].delta
  BY <1>2, PrefixAt DEF IsDelta
<1>5. ASSUME NEW y \in Ids(s)
      PROVE  IdAt(s, y) \in Int /\ IdAt(s, y) >= s[1].delta
  <2>1. IndexOf(s, y) \in 1 .. Len(s)
    BY IdIndexOf
  <2>2. Prefix(s)[1] <= Prefix(s)[IndexOf(s, y)]
    BY <1>1, <1>2, <2>1, OrdLater
  <2>3. Prefix(s)[IndexOf(s, y)] \in Int
    BY <1>2, <2>1, PrefixAt
  <2>4. s[1].delta \in Int
    BY <1>2 DEF IsDelta
  <2>5. QED
    BY <2>2, <2>3, <2>4, <1>4 DEF IdAt, FuncOf
<1>6. QED
  BY <1>2, <1>3, <1>4, <1>5 DEF IdAt, FuncOf

(***************************************************************************)
(* Root timeouts                                                           *)
(***************************************************************************)
XRec == {x \in [id : Pool \cup Static, func : {"check_events", "if_doinput"}, left : -1 .. ExpireLimit] :
            x.func = "check_events" => x.id \in Pool}
XList(s) == s \in Seq(XRec) /\ IdOnce(s)
ListsOK(l) == IdList(l.t) /\ XList(l.x) /\ Ids(l.t) \cap Ids(l.x) = {}

\* A part of a list that was taken out of it in order
LEMMA WithoutIs ==
    ASSUME NEW s, XList(s), NEW id
    PROVE  XList(Without(s, id)) /\ Ids(Without(s, id)) = Ids(s) \ {id}
<1>1. CASE id \notin Ids(s)
  BY <1>1 DEF Without
<1>2. CASE id \in Ids(s)
  <2> DEFINE i == IndexOf(s, id)
             n == SubSeq(s, 1, i - 1) \o SubSeq(s, i + 1, Len(s))
             To(j) == IF j < i THEN j ELSE j + 1
  <2>1. s \in Seq(XRec) /\ Len(s) \in Nat /\ IdOnce(s)
    BY DEF XList
  <2>2. i \in 1 .. Len(s) /\ s[i].id = id
    BY <1>2, IdIndexOf
  <2>3. Without(s, id) = n
    BY <1>2 DEF Without
  <2> HIDE DEF i
  <2>4. SubSeq(s, 1, i - 1) \in Seq(XRec) /\ Len(SubSeq(s, 1, i - 1)) = i - 1
        /\ \A j \in 1 .. i - 1 : SubSeq(s, 1, i - 1)[j] = s[j]
    BY <2>1, <2>2
  <2>5. SubSeq(s, i + 1, Len(s)) \in Seq(XRec) /\ Len(SubSeq(s, i + 1, Len(s))) = Len(s) - i
        /\ \A j \in 1 .. Len(s) - i : SubSeq(s, i + 1, Len(s))[j] = s[i + j]
    <3>1. CASE i = Len(s)
      BY <3>1, <2>1, <2>2
    <3>2. CASE i < Len(s)
      BY <3>2, <2>1, <2>2
    <3>3. QED
      BY <3>1, <3>2, <2>1, <2>2
  <2>6. n \in Seq(XRec) /\ Len(n) = Len(s) - 1 /\ \A j \in 1 .. Len(n) : To(j) \in 1 .. Len(s) /\ To(j) # i /\ n[j] = s[To(j)]
    <3> DEFINE a == SubSeq(s, 1, i - 1)
               b == SubSeq(s, i + 1, Len(s))
    <3>1. a \in Seq(XRec) /\ Len(a) = i - 1 /\ b \in Seq(XRec) /\ Len(b) = Len(s) - i
      BY <2>4, <2>5
    <3>2. \A j \in 1 .. i - 1 : a[j] = s[j]
      BY <2>4
    <3>3. \A j \in 1 .. Len(s) - i : b[j] = s[i + j]
      BY <2>5
    <3>4. n = a \o b
      OBVIOUS
    <3> HIDE DEF a, b, n
    <3>5. n \in Seq(XRec) /\ Len(n) = Len(s) - 1
      BY <3>1, <3>4, <2>1, <2>2
    <3>6. ASSUME NEW j \in 1 .. Len(n)
          PROVE  To(j) \in 1 .. Len(s) /\ To(j) # i /\ n[j] = s[To(j)]
      <4>1. CASE j < i
        <5>1. n[j] = a[j]
          BY <3>1, <3>4, <3>5, <4>1, <2>1, <2>2
        <5>2. QED
          BY <5>1, <3>2, <4>1, <3>5, <2>1, <2>2
      <4>2. CASE ~(j < i)
        <5>1. j - (i - 1) \in 1 .. Len(s) - i /\ i + (j - (i - 1)) = j + 1 /\ To(j) = j + 1
          BY <4>2, <3>5, <2>1, <2>2
        <5>2. n[j] = b[j - (i - 1)]
          BY <3>1, <3>4, <3>5, <4>2, <2>1, <2>2
        <5>3. QED
          BY <5>1, <5>2, <3>3, <3>5, <2>1, <2>2
      <4>3. QED
        BY <4>1, <4>2
    <3>7. QED
      BY <3>5, <3>6
  <2> HIDE DEF n
  <2>7. \A j, m \in 1 .. Len(n) : To(j) = To(m) => j = m
    BY <2>1, <2>2, <2>6
  <2>8. ASSUME NEW j \in 1 .. Len(s), j # i
        PROVE  \E m \in 1 .. Len(n) : To(m) = j
    <3>1. CASE j < i
      <4>1. j \in 1 .. Len(n) /\ To(j) = j
        BY <3>1, <2>1, <2>2, <2>6
      <4>2. QED
        BY <4>1
    <3>2. CASE j > i
      <4>1. j - 1 \in 1 .. Len(n) /\ To(j - 1) = j
        BY <3>2, <2>1, <2>2, <2>6
      <4>2. QED
        BY <4>1
    <3>3. QED
      BY <2>8, <3>1, <3>2, <2>2
  <2> HIDE DEF To
  <2>9. IdOnce(n)
    <3>1. ASSUME NEW j \in 1 .. Len(n), NEW m \in 1 .. Len(n), n[j].id = n[m].id
          PROVE  j = m
      BY <3>1, <2>1, <2>6, <2>7 DEF IdOnce
    <3>2. QED
      BY <3>1 DEF IdOnce
  <2>10. ASSUME NEW y \in Ids(n)
         PROVE  y \in Ids(s) /\ y # id
    <3>1. PICK j \in 1 .. Len(n) : n[j].id = y
      BY DEF Ids
    <3>2. To(j) \in 1 .. Len(s) /\ To(j) # i /\ s[To(j)].id = y
      BY <3>1, <2>6
    <3>3. QED
      BY <3>2, <2>1, <2>2 DEF Ids, IdOnce
  <2>11. ASSUME NEW y \in Ids(s), y # id
         PROVE  y \in Ids(n)
    <3>1. PICK j \in 1 .. Len(s) : s[j].id = y
      BY DEF Ids
    <3>2. j # i
      BY <3>1, <2>2, <2>11
    <3>3. PICK m \in 1 .. Len(n) : To(m) = j
      BY <3>2, <2>8
    <3>4. n[m].id = y
      BY <3>1, <3>3, <2>6
    <3>5. QED
      BY <3>4 DEF Ids
  <2>12. QED
    BY <2>3, <2>6, <2>9, <2>10, <2>11 DEF XList
<1>3. QED
  BY <1>1, <1>2

\* What a change of tlist leaves alone: when the timeouts of s that n has are
\* due, and what they run
SameIn(n, s) ==
    \A y \in Ids(n) \cap Ids(s) : IdAt(n, y) = IdAt(s, y) /\ FuncOf(n, y) = FuncOf(s, y)

\* After cancelroottimeout the timeout is in neither list, and nothing else moved.
LEMMA CancelIs ==
    ASSUME NEW l, ListsOK(l), l = [t |-> l.t, x |-> l.x], NEW id, NEW n, n = cancelroottimeout(l, id)
    PROVE  ListsOK(n) /\ Ids(n.t) = Ids(l.t) \ {id} /\ SameIn(n.t, l.t)
<1>1. CASE id \in Ids(l.x)
  <2>1. n = [l EXCEPT !.x = Without(@, id)]
    BY <1>1 DEF cancelroottimeout
  <2>2. n.t = l.t /\ n.x = Without(l.x, id)
    BY <2>1
  <2>3. XList(n.x) /\ Ids(n.x) = Ids(l.x) \ {id}
    BY <2>2, WithoutIs DEF ListsOK
  <2>4. QED
    BY <1>1, <2>2, <2>3 DEF ListsOK, SameIn
<1>2. CASE id \notin Ids(l.x) /\ id \in Ids(l.t)
  <2> DEFINE i == IndexOf(l.t, id)
  <2>1. n = [l EXCEPT !.t = Unlink(@, IndexOf(@, id))]
    BY <1>2 DEF cancelroottimeout
  <2>2. n.t = Unlink(l.t, i) /\ n.x = l.x
    BY <2>1
  <2>3. i \in 1 .. Len(l.t) /\ l.t[i].id = id
    BY <1>2, IdIndexOf
  <2> HIDE DEF i
  <2>4. IdList(l.t)
    BY DEF ListsOK
  <2>5. /\ IdList(n.t) /\ Ids(n.t) = Ids(l.t) \ {l.t[i].id}
        /\ \A y \in Ids(n.t) : IdAt(n.t, y) = IdAt(l.t, y) /\ FuncOf(n.t, y) = FuncOf(l.t, y)
    BY <2>2, <2>3, <2>4, IdRemoved
  <2>6. QED
    BY <2>2, <2>3, <2>5 DEF ListsOK, SameIn
<1>3. CASE id \notin Ids(l.x) /\ id \notin Ids(l.t)
  <2>1. n = l
    BY <1>3 DEF cancelroottimeout
  <2>2. QED
    BY <1>3, <2>1 DEF SameIn
<1>4. QED
  BY <1>1, <1>2, <1>3

\* addroottimeout returns a timeout that is not pending.
LEMMA CandidateIs ==
    ASSUME NEW l, ListsOK(l), NEW func \in {"check_events", "if_doinput"}, NEW from,
           from \subseteq Pool \cup Static, func = "check_events" => from = Pool,
           NEW id \in Candidates(l, func, from)
    PROVE  id \notin Ids(l.t) /\ [id |-> id, func |-> func, delta |-> 0] \in ToRec /\ (func = "check_events" => id \in Pool)
<1>1. CASE Reusable(l, func) # {}
  <2>1. id \in Reusable(l, func)
    BY <1>1 DEF Candidates
  <2>2. PICK i \in 1 .. Len(l.x) : l.x[i].func = func /\ id = l.x[i].id
    BY <2>1 DEF Reusable
  <2>3. l.x[i] \in XRec /\ id \in Ids(l.x)
    BY <2>2 DEF ListsOK, XList, Ids
  <2>4. QED
    BY <2>2, <2>3 DEF XRec, ToRec, ListsOK
<1>2. CASE Reusable(l, func) = {}
  <2>1. id \in Unused(l, from)
    BY <1>2 DEF Candidates
  <2>2. id \in from /\ id \notin Ids(l.t)
    BY <2>1 DEF Unused
  <2>3. QED
    BY <2>2 DEF ToRec
<1>3. QED
  BY <1>1, <1>2

\* The added timeout is due when it was asked for, and nothing else moved.
LEMMA AddedIs ==
    ASSUME NEW l, ListsOK(l), NEW id, NEW func, NEW d \in Int, id \notin Ids(l.t),
           [id |-> id, func |-> func, delta |-> 0] \in ToRec,
           NEW n, n = addroottimeout(l, id, func, d)
    PROVE  /\ ListsOK(n) /\ Ids(n.t) = Ids(l.t) \cup {id} /\ SameIn(n.t, l.t)
           /\ IdAt(n.t, id) = d /\ FuncOf(n.t, id) = func
<1> DEFINE x == [id |-> id, func |-> func, delta |-> 0]
           k == DueBefore(l.t, d)
<1>1. n.t = Link(l.t, x, d, k) /\ n.x = Without(l.x, id)
  BY DEF addroottimeout
<1>2. x \in ToRec /\ x.id = id /\ x.func = func
  OBVIOUS
<1> HIDE DEF x
<1>3. IdList(l.t) /\ XList(l.x)
  BY DEF ListsOK
<1>4. IsDelta(l.t) /\ Ord(l.t) /\ Len(l.t) \in Nat
  BY <1>3, IdRecord, SeqIsDelta DEF IdList, IsDelta
<1>5. Place(l.t, d - 1, k)
  BY <1>4, DueByIs DEF DueBefore
<1> HIDE DEF k
<1>6. k \in 0 .. Len(l.t) /\ (k >= 1 => Prefix(l.t)[k] <= d) /\ (k < Len(l.t) => d <= Prefix(l.t)[k + 1])
  <2>1. k \in 0 .. Len(l.t)
    BY <1>5 DEF Place
  <2>2. ASSUME k >= 1
        PROVE  Prefix(l.t)[k] <= d
    BY <2>1, <2>2, <1>4, <1>5, PrefixAt DEF Place
  <2>3. ASSUME k < Len(l.t)
        PROVE  d <= Prefix(l.t)[k + 1]
    <3>1. k + 1 \in k + 1 .. Len(l.t) /\ k + 1 \in 0 .. Len(l.t)
      BY <2>1, <2>3, <1>4
    <3>2. Prefix(l.t)[k + 1] > d - 1
      BY <3>1, <1>5 DEF Place
    <3>3. Prefix(l.t)[k + 1] \in Int
      BY <3>1, <1>4, PrefixAt
    <3>4. QED
      BY <3>2, <3>3
  <2>4. QED
    BY <2>1, <2>2, <2>3
<1>7. x.id \notin Ids(l.t)
  BY <1>2
<1> DEFINE m == n.t
<1>8. m = Link(l.t, x, d, k)
  BY <1>1
<1> HIDE DEF m
<1>9. /\ IdList(m) /\ Ids(m) = Ids(l.t) \cup {x.id}
      /\ \A y \in Ids(l.t) : IdAt(m, y) = IdAt(l.t, y) /\ FuncOf(m, y) = FuncOf(l.t, y)
      /\ IdAt(m, x.id) = d /\ FuncOf(m, x.id) = x.func
  BY <1>2, <1>3, <1>6, <1>7, <1>8, IdInserted
<1>10. XList(n.x) /\ Ids(n.x) = Ids(l.x) \ {id}
  BY <1>1, <1>3, WithoutIs
<1>11. QED
  BY <1>2, <1>9, <1>10 DEF m, ListsOK, SameIn

(***************************************************************************)
(* Events                                                                  *)
(***************************************************************************)
\* The jiffies to the deadline that the list s, b jiffies behind, gives e
DueIn(s, b, e) == EVTGRAN * EvAt(s, e) - b

\* update_head moves time from the head to behind, and moves no deadline.
LEMMA HeadUpdatedIs ==
    ASSUME NEW s, EvList(s), NEW b \in Nat, NEW n, n = HeadUpdated(s, b), NEW c, c = BehindUpdated(s, b)
    PROVE  /\ EvList(n) /\ Armed(n) = Armed(s) /\ c \in 0 .. 1 /\ (n = <<>> <=> s = <<>>)
           /\ \A e \in Armed(s) : DueIn(n, c, e) = DueIn(s, b, e) /\ EvAt(n, e) \in Int
<1>1. CASE s = <<>>
  <2>1. Armed(s) = {}
    BY <1>1 DEF Armed
  <2>2. QED
    BY <1>1, <2>1 DEF HeadUpdated, BehindUpdated
<1>2. CASE s # <<>>
  <2> DEFINE q == b \div EVTGRAN
  <2>1. q \in Int /\ c \in 0 .. 1 /\ b = 2 * q + c
    BY <1>2 DEF BehindUpdated, EVTGRAN
  <2>2. n = [s EXCEPT ![1].delta = @ - q]
    BY <1>2 DEF HeadUpdated
  <2> HIDE DEF q
  <2>3. EvList(n) /\ Armed(n) = Armed(s) /\ n # <<>> /\ \A e \in Armed(s) : EvAt(n, e) = EvAt(s, e) - q
    BY <1>2, <2>1, <2>2, EvCountedDown
  <2>4. \A e \in Armed(s) : EvAt(s, e) \in Int
    BY <1>2, EvHeadFirst
  <2>5. \A e \in Armed(s) : DueIn(n, c, e) = DueIn(s, b, e) /\ EvAt(n, e) \in Int
    BY <2>1, <2>3, <2>4 DEF DueIn, EVTGRAN
  <2>6. QED
    BY <1>2, <2>1, <2>3, <2>5
<1>3. QED
  BY <1>1, <1>2

\* event_remove moves no deadline.
LEMMA EventRemoveIs ==
    ASSUME NEW s, EvList(s), NEW e, NEW n, n = event_remove(s, e)
    PROVE  EvList(n) /\ Armed(n) = Armed(s) \ {e} /\ \A f \in Armed(n) : EvAt(n, f) = EvAt(s, f)
<1>1. CASE e \in Armed(s)
  <2> DEFINE i == EvIndex(s, e)
  <2>1. i \in 1 .. Len(s) /\ s[i].ev = e
    BY <1>1, EvIndexOf
  <2>2. n = Unlink(s, i)
    BY <1>1 DEF event_remove
  <2> HIDE DEF i
  <2>3. QED
    BY <2>1, <2>2, EvRemoved
<1>2. CASE e \notin Armed(s)
  BY <1>2 DEF event_remove
<1>3. QED
  BY <1>1, <1>2

\* What a request for a check_events timeout in d, in units of EVTGRAN, does
Requested(l, d) ==
    /\ nexttimeout' \in Pool /\ nexttimeout' \notin Ids(l.t)
    /\ ListsOK([t |-> tlist', x |-> expire_list'])
    /\ Ids(tlist') = Ids(l.t) \cup {nexttimeout'} /\ SameIn(tlist', l.t)
    /\ IdAt(tlist', nexttimeout') = EVTGRAN * d /\ FuncOf(tlist', nexttimeout') = "check_events"

\* Either the pool is empty or there is such a timeout, and no other moved.
LEMMA RequestIs ==
    ASSUME NEW l, ListsOK(l), NEW d \in Int, NEW next, Request(l, d, next)
    PROVE  \/ pc' = "illegal" /\ UNCHANGED <<tlist, expire_list, nexttimeout>>
           \/ pc' = next /\ Requested(l, d)
<1> DEFINE cand == Candidates(l, "check_events", Pool)
<1>1. CASE cand = {}
  BY <1>1 DEF Request, Illegal
<1>2. CASE cand # {}
  <2>1. PICK id \in cand : /\ SetLists(addroottimeout(l, id, "check_events", d * EVTGRAN))
                           /\ nexttimeout' = id
    BY <1>2 DEF Request
  <2>2. pc' = next
    BY <1>2 DEF Request
  <2> DEFINE n == addroottimeout(l, id, "check_events", d * EVTGRAN)
  <2>3. tlist' = n.t /\ expire_list' = n.x
    BY <2>1 DEF SetLists
  <2>4. id \notin Ids(l.t) /\ [id |-> id, func |-> "check_events", delta |-> 0] \in ToRec /\ id \in Pool
    BY CandidateIs
  <2>5. d * EVTGRAN \in Int /\ d * EVTGRAN = EVTGRAN * d
    BY DEF EVTGRAN
  <2>6. /\ ListsOK(n) /\ Ids(n.t) = Ids(l.t) \cup {id} /\ SameIn(n.t, l.t)
        /\ IdAt(n.t, id) = d * EVTGRAN /\ FuncOf(n.t, id) = "check_events"
    BY <2>4, <2>5, AddedIs
  <2> HIDE DEF n
  <2>7. ListsOK([t |-> tlist', x |-> expire_list'])
    BY <2>3, <2>6 DEF ListsOK
  <2>8. QED
    BY <2>1, <2>2, <2>3, <2>4, <2>5, <2>6, <2>7 DEF Requested
<1>3. QED
  BY <1>1, <1>2

\* Moving the timeout of check_events: the old one is cancelled.
Rearmed(d) ==
    /\ nexttimeout' \in Pool
    /\ ListsOK([t |-> tlist', x |-> expire_list'])
    /\ Ids(tlist') = (Ids(tlist) \ {nexttimeout}) \cup {nexttimeout'}
    /\ \A y \in Ids(tlist') \ {nexttimeout'} : IdAt(tlist', y) = IdAt(tlist, y) /\ FuncOf(tlist', y) = FuncOf(tlist, y)
    /\ IdAt(tlist', nexttimeout') = EVTGRAN * d /\ FuncOf(tlist', nexttimeout') = "check_events"

\* After Rearm check_events runs in d, unless the pool is empty.
LEMMA RearmIs ==
    ASSUME ListsOK(Lists), NEW d \in Int, Rearm(d)
    PROVE  \/ pc' = "illegal" /\ UNCHANGED <<tlist, expire_list, nexttimeout>>
           \/ pc' = pc /\ Rearmed(d)
<1> DEFINE l == cancelroottimeout(Lists, nexttimeout)
<1>1. Lists = [t |-> Lists.t, x |-> Lists.x] /\ Lists.t = tlist
  BY DEF Lists
<1>2. ListsOK(l) /\ Ids(l.t) = Ids(tlist) \ {nexttimeout} /\ SameIn(l.t, tlist)
  BY <1>1, CancelIs
<1>3. Request(l, d, pc)
  BY DEF Rearm
<1> HIDE DEF l
<1>4. \/ pc' = "illegal" /\ UNCHANGED <<tlist, expire_list, nexttimeout>>
      \/ pc' = pc /\ Requested(l, d)
  BY <1>2, <1>3, RequestIs
<1>5. ASSUME Requested(l, d)
      PROVE  Rearmed(d)
  BY <1>2, <1>5 DEF Requested, Rearmed, SameIn
<1>6. QED
  BY <1>4, <1>5

\* What event_insert makes of the queue
Inserted(s, b, e, d) ==
    /\ EvList(allevents') /\ Armed(allevents') = Armed(s) \cup {e}
    /\ behind' \in 0 .. 1 /\ fired' = Null
    /\ \A f \in Armed(s) : DueIn(allevents', behind', f) = DueIn(s, b, f)
    /\ EvAt(allevents', e) = d
    /\ \/ /\ \A f \in Armed(s) : EvAt(allevents', f) \in Int /\ EvAt(allevents', f) >= d
          /\ \/ pc' = "illegal" /\ UNCHANGED <<tlist, expire_list, nexttimeout>>
             \/ pc' = pc /\ Rearmed(d)
       \/ /\ \E f \in Armed(s) : EvAt(allevents', f) \in Int /\ EvAt(allevents', f) <= d
          /\ UNCHANGED <<nexttimeout, tlist, expire_list, pc>>

\* The event has the deadline asked for, the others keep theirs, and the
\* timeout is moved when the new event is the head.
LEMMA EventInsertIs ==
    ASSUME NEW s, EvList(s), NEW b \in Nat, NEW e \in Events, e \notin Armed(s), NEW d \in Int,
           ListsOK(Lists), EventInsert(s, b, e, d)
    PROVE  \/ /\ d <= 0 /\ allevents' = s /\ behind' = b /\ fired' = e
              /\ UNCHANGED <<nexttimeout, tlist, expire_list, pc>>
           \/ d > 0 /\ Inserted(s, b, e, d)
<1>1. CASE d <= 0
  BY <1>1 DEF EventInsert
<1>2. CASE d > 0
  <2> DEFINE up == HeadUpdated(s, b)
             x  == [ev |-> e, delta |-> 0]
             k  == DueBy(up, d)
             n  == Link(up, x, d, k)
             c  == BehindUpdated(s, b)
  <2>0. /\ allevents' = n /\ behind' = c /\ fired' = Null
        /\ IF n[1].ev = e THEN Rearm(d) ELSE UNCHANGED <<nexttimeout, tlist, expire_list, pc>>
    <3>1. ~(d <= 0)
      BY <1>2
    <3>2. QED
      BY <3>1, Zenon DEF EventInsert
  <2>1. n = Link(up, x, d, k)
    OBVIOUS
  <2>2. IF n[1].ev = e THEN Rearm(d) ELSE UNCHANGED <<nexttimeout, tlist, expire_list, pc>>
    BY <2>0
  <2>3. /\ EvList(up) /\ Armed(up) = Armed(s) /\ c \in 0 .. 1
        /\ \A f \in Armed(s) : DueIn(up, c, f) = DueIn(s, b, f) /\ EvAt(up, f) \in Int
    BY HeadUpdatedIs
  <2>4. x \in EvRec /\ x.ev = e
    BY DEF EvRec
  <2> HIDE DEF up, x, n, c
  <2>5. IsDelta(up) /\ Ord(up) /\ Len(up) \in Nat
    BY <2>3, EvRecord, SeqIsDelta DEF EvList, IsDelta
  <2>6. Place(up, d, k)
    BY <2>5, DueByIs
  <2> HIDE DEF k
  <2>7. k \in 0 .. Len(up) /\ (k >= 1 => Prefix(up)[k] <= d) /\ (k < Len(up) => d <= Prefix(up)[k + 1] /\ Prefix(up)[k + 1] \in Int)
    <3>1. k \in 0 .. Len(up)
      BY <2>6 DEF Place
    <3>2. ASSUME k >= 1
          PROVE  Prefix(up)[k] <= d
      BY <3>1, <3>2, <2>6 DEF Place
    <3>3. ASSUME k < Len(up)
          PROVE  d <= Prefix(up)[k + 1] /\ Prefix(up)[k + 1] \in Int
      <4>1. k + 1 \in k + 1 .. Len(up) /\ k + 1 \in 0 .. Len(up)
        BY <3>1, <3>3, <2>5
      <4>2. Prefix(up)[k + 1] > d /\ Prefix(up)[k + 1] \in Int
        BY <4>1, <2>5, <2>6, PrefixAt DEF Place
      <4>3. QED
        BY <4>2
    <3>4. QED
      BY <3>1, <3>2, <3>3
  <2>8. x.ev \notin Armed(up)
    BY <2>3, <2>4
  <2>9. /\ EvList(n) /\ Armed(n) = Armed(up) \cup {x.ev}
        /\ \A f \in Armed(up) : EvAt(n, f) = EvAt(up, f)
        /\ EvAt(n, x.ev) = d
        /\ n # <<>> /\ (n[1].ev = x.ev <=> k = 0)
    BY <2>1, <2>3, <2>4, <2>7, <2>8, EvInserted
  <2>10. /\ Armed(n) = Armed(s) \cup {e} /\ EvAt(n, e) = d
         /\ \A f \in Armed(s) : DueIn(n, c, f) = DueIn(s, b, f) /\ EvAt(n, f) \in Int
    BY <2>3, <2>4, <2>9 DEF DueIn
  <2>11. n[1].delta = EvAt(n, n[1].ev) /\ n[1].ev \in Armed(n) /\ \A f \in Armed(n) : EvAt(n, f) \in Int /\ EvAt(n, f) >= n[1].delta
    BY <2>9, EvHeadFirst
  <2>12. CASE n[1].ev = e
    <3>1. \A f \in Armed(s) : EvAt(n, f) \in Int /\ EvAt(n, f) >= d
      BY <2>10, <2>11, <2>12
    <3>2. \/ pc' = "illegal" /\ UNCHANGED <<tlist, expire_list, nexttimeout>>
          \/ pc' = pc /\ Rearmed(d)
      BY <2>2, <2>12, RearmIs
    <3>3. QED
      BY <1>2, <2>0, <2>3, <2>9, <2>10, <3>1, <3>2 DEF Inserted
  <2>13. CASE n[1].ev # e
    <3>1. n[1].ev \in Armed(s) /\ EvAt(n, n[1].ev) \in Int /\ EvAt(n, n[1].ev) <= d
      BY <2>10, <2>11, <2>13
    <3>2. UNCHANGED <<nexttimeout, tlist, expire_list, pc>>
      BY <2>2, <2>13
    <3>3. QED
      BY <1>2, <2>0, <2>3, <2>9, <2>10, <3>1, <3>2 DEF Inserted
  <2>14. QED
    BY <2>12, <2>13
<1>3. QED
  BY <1>1, <1>2

\* What n is when it is the part of s from place i on
TailOf(s, i, n) ==
    /\ n \in Seq(EvRec) /\ Len(n) = Len(s) - (i - 1)
    /\ \A j \in 1 .. Len(n) : n[j] = s[i - 1 + j]
    /\ \A j \in 0 .. Len(n) : Prefix(n)[j] = Prefix(s)[i - 1 + j] - Prefix(s)[i - 1]

\* What n is when it has the members of s from place i on
Behind(s, i, n) ==
    /\ n \in Seq(EvRec) /\ Len(n) = Len(s) - (i - 1)
    /\ \A j \in 1 .. Len(n) : n[j] = s[i - 1 + j]

\* SubSeq takes them.
LEMMA BehindIs ==
    ASSUME NEW s, s \in Seq(EvRec), NEW i, i \in 1 .. Len(s) + 1, NEW n, n = SubSeq(s, i, Len(s))
    PROVE  Behind(s, i, n)
<1>0. Len(s) \in Nat /\ i \in Nat
  OBVIOUS
<1>1. n \in Seq(EvRec) /\ Len(n) = Len(s) - (i - 1) /\ \A j \in 1 .. Len(n) : n[j] = s[i - 1 + j]
  <2>1. CASE i = Len(s) + 1
    BY <2>1, <1>0
  <2>2. CASE i <= Len(s)
    BY <2>2, <1>0
  <2>3. QED
    BY <2>1, <2>2, <1>0
<1>2. QED
  BY <1>1 DEF Behind

\* A difference of times is a time.
LEMMA MinusIs ==
    ASSUME NEW x \in Int, NEW y \in Int
    PROVE  x - y \in Int /\ (x = y => x - y = 0)
OBVIOUS

\* The deltas behind a place sum to the times less the time of that place.
LEMMA TailPrefix ==
    ASSUME NEW s, s \in Seq(EvRec), NEW i, i \in 1 .. Len(s) + 1, NEW n, Behind(s, i, n)
    PROVE  TailOf(s, i, n)
<1>0. IsDelta(s) /\ Len(s) \in Nat /\ i \in Nat
  BY EvRecord, SeqIsDelta DEF IsDelta
<1>1. n \in Seq(EvRec) /\ Len(n) = Len(s) - (i - 1) /\ \A j \in 1 .. Len(n) : n[j] = s[i - 1 + j]
  BY DEF Behind
<1>2. IsDelta(n)
  BY <1>1, EvRecord, SeqIsDelta
<1> DEFINE f == [j \in 0 .. Len(n) |-> Prefix(s)[i - 1 + j] - Prefix(s)[i - 1]]
<1>3. /\ \A j \in 0 .. Len(s) : Prefix(s)[j] \in Int
      /\ \A j \in 1 .. Len(s) : j - 1 \in 0 .. Len(s) /\ Prefix(s)[j] = Prefix(s)[j - 1] + s[j].delta
  BY <1>0, PrefixAt
<1>4. f \in [0 .. Len(n) -> Int] /\ f[0] = 0
  <2>1. \A j \in 0 .. Len(n) : i - 1 + j \in 0 .. Len(s) /\ i - 1 \in 0 .. Len(s)
    BY <1>0, <1>1
  <2>2. \A j \in 0 .. Len(n) : Prefix(s)[i - 1 + j] - Prefix(s)[i - 1] \in Int
    <3> HIDE DEF f
    <3>1. ASSUME NEW j \in 0 .. Len(n)
          PROVE  Prefix(s)[i - 1 + j] \in Int /\ Prefix(s)[i - 1] \in Int
      BY <2>1, <1>3
    <3>2. QED
      BY <3>1, MinusIs
  <2>3. 0 \in 0 .. Len(n) /\ i - 1 + 0 = i - 1 /\ Prefix(s)[i - 1] \in Int
    BY <2>1, <1>0, <1>1, <1>3
  <2>4. f[0] = Prefix(s)[i - 1] - Prefix(s)[i - 1]
    BY <2>3
  <2>5. f[0] = 0
    <3> DEFINE p == Prefix(s)[i - 1]
    <3>1. f[0] = p - p /\ p \in Int
      BY <2>3, <2>4
    <3> HIDE DEF p, f
    <3>2. QED
      BY <3>1
  <2>6. f \in [0 .. Len(n) -> Int]
    BY <2>2
  <2>7. QED
    BY <2>5, <2>6
<1>5. ASSUME NEW j \in 1 .. Len(n)
      PROVE  f[j] = f[j - 1] + n[j].delta
  <2> DEFINE m == i - 1 + j
  <2>1. m \in 1 .. Len(s) /\ m \in 0 .. Len(s) /\ m - 1 \in 0 .. Len(s) /\ i - 1 \in 0 .. Len(s) /\ i - 1 + (j - 1) = m - 1
        /\ j \in 0 .. Len(n) /\ j - 1 \in 0 .. Len(n)
    <3>1. Len(n) \in Int /\ Len(s) \in Int /\ i \in Int /\ i >= 1 /\ Len(n) = Len(s) - (i - 1) /\ j \in Int /\ 1 <= j /\ j <= Len(n)
      BY <1>0, <1>1
    <3> HIDE DEF f
    <3>2. QED
      BY <3>1
  <2>2. f[j] = Prefix(s)[m] - Prefix(s)[i - 1] /\ f[j - 1] = Prefix(s)[m - 1] - Prefix(s)[i - 1]
    BY <2>1
  <2>3. n[j].delta = s[m].delta /\ s[m].delta \in Int
    BY <2>1, <1>0, <1>1 DEF IsDelta
  <2> HIDE DEF f, m
  <2>4. Prefix(s)[m] = Prefix(s)[m - 1] + s[m].delta /\ Prefix(s)[m] \in Int /\ Prefix(s)[m - 1] \in Int /\ Prefix(s)[i - 1] \in Int
    BY <2>1, <1>3
  <2>5. QED
    BY <2>2, <2>3, <2>4
<1>6. \A j \in 0 .. Len(n) : f[j] = Prefix(s)[i - 1 + j] - Prefix(s)[i - 1]
  OBVIOUS
<1> HIDE DEF f
<1>7. Sums(n, f)
  BY <1>4, <1>5 DEF Sums, SumsTo
<1>8. Prefix(n) = f
  BY <1>2, <1>7, PrefixIs
<1>9. QED
  BY <1>1, <1>6, <1>8 DEF TailOf

\* What n is when the i-th member of up has been given the deadline d
PutBack(up, i, d, n) ==
    /\ EvList(n) /\ Armed(n) = Armed(up) /\ EvAt(n, up[i].ev) = d
    /\ \A f \in Armed(up) \ {up[i].ev} : EvAt(n, f) = EvAt(up, f)

\* A distance from the place before the i-th member
SpanOf(up, i, d, rel) ==
    /\ Prefix(up)[i - 1] \in Int /\ Prefix(up)[i] \in Int
    /\ Prefix(up)[i] = Prefix(up)[i - 1] + up[i].delta
    /\ rel = d - Prefix(up)[i - 1] /\ rel \in Int

\* event_reset takes what the members before the event add up to from the delay.
LEMMA SpanIs ==
    ASSUME NEW up, IsDelta(up), NEW i \in 1 .. Len(up), NEW d \in Int,
           NEW rel, rel = d - (Prefix(up)[i] - up[i].delta)
    PROVE  SpanOf(up, i, d, rel)
<1>1. i \in 0 .. Len(up) /\ i - 1 \in 0 .. Len(up) /\ up[i].delta \in Int
  BY DEF IsDelta
<1> DEFINE q == Prefix(up)[i]
           p == Prefix(up)[i - 1]
           y == up[i].delta
<1>2. q = p + y /\ q \in Int /\ p \in Int /\ y \in Int
  BY <1>1, PrefixAt
<1>3. rel = d - (q - y)
  OBVIOUS
<1> HIDE DEF q, p, y
<1>4. rel = d - p /\ rel \in Int
  BY <1>2, <1>3
<1>5. QED
  BY <1>2, <1>4 DEF SpanOf, q, p, y

\* l is tail with x put in at rel, and m is rest with x put in at d, where the
\* members of tail are those of rest from the place i on.
Joint(rest, i, tail, d, rel, k0, x, l, m) ==
    /\ IsDelta(rest) /\ i \in 1 .. Len(rest) + 1 /\ TailOf(rest, i, tail)
    /\ d \in Int /\ rel \in Int /\ rel = d - Prefix(rest)[i - 1] /\ k0 \in 0 .. Len(tail)
    /\ Linked(tail, x, rel, k0, l) /\ Linked(rest, x, d, i - 1 + k0, m)

\* The members of the list that has x put in behind the place i - 1, from that
\* place on, and before it
LEMMA JoinedAt ==
    ASSUME NEW rest, NEW i, NEW tail, NEW d, NEW rel, NEW k0, NEW x, NEW l, NEW m,
           Joint(rest, i, tail, d, rel, k0, x, l, m), NEW j \in 1 .. Len(m)
    PROVE  IF j <= i - 1 THEN rest[j] = m[j]
           ELSE j - (i - 1) \in 1 .. Len(l) /\ l[j - (i - 1)] = m[j]
<1>0. /\ IsDelta(rest) /\ i \in 1 .. Len(rest) + 1 /\ TailOf(rest, i, tail)
      /\ d \in Int /\ rel \in Int /\ rel = d - Prefix(rest)[i - 1] /\ k0 \in 0 .. Len(tail)
      /\ Linked(tail, x, rel, k0, l) /\ Linked(rest, x, d, i - 1 + k0, m)
  BY DEF Joint
<1>1. Len(rest) \in Nat /\ \A h \in 0 .. Len(rest) : Prefix(rest)[h] \in Int
  BY <1>0, PrefixAt DEF IsDelta
<1>2. /\ Len(tail) = Len(rest) - (i - 1)
      /\ \A h \in 1 .. Len(tail) : tail[h] = rest[i - 1 + h]
      /\ \A h \in 0 .. Len(tail) : Prefix(tail)[h] = Prefix(rest)[i - 1 + h] - Prefix(rest)[i - 1]
  BY <1>0 DEF TailOf
<1>3. Len(l) = Len(tail) + 1 /\ Len(m) = Len(rest) + 1 /\ Len(tail) = Len(rest) - (i - 1)
  BY <1>0, <1>2 DEF Linked
<1> DEFINE k == i - 1 + k0
           p == Prefix(rest)[i - 1]
           q == Prefix(rest)[k]
           h == j - (i - 1)
<1>4. /\ i \in Int /\ 1 <= i /\ i <= Len(rest) + 1 /\ Len(tail) \in Nat
      /\ k0 \in Int /\ 0 <= k0 /\ k0 <= Len(tail) /\ k \in 0 .. Len(rest)
      /\ j \in Int /\ 1 <= j /\ j <= Len(rest) + 1 /\ h \in Int /\ j = i - 1 + h
  BY <1>0, <1>1, <1>3
<1>5. p \in Int /\ q \in Int /\ rel = d - p /\ Prefix(tail)[k0] = q - p
  <2>1. i - 1 \in 0 .. Len(rest)
    BY <1>0, <1>1
  <2>2. Prefix(tail)[k0] = q - p
    BY <1>0, <1>2
  <2>3. QED
    BY <1>0, <1>1, <1>4, <2>1, <2>2
<1>6. Linked(rest, x, d, k, m) /\ Linked(tail, x, rel, k0, l) /\ d \in Int
  BY <1>0
<1> HIDE DEF k, p, q, h
<1>7. CASE j <= i - 1
  <2>1. j \in 1 .. k
    BY <1>4, <1>7 DEF k
  <2>2. QED
    BY <1>6, <1>7, <2>1, Zenon DEF Linked
<1>8. CASE j > i - 1
  <2>1. h \in 1 .. Len(l)
    BY <1>3, <1>4, <1>8
  <2>2. CASE h <= k0
    <3>1. h \in 1 .. k0 /\ j \in 1 .. k /\ h \in 1 .. Len(tail)
      BY <2>1, <2>2, <1>4 DEF k
    <3>2. l[h] = tail[h] /\ m[j] = rest[j]
      BY <3>1, <1>6, Zenon DEF Linked
    <3>3. tail[h] = rest[j]
      BY <3>1, <1>2, <1>4
    <3>4. QED
      BY <2>1, <3>2, <3>3, <1>8, <1>4 DEF h
  <2>3. CASE h = k0 + 1
    <3>1. j = k + 1
      BY <2>3, <1>4 DEF k
    <3>2. l[h] = [x EXCEPT !.delta = rel - Prefix(tail)[k0]] /\ m[j] = [x EXCEPT !.delta = d - q]
      BY <3>1, <2>3, <1>6, Zenon DEF Linked, q
    <3>3. rel - Prefix(tail)[k0] = d - q
      BY <1>5, <1>6
    <3>4. l[h] = m[j]
      BY <3>2, <3>3, Zenon
    <3>5. QED
      BY <2>1, <3>4, <1>8, <1>4 DEF h
  <2>4. CASE h = k0 + 2
    <3>1. j = k + 2 /\ k0 < Len(tail) /\ k < Len(rest) /\ k0 + 1 \in 1 .. Len(tail) /\ k0 + 1 \in 0 .. Len(tail)
          /\ i - 1 + (k0 + 1) = k + 1 /\ k + 1 \in 0 .. Len(rest)
      BY <2>1, <2>4, <1>3, <1>4 DEF k
    <3>2. l[h] = [tail[k0 + 1] EXCEPT !.delta = Prefix(tail)[k0 + 1] - rel]
      BY <3>1, <2>4, <1>6, Zenon DEF Linked
    <3>3. m[j] = [rest[k + 1] EXCEPT !.delta = Prefix(rest)[k + 1] - d]
      BY <3>1, <1>6, Zenon DEF Linked
    <3> DEFINE r == Prefix(rest)[k + 1]
    <3>4. tail[k0 + 1] = rest[k + 1] /\ Prefix(tail)[k0 + 1] = r - p /\ r \in Int
      BY <3>1, <1>1, <1>2 DEF p
    <3>5. Prefix(tail)[k0 + 1] - rel = r - d
      <4> HIDE DEF r
      <4>1. QED
        BY <3>4, <1>5, <1>6
    <3>6. l[h] = m[j]
      BY <3>2, <3>3, <3>4, <3>5, Zenon
    <3>7. QED
      BY <2>1, <3>6, <1>8, <1>4 DEF h
  <2>5. CASE h > k0 + 2
    <3>1. h \in k0 + 3 .. Len(tail) + 1 /\ j \in k + 3 .. Len(rest) + 1 /\ h - 1 \in 1 .. Len(tail) /\ i - 1 + (h - 1) = j - 1
      BY <2>1, <2>5, <1>3, <1>4 DEF k
    <3>2. l[h] = tail[h - 1] /\ m[j] = rest[j - 1]
      BY <3>1, <1>6, Zenon DEF Linked
    <3>3. tail[h - 1] = rest[j - 1]
      BY <3>1, <1>2
    <3>4. QED
      BY <2>1, <3>2, <3>3, <1>8, <1>4 DEF h
  <2>6. h <= k0 \/ h = k0 + 1 \/ h = k0 + 2 \/ h > k0 + 2
    BY <1>4
  <2>7. QED
    BY <2>2, <2>3, <2>4, <2>5, <2>6
<1>9. QED
  BY <1>4, <1>7, <1>8

\* a has the members of rest before the place i.
Ahead(rest, i, a) == a \in Seq(EvRec) /\ Len(a) = i - 1 /\ \A j \in 1 .. i - 1 : a[j] = rest[j]

\* Putting x into the rest of the list is putting it into the whole list.
LEMMA JoinedIs ==
    ASSUME NEW rest, NEW i, NEW tail, NEW d, NEW rel, NEW k0, NEW x, NEW l, NEW m,
           Joint(rest, i, tail, d, rel, k0, x, l, m), l \in Seq(EvRec), m \in Seq(EvRec),
           NEW a, Ahead(rest, i, a)
    PROVE  a \o l = m
<1>1. Len(rest) \in Nat /\ i \in 1 .. Len(rest) + 1
  BY DEF Joint, IsDelta
<1>2. Len(l) = Len(tail) + 1 /\ Len(m) = Len(rest) + 1 /\ Len(tail) = Len(rest) - (i - 1)
  BY DEF Joint, Linked, TailOf
<1> DEFINE n == a \o l
<1>30. Len(n) = Len(a) + Len(l) /\ Len(a) = i - 1
  BY ConcatProperties DEF Ahead
<1>3. /\ n \in Seq(EvRec)
      /\ \A j \in 1 .. Len(a) + Len(l) : n[j] = IF j <= Len(a) THEN a[j] ELSE l[j - Len(a)]
  BY ConcatProperties DEF Ahead
<1> HIDE DEF n
<1>4. Len(n) = Len(m) /\ Len(m) = Len(a) + Len(l) /\ i \in Int
  BY <1>1, <1>2, <1>30
<1>5. ASSUME NEW j \in 1 .. Len(m)
      PROVE  n[j] = m[j]
  <2>1. IF j <= i - 1 THEN rest[j] = m[j]
        ELSE j - (i - 1) \in 1 .. Len(l) /\ l[j - (i - 1)] = m[j]
    BY JoinedAt
  <2>2. n[j] = IF j <= i - 1 THEN a[j] ELSE l[j - (i - 1)]
    BY <1>3, <1>4, <1>30, Zenon
  <2>3. j <= i - 1 => j \in 1 .. i - 1
    BY <1>4
  <2>4. QED
    BY <2>1, <2>2, <2>3, Zenon DEF Ahead
<1>6. n = m
  BY <1>3, <1>4, <1>5, SeqEqual
<1>7. QED
  BY <1>6 DEF n

\* Where event_reset puts a later deadline, searching from the old place, is
\* where the whole list has it.
LEMMA PutBackIs ==
    ASSUME NEW up, EvList(up), NEW i \in 1 .. Len(up), NEW d \in Int, d > Prefix(up)[i],
           NEW rest, rest = Unlink(up, i),
           NEW rel, rel = d - (Prefix(up)[i] - up[i].delta),
           NEW tail, tail = SubSeq(rest, i, Len(rest)),
           NEW n, n = SubSeq(rest, 1, i - 1) \o Link(tail, up[i], rel, DueBy(tail, rel))
    PROVE  PutBack(up, i, d, n)
<1>0. up \in Seq(EvRec) /\ IsDelta(up) /\ Len(up) \in Nat /\ up[i] \in EvRec /\ up[i].delta \in Int
  BY EvRecord, SeqIsDelta DEF EvList, IsDelta
<1>1. /\ EvList(rest) /\ Armed(rest) = Armed(up) \ {up[i].ev}
      /\ \A f \in Armed(rest) : EvAt(rest, f) = EvAt(up, f)
  BY EvRemoved
<1>2. rest \in Seq(EvRec) /\ Ord(rest) /\ IsDelta(rest) /\ Unlinked(up, i, rest)
  BY <1>0, <1>1, EvRecord, SeqIsDelta, UnlinkIs DEF EvList
<1>3. Len(rest) = Len(up) - 1 /\ Len(rest) \in Nat /\ i \in 1 .. Len(rest) + 1 /\ i - 1 \in 0 .. Len(rest)
  BY <1>0, <1>2 DEF Unlinked, IsDelta
<1> DEFINE p == Prefix(rest)[i - 1]
<1>4. p \in Int /\ p = Prefix(up)[i - 1] /\ Prefix(up)[i] = p + up[i].delta /\ Prefix(up)[i] \in Int /\ rel = d - p /\ rel \in Int
  <2>1. p = Prefix(up)[i - 1]
    <3>1. i - 1 < i
      OBVIOUS
    <3>2. QED
      BY <3>1, <1>0, <1>2, <1>3, EvRecord, UnlinkPrefix
  <2>2. SpanOf(up, i, d, rel)
    BY <1>0, SpanIs
  <2> HIDE DEF p
  <2>3. QED
    BY <2>1, <2>2 DEF SpanOf
<1>31. TailOf(rest, i, tail)
  BY <1>2, <1>3, BehindIs, TailPrefix
<1>5. /\ tail \in Seq(EvRec) /\ Len(tail) = Len(rest) - (i - 1)
      /\ \A j \in 1 .. Len(tail) : tail[j] = rest[i - 1 + j]
      /\ \A j \in 0 .. Len(tail) : Prefix(tail)[j] = Prefix(rest)[i - 1 + j] - p
  <2>1. TailOf(rest, i, tail)
    BY <1>31
  <2>2. QED
    BY <2>1 DEF TailOf
<1>6. IsDelta(tail) /\ Ord(tail) /\ Len(tail) \in Nat
  <2>1. IsDelta(tail) /\ Len(tail) \in Nat
    BY <1>5, EvRecord, SeqIsDelta DEF IsDelta
  <2>2. ASSUME NEW j \in 2 .. Len(tail)
        PROVE  tail[j].delta >= 0
    <3>1. j \in 1 .. Len(tail) /\ i - 1 + j \in 2 .. Len(rest)
      BY <2>1, <1>3, <1>5
    <3>2. QED
      BY <3>1, <1>2, <1>5 DEF Ord
  <2>3. QED
    BY <2>1, <2>2 DEF Ord
<1> DEFINE k0 == DueBy(tail, rel)
           k  == i - 1 + k0
           x  == up[i]
           l  == Link(tail, x, rel, k0)
           m  == Link(rest, x, d, k)
           a  == SubSeq(rest, 1, i - 1)
<1>7. Place(tail, rel, k0)
  BY <1>4, <1>6, DueByIs
<1>8. n = a \o l /\ x \in EvRec
  BY <1>0
<1> HIDE DEF k0, p
<1>9. k0 \in 0 .. Len(tail) /\ k \in 0 .. Len(rest)
  <2>1. k0 \in 0 .. Len(tail)
    BY <1>7 DEF Place
  <2>2. QED
    BY <2>1, <1>3, <1>5
<1>10. l \in Seq(EvRec) /\ Linked(tail, x, rel, k0, l)
  BY <1>4, <1>5, <1>8, <1>9, EvRecord, LinkIs
<1>11. m \in Seq(EvRec) /\ Linked(rest, x, d, k, m)
  BY <1>2, <1>8, <1>9, EvRecord, LinkIs
<1>12. a \in Seq(EvRec) /\ Len(a) = i - 1 /\ \A j \in 1 .. i - 1 : a[j] = rest[j]
  BY <1>2, <1>3
<1>13. /\ \A j \in 0 .. Len(rest) : Prefix(rest)[j] \in Int
       /\ Prefix(tail)[k0] = Prefix(rest)[k] - p
  BY <1>2, <1>5, <1>9, PrefixAt
<1> DEFINE q == Prefix(rest)[k]
<1>14. q \in Int /\ rel - Prefix(tail)[k0] = d - q
  <2>1. q \in Int
    BY <1>9, <1>13
  <2>2. Prefix(tail)[k0] = q - p
    BY <1>13
  <2> HIDE DEF q
  <2>3. QED
    BY <2>1, <2>2, <1>4
<1> HIDE DEF l, m, a, x
<1>15. n = m
  <2>1. rel = d - Prefix(rest)[i - 1] /\ rel \in Int
    BY <1>4 DEF p
  <2>2. k = i - 1 + k0
    OBVIOUS
  <2> HIDE DEF k, q
  <2>3. Joint(rest, i, tail, d, rel, k0, x, l, m)
    BY <2>1, <2>2, <1>2, <1>3, <1>31, <1>9, <1>10, <1>11, Zenon DEF Joint
  <2>4. Ahead(rest, i, a)
    BY <1>12 DEF Ahead
  <2>5. a \o l = m
    BY <2>3, <2>4, <1>10, <1>11, JoinedIs, Zenon
  <2>6. QED
    BY <1>8, <2>5, Zenon
<1>16. /\ k >= 1 => Prefix(rest)[k] <= d
       /\ k < Len(rest) => d <= Prefix(rest)[k + 1]
  <2>1. ASSUME k >= 1
        PROVE  Prefix(rest)[k] <= d
    <3>1. CASE k0 >= 1
      <4>1. Prefix(tail)[k0] <= rel
        <5>1. k0 \in 1 .. k0
          BY <3>1, <1>9
        <5>2. QED
          BY <5>1, <1>7, Zenon DEF Place
      <4>2. QED
        BY <4>1, <1>4, <1>13, <1>14 DEF q
    <3>2. CASE k0 = 0
      <4>1. k = i - 1 /\ i \in 1 .. Len(up) /\ i - 1 \in 1 .. Len(up)
        BY <3>2, <2>1, <1>3, <1>0
      <4>2. Ord(up) /\ Prefix(up)[i - 1] <= Prefix(up)[i]
        <5>1. Ord(up) /\ i - 1 <= i
          BY <1>0 DEF EvList
        <5>2. QED
          BY <5>1, <4>1, <1>0, OrdLater
      <4>3. q = p
        BY <4>1 DEF q, p
      <4>4. QED
        BY <4>2, <4>3, <1>4 DEF q
    <3>3. QED
      BY <3>1, <3>2, <1>9
  <2>2. ASSUME k < Len(rest)
        PROVE  d <= Prefix(rest)[k + 1]
    <3>1. k0 + 1 \in k0 + 1 .. Len(tail) /\ k0 + 1 \in 0 .. Len(tail) /\ i - 1 + (k0 + 1) = k + 1 /\ k + 1 \in 0 .. Len(rest)
      BY <2>2, <1>9, <1>3, <1>5, <1>6
    <3>2. Prefix(tail)[k0 + 1] > rel /\ Prefix(tail)[k0 + 1] = Prefix(rest)[k + 1] - p /\ Prefix(rest)[k + 1] \in Int
      BY <3>1, <1>5, <1>7, <1>13 DEF Place
    <3>3. QED
      BY <3>2, <1>4
  <2>3. QED
    BY <2>1, <2>2
<1>17. x.ev = up[i].ev /\ x.ev \notin Armed(rest)
  BY <1>1 DEF x
<1>18. m = Link(rest, x, d, k)
  BY DEF m
<1> HIDE DEF k, q
<1>19. /\ EvList(m) /\ Armed(m) = Armed(rest) \cup {x.ev} /\ EvAt(m, x.ev) = d
       /\ \A f \in Armed(rest) : EvAt(m, f) = EvAt(rest, f)
  BY <1>1, <1>8, <1>9, <1>16, <1>17, <1>18, EvInserted
<1>20. up[i].ev \in Armed(up)
  BY DEF Armed
<1>21. QED
  BY <1>1, <1>15, <1>17, <1>19, <1>20 DEF PutBack

(***************************************************************************)
(* The inductive invariant                                                 *)
(***************************************************************************)
Typed ==
    /\ behind \in Nat /\ (pc = "loop" => behind < EVTGRAN)
    /\ nexttimeout \in Pool \cup {Null} /\ phase \in 0 .. TICK - 1
    /\ pc \in {"idle", "alarms", "loop", "func", "illegal"}
    /\ fired \in Events \cup {Null}

\* HandleValid in terms of names
Handle ==
    pc \in {"idle", "alarms"} =>
        IF nexttimeout = Null THEN allevents = <<>>
        ELSE nexttimeout \in Ids(tlist) /\ FuncOf(tlist, nexttimeout) = "check_events"

\* checkalarms is late by MaxLate at most, but for the tick that found it so.
NotLate ==
    \A y \in Ids(tlist) :
        /\ IdAt(tlist, y) > -MaxLate - TICK
        /\ IdAt(tlist, y) >= -MaxLate \/ phase = 0

\* The timeout of check_events comes before every event: at most the ticks it
\* is counted by and one jiffy of rounding later.
Covered ==
    pc \in {"idle", "alarms"} /\ nexttimeout # Null =>
        \A e \in Armed(allevents) :
            DueIn(allevents, behind, e) >= IdAt(tlist, nexttimeout) - phase - 1

IInv ==
    /\ EvList(allevents) /\ ListsOK(Lists) /\ Typed
    /\ Handle /\ NotLate /\ Covered

\* Times are numbers.
LEMMA EvAtIsInt ==
    ASSUME NEW s, EvList(s), NEW e \in Armed(s)
    PROVE  EvAt(s, e) \in Int
<1>1. s # <<>>
  BY DEF Armed
<1>2. QED
  BY <1>1, EvHeadFirst

\* Times are numbers.
LEMMA IdAtIsInt ==
    ASSUME NEW s, IdList(s), NEW y \in Ids(s)
    PROVE  IdAt(s, y) \in Int
<1>1. s # <<>>
  BY DEF Ids
<1>2. QED
  BY <1>1, IdHeadFirst

\* Who has the later place has the later deadline.
LEMMA LaterIsLater ==
    ASSUME NEW x \in Int, NEW y \in Int, NEW b \in Int, x <= y
    PROVE  EVTGRAN * y - b >= EVTGRAN * x - b
BY DEF EVTGRAN

\* The bounds are numbers.
LEMMA MaxLateIsNat == MaxLate \in Nat /\ ExpireLimit \in Nat
BY TimerAssumption

(***************************************************************************)
(* What the steps do to the queue                                          *)
(***************************************************************************)
OldDue(e) == DueIn(allevents, behind, e)
NewDue(e) == DueIn(allevents', behind', e)

\* e leaves the queue and nobody is moved; with e that is not in it, nobody
\* is moved.
Dropped(e) ==
    /\ EvList(allevents') /\ Armed(allevents') = Armed(allevents) \ {e} /\ behind' \in Nat
    /\ \A f \in Armed(allevents') : NewDue(f) = OldDue(f)

\* e is due in d, nobody else is moved, and the timeout of check_events is when
\* it was or, if e is the head, at d.
Rescheduled(e, d) ==
    /\ EvList(allevents') /\ Armed(allevents') = Armed(allevents) \cup {e}
    /\ behind' \in 0 .. 1 /\ fired' = Null /\ EvAt(allevents', e) = d /\ d > 0
    /\ \A f \in Armed(allevents) \ {e} : NewDue(f) = OldDue(f)
    /\ \/ /\ \A f \in Armed(allevents) \ {e} : EvAt(allevents', f) \in Int /\ EvAt(allevents', f) >= d
          /\ \/ pc' = "illegal" /\ UNCHANGED <<tlist, expire_list, nexttimeout>>
             \/ pc' = pc /\ Rearmed(d)
       \/ /\ \E f \in Armed(allevents) : NewDue(e) >= OldDue(f)
          /\ UNCHANGED <<nexttimeout, tlist, expire_list, pc>>

\* event_add: the event is in the queue with its delay, or its function runs.
LEMMA AddIs ==
    ASSUME IInv, NEW e \in Events, NEW d \in Delays, event_add(e, d)
    PROVE  \/ d > 0 /\ Rescheduled(e, d)
           \/ d <= 0 /\ Dropped(e) /\ fired' = e /\ UNCHANGED <<behind, nexttimeout, tlist, expire_list, pc>>
<1> DEFINE s == event_remove(allevents, e)
<1>1. EvList(allevents) /\ ListsOK(Lists) /\ behind \in Nat /\ d \in Int
  BY TimerAssumption DEF IInv, Typed
<1>2. EvList(s) /\ Armed(s) = Armed(allevents) \ {e} /\ \A f \in Armed(s) : EvAt(s, f) = EvAt(allevents, f)
  BY <1>1, EventRemoveIs
<1>3. EventInsert(s, behind, e, d)
  BY DEF event_add
<1> HIDE DEF s
<1>4. e \notin Armed(s)
  BY <1>2
<1>5. \/ /\ d <= 0 /\ allevents' = s /\ behind' = behind /\ fired' = e
         /\ UNCHANGED <<nexttimeout, tlist, expire_list, pc>>
      \/ d > 0 /\ Inserted(s, behind, e, d)
  BY <1>1, <1>2, <1>3, <1>4, EventInsertIs
<1>6. \A f \in Armed(s) : DueIn(s, behind, f) = OldDue(f)
  BY <1>2 DEF DueIn, OldDue
<1>7. CASE d <= 0
  <2>1. allevents' = s /\ behind' = behind /\ fired' = e /\ UNCHANGED <<nexttimeout, tlist, expire_list, pc>>
    BY <1>1, <1>5, <1>7
  <2>2. Dropped(e)
    BY <2>1, <1>1, <1>2, <1>6 DEF Dropped, NewDue
  <2>3. QED
    BY <1>7, <2>1, <2>2
<1>8. CASE d > 0
  <2>1. Inserted(s, behind, e, d)
    BY <1>1, <1>5, <1>8
  <2>2. CASE UNCHANGED <<nexttimeout, tlist, expire_list, pc>> /\ \E f \in Armed(s) : EvAt(allevents', f) \in Int /\ EvAt(allevents', f) <= d
    <3>1. PICK f \in Armed(s) : EvAt(allevents', f) \in Int /\ EvAt(allevents', f) <= d
      BY <2>2
    <3>2. NewDue(f) = OldDue(f) /\ NewDue(e) >= NewDue(f)
      <4>1. NewDue(f) = OldDue(f)
        BY <3>1, <2>1, <1>6 DEF Inserted, NewDue
      <4>2. EvAt(allevents', e) = d /\ behind' \in Int
        <5>1. EvAt(allevents', e) = d /\ behind' \in 0 .. 1
          BY <2>1, Zenon DEF Inserted
        <5>2. QED
          BY <5>1
      <4>3. QED
        BY <4>1, <4>2, <3>1, <1>1, LaterIsLater DEF DueIn, NewDue
    <3>3. QED
      BY <1>2, <1>6, <1>8, <2>1, <2>2, <3>1, <3>2 DEF Inserted, Rescheduled, NewDue
  <2>3. CASE ~(UNCHANGED <<nexttimeout, tlist, expire_list, pc>> /\ \E f \in Armed(s) : EvAt(allevents', f) \in Int /\ EvAt(allevents', f) <= d)
    BY <1>2, <1>6, <1>8, <2>1, <2>3 DEF Inserted, Rescheduled, NewDue
  <2>4. QED
    BY <2>2, <2>3
<1>9. QED
  BY <1>1, <1>7, <1>8

\* event_reset gives an armed event another deadline.
LEMMA ResetIs ==
    ASSUME IInv, NEW e \in Events, NEW d \in Delays, d > 0, event_reset(e, d)
    PROVE  Rescheduled(e, d)
<1> DEFINE up    == HeadUpdated(allevents, behind)
           b     == BehindUpdated(allevents, behind)
           i     == EvIndex(up, e)
           ticks == Prefix(up)[i]
           rest  == Unlink(up, i)
           rel   == d - (ticks - up[i].delta)
           tail  == SubSeq(rest, i, Len(rest))
           keep  == behind' = b /\ fired' = Null /\ UNCHANGED <<nexttimeout, tlist, expire_list, pc>>
<1>1. EvList(allevents) /\ ListsOK(Lists) /\ behind \in Nat /\ d \in Int
  BY TimerAssumption DEF IInv, Typed
<1>2. e \in Armed(allevents)
  BY DEF event_reset
<1>3. \/ d = ticks /\ allevents' = up /\ keep
      \/ d > ticks /\ allevents' = SubSeq(rest, 1, i - 1) \o Link(tail, up[i], rel, DueBy(tail, rel)) /\ keep
      \/ d < ticks /\ EventInsert(rest, b, e, d)
  BY Zenon DEF event_reset, toVars
<1>4. /\ EvList(up) /\ Armed(up) = Armed(allevents) /\ b \in 0 .. 1
      /\ \A f \in Armed(allevents) : DueIn(up, b, f) = OldDue(f) /\ EvAt(up, f) \in Int
  BY <1>1, HeadUpdatedIs DEF OldDue
<1> HIDE DEF up, b
<1>5. i \in 1 .. Len(up) /\ up[i].ev = e /\ ticks = EvAt(up, e) /\ ticks \in Int
  BY <1>2, <1>4, EvIndexOf DEF EvAt
<1>6. /\ EvList(rest) /\ Armed(rest) = Armed(up) \ {e}
      /\ \A f \in Armed(rest) : EvAt(rest, f) = EvAt(up, f)
  <2> DEFINE n == rest
  <2>1. n = Unlink(up, i)
    OBVIOUS
  <2> HIDE DEF n, i
  <2>2. /\ EvList(n) /\ Armed(n) = Armed(up) \ {up[i].ev}
        /\ \A f \in Armed(n) : EvAt(n, f) = EvAt(up, f)
    BY <2>1, <1>4, <1>5, EvRemoved
  <2>3. QED
    BY <2>2, <1>5 DEF n
<1> HIDE DEF i, ticks
<1>7. CASE d = ticks /\ allevents' = up /\ keep
  <2>1. NewDue(e) >= OldDue(e)
    <3>1. NewDue(e) = DueIn(up, b, e) /\ OldDue(e) = DueIn(up, b, e)
      BY <1>2, <1>4, <1>7 DEF NewDue
    <3>2. DueIn(up, b, e) \in Int
      BY <1>4, <1>5 DEF DueIn, EVTGRAN
    <3>3. QED
      BY <3>1, <3>2
  <2>2. QED
    BY <1>2, <1>4, <1>5, <1>7, <2>1 DEF Rescheduled, NewDue
<1>8. CASE d > ticks /\ allevents' = SubSeq(rest, 1, i - 1) \o Link(tail, up[i], rel, DueBy(tail, rel)) /\ keep
  <2> DEFINE n == SubSeq(rest, 1, i - 1) \o Link(tail, up[i], rel, DueBy(tail, rel))
  <2>1. d > Prefix(up)[i] /\ rest = Unlink(up, i) /\ rel = d - (Prefix(up)[i] - up[i].delta)
    BY <1>8 DEF ticks
  <2>2. tail = SubSeq(rest, i, Len(rest)) /\ n = SubSeq(rest, 1, i - 1) \o Link(tail, up[i], rel, DueBy(tail, rel))
    OBVIOUS
  <2>3. allevents' = n
    BY <1>8
  <2> HIDE DEF rest, tail, rel, n
  <2>4. /\ EvList(n) /\ Armed(n) = Armed(up) /\ EvAt(n, up[i].ev) = d
        /\ \A f \in Armed(up) \ {up[i].ev} : EvAt(n, f) = EvAt(up, f)
    <3>1. PutBack(up, i, d, n)
      BY <1>1, <1>4, <1>5, <2>1, <2>2, PutBackIs
    <3>2. QED
      BY <3>1 DEF PutBack
  <2>5. behind' = b /\ fired' = Null /\ UNCHANGED <<nexttimeout, tlist, expire_list, pc>>
    BY <1>8
  <2>6. NewDue(e) >= OldDue(e)
    <3>1. NewDue(e) = EVTGRAN * d - b
      BY <2>3, <2>4, <2>5, <1>5 DEF NewDue, DueIn
    <3>2. OldDue(e) = EVTGRAN * ticks - b
      BY <1>2, <1>4, <1>5 DEF DueIn
    <3>3. d > ticks
      BY <1>8
    <3>4. QED
      BY <3>1, <3>2, <3>3, <1>1, <1>4, <1>5 DEF EVTGRAN
  <2>7. \A f \in Armed(allevents) \ {e} : NewDue(f) = OldDue(f)
    BY <2>3, <2>4, <2>5, <1>4, <1>5 DEF NewDue, DueIn
  <2>8. Armed(n) = Armed(allevents) \cup {e} /\ EvAt(n, e) = d
    BY <2>4, <1>2, <1>4, <1>5
  <2>9. \E f \in Armed(allevents) : NewDue(e) >= OldDue(f)
    BY <2>6, <1>2
  <2>10. QED
    BY <2>3, <2>4, <2>5, <2>7, <2>8, <2>9, <1>4 DEF Rescheduled
<1>9. CASE d < ticks /\ EventInsert(rest, b, e, d)
  <2>1. e \notin Armed(rest) /\ b \in Nat
    BY <1>4, <1>6
  <2> HIDE DEF rest
  <2>2. Inserted(rest, b, e, d)
    BY <2>1, <1>1, <1>6, <1>9, EventInsertIs
  <2>3. \A f \in Armed(rest) : DueIn(rest, b, f) = OldDue(f)
    <3>1. ASSUME NEW f \in Armed(rest)
          PROVE  DueIn(rest, b, f) = OldDue(f)
      <4>1. DueIn(rest, b, f) = DueIn(up, b, f)
        BY <1>6 DEF DueIn
      <4>2. QED
        BY <4>1, <1>4, <1>6
    <3>2. QED
      BY <3>1
  <2>4. Armed(rest) = Armed(allevents) \ {e} /\ Armed(rest) \cup {e} = Armed(allevents) \cup {e}
    BY <1>4, <1>6
  <2>5. \A f \in Armed(allevents) \ {e} : NewDue(f) = OldDue(f)
    BY <2>2, <2>3, <2>4 DEF Inserted, NewDue
  <2>6. CASE UNCHANGED <<nexttimeout, tlist, expire_list, pc>> /\ \E f \in Armed(rest) : EvAt(allevents', f) \in Int /\ EvAt(allevents', f) <= d
    <3>1. PICK f \in Armed(rest) : EvAt(allevents', f) \in Int /\ EvAt(allevents', f) <= d
      BY <2>6
    <3>2. NewDue(f) = OldDue(f) /\ f \in Armed(allevents)
      BY <2>4, <2>5
    <3>3. NewDue(e) >= NewDue(f)
      <4>1. EvAt(allevents', e) = d /\ behind' \in Int
        <5>1. EvAt(allevents', e) = d /\ behind' \in 0 .. 1
          BY <2>2, Zenon DEF Inserted
        <5>2. QED
          BY <5>1
      <4>2. QED
        BY <4>1, <3>1, <1>1, LaterIsLater DEF DueIn, NewDue
    <3>4. \E g \in Armed(allevents) : NewDue(e) >= OldDue(g)
      BY <3>2, <3>3
    <3>5. QED
      BY <2>2, <2>4, <2>5, <2>6, <3>4 DEF Inserted, Rescheduled
  <2>7. CASE ~(UNCHANGED <<nexttimeout, tlist, expire_list, pc>> /\ \E f \in Armed(rest) : EvAt(allevents', f) \in Int /\ EvAt(allevents', f) <= d)
    BY <2>2, <2>4, <2>5, <2>7 DEF Inserted, Rescheduled
  <2>8. QED
    BY <2>6, <2>7
<1>10. QED
  BY <1>3, <1>7, <1>8, <1>9

(***************************************************************************)
(* The invariant holds at first and after every step                       *)
(***************************************************************************)
LEMMA InitInvariant == Init => IInv
<1> SUFFICES ASSUME Init PROVE IInv
  OBVIOUS
<1>1. EvList(<<>>) /\ IdList(<<>>) /\ XList(<<>>) /\ Ids(<<>>) = {} /\ Armed(<<>>) = {}
  BY DEF EvList, IdList, XList, EvOnce, IdOnce, Ord, Ids, Armed
<1>2. EvList(allevents) /\ ListsOK(Lists)
  BY <1>1 DEF Init, ListsOK, Lists
<1>3. Typed
  <2>1. behind = 0 /\ behind \in Nat /\ behind < EVTGRAN
    BY DEF Init, EVTGRAN
  <2>2. phase \in 0 .. TICK - 1
    BY DEF Init, TICK
  <2>3. pc = "idle" /\ nexttimeout = Null /\ fired = Null
    BY DEF Init
  <2>4. QED
    BY <2>1, <2>2, <2>3 DEF Typed
<1>4. Handle
  BY DEF Init, Handle
<1>5. NotLate /\ Covered
  BY <1>1 DEF Init, NotLate, Covered
<1>6. QED
  BY <1>2, <1>3, <1>4, <1>5 DEF IInv

\* Nobody in a queue: the queue is empty.
LEMMA EmptyQueue ==
    ASSUME NEW s, EvList(s)
    PROVE  s = <<>> <=> Armed(s) = {}
<1>1. ASSUME s # <<>> PROVE Armed(s) # {}
  BY <1>1, EvHeadFirst
<1>2. ASSUME s = <<>> PROVE Armed(s) = {}
  BY <1>2 DEF Armed
<1>3. QED
  BY <1>1, <1>2

\* What is not moved, and what is added ahead of now, is not late.
LEMMA NotLateKept ==
    ASSUME IInv, phase' = phase,
           \A y \in Ids(tlist') : \/ y \in Ids(tlist) /\ IdAt(tlist', y) = IdAt(tlist, y)
                                  \/ IdAt(tlist', y) \in Nat
    PROVE  NotLate'
<1>1. ASSUME NEW y \in Ids(tlist')
      PROVE  IdAt(tlist', y) > -MaxLate - TICK /\ (IdAt(tlist', y) >= -MaxLate \/ phase' = 0)
  <2>1. CASE y \in Ids(tlist) /\ IdAt(tlist', y) = IdAt(tlist, y)
    BY <2>1 DEF IInv, NotLate
  <2>2. CASE IdAt(tlist', y) \in Nat
    BY <2>2, MaxLateIsNat DEF TICK
  <2>3. QED
    BY <2>1, <2>2
<1>2. QED
  BY <1>1 DEF NotLate

\* A step that moves no deadline and no timeout, in the check_events loop or
\* outside it
LEMMA QueueStepInvariant ==
    ASSUME IInv, UNCHANGED <<nexttimeout, tlist, expire_list, phase>>,
           EvList(allevents'), Armed(allevents') \subseteq Armed(allevents), behind' \in Nat,
           \A f \in Armed(allevents') : NewDue(f) = OldDue(f),
           pc' = pc \/ pc' \in {"loop", "func"}, pc' = "loop" => behind' < EVTGRAN,
           fired' \in Events \cup {Null}
    PROVE  IInv'
<1>1. ListsOK(Lists)'
  BY DEF IInv, Lists
<1>2. Typed'
  BY DEF IInv, Typed
<1>3. Handle'
  <2>1. allevents = <<>> => allevents' = <<>>
    <3>1. EvList(allevents) /\ EvList(allevents')
      BY DEF IInv
    <3>2. ASSUME allevents = <<>> PROVE allevents' = <<>>
      <4>1. Armed(allevents) = {}
        BY <3>1, <3>2, EmptyQueue
      <4>2. Armed(allevents') = {}
        BY <4>1
      <4>3. QED
        BY <3>1, <4>2, EmptyQueue
    <3>3. QED
      BY <3>2
  <2>2. QED
    BY <2>1 DEF IInv, Handle
<1>4. NotLate'
  BY NotLateKept
<1>5. Covered'
  BY DEF IInv, Covered, NewDue, OldDue
<1>6. QED
  BY <1>1, <1>2, <1>3, <1>4, <1>5 DEF IInv

\* A timeout at d is in time for events from d on: rounding is one jiffy.
LEMMA Rounding ==
    ASSUME NEW x \in Int, NEW d \in Int, x >= d, NEW b \in Int, b <= 1, NEW p \in Int, p >= 0
    PROVE  2 * x - b >= 2 * d - p - 1
OBVIOUS

\* A client gave an event a deadline.
LEMMA RescheduledInvariant ==
    ASSUME IInv, ClientRuns, NEW e \in Events, NEW d \in Delays, Rescheduled(e, d), phase' = phase
    PROVE  IInv'
<1>0. /\ EvList(allevents) /\ ListsOK(Lists) /\ Typed /\ Handle /\ NotLate /\ Covered
      /\ d \in Int /\ d > 0 /\ pc \in {"idle", "func"}
  BY TimerAssumption DEF IInv, ClientRuns, Rescheduled
<1>1. EvList(allevents') /\ Armed(allevents') = Armed(allevents) \cup {e} /\ EvAt(allevents', e) = d /\ fired' = Null
  BY DEF Rescheduled
<1>2. behind' \in 0 .. 1 /\ phase \in 0 .. 3 /\ phase' = phase /\ behind \in Nat
  <2>1. behind' \in 0 .. 1
    BY Zenon DEF Rescheduled
  <2>2. phase \in 0 .. TICK - 1 /\ behind \in Nat
    BY <1>0, Zenon DEF Typed
  <2>3. QED
    BY <2>1, <2>2 DEF TICK
<1>21. nexttimeout \in Pool \cup {Null} /\ pc \in {"idle", "func"}
  BY <1>0, Zenon DEF Typed
<1>3. \A f \in Armed(allevents) \ {e} : NewDue(f) = OldDue(f)
  BY DEF Rescheduled
<1>4. allevents' # <<>>
  <2>1. Armed(allevents') # {}
    BY <1>1
  <2>2. QED
    BY <2>1, <1>1, EmptyQueue
<1>5. ASSUME pc' \in {pc, "illegal"}, nexttimeout' \in Pool \cup {Null}
      PROVE  Typed'
  <2>1. behind' \in Nat /\ pc' # "loop" /\ pc' \in {"idle", "alarms", "loop", "func", "illegal"} /\ phase' \in 0 .. TICK - 1
    <3>1. behind' \in Nat /\ phase' \in 0 .. TICK - 1
      BY <1>2 DEF TICK
    <3>2. QED
      BY <3>1, <1>21, <1>5
  <2>2. QED
    BY <1>1, <1>5, <2>1, Zenon DEF Typed
<1>6. CASE UNCHANGED <<tlist, expire_list, nexttimeout>> /\ pc' = "illegal"
  <2>1. ListsOK(Lists)'
    BY <1>0, <1>6 DEF Lists
  <2>2. Typed'
    BY <1>21, <1>5, <1>6
  <2>3. Handle' /\ Covered'
    BY <1>6 DEF Handle, Covered
  <2>4. NotLate'
    BY <1>6, NotLateKept
  <2>5. QED
    BY <1>1, <2>1, <2>2, <2>3, <2>4 DEF IInv
<1>7. CASE pc' = pc /\ Rearmed(d) /\ \A f \in Armed(allevents) \ {e} : EvAt(allevents', f) \in Int /\ EvAt(allevents', f) >= d
  <2>1. ListsOK(Lists)'
    BY <1>7 DEF Rearmed, Lists
  <2>2. nexttimeout' \in Pool /\ nexttimeout' \in Ids(tlist') /\ FuncOf(tlist', nexttimeout') = "check_events"
        /\ IdAt(tlist', nexttimeout') = EVTGRAN * d
    BY <1>7 DEF Rearmed
  <2>3. nexttimeout' # Null /\ EVTGRAN * d \in Nat
    <3>1. nexttimeout' # Null
      BY <2>2, TimerAssumption
    <3>2. d \in Int /\ d > 0
      BY <1>0
    <3>3. QED
      BY <3>1, <3>2 DEF EVTGRAN
  <2>4. Typed'
    BY <1>5, <1>7, <2>2
  <2>5. Handle'
    BY <2>2, <2>3 DEF Handle
  <2>6. NotLate'
    <3>1. \A y \in Ids(tlist') \ {nexttimeout'} : y \in Ids(tlist) /\ IdAt(tlist', y) = IdAt(tlist, y)
      BY <1>7 DEF Rearmed
    <3>2. QED
      BY <2>2, <2>3, <3>1, NotLateKept
  <2>7. ASSUME NEW f \in Armed(allevents')
        PROVE  DueIn(allevents', behind', f) >= IdAt(tlist', nexttimeout') - phase' - 1
    <3> DEFINE x == EvAt(allevents', f)
               y == IdAt(tlist', nexttimeout')
    <3>0. d \in Int /\ d > 0
      BY <1>0
    <3>1. x \in Int /\ x >= d
      <4>1. CASE f = e
        BY <4>1, <3>0, <1>1
      <4>2. CASE f # e
        BY <4>2, <1>1, <1>7
      <4>3. QED
        BY <4>1, <4>2
    <3>2. DueIn(allevents', behind', f) = 2 * x - behind' /\ y = 2 * d
      BY <2>2 DEF DueIn, EVTGRAN
    <3> HIDE DEF x, y
    <3>3. 2 * x - behind' >= 2 * d - phase' - 1
      <4>1. behind' \in Int /\ behind' <= 1 /\ phase' \in Int /\ phase' >= 0
        BY <1>2
      <4>2. QED
        BY <3>0, <3>1, <4>1, Rounding
    <3>4. QED
      BY <3>2, <3>3 DEF y
  <2>8. Covered'
    BY <2>7 DEF Covered
  <2>9. QED
    BY <1>1, <2>1, <2>4, <2>5, <2>6, <2>8 DEF IInv
<1>8. CASE UNCHANGED <<nexttimeout, tlist, expire_list, pc>> /\ \E f \in Armed(allevents) : NewDue(e) >= OldDue(f)
  <2>1. ListsOK(Lists)'
    BY <1>0, <1>8 DEF Lists
  <2>2. PICK f \in Armed(allevents) : NewDue(e) >= OldDue(f)
    BY <1>8
  <2>3. allevents # <<>>
    BY <1>0, <2>2, EmptyQueue
  <2>4. Typed'
    BY <1>21, <1>5, <1>8
  <2>5. Handle'
    BY <1>0, <1>8, <2>3 DEF Handle
  <2>6. NotLate'
    BY <1>8, NotLateKept
  <2>7. Covered'
    <3> SUFFICES ASSUME pc' \in {"idle", "alarms"}, nexttimeout' # Null, NEW g \in Armed(allevents')
                 PROVE  DueIn(allevents', behind', g) >= IdAt(tlist', nexttimeout') - phase' - 1
      BY DEF Covered
    <3> DEFINE y == IdAt(tlist, nexttimeout)
               c == y - phase - 1
    <3>0. pc \in {"idle", "alarms"} /\ nexttimeout # Null
      BY <1>8
    <3>1. \A h \in Armed(allevents) : OldDue(h) >= c
      BY <1>0, <3>0 DEF Covered, OldDue
    <3>2. nexttimeout \in Ids(tlist) /\ IdList(tlist)
      BY <1>0, <3>0 DEF Handle, ListsOK, Lists
    <3>3. y \in Int
      BY <3>2, IdAtIsInt
    <3>4. OldDue(f) \in Int
      <4>1. EvAt(allevents, f) \in Int
        BY <1>0, <2>2, EvAtIsInt
      <4>2. OldDue(f) = 2 * EvAt(allevents, f) - behind
        BY DEF OldDue, DueIn, EVTGRAN
      <4>3. QED
        <5>1. behind \in Int
          BY <1>2
        <5>2. QED
          BY <4>1, <4>2, <5>1
    <3>5. NewDue(e) \in Int
      <4>1. NewDue(e) = 2 * d - behind'
        BY <1>1 DEF NewDue, DueIn, EVTGRAN
      <4>2. QED
        <5>1. behind' \in Int /\ d \in Int
          BY <1>0, <1>2
        <5>2. QED
          BY <4>1, <5>1
    <3> HIDE DEF y
    <3>6. c \in Int
      <4>1. phase \in Int
        BY <1>2
      <4>2. QED
        BY <3>3, <4>1
    <3> HIDE DEF c
    <3>7. NewDue(e) >= c
      <4>1. OldDue(f) >= c /\ NewDue(e) >= OldDue(f)
        BY <2>2, <3>1
      <4>2. QED
        BY <4>1, <3>4, <3>5, <3>6
    <3>8. NewDue(g) >= c
      BY <1>1, <1>3, <3>1, <3>7
    <3>9. QED
      BY <3>8, <1>8, <1>2 DEF c, y, NewDue
  <2>8. QED
    BY <1>1, <2>1, <2>4, <2>5, <2>6, <2>7 DEF IInv
<1>9. QED
  BY <1>6, <1>7, <1>8, Zenon DEF Rescheduled

\* An event that is taken out of the queue moves nobody.
LEMMA DroppedIs ==
    ASSUME EvList(allevents), Typed, NEW e, allevents' = event_remove(allevents, e), behind' = behind
    PROVE  Dropped(e)
<1>1. EvList(allevents') /\ Armed(allevents') = Armed(allevents) \ {e} /\ \A f \in Armed(allevents') : EvAt(allevents', f) = EvAt(allevents, f)
  BY EventRemoveIs
<1>2. QED
  BY <1>1 DEF Dropped, Typed, NewDue, OldDue, DueIn

\* event_add of a delay that is positive, and event_reset, keep the invariant.
LEMMA ClientInvariant ==
    ASSUME IInv, NEW e \in Events, NEW d \in Delays,
           event_add(e, d) \/ (d > 0 /\ event_reset(e, d))
    PROVE  IInv'
<1>0. EvList(allevents) /\ Typed
  BY DEF IInv
<1>1. CASE event_add(e, d)
  <2>1. ClientRuns /\ phase' = phase
    BY <1>1 DEF event_add
  <2>2. CASE Rescheduled(e, d)
    BY <2>1, <2>2, RescheduledInvariant
  <2>3. CASE Dropped(e) /\ fired' = e /\ UNCHANGED <<behind, nexttimeout, tlist, expire_list, pc>>
    <3>1. EvList(allevents') /\ Armed(allevents') \subseteq Armed(allevents) /\ behind' \in Nat
          /\ \A f \in Armed(allevents') : NewDue(f) = OldDue(f)
      BY <2>3 DEF Dropped
    <3>2. pc' = pc /\ (pc' = "loop" => behind' < EVTGRAN) /\ fired' \in Events \cup {Null}
      BY <2>3, <1>0 DEF Typed
    <3>3. UNCHANGED <<nexttimeout, tlist, expire_list, phase>>
      BY <2>1, <2>3
    <3>4. QED
      BY <3>1, <3>2, <3>3, QueueStepInvariant
  <2>4. QED
    BY <1>1, <2>2, <2>3, AddIs
<1>2. CASE d > 0 /\ event_reset(e, d)
  <2>1. ClientRuns /\ phase' = phase
    BY <1>2, Zenon DEF event_reset
  <2>2. Rescheduled(e, d)
    BY <1>2, ResetIs
  <2>3. QED
    BY <2>1, <2>2, RescheduledInvariant
<1>3. QED
  BY <1>1, <1>2

\* Neither does the removal of an event.
LEMMA EventDelInvariant ==
    ASSUME IInv, NEW e \in Events, event_del(e)
    PROVE  IInv'
<1>0. EvList(allevents) /\ Typed
  BY DEF IInv
<1>1. /\ allevents' = event_remove(allevents, e) /\ fired' = Null
      /\ UNCHANGED <<behind, nexttimeout, tlist, expire_list, phase, pc>>
  BY DEF event_del, toVars
<1>2. Dropped(e)
  BY <1>1, <1>0, DroppedIs
<1>3. EvList(allevents') /\ Armed(allevents') \subseteq Armed(allevents) /\ behind' \in Nat
      /\ \A f \in Armed(allevents') : NewDue(f) = OldDue(f)
  BY <1>2 DEF Dropped
<1>4. pc' = pc /\ (pc' = "loop" => behind' < EVTGRAN) /\ fired' \in Events \cup {Null}
  BY <1>1, <1>0 DEF Typed
<1>5. UNCHANGED <<nexttimeout, tlist, expire_list, phase>>
  BY <1>1
<1>6. QED
  BY <1>3, <1>4, <1>5, QueueStepInvariant

\* Bringing the head up to date moves no deadline.
LEMMA UpdateInvariant ==
    ASSUME IInv, allevents' = HeadUpdated(allevents, behind), behind' = BehindUpdated(allevents, behind)
    PROVE  /\ EvList(allevents') /\ Armed(allevents') = Armed(allevents) /\ behind' \in 0 .. 1
           /\ behind' \in Nat /\ behind' < EVTGRAN
           /\ \A f \in Armed(allevents') : NewDue(f) = OldDue(f)
<1>1. EvList(allevents) /\ behind \in Nat
  BY DEF IInv, Typed
<1> DEFINE n == HeadUpdated(allevents, behind)
           c == BehindUpdated(allevents, behind)
<1>2. /\ EvList(n) /\ Armed(n) = Armed(allevents) /\ c \in 0 .. 1
      /\ \A f \in Armed(allevents) : DueIn(n, c, f) = DueIn(allevents, behind, f)
  BY <1>1, HeadUpdatedIs
<1>3. allevents' = n /\ behind' = c
  OBVIOUS
<1> HIDE DEF n, c
<1>4. c \in Nat /\ c < EVTGRAN
  BY <1>2 DEF EVTGRAN
<1>5. QED
  BY <1>2, <1>3, <1>4 DEF NewDue, OldDue

\* event_delta, and a function of an event that returns
LEMMA EventDeltaInvariant ==
    ASSUME IInv, event_delta \/ EventReturns
    PROVE  IInv'
<1>1. /\ allevents' = HeadUpdated(allevents, behind) /\ behind' = BehindUpdated(allevents, behind)
      /\ UNCHANGED <<nexttimeout, fired, tlist, expire_list, phase>> /\ (pc' = pc \/ pc' = "loop")
  BY DEF event_delta, EventReturns, toVars
<1>2. /\ EvList(allevents') /\ Armed(allevents') = Armed(allevents)
      /\ behind' \in Nat /\ behind' < EVTGRAN
      /\ \A f \in Armed(allevents') : NewDue(f) = OldDue(f)
  BY <1>1, UpdateInvariant
<1>3. fired' \in Events \cup {Null}
  BY <1>1 DEF IInv, Typed
<1>4. QED
  BY <1>1, <1>2, <1>3, QueueStepInvariant

\* The head leaves the list.
LEMMA HeadRemoved ==
    ASSUME IInv, allevents # <<>>, allevents' = Unlink(allevents, 1), behind' = behind
    PROVE  /\ Dropped(Head(allevents).ev) /\ Head(allevents).ev \in Armed(allevents)
           /\ OldDue(Head(allevents).ev) = EVTGRAN * Head(allevents).delta - behind
           /\ Head(allevents).delta \in Int /\ Armed(allevents) \subseteq Events
<1>1. EvList(allevents) /\ behind \in Nat /\ allevents \in Seq(EvRec)
  BY DEF IInv, Typed, EvList
<1>2. 1 \in 1 .. Len(allevents) /\ allevents[1].ev \in Armed(allevents) /\ EvAt(allevents, allevents[1].ev) = allevents[1].delta
      /\ EvAt(allevents, allevents[1].ev) \in Int
  BY <1>1, EvHeadFirst
<1>3. Head(allevents) = allevents[1]
  BY <1>1
<1>4. /\ EvList(allevents') /\ Armed(allevents') = Armed(allevents) \ {allevents[1].ev}
      /\ \A f \in Armed(allevents') : EvAt(allevents', f) = EvAt(allevents, f)
  BY <1>1, <1>2, EvRemoved
<1>5. Dropped(allevents[1].ev)
  BY <1>1, <1>4 DEF Dropped, NewDue, OldDue, DueIn
<1>6. Armed(allevents) \subseteq Events
  <2>1. \A i \in 1 .. Len(allevents) : allevents[i] \in EvRec
    BY <1>1
  <2>2. QED
    BY <2>1 DEF Armed, EvRec
<1>7. QED
  BY <1>2, <1>3, <1>5, <1>6 DEF OldDue, DueIn

\* check_events takes an event that is due.
LEMMA CallEventInvariant ==
    ASSUME IInv, CallEvent
    PROVE  IInv'
<1>1. /\ allevents # <<>> /\ allevents' = Unlink(allevents, 1) /\ fired' = Head(allevents).ev
      /\ pc' = "func" /\ UNCHANGED <<behind, nexttimeout, tlist, expire_list, phase>>
  BY DEF CallEvent, toVars
<1>2. Dropped(Head(allevents).ev) /\ Head(allevents).ev \in Events
  BY <1>1, HeadRemoved
<1>3. EvList(allevents') /\ Armed(allevents') \subseteq Armed(allevents) /\ behind' \in Nat
      /\ \A f \in Armed(allevents') : NewDue(f) = OldDue(f)
  BY <1>2 DEF Dropped
<1>4. QED
  BY <1>1, <1>2, <1>3, QueueStepInvariant

(***************************************************************************)
(* The steps of checkalarms and the interrupts                             *)
(***************************************************************************)
\* What checkalarms does to the lists when it runs the head of tlist
Fired ==
    /\ ListsOK(Lists)' /\ Ids(tlist') = Ids(tlist) \ {Head(tlist).id} /\ SameIn(tlist', tlist)
    /\ Head(tlist).id \in Ids(tlist) /\ FuncOf(tlist, Head(tlist).id) = Head(tlist).func

\* It moves to the expired ones, and its successor keeps its time.
LEMMA FireIs ==
    ASSUME IInv, tlist # <<>>, Fire
    PROVE  Fired
<1>1. ListsOK(Lists) /\ IdList(tlist) /\ XList(expire_list) /\ Ids(tlist) \cap Ids(expire_list) = {}
  BY DEF IInv, ListsOK, Lists
<1>2. tlist \in Seq(ToRec) /\ expire_list \in Seq(XRec) /\ IdOnce(expire_list)
  BY <1>1 DEF IdList, XList
<1>3. /\ 1 \in 1 .. Len(tlist) /\ tlist[1].id \in Ids(tlist)
      /\ FuncOf(tlist, tlist[1].id) = tlist[1].func
  BY <1>1, IdHeadFirst
<1>4. Head(tlist) = tlist[1] /\ tlist[1] \in ToRec
  BY <1>2, <1>3
<1> DEFINE h == tlist[1]
           r == [id |-> h.id, func |-> h.func, left |-> ExpireLimit]
           n == Unlink(tlist, 1)
           x == <<r>> \o expire_list
<1>5. tlist' = n /\ expire_list' = x
  BY <1>4 DEF Fire, SetLists
<1>6. r \in XRec /\ r.id = h.id
  BY <1>4, MaxLateIsNat DEF XRec, ToRec
<1> HIDE DEF r, n
<1>7. /\ IdList(n) /\ Ids(n) = Ids(tlist) \ {h.id}
      /\ \A y \in Ids(n) : IdAt(n, y) = IdAt(tlist, y) /\ FuncOf(n, y) = FuncOf(tlist, y)
  BY <1>1, <1>3, IdRemoved DEF n
<1> HIDE DEF h
<1>8. x \in Seq(XRec) /\ Len(x) = Len(expire_list) + 1 /\ x[1] = r /\ \A i \in 1 .. Len(expire_list) : x[i + 1] = expire_list[i]
  <2>1. <<r>> \in Seq(XRec) /\ Len(<<r>>) = 1 /\ Len(expire_list) \in Nat
    BY <1>2, <1>6
  <2>2. QED
    BY <2>1, <1>2, <1>6
<1> HIDE DEF x
<1>9. \A j \in 1 .. Len(x) : j = 1 \/ (j - 1 \in 1 .. Len(expire_list) /\ x[j] = expire_list[j - 1])
  <2>1. ASSUME NEW j \in 1 .. Len(x), j # 1
        PROVE  j - 1 \in 1 .. Len(expire_list) /\ x[j] = expire_list[j - 1]
    <3>1. j - 1 \in 1 .. Len(expire_list) /\ (j - 1) + 1 = j
      BY <2>1, <1>2, <1>8
    <3>2. QED
      BY <3>1, <1>8
  <2>2. QED
    BY <2>1
<1>10. Ids(x) = Ids(expire_list) \cup {h.id}
  <2>1. ASSUME NEW y \in Ids(x)
        PROVE  y \in Ids(expire_list) \cup {h.id}
    BY <1>6, <1>8, <1>9 DEF Ids
  <2>2. ASSUME NEW y \in Ids(expire_list)
        PROVE  y \in Ids(x)
    <3>1. PICK i \in 1 .. Len(expire_list) : expire_list[i].id = y
      BY DEF Ids
    <3>2. i + 1 \in 1 .. Len(x) /\ x[i + 1].id = y
      BY <3>1, <1>2, <1>8
    <3>3. QED
      BY <3>2 DEF Ids
  <2>3. h.id \in Ids(x)
    <3>1. 1 \in 1 .. Len(x) /\ x[1].id = h.id
      BY <1>2, <1>6, <1>8
    <3>2. QED
      BY <3>1 DEF Ids
  <2>4. QED
    BY <2>1, <2>2, <2>3
<1>11. h.id \notin Ids(expire_list)
  BY <1>1, <1>3 DEF h
<1>12. IdOnce(x)
  <2>1. ASSUME NEW i \in 1 .. Len(x), NEW j \in 1 .. Len(x), x[i].id = x[j].id
        PROVE  i = j
    <3>1. CASE i = 1 /\ j # 1
      BY <3>1, <2>1, <1>6, <1>8, <1>9, <1>11 DEF Ids
    <3>2. CASE i # 1 /\ j = 1
      BY <3>2, <2>1, <1>6, <1>8, <1>9, <1>11 DEF Ids
    <3>3. CASE i # 1 /\ j # 1
      <4>1. i - 1 \in 1 .. Len(expire_list) /\ j - 1 \in 1 .. Len(expire_list)
            /\ expire_list[i - 1].id = expire_list[j - 1].id
        BY <3>3, <2>1, <1>9
      <4>2. i - 1 = j - 1
        BY <4>1, <1>2 DEF IdOnce
      <4>3. QED
        BY <4>2
    <3>4. QED
      BY <3>1, <3>2, <3>3
  <2>2. QED
    BY <2>1 DEF IdOnce
<1>13. IdList(tlist') /\ XList(expire_list') /\ Ids(tlist') \cap Ids(expire_list') = {}
  BY <1>1, <1>5, <1>7, <1>8, <1>10, <1>12 DEF XList
<1>14. ListsOK(Lists)'
  BY <1>13 DEF ListsOK, Lists
<1>15. SameIn(tlist', tlist)
  BY <1>5, <1>7 DEF SameIn
<1>16. QED
  BY <1>3, <1>4, <1>5, <1>7, <1>14, <1>15 DEF Fired, h

\* checkalarms runs check_events.
LEMMA CheckEventsStartInvariant ==
    ASSUME IInv, CheckEventsStart
    PROVE  IInv'
<1>1. /\ tlist # <<>> /\ Fire /\ pc' = "loop" /\ UNCHANGED <<nexttimeout, fired, phase>>
      /\ allevents' = HeadUpdated(allevents, behind) /\ behind' = BehindUpdated(allevents, behind)
  BY DEF CheckEventsStart, Due
<1>2. Fired
  BY <1>1, FireIs
<1>3. EvList(allevents') /\ behind' \in Nat /\ behind' < EVTGRAN
  BY <1>1, UpdateInvariant
<1>4. Typed'
  BY <1>1, <1>3 DEF IInv, Typed
<1>5. Handle' /\ Covered'
  BY <1>1 DEF Handle, Covered
<1>6. NotLate'
  <2>1. \A y \in Ids(tlist') : y \in Ids(tlist) /\ IdAt(tlist', y) = IdAt(tlist, y)
    BY <1>2 DEF Fired, SameIn
  <2>2. QED
    BY <1>1, <2>1, NotLateKept
<1>7. ListsOK(Lists)'
  BY <1>2 DEF Fired
<1>8. QED
  BY <1>3, <1>4, <1>5, <1>6, <1>7 DEF IInv

\* A step of the timeouts that leaves the queue alone, and the timeout of
\* check_events where it is
LEMMA TimeoutStepInvariant ==
    ASSUME IInv, ListsOK(Lists)', UNCHANGED <<allevents, behind, nexttimeout, fired, phase>>,
           pc' = pc \/ (pc' \in {"idle", "alarms"} /\ pc \in {"idle", "alarms"}),
           nexttimeout \in Ids(tlist) /\ FuncOf(tlist, nexttimeout) = "check_events" => nexttimeout \in Ids(tlist'),
           SameIn(tlist', tlist),
           \A y \in Ids(tlist') : y \in Ids(tlist) \/ IdAt(tlist', y) \in Nat
    PROVE  IInv'
<1>1. EvList(allevents') /\ Typed'
  BY DEF IInv, Typed
<1>2. NotLate'
  <2>1. \A y \in Ids(tlist') : \/ y \in Ids(tlist) /\ IdAt(tlist', y) = IdAt(tlist, y)
                               \/ IdAt(tlist', y) \in Nat
    BY DEF SameIn
  <2>2. QED
    BY <2>1, NotLateKept
<1>3. ASSUME pc' \in {"idle", "alarms"}, nexttimeout # Null
      PROVE  /\ nexttimeout \in Ids(tlist') /\ FuncOf(tlist', nexttimeout) = "check_events"
             /\ IdAt(tlist', nexttimeout) = IdAt(tlist, nexttimeout)
             /\ pc \in {"idle", "alarms"}
  <2>1. pc \in {"idle", "alarms"}
    BY <1>3
  <2>2. nexttimeout \in Ids(tlist) /\ FuncOf(tlist, nexttimeout) = "check_events"
    BY <1>3, <2>1 DEF IInv, Handle
  <2>3. nexttimeout \in Ids(tlist')
    BY <2>2
  <2>4. QED
    BY <2>1, <2>2, <2>3 DEF SameIn
<1>4. Handle'
  <2>1. ASSUME pc' \in {"idle", "alarms"}, nexttimeout = Null
        PROVE  allevents = <<>>
    <3>1. pc \in {"idle", "alarms"}
      BY <2>1
    <3>2. QED
      BY <2>1, <3>1 DEF IInv, Handle
  <2>2. QED
    BY <1>3, <2>1 DEF Handle
<1>5. Covered'
  <2> SUFFICES ASSUME pc' \in {"idle", "alarms"}, nexttimeout' # Null, NEW e \in Armed(allevents')
               PROVE  DueIn(allevents', behind', e) >= IdAt(tlist', nexttimeout') - phase' - 1
    BY DEF Covered
  <2>1. nexttimeout' = nexttimeout /\ pc \in {"idle", "alarms"} /\ IdAt(tlist', nexttimeout) = IdAt(tlist, nexttimeout)
    BY <1>3
  <2>2. DueIn(allevents, behind, e) >= IdAt(tlist, nexttimeout) - phase - 1
    BY <2>1 DEF IInv, Covered
  <2>3. QED
    BY <2>1, <2>2
<1>6. QED
  BY <1>1, <1>2, <1>4, <1>5 DEF IInv

\* checkalarms runs another function.
LEMMA OtherFuncInvariant ==
    ASSUME IInv, OtherFunc
    PROVE  IInv'
<1>1. /\ tlist # <<>> /\ Fire /\ Head(tlist).func # "check_events"
      /\ UNCHANGED <<allevents, behind, nexttimeout, fired, phase, pc>>
  BY DEF OtherFunc, Due, evVars
<1>2. Fired
  BY <1>1, FireIs
<1>3. ASSUME nexttimeout \in Ids(tlist), FuncOf(tlist, nexttimeout) = "check_events"
      PROVE  nexttimeout \in Ids(tlist')
  <2>1. nexttimeout # Head(tlist).id
    BY <1>1, <1>2, <1>3 DEF Fired
  <2>2. QED
    BY <1>2, <1>3, <2>1 DEF Fired
<1>4. ListsOK(Lists)' /\ SameIn(tlist', tlist) /\ \A y \in Ids(tlist') : y \in Ids(tlist)
  BY <1>2 DEF Fired
<1>5. QED
  BY <1>1, <1>3, <1>4, TimeoutStepInvariant

\* The end of check_events: the timeout serves the new head.
LEMMA CheckEventsEndInvariant ==
    ASSUME IInv, CheckEventsEnd
    PROVE  IInv'
<1>0. EvList(allevents) /\ ListsOK(Lists) /\ Typed /\ pc = "loop"
  BY DEF IInv, CheckEventsEnd
<1>1. UNCHANGED <<allevents, behind, fired, phase>>
  BY DEF CheckEventsEnd
<1>2. CASE allevents = <<>>
  <2>1. nexttimeout' = Null /\ pc' = "alarms" /\ UNCHANGED <<tlist, expire_list>>
    BY <1>2 DEF CheckEventsEnd, toVars
  <2>2. Armed(allevents') = {}
    BY <1>1, <1>2 DEF Armed
  <2>3. Handle' /\ Covered'
    BY <1>1, <1>2, <2>1, <2>2 DEF Handle, Covered
  <2>4. NotLate'
    BY <1>1, <2>1, NotLateKept
  <2>5. ListsOK(Lists)' /\ EvList(allevents') /\ Typed'
    BY <1>0, <1>1, <2>1 DEF Lists, Typed
  <2>6. QED
    BY <2>3, <2>4, <2>5 DEF IInv
<1>3. CASE allevents # <<>>
  <2> DEFINE d == Head(allevents).delta
  <2>1. d > 0 /\ Request(Lists, d, "alarms")
    BY <1>3 DEF CheckEventsEnd
  <2>2. d = allevents[1].delta /\ \A e \in Armed(allevents) : EvAt(allevents, e) \in Int /\ EvAt(allevents, e) >= allevents[1].delta
    BY <1>0, <1>3, EvHeadFirst DEF EvList
  <2>3. d \in Int
    <3>1. allevents \in Seq(EvRec) /\ allevents[1] \in EvRec
      BY <1>0, <1>3 DEF EvList
    <3>2. QED
      BY <3>1, <2>2 DEF EvRec
  <2> HIDE DEF d
  <2>4. \/ pc' = "illegal" /\ UNCHANGED <<tlist, expire_list, nexttimeout>>
        \/ pc' = "alarms" /\ Requested(Lists, d)
    BY <1>0, <2>1, <2>3, RequestIs
  <2>5. CASE pc' = "illegal" /\ UNCHANGED <<tlist, expire_list, nexttimeout>>
    <3>1. Handle' /\ Covered'
      BY <2>5 DEF Handle, Covered
    <3>2. NotLate'
      BY <1>1, <2>5, NotLateKept
    <3>3. ListsOK(Lists)' /\ EvList(allevents') /\ Typed'
      BY <1>0, <1>1, <2>5 DEF Lists, Typed
    <3>4. QED
      BY <3>1, <3>2, <3>3 DEF IInv
  <2>6. CASE pc' = "alarms" /\ Requested(Lists, d)
    <3>0. Lists.t = tlist
      BY DEF Lists
    <3>1. /\ nexttimeout' \in Pool /\ Ids(tlist') = Ids(tlist) \cup {nexttimeout'}
          /\ IdAt(tlist', nexttimeout') = EVTGRAN * d /\ FuncOf(tlist', nexttimeout') = "check_events"
      BY <2>6, <3>0 DEF Requested
    <3>2. ListsOK(Lists)' /\ SameIn(tlist', tlist)
      BY <2>6, <3>0 DEF Requested, Lists
    <3>3. nexttimeout' # Null /\ nexttimeout' \in Ids(tlist')
      BY <3>1, TimerAssumption
    <3>4. Handle'
      BY <3>1, <3>3 DEF Handle
    <3>5. EVTGRAN * d \in Nat
      BY <2>1, <2>3 DEF EVTGRAN
    <3>6. NotLate'
      <4>1. \A y \in Ids(tlist') : \/ y \in Ids(tlist) /\ IdAt(tlist', y) = IdAt(tlist, y)
                                   \/ IdAt(tlist', y) \in Nat
        BY <3>1, <3>2, <3>5 DEF SameIn
      <4>2. QED
        BY <1>1, <4>1, NotLateKept
    <3>7. Typed'
      BY <1>0, <1>1, <2>6, <3>1 DEF Typed
    <3>8. ASSUME NEW e \in Armed(allevents')
          PROVE  DueIn(allevents', behind', e) >= IdAt(tlist', nexttimeout') - phase' - 1
      <4> DEFINE x == EvAt(allevents, e)
      <4>1. x \in Int /\ x >= d
        BY <1>1, <2>2
      <4>2. DueIn(allevents', behind', e) = 2 * x - behind /\ IdAt(tlist', nexttimeout') = 2 * d
        BY <1>1, <3>1 DEF DueIn, EVTGRAN
      <4>3. behind \in Int /\ behind <= 1 /\ phase \in Int /\ phase >= 0
        BY <1>0 DEF Typed, EVTGRAN, TICK
      <4> HIDE DEF x
      <4>4. 2 * x - behind >= 2 * d - phase - 1
        BY <4>1, <4>3, <2>3, Rounding
      <4>5. QED
        BY <4>2, <4>4, <1>1
    <3>9. Covered'
      BY <3>8 DEF Covered
    <3>10. EvList(allevents')
      BY <1>0, <1>1
    <3>11. QED
      BY <3>2, <3>4, <3>6, <3>7, <3>9, <3>10 DEF IInv
  <2>7. QED
    BY <2>4, <2>5, <2>6
<1>4. QED
  BY <1>2, <1>3

\* dispose_old_timeouts keeps the first of the expired timeouts.
LEMMA PrefixList ==
    ASSUME NEW s, XList(s), NEW n \in 0 .. Len(s), NEW t, t = SubSeq(s, 1, n)
    PROVE  XList(t) /\ Ids(t) \subseteq Ids(s)
<1>1. s \in Seq(XRec) /\ IdOnce(s) /\ Len(s) \in Nat
  BY DEF XList
<1>2. t \in Seq(XRec) /\ Len(t) = n /\ \A i \in 1 .. n : i \in 1 .. Len(s) /\ t[i] = s[i]
  BY <1>1
<1>3. QED
  BY <1>1, <1>2 DEF XList, IdOnce, Ids

\* There is a first timeout that is too old, or none.
LEMMA FirstOld ==
    ASSUME NEW n \in Nat, NEW old
    PROVE  \E m \in 0 .. n : (\A i \in 1 .. m : i \notin old) /\ (m < n => m + 1 \in old)
<1> DEFINE S == {m \in 0 .. n : m < n => m + 1 \in old}
<1>1. S \subseteq Nat /\ n \in S
  OBVIOUS
<1> HIDE DEF S
<1>2. PICK m \in S : \A k \in S : m <= k
  BY <1>1, LeastIs
<1>3. m \in 0 .. n /\ (m < n => m + 1 \in old)
  BY DEF S
<1>4. ASSUME NEW i \in 1 .. m, i \in old
      PROVE  FALSE
  <2>1. i - 1 \in 0 .. n /\ (i - 1) + 1 = i
    BY <1>3
  <2>2. i - 1 \in S
    BY <1>4, <2>1 DEF S
  <2>3. m <= i - 1
    BY <1>2, <2>2
  <2>4. QED
    BY <2>3, <1>3
<1>5. QED
  BY <1>3, <1>4

\* The begin and the end of checkalarms
LEMMA AlarmsInvariant ==
    ASSUME IInv, checkalarms \/ AlarmsDone
    PROVE  IInv'
<1>0. ListsOK(Lists) /\ IdList(tlist) /\ XList(expire_list) /\ Ids(tlist) \cap Ids(expire_list) = {} /\ Len(expire_list) \in Nat
  BY DEF IInv, ListsOK, Lists, XList
<1>1. /\ UNCHANGED <<allevents, behind, nexttimeout, fired, tlist, phase>>
      /\ pc' \in {"idle", "alarms"} /\ pc \in {"idle", "alarms"}
  BY DEF checkalarms, AlarmsDone, evVars, toVars
<1>2. XList(expire_list') /\ Ids(expire_list') \subseteq Ids(expire_list)
  <2>1. CASE checkalarms
    BY <2>1, <1>0 DEF checkalarms, toVars
  <2>2. CASE AlarmsDone
    <3> DEFINE old == {i \in 1 .. Len(expire_list) : expire_list[i].left < 0}
               m == CHOOSE n \in 0 .. Len(expire_list) :
                       (\A i \in 1 .. n : i \notin old) /\ (n < Len(expire_list) => n + 1 \in old)
    <3>1. expire_list' = SubSeq(expire_list, 1, m)
      BY <2>2 DEF AlarmsDone
    <3> HIDE DEF old
    <3>2. m \in 0 .. Len(expire_list)
      BY <1>0, FirstOld
    <3> HIDE DEF m
    <3>3. QED
      BY <1>0, <3>1, <3>2, PrefixList
  <2>3. QED
    BY <2>1, <2>2
<1>3. ListsOK(Lists)'
  BY <1>0, <1>1, <1>2 DEF ListsOK, Lists
<1>4. SameIn(tlist', tlist) /\ Ids(tlist') = Ids(tlist)
  BY <1>1 DEF SameIn
<1>5. QED
  BY <1>1, <1>3, <1>4, TimeoutStepInvariant

\* A driver's timeout is put among the others.
LEMMA InterruptAddsInvariant ==
    ASSUME IInv, InterruptAdds
    PROVE  IInv'
<1>1. PICK d \in InputDelays, id \in Candidates(Lists, "if_doinput", Static) :
          SetLists(addroottimeout(Lists, id, "if_doinput", d))
  BY DEF InterruptAdds
<1>2. UNCHANGED <<allevents, behind, nexttimeout, fired, phase, pc>>
  BY DEF InterruptAdds, evVars
<1> DEFINE n == addroottimeout(Lists, id, "if_doinput", d)
<1>3. tlist' = n.t /\ expire_list' = n.x
  BY <1>1 DEF SetLists
<1>4. ListsOK(Lists) /\ Lists.t = tlist
  BY DEF IInv, Lists
<1>5. d \in Nat
  BY TimerAssumption
<1>6. id \notin Ids(tlist) /\ [id |-> id, func |-> "if_doinput", delta |-> 0] \in ToRec
  <2>1. Static \subseteq Pool \cup Static /\ ("if_doinput" = "check_events" => Static = Pool)
    OBVIOUS
  <2>2. QED
    BY <1>4, <2>1, CandidateIs
<1>7. /\ ListsOK(n) /\ Ids(n.t) = Ids(tlist) \cup {id} /\ SameIn(n.t, tlist)
      /\ IdAt(n.t, id) = d
  BY <1>4, <1>5, <1>6, AddedIs
<1> HIDE DEF n
<1>8. ListsOK(Lists)'
  BY <1>3, <1>7 DEF ListsOK, Lists
<1>9. QED
  BY <1>2, <1>3, <1>5, <1>7, <1>8, TimeoutStepInvariant


\* What one jiffy does: each fourth counts the timeouts down, alike.
Counted ==
    /\ ListsOK(Lists)' /\ Ids(tlist') = Ids(tlist)
    /\ \A y \in Ids(tlist) :
          /\ FuncOf(tlist', y) = FuncOf(tlist, y)
          /\ IdAt(tlist', y) = IdAt(tlist, y) - (IF phase' = 0 THEN TICK ELSE 0)

\* The age of what has fired is no business of the pending timeouts.
LEMMA AgedList ==
    ASSUME NEW s, XList(s), NEW n,
           n = [i \in 1 .. Len(s) |-> [s[i] EXCEPT !.left = IF @ < 0 THEN @ ELSE @ - 1]]
    PROVE  XList(n) /\ Ids(n) = Ids(s)
<1>1. s \in Seq(XRec) /\ Len(s) \in Nat /\ \A i \in 1 .. Len(s) : s[i] \in XRec
  BY DEF XList
<1>2. ASSUME NEW x \in XRec
      PROVE  LET y == [x EXCEPT !.left = IF @ < 0 THEN @ ELSE @ - 1]
             IN  y \in XRec /\ y.id = x.id
  <2> DEFINE c == IF x.left < 0 THEN x.left ELSE x.left - 1
  <2>1. x.left \in -1 .. ExpireLimit /\ ExpireLimit \in Nat
    BY MaxLateIsNat DEF XRec
  <2>2. c \in -1 .. ExpireLimit
    BY <2>1
  <2> HIDE DEF c
  <2>3. [x EXCEPT !.left = c] \in XRec /\ [x EXCEPT !.left = c].id = x.id
    BY <2>2 DEF XRec
  <2>4. QED
    BY <2>3 DEF c
<1>3. \A i \in 1 .. Len(s) : n[i] \in XRec /\ n[i].id = s[i].id
  BY <1>1, <1>2
<1>4. n \in [1 .. Len(s) -> XRec]
  BY <1>3
<1>5. n \in Seq(XRec) /\ Len(n) = Len(s)
  BY <1>1, <1>4, FunctionSeq
<1>6. QED
  BY <1>1, <1>3, <1>5 DEF XList, IdOnce, Ids

\* new_etv_timer counts the head down by its period.
LEMMA TickIs ==
    ASSUME NEW s, IdList(s), s # <<>>, NEW n, n = [s EXCEPT ![1].delta = @ - TICK]
    PROVE  Earlier(n, s, TICK)
<1>1. TICK \in Int
  BY DEF TICK
<1>2. QED
  BY <1>1, IdCountedDown

\* A jiffy of the clock of etv_timer
LEMMA TickPhase ==
    ASSUME NEW p \in 0 .. 3, NEW q \in 0 .. 3, (q = p + 1 /\ q # 0) \/ (p = TICK - 1 /\ q = 0),
           NEW c, c = IF q = 0 THEN TICK ELSE 0
    PROVE  c \in Int /\ p \in Int /\ q \in Int /\ c + q = p + 1
BY DEF TICK

\* The event and the timeout lose the same.
LEMMA TickRounding ==
    ASSUME NEW x \in Int, NEW b \in Int, NEW y \in Int, NEW p \in Int, NEW q \in Int, NEW c \in Int,
           c + q = p + 1, 2 * x - b >= y - p - 1
    PROVE  2 * x - (b + 1) >= y - c - q - 1
<1>1. c = p + 1 - q
  OBVIOUS
<1>2. y - c - q - 1 = y - p - 2
  BY <1>1
<1>3. QED
  BY <1>2

\* The clock of etv_timer turns.
LEMMA JiffyIs ==
    ASSUME IInv, Jiffy
    PROVE  /\ Counted /\ UNCHANGED <<allevents, nexttimeout, pc, fired>>
           /\ phase \in 0 .. 3 /\ phase' \in 0 .. 3
           /\ (phase' = phase + 1 /\ phase' # 0) \/ (phase = TICK - 1 /\ phase' = 0)
           /\ behind' = IF allevents = <<>> THEN 0 ELSE behind + 1
           /\ \A y \in Ids(tlist) : IdAt(tlist, y) \in Int /\ IdAt(tlist, y) > -MaxLate
           /\ pc \in {"idle", "func"}
<1>0. ListsOK(Lists) /\ IdList(tlist) /\ XList(expire_list) /\ Ids(tlist) \cap Ids(expire_list) = {} /\ phase \in 0 .. 3
  BY DEF IInv, ListsOK, Lists, Typed, TICK
<1>1. /\ UNCHANGED <<allevents, nexttimeout, pc, fired>>
      /\ behind' = IF allevents = <<>> THEN 0 ELSE behind + 1
      /\ pc \in {"idle", "func"}
  BY DEF Jiffy
<1>2. phase' \in 0 .. 3 /\ ((phase' = phase + 1 /\ phase' # 0) \/ (phase = TICK - 1 /\ phase' = 0))
  <2>1. phase' = (phase + 1) % 4
    BY DEF Jiffy, TICK
  <2>2. QED
    BY <2>1, <1>0 DEF TICK
<1>3. ASSUME NEW y \in Ids(tlist)
      PROVE  IdAt(tlist, y) \in Int /\ IdAt(tlist, y) > -MaxLate
  <2>1. tlist # <<>>
    BY DEF Ids
  <2>2. Head(tlist).delta > -MaxLate /\ Head(tlist) = tlist[1] /\ tlist[1] \in ToRec
    BY <2>1, <1>0 DEF Jiffy, IdList
  <2>3. IdAt(tlist, y) \in Int /\ IdAt(tlist, y) >= tlist[1].delta
    BY <2>1, <1>0, IdHeadFirst
  <2>4. tlist[1].delta \in Int /\ MaxLate \in Nat
    BY <2>2, MaxLateIsNat DEF ToRec
  <2>5. tlist[1].delta > -MaxLate
    BY <2>2
  <2>6. QED
    BY <2>3, <2>4, <2>5
<1>4. XList(expire_list') /\ Ids(expire_list') = Ids(expire_list)
  <2>1. expire_list' = [i \in 1 .. Len(expire_list) |-> [expire_list[i] EXCEPT !.left = IF @ < 0 THEN @ ELSE @ - 1]]
    BY DEF Jiffy
  <2>2. QED
    BY <2>1, <1>0, AgedList
<1>5. /\ IdList(tlist') /\ Ids(tlist') = Ids(tlist)
      /\ \A y \in Ids(tlist) :
            /\ FuncOf(tlist', y) = FuncOf(tlist, y)
            /\ IdAt(tlist', y) = IdAt(tlist, y) - (IF phase' = 0 THEN TICK ELSE 0)
  <2>1. CASE phase' = 0 /\ tlist # <<>>
    <3>1. tlist' = [tlist EXCEPT ![1].delta = @ - TICK]
      BY <2>1 DEF Jiffy
    <3>2. Earlier(tlist', tlist, TICK)
      BY <2>1, <3>1, <1>0, TickIs
    <3>3. QED
      BY <2>1, <3>2 DEF Earlier
  <2>2. CASE tlist = <<>>
    <3>1. tlist' = tlist /\ Ids(tlist) = {}
      BY <2>2 DEF Jiffy, Ids
    <3>2. QED
      BY <1>0, <3>1
  <2>3. CASE phase' # 0
    <3>1. tlist' = tlist
      BY <2>3 DEF Jiffy
    <3>2. \A y \in Ids(tlist) : IdAt(tlist, y) = IdAt(tlist, y) - 0
      BY <1>3
    <3>3. QED
      BY <1>0, <2>3, <3>1, <3>2
  <2>4. QED
    BY <2>1, <2>2, <2>3
<1>6. ListsOK(Lists)'
  BY <1>0, <1>4, <1>5 DEF ListsOK, Lists
<1>7. Counted
  BY <1>5, <1>6 DEF Counted
<1>8. QED
  BY <1>0, <1>1, <1>2, <1>3, <1>7

\* One jiffy takes as much from the deadlines as from the timeout's time.
LEMMA JiffyInvariant ==
    ASSUME IInv, Jiffy
    PROVE  IInv'
<1>1. /\ Counted /\ UNCHANGED <<allevents, nexttimeout, pc, fired>>
      /\ phase \in 0 .. 3 /\ phase' \in 0 .. 3
      /\ (phase' = phase + 1 /\ phase' # 0) \/ (phase = TICK - 1 /\ phase' = 0)
      /\ behind' = IF allevents = <<>> THEN 0 ELSE behind + 1
      /\ \A y \in Ids(tlist) : IdAt(tlist, y) \in Int /\ IdAt(tlist, y) > -MaxLate
      /\ pc \in {"idle", "func"}
  BY JiffyIs
<1>2. EvList(allevents) /\ behind \in Nat /\ Typed /\ Handle /\ Covered
  BY DEF IInv, Typed
<1>3. Typed'
  <2>1. behind' \in Nat
    BY <1>1, <1>2
  <2>2. pc' # "loop" /\ phase' \in 0 .. TICK - 1
    BY <1>1 DEF TICK
  <2>3. QED
    BY <2>1, <2>2, <1>1, <1>2 DEF Typed
<1>4. ListsOK(Lists)' /\ Ids(tlist') = Ids(tlist)
  BY <1>1 DEF Counted
<1>5. Handle'
  BY <1>1, <1>2 DEF Handle, Counted
<1>6. NotLate'
  <2>1. ASSUME NEW y \in Ids(tlist')
        PROVE  IdAt(tlist', y) > -MaxLate - TICK /\ (IdAt(tlist', y) >= -MaxLate \/ phase' = 0)
    <3>1. y \in Ids(tlist) /\ IdAt(tlist', y) = IdAt(tlist, y) - (IF phase' = 0 THEN TICK ELSE 0)
      BY <1>1 DEF Counted
    <3>2. IdAt(tlist, y) \in Int /\ IdAt(tlist, y) > -MaxLate /\ MaxLate \in Nat
      BY <1>1, <3>1, MaxLateIsNat
    <3>3. CASE phase' = 0
      BY <3>1, <3>2, <3>3 DEF TICK
    <3>4. CASE phase' # 0
      <4>1. IdAt(tlist', y) = IdAt(tlist, y) - 0
        BY <3>1, <3>4
      <4>2. QED
        BY <3>2, <4>1 DEF TICK
    <3>5. QED
      BY <3>3, <3>4
  <2>2. QED
    BY <2>1 DEF NotLate
<1>7. Covered'
  <2> SUFFICES ASSUME pc' \in {"idle", "alarms"}, nexttimeout' # Null, NEW e \in Armed(allevents')
               PROVE  DueIn(allevents', behind', e) >= IdAt(tlist', nexttimeout') - phase' - 1
    BY DEF Covered
  <2> DEFINE x == EvAt(allevents, e)
             y == IdAt(tlist, nexttimeout)
             c == IF phase' = 0 THEN TICK ELSE 0
  <2>1. allevents' = allevents /\ nexttimeout' = nexttimeout /\ pc \in {"idle", "alarms"} /\ nexttimeout # Null
    BY <1>1
  <2>2. e \in Armed(allevents) /\ allevents # <<>>
    BY <2>1 DEF Armed
  <2>3. nexttimeout \in Ids(tlist)
    BY <2>1, <2>2, <1>2 DEF Handle
  <2>4. behind' = behind + 1
    BY <1>1, <2>2
  <2>5. x \in Int
    BY <1>2, <2>2, EvAtIsInt
  <2>6. y \in Int
    BY <1>1, <2>3
  <2>7. DueIn(allevents, behind, e) >= y - phase - 1
    BY <1>2, <2>1, <2>2 DEF Covered
  <2>8. DueIn(allevents, behind, e) = 2 * x - behind /\ DueIn(allevents', behind', e) = 2 * x - (behind + 1)
    BY <2>1, <2>4 DEF DueIn, EVTGRAN
  <2>9. IdAt(tlist', nexttimeout') = y - c
    BY <1>1, <2>1, <2>3 DEF Counted
  <2>10. c \in Int /\ phase \in Int /\ phase' \in Int /\ c + phase' = phase + 1
    <3> HIDE DEF x, y
    <3>1. c = IF phase' = 0 THEN TICK ELSE 0
      OBVIOUS
    <3> HIDE DEF c
    <3>2. QED
      BY <3>1, <1>1, TickPhase
  <2> HIDE DEF x, y, c
  <2>11. 2 * x - (behind + 1) >= y - c - phase' - 1
    <3>1. behind \in Int
      BY <1>2
    <3>2. 2 * x - behind >= y - phase - 1
      BY <2>7, <2>8
    <3>3. QED
      BY <3>1, <3>2, <2>5, <2>6, <2>10, TickRounding
  <2>12. QED
    BY <2>8, <2>9, <2>11
<1>8. QED
  BY <1>1, <1>2, <1>3, <1>4, <1>5, <1>6, <1>7 DEF IInv

\* Every step keeps the invariant.
LEMMA NextInvariant == IInv /\ [Next]_vars => IInv'
<1> SUFFICES ASSUME IInv, [Next]_vars PROVE IInv'
  OBVIOUS
<1>1. CASE \E e \in Events, d \in Delays : event_add(e, d)
  BY <1>1, ClientInvariant
<1>2. CASE \E e \in Events, d \in {d \in Delays : d > 0} : event_reset(e, d)
  BY <1>2, ClientInvariant
<1>3. CASE \E e \in Events : event_del(e)
  BY <1>3, EventDelInvariant
<1>4. CASE event_delta \/ EventReturns
  BY <1>4, EventDeltaInvariant
<1>5. CASE checkalarms \/ AlarmsDone
  BY <1>5, AlarmsInvariant
<1>6. CASE CheckEventsStart
  BY <1>6, CheckEventsStartInvariant
<1>7. CASE OtherFunc
  BY <1>7, OtherFuncInvariant
<1>8. CASE CallEvent
  BY <1>8, CallEventInvariant
<1>9. CASE CheckEventsEnd
  BY <1>9, CheckEventsEndInvariant
<1>10. CASE InterruptAdds
  BY <1>10, InterruptAddsInvariant
<1>11. CASE Jiffy
  BY <1>11, JiffyInvariant
<1>12. CASE UNCHANGED vars
  <2>1. UNCHANGED <<allevents, behind, nexttimeout, tlist, expire_list, phase, pc, fired>>
    BY <1>12 DEF vars
  <2>2. ListsOK(Lists)' /\ EvList(allevents') /\ Typed' /\ Handle' /\ NotLate' /\ Covered'
    BY <2>1 DEF IInv, Lists, Typed, Handle, NotLate, Covered
  <2>3. QED
    BY <2>2 DEF IInv
<1>13. QED
  BY <1>1, <1>2, <1>3, <1>4, <1>5, <1>6, <1>7, <1>8, <1>9, <1>10, <1>11, <1>12 DEF Next

\* The delta lists, the handle between them and their times are as they should
\* be in every reachable state.
LEMMA InvariantAlways == Spec => []IInv
<1>1. Init => IInv
  BY InitInvariant
<1>2. IInv /\ [Next]_vars => IInv'
  BY NextInvariant
<1>3. QED
  BY <1>1, <1>2, PTL DEF Spec

(***************************************************************************)
(* The invariants of the runs                                              *)
(***************************************************************************)
\* A function that gives each of the first n numbers a value of its own counts
\* its values.
LEMMA CountOnce ==
    ASSUME NEW n \in Nat, NEW f, NEW S, f = [i \in 1 .. n |-> f[i]],
           \A i, j \in 1 .. n : f[i] = f[j] => i = j, S = {f[i] : i \in 1 .. n}
    PROVE  IsFiniteSet(S) /\ Cardinality(S) = n
<1>1. f \in [1 .. n -> S]
  OBVIOUS
<1>2. f \in Bijection(1 .. n, S)
  <2>1. f \in Injection(1 .. n, S)
    BY <1>1 DEF Injection, IsInjective
  <2>2. f \in Surjection(1 .. n, S)
    BY <1>1 DEF Surjection
  <2>3. QED
    BY <2>1, <2>2 DEF Bijection
<1>3. ExistsBijection(1 .. n, S)
  BY <1>2 DEF ExistsBijection
<1>4. Cardinality(S) = n
  BY <1>3, FS_CountingElements
<1>5. IsFiniteSet(S)
  BY <1>3, FS_NatBijection
<1>6. QED
  BY <1>4, <1>5

\* A list in which each event is once has as many events as members.
LEMMA ArmedCount ==
    ASSUME NEW s, EvList(s)
    PROVE  Cardinality(Armed(s)) = Len(s)
<1>1. s \in Seq(EvRec) /\ EvOnce(s) /\ Len(s) \in Nat
  BY DEF EvList
<1> DEFINE n == Len(s)
           f == [i \in 1 .. n |-> s[i].ev]
           S == {f[i] : i \in 1 .. n}
<1>2. \A i, j \in 1 .. n : f[i] = f[j] => i = j
  BY <1>1 DEF EvOnce
<1>3. S = Armed(s)
  BY DEF Armed
<1>4. f = [i \in 1 .. n |-> f[i]] /\ n \in Nat /\ S = {f[i] : i \in 1 .. n}
  BY <1>1
<1> HIDE DEF n, f, S
<1>5. Cardinality(S) = n
  BY <1>2, <1>4, CountOnce
<1>6. QED
  BY <1>3, <1>5 DEF n

\* So has a list of timeouts.
LEMMA IdsCount ==
    ASSUME NEW s, Len(s) \in Nat, IdOnce(s)
    PROVE  IsFiniteSet(Ids(s)) /\ Cardinality(Ids(s)) = Len(s)
<1> DEFINE n == Len(s)
           f == [i \in 1 .. n |-> s[i].id]
           S == {f[i] : i \in 1 .. n}
<1>2. \A i, j \in 1 .. n : f[i] = f[j] => i = j
  BY DEF IdOnce
<1>3. S = Ids(s)
  BY DEF Ids
<1>4. f = [i \in 1 .. n |-> f[i]] /\ n \in Nat /\ S = {f[i] : i \in 1 .. n}
  OBVIOUS
<1> HIDE DEF n, f, S
<1>5. IsFiniteSet(S) /\ Cardinality(S) = n
  BY <1>2, <1>4, CountOnce
<1>6. QED
  BY <1>3, <1>5 DEF n

\* No timeout is in both lists or twice in one.
LEMMA BothCount ==
    ASSUME ListsOK(Lists)
    PROVE  Cardinality(Ids(tlist) \cup Ids(expire_list)) = Len(tlist) + Len(expire_list)
<1>1. IdList(tlist) /\ XList(expire_list) /\ Ids(tlist) \cap Ids(expire_list) = {}
  BY DEF ListsOK, Lists
<1>2. Len(tlist) \in Nat /\ IdOnce(tlist) /\ Len(expire_list) \in Nat /\ IdOnce(expire_list)
  BY <1>1 DEF IdList, XList
<1> DEFINE A == Ids(tlist)
           B == Ids(expire_list)
<1>3. IsFiniteSet(A) /\ Cardinality(A) = Len(tlist) /\ IsFiniteSet(B) /\ Cardinality(B) = Len(expire_list)
  BY <1>2, IdsCount
<1>4. A \cap B = {}
  BY <1>1
<1> HIDE DEF A, B
<1>5. Cardinality(A \cup B) = Cardinality(A) + Cardinality(B) - Cardinality(A \cap B)
  BY <1>3, FS_Union
<1>6. Cardinality(A \cap B) = 0
  BY <1>4, FS_EmptySet
<1>7. Cardinality(A \cup B) = Len(tlist) + Len(expire_list)
  BY <1>2, <1>3, <1>5, <1>6
<1>8. QED
  BY <1>7 DEF A, B

\* Records of a smaller set are records of a larger one.
LEMMA SeqOfMore ==
    ASSUME NEW R, NEW S, R \subseteq S, NEW s \in Seq(R)
    PROVE  s \in Seq(S)
<1>1. Len(s) \in Nat /\ s \in [1 .. Len(s) -> R]
  OBVIOUS
<1>2. s \in [1 .. Len(s) -> S]
  BY <1>1
<1>3. s = [i \in 1 .. Len(s) |-> s[i]] /\ \A i \in 1 .. Len(s) : s[i] \in S
  BY <1>2
<1>4. QED
  BY <1>1, <1>2, <1>3, FunctionSeq

\* What is kept of the types implies the types.
LEMMA InvariantTypes == IInv => TypeOK
<1> SUFFICES ASSUME IInv PROVE TypeOK
  OBVIOUS
<1>1. EvList(allevents) /\ ListsOK(Lists) /\ Typed
  BY DEF IInv
<1>2. IdList(tlist) /\ XList(expire_list)
  BY <1>1 DEF ListsOK, Lists
<1>3. allevents \in Seq([ev : Events, delta : Int])
  BY <1>1 DEF EvList, EvRec
<1>4. tlist \in Seq([id : Pool \cup Static, func : {"check_events", "if_doinput"}, delta : Int])
  <2>1. ToRec \subseteq [id : Pool \cup Static, func : {"check_events", "if_doinput"}, delta : Int]
    BY DEF ToRec
  <2>2. tlist \in Seq(ToRec)
    BY <1>2 DEF IdList
  <2>3. QED
    BY <2>1, <2>2, SeqOfMore
<1>5. expire_list \in Seq([id : Pool \cup Static, func : {"check_events", "if_doinput"}, left : -1 .. ExpireLimit])
  <2>1. XRec \subseteq [id : Pool \cup Static, func : {"check_events", "if_doinput"}, left : -1 .. ExpireLimit]
    BY DEF XRec
  <2>2. expire_list \in Seq(XRec)
    BY <1>2 DEF XList
  <2>3. QED
    BY <2>1, <2>2, SeqOfMore
<1>6. /\ Cardinality(Armed(allevents)) = Len(allevents)
      /\ Cardinality(Ids(tlist) \cup Ids(expire_list)) = Len(tlist) + Len(expire_list)
  BY <1>1, ArmedCount, BothCount
<1>7. QED
  BY <1>1, <1>3, <1>4, <1>5, <1>6, Zenon DEF TypeOK, Typed

\* A name that is in the list has a place in it.
LEMMA InvariantHandle == IInv => HandleValid
<1> SUFFICES ASSUME IInv, pc \in {"idle", "alarms"}, nexttimeout # Null
             PROVE  \E i \in 1 .. Len(tlist) : tlist[i].id = nexttimeout /\ tlist[i].func = "check_events"
  BY DEF HandleValid, IInv, Handle
<1>1. nexttimeout \in Ids(tlist) /\ FuncOf(tlist, nexttimeout) = "check_events"
  BY DEF IInv, Handle
<1>2. IndexOf(tlist, nexttimeout) \in 1 .. Len(tlist) /\ tlist[IndexOf(tlist, nexttimeout)].id = nexttimeout
  BY <1>1, IdIndexOf
<1>3. QED
  BY <1>1, <1>2 DEF FuncOf

\* An event is as late as the timeout that comes before it, and one tick and a
\* rounding.
LEMMA InvariantTimely == IInv => Timely
<1> SUFFICES ASSUME IInv, pc = "idle", NEW e \in Armed(allevents)
             PROVE  Deadline(e) >= -(MaxLate + TICK + EVTGRAN)
  BY DEF Timely
<1>1. EvList(allevents) /\ Typed /\ Handle /\ NotLate /\ Covered /\ ListsOK(Lists)
  BY DEF IInv
<1>2. Deadline(e) = DueIn(allevents, behind, e)
  BY DEF Deadline, DueIn, EvAt
<1>3. nexttimeout # Null
  <2>1. allevents # <<>>
    BY DEF Armed
  <2>2. QED
    BY <2>1, <1>1 DEF Handle
<1>4. nexttimeout \in Ids(tlist)
  BY <1>1, <1>3 DEF Handle
<1> DEFINE z == DueIn(allevents, behind, e)
           y == IdAt(tlist, nexttimeout)
<1>5. z \in Int
  BY <1>1, EvAtIsInt DEF DueIn, EVTGRAN, Typed
<1>6. y \in Int
  BY <1>1, <1>4, IdAtIsInt DEF ListsOK, Lists
<1>7. z >= y - phase - 1
  BY <1>1, <1>3 DEF Covered
<1>8. y > -MaxLate - TICK /\ (y >= -MaxLate \/ phase = 0)
  BY <1>1, <1>4 DEF NotLate
<1>9. phase \in 0 .. 3 /\ MaxLate \in Nat
  BY <1>1, MaxLateIsNat DEF Typed, TICK
<1> HIDE DEF z, y
<1>10. z >= -(MaxLate + TICK + EVTGRAN)
  BY <1>5, <1>6, <1>7, <1>8, <1>9 DEF TICK, EVTGRAN
<1>11. QED
  BY <1>2, <1>10 DEF z

\* The delta lists and the handle between them: both lists are what TypeOK says,
\* nexttimeout never dangles, and no event is forgotten.
THEOREM TimerSafety == Spec => []TimerInv
<1>1. Spec => []IInv
  BY InvariantAlways
<1>2. IInv => TimerInv
  BY InvariantTypes, InvariantHandle, InvariantTimely DEF TimerInv
<1>3. QED
  BY <1>1, <1>2, PTL

(***************************************************************************)
(* Timeouts keep their times                                               *)
(***************************************************************************)
\* The timeouts that stay, other than the one nexttimeout then points to, are
\* due when they were, less the period of etv_timer when its clock turned.
TimesKept ==
    \A y \in (Ids(tlist) \cap Ids(tlist')) \ {nexttimeout'} :
        IdAt(tlist', y) = IdAt(tlist, y) - (IF phase = TICK - 1 /\ phase' = 0 THEN TICK ELSE 0)

\* No time passes: the times are the same.
LEMMA NoTickKeepsTimes ==
    ASSUME IInv, phase' = phase,
           \A y \in (Ids(tlist) \cap Ids(tlist')) \ {nexttimeout'} : IdAt(tlist', y) = IdAt(tlist, y)
    PROVE  TimesKept
<1>1. IdList(tlist) /\ phase \in 0 .. TICK - 1
  BY DEF IInv, ListsOK, Lists, Typed
<1>2. ~(phase = TICK - 1 /\ phase' = 0)
  BY DEF TICK
<1>3. ASSUME NEW y \in (Ids(tlist) \cap Ids(tlist')) \ {nexttimeout'}
      PROVE  IdAt(tlist', y) = IdAt(tlist, y) - (IF phase = TICK - 1 /\ phase' = 0 THEN TICK ELSE 0)
  <2>1. IdAt(tlist', y) = IdAt(tlist, y) /\ IdAt(tlist, y) \in Int
    BY <1>1, <1>3, IdAtIsInt
  <2>2. IdAt(tlist, y) = IdAt(tlist, y) - 0
    BY <2>1
  <2>3. QED
    BY <1>2, <2>1, <2>2
<1>4. QED
  BY <1>3 DEF TimesKept

\* A driver's timeout comes among the others.
LEMMA InterruptAddsIs ==
    ASSUME IInv, InterruptAdds
    PROVE  SameIn(tlist', tlist) /\ phase' = phase
<1>1. PICK d \in InputDelays, id \in Candidates(Lists, "if_doinput", Static) :
          SetLists(addroottimeout(Lists, id, "if_doinput", d))
  BY DEF InterruptAdds
<1> DEFINE n == addroottimeout(Lists, id, "if_doinput", d)
<1>2. tlist' = n.t
  BY <1>1 DEF SetLists
<1>3. ListsOK(Lists) /\ Lists.t = tlist
  BY DEF IInv, Lists
<1>4. d \in Int
  BY TimerAssumption
<1>5. id \notin Ids(tlist) /\ [id |-> id, func |-> "if_doinput", delta |-> 0] \in ToRec
  <2>1. Static \subseteq Pool \cup Static /\ ("if_doinput" = "check_events" => Static = Pool)
    OBVIOUS
  <2>2. QED
    BY <1>3, <2>1, CandidateIs
<1>6. SameIn(n.t, tlist)
  BY <1>3, <1>4, <1>5, AddedIs
<1>7. QED
  BY <1>2, <1>6 DEF InterruptAdds

\* The queue's changes move no timeout but that of check_events.
LEMMA RescheduledKeepsTimes ==
    ASSUME IInv, NEW e, NEW d, Rescheduled(e, d), phase' = phase
    PROVE  TimesKept
<1>1. CASE UNCHANGED tlist
  BY <1>1, NoTickKeepsTimes
<1>2. CASE Rearmed(d)
  <2>1. \A y \in (Ids(tlist) \cap Ids(tlist')) \ {nexttimeout'} : IdAt(tlist', y) = IdAt(tlist, y)
    BY <1>2 DEF Rearmed
  <2>2. QED
    BY <2>1, NoTickKeepsTimes
<1>3. QED
  BY <1>1, <1>2 DEF Rescheduled

\* Nor does a step that keeps the times in tlist of those that stay there.
LEMMA SameKeepsTimes ==
    ASSUME IInv, phase' = phase, SameIn(tlist', tlist) \/ UNCHANGED tlist
    PROVE  TimesKept
<1>1. \A y \in (Ids(tlist) \cap Ids(tlist')) \ {nexttimeout'} : IdAt(tlist', y) = IdAt(tlist, y)
  BY DEF SameIn
<1>2. QED
  BY <1>1, NoTickKeepsTimes

\* The timer interrupt takes its period from all of them.
LEMMA JiffyKeepsTimes ==
    ASSUME IInv, Jiffy
    PROVE  TimesKept
<1>1. Counted /\ ((phase' = phase + 1 /\ phase' # 0) \/ (phase = TICK - 1 /\ phase' = 0))
  BY JiffyIs
<1>2. phase' = 0 <=> (phase = TICK - 1 /\ phase' = 0)
  BY <1>1
<1>3. QED
  BY <1>1, <1>2 DEF TimesKept, Counted

\* Every step keeps the times.
LEMMA NextKeepsTimes == IInv /\ [Next]_vars => TimesKept
<1> SUFFICES ASSUME IInv, [Next]_vars PROVE TimesKept
  OBVIOUS
<1>1. ASSUME NEW e \in Events, NEW d \in Delays, event_add(e, d)
      PROVE  TimesKept
  <2>1. phase' = phase
    BY <1>1 DEF event_add
  <2>2. QED
    BY <1>1, <2>1, AddIs, RescheduledKeepsTimes, SameKeepsTimes
<1>2. ASSUME NEW e \in Events, NEW d \in Delays, d > 0, event_reset(e, d)
      PROVE  TimesKept
  <2>1. phase' = phase
    BY <1>2, Zenon DEF event_reset
  <2>2. QED
    BY <1>2, <2>1, ResetIs, RescheduledKeepsTimes
<1>3. CASE \/ \E e \in Events : event_del(e)
           \/ event_delta \/ checkalarms \/ CallEvent \/ EventReturns \/ AlarmsDone
           \/ UNCHANGED vars
  <2>1. UNCHANGED <<tlist, phase>>
    BY <1>3 DEF event_del, event_delta, checkalarms, CallEvent, EventReturns, AlarmsDone, vars, toVars, evVars
  <2>2. QED
    BY <2>1, SameKeepsTimes
<1>4. CASE CheckEventsStart \/ OtherFunc
  <2>1. tlist # <<>> /\ Fire /\ phase' = phase
    BY <1>4 DEF CheckEventsStart, OtherFunc, Due
  <2>2. SameIn(tlist', tlist)
    BY <2>1, FireIs DEF Fired
  <2>3. QED
    BY <2>1, <2>2, SameKeepsTimes
<1>5. CASE CheckEventsEnd
  <2>1. phase' = phase
    BY <1>5 DEF CheckEventsEnd
  <2>2. CASE allevents = <<>>
    <3>1. UNCHANGED tlist
      BY <1>5, <2>2 DEF CheckEventsEnd, toVars
    <3>2. QED
      BY <2>1, <3>1, SameKeepsTimes
  <2>3. CASE allevents # <<>>
    <3> DEFINE d == Head(allevents).delta
    <3>1. Request(Lists, d, "alarms") /\ ListsOK(Lists) /\ Lists.t = tlist
      BY <1>5, <2>3 DEF CheckEventsEnd, IInv, Lists
    <3>2. d \in Int
      <4>1. allevents \in Seq(EvRec)
        BY DEF IInv, EvList
      <4>2. Head(allevents) \in EvRec
        BY <4>1, <2>3
      <4>3. QED
        BY <4>2 DEF EvRec
    <3> HIDE DEF d
    <3>3. UNCHANGED tlist \/ Requested(Lists, d)
      BY <3>1, <3>2, RequestIs
    <3>4. Requested(Lists, d) => SameIn(tlist', tlist)
      BY <3>1 DEF Requested
    <3>5. QED
      BY <2>1, <3>3, <3>4, SameKeepsTimes
  <2>4. QED
    BY <2>2, <2>3
<1>6. CASE InterruptAdds
  BY <1>6, InterruptAddsIs, SameKeepsTimes
<1>7. CASE Jiffy
  BY <1>7, JiffyKeepsTimes
<1>8. QED
  BY <1>1, <1>2, <1>3, <1>4, <1>5, <1>6, <1>7 DEF Next

\* Adding, cancelling, reusing and firing one timeout leaves the deadlines of
\* the others alone.
THEOREM TimesStay == Spec => TimeoutsKeepTime
<1>1. IInv /\ [Next]_vars =>
          [\A id \in (Ids(tlist) \cap Ids(tlist')) \ {nexttimeout'} :
              Prefix(tlist')[IndexOf(tlist', id)] =
                  Prefix(tlist)[IndexOf(tlist, id)]
                      - (IF phase = TICK - 1 /\ phase' = 0 THEN TICK ELSE 0)]_vars
  BY NextKeepsTimes DEF TimesKept, IdAt
<1>2. Spec => []IInv
  BY InvariantAlways
<1>3. QED
  BY <1>1, <1>2, PTL DEF Spec, TimeoutsKeepTime

(***************************************************************************)
(* The queue implements the table of deadlines                             *)
(***************************************************************************)
\* The table: the deadline of every event in the queue
Dues == [e \in Armed(allevents) |-> Deadline(e)]

\* Before and after a step
LEMMA DuesAre ==
    /\ DOMAIN Dues = Armed(allevents) /\ \A f \in Armed(allevents) : Dues[f] = OldDue(f)
    /\ Dues' = [f \in Armed(allevents') |-> NewDue(f)]
<1>1. DOMAIN Dues = Armed(allevents) /\ \A f \in Armed(allevents) : Dues[f] = OldDue(f)
  BY DEF Dues, Deadline, OldDue, DueIn, EvAt
<1>2. Dues' = [f \in Armed(allevents') |-> NewDue(f)]
  BY DEF Dues, Deadline, NewDue, DueIn, EvAt
<1>3. QED
  BY <1>1, <1>2

\* The empty queue is the empty table.
LEMMA NoDues ==
    ASSUME allevents = <<>>
    PROVE  Dues = <<>>
<1>1. Armed(allevents) = {}
  BY DEF Armed
<1>2. Dues = [e \in {} |-> Deadline(e)]
  BY <1>1 DEF Dues
<1>3. DOMAIN <<>> = {} /\ <<>> = [e \in DOMAIN <<>> |-> <<>>[e]]
  OBVIOUS
<1>4. QED
  BY <1>2, <1>3

\* Who leaves the queue leaves the table.
LEMMA DroppedIsOff ==
    ASSUME NEW e, Dropped(e)
    PROVE  Dues' = [f \in DOMAIN Dues \ {e} |-> Dues[f]]
<1>1. Armed(allevents') = Armed(allevents) \ {e} /\ \A f \in Armed(allevents') : NewDue(f) = OldDue(f)
  BY DEF Dropped
<1>2. DOMAIN Dues \ {e} = Armed(allevents')
  BY <1>1, DuesAre
<1>3. \A f \in Armed(allevents') : Dues[f] = NewDue(f)
  BY <1>1, DuesAre
<1>4. QED
  BY <1>2, <1>3, DuesAre

\* Who is rescheduled gets the deadline asked for, or one jiffy less.
LEMMA RescheduledIsArm ==
    ASSUME NEW e, NEW d, Rescheduled(e, d)
    PROVE  /\ behind' \in {0, 1}
           /\ Dues' = [f \in DOMAIN Dues \cup {e} |-> IF f = e THEN 2 * d - behind' ELSE Dues[f]]
<1>1. /\ Armed(allevents') = Armed(allevents) \cup {e} /\ behind' \in 0 .. 1 /\ EvAt(allevents', e) = d
      /\ \A f \in Armed(allevents) \ {e} : NewDue(f) = OldDue(f)
  BY DEF Rescheduled
<1>2. NewDue(e) = 2 * d - behind'
  BY <1>1 DEF NewDue, DueIn, EVTGRAN
<1>3. DOMAIN Dues \cup {e} = Armed(allevents')
  BY <1>1, DuesAre
<1>4. \A f \in Armed(allevents') : NewDue(f) = IF f = e THEN 2 * d - behind' ELSE Dues[f]
  <2>1. \A f \in Armed(allevents) : Dues[f] = OldDue(f)
    BY DuesAre
  <2>2. QED
    BY <1>1, <1>2, <2>1
<1>5. behind' \in {0, 1}
  BY <1>1
<1>6. Dues' = [f \in Armed(allevents') |-> IF f = e THEN 2 * d - behind' ELSE Dues[f]]
  BY <1>4, DuesAre
<1>7. QED
  BY <1>3, <1>5, <1>6

\* When nobody is moved the table stays.
LEMMA SameDues ==
    ASSUME Armed(allevents') = Armed(allevents), \A f \in Armed(allevents') : NewDue(f) = OldDue(f)
    PROVE  Dues' = Dues
<1>1. Dues = [f \in Armed(allevents) |-> OldDue(f)]
  BY DEF Dues, Deadline, OldDue, DueIn, EvAt
<1>2. QED
  BY <1>1, DuesAre

\* A jiffy takes one from each.
LEMMA JiffyDues ==
    ASSUME IInv, Jiffy
    PROVE  Dues' = [f \in DOMAIN Dues |-> Dues[f] - 1] /\ fired' = fired
<1>1. allevents' = allevents /\ behind' = (IF allevents = <<>> THEN 0 ELSE behind + 1) /\ fired' = fired
  BY DEF Jiffy
<1>2. ASSUME NEW f \in Armed(allevents)
      PROVE  NewDue(f) = OldDue(f) - 1
  <2> DEFINE x == EvAt(allevents, f)
  <2>1. x \in Int /\ behind \in Int
    BY EvAtIsInt DEF IInv, Typed
  <2>2. behind' = behind + 1
    BY <1>1 DEF Armed
  <2>3. NewDue(f) = 2 * x - (behind + 1) /\ OldDue(f) = 2 * x - behind
    BY <1>1, <2>2 DEF NewDue, OldDue, DueIn, EVTGRAN
  <2> HIDE DEF x
  <2>4. QED
    BY <2>1, <2>3
<1>3. Dues' = [f \in Armed(allevents) |-> Dues[f] - 1]
  BY <1>1, <1>2, DuesAre
<1>4. QED
  BY <1>1, <1>3, DuesAre

\* The first state
LEMMA TableInit == Init => table!Init
<1> SUFFICES ASSUME Init PROVE table!Init
  OBVIOUS
<1>1. Dues = <<>>
  BY NoDues DEF Init
<1>2. fired = Null
  BY DEF Init
<1>3. table!Null = Null
  BY Zenon DEF table!Null, Null
<1>4. QED
  BY <1>1, <1>2, <1>3 DEF table!Init, Dues

\* Each step of the queue is one of the table, or leaves it alone.
LEMMA TableStep == IInv /\ [Next]_vars => [table!Next]_<<Dues, fired>>
<1> SUFFICES ASSUME IInv, [Next]_vars PROVE table!Next \/ UNCHANGED <<Dues, fired>>
  OBVIOUS
<1>0. table!Null = Null
  BY Zenon DEF table!Null, Null
<1>1. ASSUME NEW e \in Events, NEW d \in Delays, Rescheduled(e, d)
      PROVE  table!Next
  <2>1. fired' = Null /\ d \in Int /\ d > 0
    BY <1>1, TimerAssumption DEF Rescheduled
  <2>2. \E early \in {0, 1} :
            Dues' = [f \in DOMAIN Dues \cup {e} |-> IF f = e THEN 2 * d - early ELSE Dues[f]]
    BY <1>1, RescheduledIsArm
  <2>3. table!Arm(e, d)
    <3>1. ~(d <= 0)
      BY <2>1
    <3>2. fired' = table!Null
      BY <2>1, <1>0
    <3>3. QED
      BY <2>2, <3>1, <3>2, Zenon DEF table!Arm, Dues
  <2>4. QED
    BY <2>3 DEF table!Next
<1>2. ASSUME NEW e, Dropped(e)
      PROVE  table!Off(e)
  BY <1>2, DroppedIsOff DEF table!Off, Dues
<1>3. ASSUME NEW e \in Events, NEW d \in Delays, event_add(e, d)
      PROVE  table!Next
  <2>1. CASE d > 0 /\ Rescheduled(e, d)
    BY <1>1, <2>1
  <2>2. CASE d <= 0 /\ Dropped(e) /\ fired' = e
    BY <1>2, <2>2 DEF table!Next, table!Arm
  <2>3. QED
    BY <1>3, <2>1, <2>2, AddIs
<1>4. ASSUME NEW e \in Events, NEW d \in Delays, d > 0, event_reset(e, d)
      PROVE  table!Next
  BY <1>1, <1>4, ResetIs
<1>5. ASSUME NEW e \in Events, event_del(e)
      PROVE  table!Next
  <2>1. allevents' = event_remove(allevents, e) /\ fired' = Null /\ behind' = behind
    BY <1>5 DEF event_del
  <2>2. Dropped(e)
    BY <2>1, DroppedIs DEF IInv
  <2>3. QED
    BY <1>0, <1>2, <2>1, <2>2 DEF table!Next, table!Disarm
<1>6. CASE event_delta \/ CheckEventsStart \/ EventReturns
  <2>1. allevents' = HeadUpdated(allevents, behind) /\ behind' = BehindUpdated(allevents, behind) /\ fired' = fired
    BY <1>6 DEF event_delta, CheckEventsStart, EventReturns
  <2>2. QED
    BY <2>1, UpdateInvariant, SameDues
<1>7. CASE checkalarms \/ OtherFunc \/ CheckEventsEnd \/ AlarmsDone \/ InterruptAdds \/ UNCHANGED vars
  <2>1. UNCHANGED <<allevents, behind, fired>>
    BY <1>7 DEF checkalarms, OtherFunc, CheckEventsEnd, AlarmsDone, InterruptAdds, evVars, vars
  <2>2. \A f \in Armed(allevents') : NewDue(f) = OldDue(f)
    BY <2>1 DEF NewDue, OldDue
  <2>3. QED
    BY <2>1, <2>2, SameDues
<1>8. CASE CallEvent
  <2> DEFINE h == Head(allevents).ev
             x == Head(allevents).delta
  <2>1. allevents # <<>> /\ allevents' = Unlink(allevents, 1) /\ fired' = h /\ behind' = behind /\ x <= 0
    BY <1>8 DEF CallEvent
  <2>2. Dropped(h) /\ h \in Armed(allevents) /\ OldDue(h) = EVTGRAN * x - behind /\ x \in Int /\ h \in Events
    BY <2>1, HeadRemoved
  <2>3. behind \in Nat
    BY DEF IInv, Typed
  <2> HIDE DEF h, x
  <2>4. OldDue(h) <= 0
    BY <2>1, <2>2, <2>3 DEF EVTGRAN
  <2>5. h \in DOMAIN Dues /\ Dues[h] <= 0
    BY <2>2, <2>4, DuesAre
  <2>6. table!Expire(h)
    BY <1>2, <2>1, <2>2, <2>5 DEF table!Expire, Dues
  <2>7. QED
    BY <2>2, <2>6 DEF table!Next
<1>9. CASE Jiffy
  <2>1. Dues' = [f \in DOMAIN Dues |-> Dues[f] - 1] /\ fired' = fired
    BY <1>9, JiffyDues
  <2>2. table!Jiffy
    BY <2>1 DEF table!Jiffy, Dues
  <2>3. QED
    BY <2>2 DEF table!Next
<1>10. QED
  BY <1>3, <1>4, <1>5, <1>6, <1>7, <1>8, <1>9 DEF Next

\* The delta list of timer.c is a table of independent deadlines.
THEOREM QueueIsTable == Spec => Deadlines
<1>1. Init => table!Init
  BY TableInit
<1>2. IInv /\ [Next]_vars => [table!Next]_<<[e \in Armed(allevents) |-> Deadline(e)], fired>>
  BY TableStep DEF Dues
<1>3. Spec => []IInv
  BY InvariantAlways
<1>4. QED
  BY <1>1, <1>2, <1>3, PTL DEF Spec, Deadlines, table!Spec
=============================================================================
