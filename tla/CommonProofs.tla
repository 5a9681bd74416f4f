---------------------------- MODULE CommonProofs ----------------------------
(***************************************************************************)
(* Lemmas the other proofs share: least elements (which stand in for       *)
(* induction), sequences of elements of no particular set, and what Total  *)
(* gives and how it changes when one account does.                         *)
(***************************************************************************)
EXTENDS Sums, SequencesExt, WellFoundedInduction, FiniteSetTheorems, TLAPS

\* A nonempty set of naturals has a least element.
LEMMA LeastNat ==
  \A T \in SUBSET Nat : T # {} => \E m \in T : \A k \in T : m <= k
<1> SUFFICES ASSUME NEW T \in SUBSET Nat, T # {}
             PROVE  \E m \in T : \A k \in T : m <= k
  OBVIOUS
<1>1. \E m \in T : \A k \in T : ~(<<k, m>> \in OpToRel(<, Nat))
  BY NatLessThanWellFounded, WFMin
<1>2. PICK m \in T : \A k \in T : ~(<<k, m>> \in OpToRel(<, Nat))
  BY <1>1
<1>3. ASSUME NEW k \in T PROVE m <= k
  <2>1. k \in Nat /\ m \in Nat
    OBVIOUS
  <2>2. ~(k < m)
    BY <1>2, <2>1 DEF OpToRel
  <2> QED
    BY <2>1, <2>2
<1> QED
  BY <1>3

-----------------------------------------------------------------------------
(* Sequences of no matter what *)

IsSeq(s) == \E S : s \in Seq(S)

LEMMA Appended ==
  ASSUME NEW s, IsSeq(s), NEW e
  PROVE  /\ IsSeq(Append(s, e))
         /\ Len(s) \in Nat /\ Len(Append(s, e)) = Len(s) + 1
         /\ \A i \in 1..Len(s) : Append(s, e)[i] = s[i]
         /\ Append(s, e)[Len(s) + 1] = e
<1>1. PICK S : s \in Seq(S) BY DEF IsSeq
<1>2. s \in Seq(S \cup {e}) BY <1>1
<1>3. Append(s, e) \in Seq(S \cup {e}) BY <1>2
<1> QED BY <1>2, <1>3 DEF IsSeq

LEMMA WithoutFirst ==
  ASSUME NEW s, IsSeq(s), Len(s) > 0
  PROVE  /\ IsSeq(Tail(s))
         /\ Len(s) \in Nat /\ Len(Tail(s)) = Len(s) - 1
         /\ \A i \in 1..Len(Tail(s)) : Tail(s)[i] = s[i + 1]
<1>1. PICK S : s \in Seq(S) BY DEF IsSeq
<1>2. s # <<>> BY <1>1
<1>3. Tail(s) \in Seq(S) BY <1>1, <1>2
<1> QED BY <1>1, <1>2, <1>3 DEF IsSeq

LEMMA EmptyIs == IsSeq(<<>>) /\ Len(<<>>) = 0
<1>1. <<>> \in Seq({}) OBVIOUS
<1> QED BY <1>1 DEF IsSeq

LEMMA InSet ==
  ASSUME NEW s, IsSeq(s), NEW x
  PROVE  x \in ToSet(s) <=> \E i \in 1..Len(s) : s[i] = x
<1>1. PICK S : s \in Seq(S) BY DEF IsSeq
<1> QED BY <1>1 DEF ToSet

LEMMA SeqsEqual ==
  ASSUME NEW s, NEW t, IsSeq(s), IsSeq(t), Len(s) = Len(t),
         \A i \in 1..Len(s) : s[i] = t[i]
  PROVE  s = t
<1>1. PICK S : s \in Seq(S) BY DEF IsSeq
<1>2. PICK T : t \in Seq(T) BY DEF IsSeq
<1>3. s \in Seq(S \cup T) /\ t \in Seq(S \cup T) BY <1>1, <1>2
<1> QED BY <1>3

\* The first k elements.
LEMMA Beginning ==
  ASSUME NEW s, IsSeq(s), NEW k \in 0..Len(s)
  PROVE  /\ IsSeq(SubSeq(s, 1, k)) /\ Len(SubSeq(s, 1, k)) = k
         /\ \A i \in 1..k : SubSeq(s, 1, k)[i] = s[i]
         /\ \A j \in 0..k : SubSeq(SubSeq(s, 1, k), 1, j) = SubSeq(s, 1, j)
         /\ SubSeq(s, 1, Len(s)) = s
<1>1. PICK S : s \in Seq(S) BY DEF IsSeq
<1>2. Len(s) \in Nat /\ k \in Nat BY <1>1
<1>3. SubSeq(s, 1, k) \in Seq(S) /\ Len(SubSeq(s, 1, k)) = k
  BY <1>1, <1>2
<1>4. \A i \in 1..k : SubSeq(s, 1, k)[i] = s[i] BY <1>1, <1>2
<1>5. SubSeq(s, 1, Len(s)) = s BY <1>1, <1>2
<1>6. \A j \in 0..k : SubSeq(SubSeq(s, 1, k), 1, j) = SubSeq(s, 1, j)
  BY <1>1, <1>2, <1>3, <1>4
<1> QED BY <1>3, <1>4, <1>5, <1>6 DEF IsSeq

\* The last element and the rest.
LEMMA FrontLast ==
  ASSUME NEW s, IsSeq(s), s # <<>>
  PROVE  /\ IsSeq(Front(s))
         /\ Len(s) \in Nat \ {0} /\ Len(Front(s)) = Len(s) - 1
         /\ \A i \in 1..Len(Front(s)) : Front(s)[i] = s[i]
         /\ Last(s) = s[Len(s)]
         /\ s = Append(Front(s), Last(s))
<1>1. PICK S : s \in Seq(S) BY DEF IsSeq
<1>2. Len(s) \in Nat \ {0} BY <1>1
<1>3. Front(s) \in Seq(S) /\ Len(Front(s)) = Len(s) - 1
  <2>1. SubSeq(s, 1, Len(s) - 1) \in Seq(S) BY <1>1, <1>2
  <2>2. Len(s) - 1 \in 0..Len(s) BY <1>2
  <2>3. Len(SubSeq(s, 1, Len(s) - 1)) = Len(s) - 1 BY <2>2, Beginning
  <2> QED BY <2>1, <2>3 DEF Front
<1>4. \A i \in 1..Len(Front(s)) : Front(s)[i] = s[i]
  BY <1>1, <1>2, <1>3 DEF Front
<1>5. Last(s) = s[Len(s)] /\ Last(s) \in S BY <1>1, <1>2 DEF Last
<1>6. s = Append(Front(s), Last(s))
  BY <1>1, <1>2, <1>3, <1>4, <1>5
<1> QED BY <1>2, <1>3, <1>4, <1>5, <1>6 DEF IsSeq

LEMMA LastAppended ==
  ASSUME NEW s, IsSeq(s), NEW e
  PROVE  /\ IsSeq(Append(s, e)) /\ Append(s, e) # <<>>
         /\ Front(Append(s, e)) = s /\ Last(Append(s, e)) = e
<1>1. PICK S : s \in Seq(S) BY DEF IsSeq
<1>2. s \in Seq(S \cup {e}) BY <1>1
<1>3. Append(s, e) \in Seq(S \cup {e}) BY <1>2
<1>4. Len(Append(s, e)) = Len(s) + 1 /\ Len(s) \in Nat BY <1>2
<1>5. Front(Append(s, e)) = s BY <1>2, <1>3, <1>4 DEF Front
<1>6. Last(Append(s, e)) = e BY <1>2, <1>3, <1>4 DEF Last
<1>7. Append(s, e) # <<>> BY <1>2, <1>4
<1> QED BY <1>3, <1>5, <1>6, <1>7 DEF IsSeq

LEMMA PrefixMeans ==
  ASSUME NEW s, NEW t, IsSeq(s), IsSeq(t)
  PROVE  /\ Len(s) \in Nat /\ Len(t) \in Nat
         /\ IsPrefix(s, t) <=> Len(s) <= Len(t) /\ \A i \in 1..Len(s) : s[i] = t[i]
<1>1. Len(s) \in Nat /\ Len(t) \in Nat BY DEF IsSeq
<1>2. ASSUME IsPrefix(s, t)
      PROVE  Len(s) <= Len(t) /\ \A i \in 1..Len(s) : s[i] = t[i]
  <2>1. Len(s) <= Len(t) /\ SubSeq(s, 1, Len(s)) = SubSeq(t, 1, Len(s))
    BY <1>2 DEF IsPrefix
  <2>2. Len(s) \in 0..Len(t) /\ Len(s) \in 0..Len(s) BY <1>1, <2>1
  <2>3. \A i \in 1..Len(s) : SubSeq(t, 1, Len(s))[i] = t[i] BY <2>2, Beginning
  <2>4. SubSeq(s, 1, Len(s)) = s BY <2>2, Beginning
  <2> QED BY <2>1, <2>3, <2>4
<1>3. ASSUME Len(s) <= Len(t), \A i \in 1..Len(s) : s[i] = t[i]
      PROVE  IsPrefix(s, t)
  <2> DEFINE u == SubSeq(t, 1, Len(s))
  <2>1. Len(s) \in 0..Len(t) /\ Len(s) \in 0..Len(s) BY <1>1, <1>3
  <2>2. IsSeq(u) /\ Len(u) = Len(s) /\ \A i \in 1..Len(s) : u[i] = t[i]
    BY <2>1, Beginning
  <2>3. SubSeq(s, 1, Len(s)) = s BY <2>1, Beginning
  <2> HIDE DEF u
  <2>4. s = u BY <1>3, <2>2, SeqsEqual
  <2> USE DEF u
  <2> QED BY <1>3, <2>3, <2>4 DEF IsPrefix
<1> QED BY <1>1, <1>2, <1>3

LEMMA PrefixFacts ==
  /\ \A s : IsSeq(s) => IsPrefix(s, s)
  /\ \A s : IsSeq(s) => IsPrefix(<<>>, s)
  /\ \A s, e : IsSeq(s) => IsPrefix(s, Append(s, e))
  /\ \A s, t, u : IsSeq(s) /\ IsSeq(t) /\ IsSeq(u) /\ IsPrefix(s, t) /\ IsPrefix(t, u)
                  => IsPrefix(s, u)
<1>1. ASSUME NEW s, IsSeq(s) PROVE IsPrefix(s, s)
  BY <1>1, PrefixMeans
<1>2. ASSUME NEW s, IsSeq(s) PROVE IsPrefix(<<>>, s)
  BY <1>2, EmptyIs, PrefixMeans
<1>3. ASSUME NEW s, NEW e, IsSeq(s) PROVE IsPrefix(s, Append(s, e))
  <2>1. /\ IsSeq(Append(s, e)) /\ Len(s) \in Nat /\ Len(Append(s, e)) = Len(s) + 1
        /\ \A i \in 1..Len(s) : Append(s, e)[i] = s[i]
    BY <1>3, Appended
  <2>2. Len(s) <= Len(Append(s, e)) /\ \A i \in 1..Len(s) : s[i] = Append(s, e)[i]
    BY <2>1
  <2> QED BY <1>3, <2>1, <2>2, PrefixMeans
<1>4. ASSUME NEW s, NEW t, NEW u, IsSeq(s), IsSeq(t), IsSeq(u),
             IsPrefix(s, t), IsPrefix(t, u)
      PROVE  IsPrefix(s, u)
  <2>1. /\ Len(s) \in Nat /\ Len(t) \in Nat /\ Len(u) \in Nat
        /\ Len(s) <= Len(t) /\ Len(t) <= Len(u)
        /\ \A i \in 1..Len(s) : s[i] = t[i]
        /\ \A i \in 1..Len(t) : t[i] = u[i]
    BY <1>4, PrefixMeans
  <2>2. Len(s) <= Len(u) /\ \A i \in 1..Len(s) : s[i] = u[i] BY <2>1
  <2> QED BY <1>4, <2>2, PrefixMeans
<1> QED BY <1>1, <1>2, <1>3, <1>4

\* Two beginnings of one sequence that are equally long are equal.
LEMMA PrefixesEqual ==
  ASSUME NEW s, NEW t, NEW u, IsSeq(s), IsSeq(t), IsSeq(u),
         IsPrefix(s, u), IsPrefix(t, u), Len(s) = Len(t)
  PROVE  s = t
<1>1. /\ \A i \in 1..Len(s) : s[i] = u[i]
      /\ \A i \in 1..Len(t) : t[i] = u[i]
  BY PrefixMeans
<1> QED BY <1>1, SeqsEqual

-----------------------------------------------------------------------------
(* Sums *)

\* g holds the sums of the first values of f.
SumsOf(g, f, n) ==
  /\ g \in [0..n -> Int]
  /\ g[0] = 0
  /\ \A i \in 1..n : g[i] = g[i-1] + f[i]

LEMMA SumsExist ==
  ASSUME NEW n \in Nat, NEW f \in [1..n -> Int]
  PROVE  \E g : SumsOf(g, f, n)
<1> DEFINE Bad == {m \in 0..n : ~\E g : SumsOf(g, f, m)}
<1>1. SUFFICES ASSUME Bad # {} PROVE FALSE
  <2>1. n \in 0..n
    OBVIOUS
  <2> QED
    BY <1>1, <2>1
<1>2. PICK m \in Bad : \A k \in Bad : m <= k
  <2>1. Bad \in SUBSET Nat
    OBVIOUS
  <2> HIDE DEF Bad
  <2> QED
    BY <1>1, <2>1, LeastNat
<1>3. CASE m = 0
  <2>1. SumsOf([i \in 0..0 |-> 0], f, 0)
    BY DEF SumsOf
  <2> QED
    BY <1>3, <2>1
<1>4. CASE m # 0
  <2>1. m - 1 \in 0..n /\ m - 1 \notin Bad /\ m \in 1..n
    BY <1>2, <1>4
  <2>2. PICK g : SumsOf(g, f, m - 1)
    BY <2>1
  <2>3. g \in [0..m-1 -> Int]
    BY <2>2 DEF SumsOf
  <2> DEFINE h == [i \in 0..m |-> IF i = m THEN g[m-1] + f[m] ELSE g[i]]
  <2>4. h \in [0..m -> Int]
    BY <2>1, <2>3
  <2>5. h[0] = 0
    BY <1>4, <2>1, <2>2 DEF SumsOf
  <2>6. ASSUME NEW i \in 1..m PROVE h[i] = h[i-1] + f[i]
    <3>1. i \in 0..m /\ i - 1 \in 0..m /\ i - 1 # m
      BY <2>1
    <3>2. CASE i = m
      BY <3>1, <3>2
    <3>3. CASE i # m
      <4>1. i \in 1..m-1
        BY <2>1, <3>3
      <4> QED
        BY <3>1, <3>3, <4>1, <2>2 DEF SumsOf
    <3> QED
      BY <3>2, <3>3
  <2>7. SumsOf(h, f, m)
    BY <2>4, <2>5, <2>6 DEF SumsOf
  <2> QED
    BY <2>7
<1> QED
  BY <1>3, <1>4

\* PrefixSums is what its recursive definition says.
LEMMA PrefixSumsAreSums ==
  ASSUME NEW n \in Nat, NEW f \in [1..n -> Int]
  PROVE  SumsOf(PrefixSums(f, n), f, n)
<1> DEFINE Def(g) == g = [i \in 0..n |-> IF i = 0 THEN 0 ELSE g[i-1] + f[i]]
<1>1. PICK g : SumsOf(g, f, n)
  BY SumsExist
<1>2. Def(g)
  <2>1. g = [i \in 0..n |-> g[i]]
    BY <1>1 DEF SumsOf
  <2>2. \A i \in 0..n : g[i] = IF i = 0 THEN 0 ELSE g[i-1] + f[i]
    BY <1>1 DEF SumsOf
  <2> QED
    BY <2>1, <2>2
<1>3. PrefixSums(f, n) = CHOOSE a : Def(a)
  BY DEF PrefixSums
<1>4. Def(PrefixSums(f, n))
  BY <1>2, <1>3
<1> DEFINE P == PrefixSums(f, n)
<1>5. /\ DOMAIN P = 0..n
      /\ \A i \in 0..n : P[i] = IF i = 0 THEN 0 ELSE P[i-1] + f[i]
      /\ P = [i \in 0..n |-> P[i]]
  BY <1>4
<1>6. \A i \in 0..n : P[i] = g[i]
  <2> DEFINE Bad == {m \in 0..n : P[m] # g[m]}
  <2>1. SUFFICES ASSUME Bad # {} PROVE FALSE
    BY <2>1
  <2>2. PICK m \in Bad : \A k \in Bad : m <= k
    <3>1. Bad \in SUBSET Nat
      OBVIOUS
    <3> HIDE DEF Bad
    <3> QED
      BY <2>1, <3>1, LeastNat
  <2>3. m # 0
    BY <1>1, <1>5 DEF SumsOf
  <2>4. m - 1 \in 0..n /\ m - 1 \notin Bad /\ m \in 1..n
    BY <2>2, <2>3
  <2>5. P[m] = P[m-1] + f[m]
    BY <1>5, <2>3
  <2>6. g[m] = g[m-1] + f[m]
    BY <1>1, <2>4 DEF SumsOf
  <2> QED
    BY <2>2, <2>4, <2>5, <2>6
<1>7. P = g
  BY <1>5, <1>6, <1>1 DEF SumsOf
<1> QED
  BY <1>1, <1>7

LEMMA TotalType ==
  ASSUME NEW n \in Nat, NEW f \in [1..n -> Int]
  PROVE  Total(f, n) \in Int
BY PrefixSumsAreSums DEF SumsOf, Total

LEMMA TotalOfZeros ==
  ASSUME NEW n \in Nat
  PROVE  Total([i \in 1..n |-> 0], n) = 0
<1> DEFINE f == [i \in 1..n |-> 0]
           P == PrefixSums(f, n)
           Bad == {m \in 0..n : P[m] # 0}
<1>1. SumsOf(P, f, n)
  BY PrefixSumsAreSums
<1>2. SUFFICES ASSUME Bad # {} PROVE FALSE
  <2>1. n \in 0..n
    OBVIOUS
  <2> QED
    BY <1>2, <2>1 DEF Total
<1>3. PICK m \in Bad : \A k \in Bad : m <= k
  <2>1. Bad \in SUBSET Nat
    OBVIOUS
  <2> HIDE DEF Bad
  <2> QED
    BY <1>2, <2>1, LeastNat
<1>4. m # 0
  BY <1>1 DEF SumsOf
<1>5. m - 1 \in 0..n /\ m - 1 \notin Bad /\ m \in 1..n
  BY <1>3, <1>4
<1>6. P[m] = P[m-1] + f[m] /\ f[m] = 0
  BY <1>1, <1>5 DEF SumsOf
<1> QED
  BY <1>5, <1>6

\* Two functions that differ at k only have totals that differ as they do at k.
LEMMA TotalChange ==
  ASSUME NEW n \in Nat, NEW k \in 1..n,
         NEW f \in [1..n -> Int], NEW g \in [1..n -> Int],
         \A i \in 1..n : i # k => g[i] = f[i]
  PROVE  Total(g, n) = Total(f, n) + g[k] - f[k]
<1> DEFINE P == PrefixSums(f, n)
           Q == PrefixSums(g, n)
           Gap(i) == IF i < k THEN 0 ELSE g[k] - f[k]
           Bad == {m \in 0..n : Q[m] # P[m] + Gap(m)}
<1>1. SumsOf(P, f, n) /\ SumsOf(Q, g, n)
  BY PrefixSumsAreSums
<1>2. SUFFICES ASSUME Bad # {} PROVE FALSE
  <2>1. n \in 0..n /\ ~(n < k)
    OBVIOUS
  <2>2. Q[n] = P[n] + Gap(n)
    BY <1>2, <2>1
  <2>3. P[n] \in Int /\ g[k] \in Int /\ f[k] \in Int
    BY <1>1, <2>1 DEF SumsOf
  <2> QED
    BY <2>1, <2>2, <2>3 DEF Total
<1>3. PICK m \in Bad : \A i \in Bad : m <= i
  <2>1. Bad \in SUBSET Nat
    OBVIOUS
  <2> HIDE DEF Bad
  <2> QED
    BY <1>2, <2>1, LeastNat
<1>4. m # 0
  BY <1>1 DEF SumsOf
<1>5. m - 1 \in 0..n /\ m - 1 \notin Bad /\ m \in 1..n
  BY <1>3, <1>4
<1>6. Q[m] = Q[m-1] + g[m] /\ P[m] = P[m-1] + f[m]
  BY <1>1, <1>5 DEF SumsOf
<1>7. Q[m-1] = P[m-1] + Gap(m-1)
  BY <1>5
<1>8. /\ P[m-1] \in Int /\ Q[m-1] \in Int
      /\ f[m] \in Int /\ g[m] \in Int /\ f[k] \in Int /\ g[k] \in Int
  BY <1>1, <1>5 DEF SumsOf
<1>9. Q[m] = P[m] + Gap(m)
  <2>1. CASE m = k
    BY <1>5, <1>6, <1>7, <1>8, <2>1
  <2>2. CASE m # k
    <3>1. g[m] = f[m]
      BY <1>5, <2>2
    <3>2. Gap(m-1) = Gap(m)
      BY <1>5, <2>2
    <3> QED
      BY <1>6, <1>7, <1>8, <3>1, <3>2
  <2> QED
    BY <2>1, <2>2
<1> QED
  BY <1>3, <1>9

\* Sums of naturals only grow.
LEMMA SumsMonotone ==
  ASSUME NEW n \in Nat, NEW f \in [1..n -> Nat]
  PROVE  \A j \in 0..n : /\ PrefixSums(f, n)[j] \in Nat
                        /\ \A i \in 0..j : PrefixSums(f, n)[i] <= PrefixSums(f, n)[j]
<1> DEFINE P == PrefixSums(f, n)
           Good(j) == P[j] \in Nat /\ \A i \in 0..j : P[i] <= P[j]
           Bad == {j \in 0..n : ~Good(j)}
<1>1. SumsOf(P, f, n)
  <2>1. f \in [1..n -> Int] OBVIOUS
  <2> QED BY <2>1, PrefixSumsAreSums
<1> HIDE DEF P
<1>2. /\ P \in [0..n -> Int] /\ P[0] = 0
      /\ \A i \in 1..n : P[i] = P[i-1] + f[i]
  BY <1>1 DEF SumsOf
<1>3. ASSUME Bad # {} PROVE FALSE
  <2>1. PICK m \in Bad : \A k \in Bad : m <= k
    <3>1. Bad \in SUBSET Nat OBVIOUS
    <3> HIDE DEF Bad
    <3> QED BY <1>3, <3>1, LeastNat
  <2>2. m # 0
    <3>1. Good(0) BY <1>2
    <3> QED BY <2>1, <3>1
  <2>3. m - 1 \in 0..n /\ m - 1 \notin Bad /\ m \in 1..n BY <2>1, <2>2
  <2>4. Good(m - 1) BY <2>3
  <2>5. f[m] \in Nat /\ P[m] = P[m-1] + f[m] BY <1>2, <2>3
  <2>6. P[m] \in Nat /\ P[m-1] <= P[m] BY <2>4, <2>5
  <2>7. ASSUME NEW i \in 0..m PROVE P[i] <= P[m]
    <3>1. CASE i = m BY <2>6, <3>1
    <3>2. CASE i # m
      <4>1. i \in 0..(m - 1) /\ P[i] \in Int BY <1>2, <2>3, <3>2
      <4>2. P[i] <= P[m-1] BY <2>4, <4>1
      <4> QED BY <2>4, <2>6, <4>1, <4>2
    <3> QED BY <3>1, <3>2
  <2> QED BY <2>1, <2>6, <2>7
<1>4. \A j \in 0..n : Good(j) BY <1>3
<1> QED BY <1>4 DEF P

\* Sums of functions that agree up to n.
LEMMA SumsAgree ==
  ASSUME NEW n \in Nat, NEW m \in Nat, n <= m,
         NEW f \in [1..n -> Int], NEW g \in [1..m -> Int],
         \A i \in 1..n : f[i] = g[i]
  PROVE  PrefixSums(g, m)[n] = PrefixSums(f, n)[n]
<1> DEFINE P == PrefixSums(f, n)
           Q == PrefixSums(g, m)
           Bad == {j \in 0..n : Q[j] # P[j]}
<1>1. SumsOf(P, f, n) /\ SumsOf(Q, g, m) BY PrefixSumsAreSums
<1>2. n \in 0..n OBVIOUS
<1> HIDE DEF P, Q
<1>3. ASSUME Bad # {} PROVE FALSE
  <2>1. PICK j \in Bad : \A k \in Bad : j <= k
    <3>1. Bad \in SUBSET Nat OBVIOUS
    <3> HIDE DEF Bad
    <3> QED BY <1>3, <3>1, LeastNat
  <2>2. j # 0 BY <1>1, <2>1 DEF SumsOf
  <2>3. j \in 1..n /\ j \in 1..m /\ j - 1 \in 0..n /\ ~(j <= j - 1) BY <2>1, <2>2
  <2>4. Q[j-1] = P[j-1] BY <2>1, <2>3
  <2>5. P[j] = P[j-1] + f[j] /\ Q[j] = Q[j-1] + g[j] BY <1>1, <2>3 DEF SumsOf
  <2> QED BY <2>1, <2>3, <2>4, <2>5
<1> QED BY <1>2, <1>3 DEF P, Q
=============================================================================
