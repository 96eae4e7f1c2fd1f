------------------------------ MODULE ListProofs ------------------------------
(***************************************************************************)
(* What Keep returns, for every sequence and every set.  Induction over    *)
(* the length of a sequence is by its least counterexample: the induction  *)
(* theorems of the library have an operator as a parameter, the existence  *)
(* of minimal elements (WFMin) has not.                                    *)
(***************************************************************************)
EXTENDS Lists, SequenceTheorems, WellFoundedInduction, TLAPS

\* A set of naturals that is not empty has a least member.
LEMMA LeastNatural ==
    ASSUME NEW T, T \subseteq Nat, T # {}
    PROVE  \E m \in T : \A k \in T : m <= k
<1> DEFINE R == OpToRel(<, Nat)
<1>1. IsWellFoundedOn(R, Nat)
  BY NatLessThanWellFounded, Zenon
<1>2. \A x, y \in Nat : x < y => <<x, y>> \in R
  BY DEF OpToRel
<1> HIDE DEF R
<1>3. \E x \in T : \A y \in T : ~ (<<y, x>> \in R)
  BY <1>1, WFMin, Zenon
<1>4. PICK x \in T : \A y \in T : ~ (<<y, x>> \in R)
  BY <1>3
<1>5. ASSUME NEW y \in T PROVE x <= y
  <2>1. x \in Nat /\ y \in Nat
    OBVIOUS
  <2>2. ~ (y < x)
    BY <1>2, <1>4, <2>1
  <2> QED
    BY <2>1, <2>2
<1> QED
  BY <1>5

\* Induction up to n, for a property given as the set of those that have it.
LEMMA InductionUpTo ==
    ASSUME NEW n \in Nat, NEW T, 0 \in T, \A i \in 0..(n - 1) : i \in T => i + 1 \in T
    PROVE  0..n \subseteq T
<1> SUFFICES ASSUME (0..n) \ T # {} PROVE FALSE
  OBVIOUS
<1>1. PICK m \in (0..n) \ T : \A k \in (0..n) \ T : m <= k
  <2>1. (0..n) \ T \subseteq Nat
    OBVIOUS
  <2> QED
    BY <2>1, LeastNatural
<1>2. m # 0 /\ m - 1 \in T
  BY <1>1
<1> QED
  BY <1>1, <1>2

\* The recursive function exists: its equation holds.
LEMMA KeptDef ==
    ASSUME NEW s, NEW T, Len(s) \in Nat
    PROVE  Kept(s, T) = [i \in 0..Len(s) |->
               IF i = 0 THEN <<>>
               ELSE IF s[i] \in T THEN Append(Kept(s, T)[i - 1], s[i]) ELSE Kept(s, T)[i - 1]]
<1> DEFINE Step(f, i) == IF i = 0 THEN <<>>
                         ELSE IF s[i] \in T THEN Append(f[i - 1], s[i]) ELSE f[i - 1]
           Has == {n \in 0..Len(s) : \E f : f = [i \in 0..n |-> Step(f, i)]}
<1>1. 0 \in Has
  <2> DEFINE f == [i \in 0..0 |-> <<>>]
  <2>1. f = [i \in 0..0 |-> Step(f, i)]
    OBVIOUS
  <2> HIDE DEF f
  <2>2. \E x : x = [i \in 0..0 |-> Step(x, i)]
    BY <2>1
  <2> QED
    BY <2>2
<1>2. ASSUME NEW n \in 0..(Len(s) - 1), n \in Has
      PROVE  n + 1 \in Has
  <2>1. PICK f : f = [i \in 0..n |-> Step(f, i)]
    BY <1>2
  <2> DEFINE g == [i \in 0..(n + 1) |-> IF i = n + 1 THEN Step(f, n + 1) ELSE f[i]]
  <2>2. ASSUME NEW i \in 0..(n + 1) PROVE g[i] = Step(g, i)
    <3>1. CASE i = n + 1
      <4>1. g[n] = f[n] /\ g[n + 1] = Step(f, n + 1)
        OBVIOUS
      <4> QED
        BY <3>1, <4>1
    <3>2. CASE i # n + 1
      <4>1. i \in 0..n /\ g[i] = f[i] /\ (i # 0 => g[i - 1] = f[i - 1])
        BY <3>2
      <4>2. f[i] = Step(f, i)
        BY <2>1, <4>1
      <4> QED
        BY <4>1, <4>2
    <3> QED
      BY <3>1, <3>2
  <2>3. g = [i \in 0..(n + 1) |-> Step(g, i)]
    BY <2>2
  <2> HIDE DEF g
  <2>4. \E x : x = [i \in 0..(n + 1) |-> Step(x, i)]
    BY <2>3
  <2>5. n + 1 \in 0..Len(s)
    OBVIOUS
  <2> HIDE DEF Step
  <2> QED
    BY <2>4, <2>5
<1>3. Len(s) \in Has
  <2> HIDE DEF Has
  <2>1. 0..Len(s) \subseteq Has
    BY <1>1, <1>2, InductionUpTo
  <2> QED
    BY <2>1
<1>4. \E f : f = [i \in 0..Len(s) |-> Step(f, i)]
  BY <1>3
<1> QED
  BY <1>4, Zenon DEF Kept

\* The same, member by member.
LEMMA KeptStep ==
    ASSUME NEW S, NEW s \in Seq(S), NEW T
    PROVE  /\ Kept(s, T)[0] = <<>>
           /\ \A i \in 1..Len(s) :
                 Kept(s, T)[i] = IF s[i] \in T THEN Append(Kept(s, T)[i - 1], s[i])
                                 ELSE Kept(s, T)[i - 1]
<1> DEFINE K == Kept(s, T)
<1>1. Len(s) \in Nat
  OBVIOUS
<1>2. K = [i \in 0..Len(s) |->
              IF i = 0 THEN <<>>
              ELSE IF s[i] \in T THEN Append(K[i - 1], s[i]) ELSE K[i - 1]]
  BY <1>1, KeptDef
<1> HIDE DEF K
<1>3. K[0] = <<>>
  <2>1. 0 \in 0..Len(s)
    BY <1>1
  <2> QED
    BY <1>2, <2>1
<1>4. ASSUME NEW i \in 1..Len(s)
      PROVE  K[i] = IF s[i] \in T THEN Append(K[i - 1], s[i]) ELSE K[i - 1]
  <2>1. i \in 0..Len(s) /\ i # 0
    BY <1>1
  <2> QED
    BY <1>2, <2>1, Zenon
<1> QED
  BY <1>3, <1>4 DEF K

\* k has those of the first n members of s that are in T, and nothing else.
HasThose(k, s, n, S, T) ==
    /\ k \in Seq(S \cap T)
    /\ \A j \in 1..Len(k) : \E i \in 1..n : k[j] = s[i]
    /\ \A i \in 1..n : s[i] \in T => \E j \in 1..Len(k) : k[j] = s[i]

\* That is so at every place of the recursive function.
LEMMA KeptMembers ==
    ASSUME NEW S, NEW s \in Seq(S), NEW T, NEW m \in 0..Len(s)
    PROVE  HasThose(Kept(s, T)[m], s, m, S, T)
<1> DEFINE K == Kept(s, T)
           Right(k, n) == HasThose(k, s, n, S, T)
           R == {n \in 0..Len(s) : Right(K[n], n)}
<1>1. K[0] = <<>>
  BY KeptStep
<1>2. \A i \in 1..Len(s) : K[i] = IF s[i] \in T THEN Append(K[i - 1], s[i]) ELSE K[i - 1]
  BY KeptStep
<1> HIDE DEF K
<1>3. 0 \in R
  <2>1. Right(<<>>, 0)
    BY DEF HasThose
  <2>2. 0 \in 0..Len(s)
    OBVIOUS
  <2> HIDE DEF Right
  <2> QED
    BY <1>1, <2>1, <2>2
<1>4. ASSUME NEW n \in 0..(Len(s) - 1), NEW k, Right(k, n)
      PROVE  Right(IF s[n + 1] \in T THEN Append(k, s[n + 1]) ELSE k, n + 1)
  <2>1. n \in Nat /\ n + 1 \in 1..Len(s) /\ s[n + 1] \in S /\ k \in Seq(S \cap T)
    BY <1>4 DEF HasThose
  <2>2. CASE s[n + 1] \in T
    <3> DEFINE l == Append(k, s[n + 1])
    <3>1. /\ l \in Seq(S \cap T)
          /\ Len(l) = Len(k) + 1
          /\ \A j \in 1..Len(k) : l[j] = k[j]
          /\ l[Len(k) + 1] = s[n + 1]
          /\ Len(k) \in Nat
      BY <2>1, <2>2
    <3> HIDE DEF l
    <3>2. ASSUME NEW j \in 1..Len(l) PROVE \E i \in 1..(n + 1) : l[j] = s[i]
      <4>1. CASE j = Len(k) + 1
        BY <2>1, <3>1, <4>1
      <4>2. CASE j # Len(k) + 1
        <5>1. j \in 1..Len(k)
          BY <3>1, <4>2
        <5>2. PICK i \in 1..n : k[j] = s[i]
          BY <1>4, <5>1 DEF HasThose
        <5> QED
          BY <2>1, <3>1, <5>1, <5>2
      <4> QED
        BY <4>1, <4>2
    <3>3. ASSUME NEW i \in 1..(n + 1), s[i] \in T PROVE \E j \in 1..Len(l) : l[j] = s[i]
      <4>1. CASE i = n + 1
        BY <3>1, <4>1
      <4>2. CASE i # n + 1
        <5>1. i \in 1..n
          BY <2>1, <4>2
        <5>2. PICK j \in 1..Len(k) : k[j] = s[i]
          BY <1>4, <3>3, <5>1 DEF HasThose
        <5> QED
          BY <3>1, <5>2
      <4> QED
        BY <4>1, <4>2
    <3>4. Right(l, n + 1)
      BY <3>1, <3>2, <3>3 DEF HasThose
    <3> QED
      BY <2>2, <3>4 DEF l
  <2>3. CASE s[n + 1] \notin T
    <3>1. \A i \in 1..(n + 1) : s[i] \in T => i \in 1..n
      BY <2>1, <2>3
    <3>2. \A i \in 1..n : i \in 1..(n + 1)
      BY <2>1
    <3>3. Right(k, n + 1)
      BY <1>4, <3>1, <3>2 DEF HasThose
    <3> QED
      BY <2>3, <3>3
  <2> QED
    BY <2>2, <2>3
<1>5. 0..Len(s) \subseteq R
  <2> HIDE DEF Right
  <2>1. ASSUME NEW n \in 0..(Len(s) - 1), n \in R
        PROVE  n + 1 \in R
    <3>1. n + 1 \in 1..Len(s) /\ n + 1 \in 0..Len(s) /\ (n + 1) - 1 = n
      OBVIOUS
    <3>2. K[n + 1] = IF s[n + 1] \in T THEN Append(K[n], s[n + 1]) ELSE K[n]
      BY <1>2, <3>1
    <3>3. Right(K[n], n)
      BY <2>1
    <3>4. Right(K[n + 1], n + 1)
      BY <1>4, <3>2, <3>3
    <3> QED
      BY <3>1, <3>4
  <2> HIDE DEF R
  <2>2. Len(s) \in Nat
    OBVIOUS
  <2> QED
    BY <1>3, <2>1, <2>2, InductionUpTo
<1>6. Right(K[m], m)
  <2> HIDE DEF Right
  <2> QED
    BY <1>5
<1> QED
  BY <1>6 DEF K

\* Keep returns the members of s that are in T, all of them and nothing else.
THEOREM KeepMembers ==
    ASSUME NEW S, NEW s \in Seq(S), NEW T
    PROVE  /\ Keep(s, T) \in Seq(S \cap T)
           /\ \A k \in DOMAIN Keep(s, T) : \E i \in DOMAIN s : Keep(s, T)[k] = s[i]
           /\ \A i \in DOMAIN s : s[i] \in T => \E k \in DOMAIN Keep(s, T) : Keep(s, T)[k] = s[i]
<1>1. Len(s) \in 0..Len(s) /\ DOMAIN s = 1..Len(s)
  OBVIOUS
<1>2. PICK k : k = Kept(s, T)[Len(s)]
  OBVIOUS
<1>3. HasThose(k, s, Len(s), S, T)
  BY <1>1, <1>2, KeptMembers
<1>4. DOMAIN k = 1..Len(k)
  BY <1>3 DEF HasThose
<1>5. /\ k \in Seq(S \cap T)
      /\ \A j \in DOMAIN k : \E i \in DOMAIN s : k[j] = s[i]
      /\ \A i \in DOMAIN s : s[i] \in T => \E j \in DOMAIN k : k[j] = s[i]
  BY <1>1, <1>3, <1>4 DEF HasThose
<1> QED
  BY <1>2, <1>5 DEF Keep

\* Nothing is kept of nothing.
LEMMA KeepEmpty ==
    ASSUME NEW T
    PROVE  Keep(<<>>, T) = <<>>
<1>1. <<>> \in Seq({}) /\ Len(<<>>) = 0
  OBVIOUS
<1> QED
  BY <1>1, KeptStep DEF Keep

\* What is kept of the first members depends on nothing that follows.
LEMMA KeptOfAppend ==
    ASSUME NEW S, NEW s \in Seq(S), NEW x \in S, NEW T
    PROVE  \A n \in 0..Len(s) : Kept(Append(s, x), T)[n] = Kept(s, T)[n]
<1> DEFINE t == Append(s, x)
           K == Kept(s, T)
           L == Kept(t, T)
           Same == {n \in 0..Len(s) : L[n] = K[n]}
<1>1. t \in Seq(S) /\ Len(t) = Len(s) + 1 /\ \A i \in 1..Len(s) : t[i] = s[i]
  OBVIOUS
<1>2. /\ K[0] = <<>>
      /\ \A i \in 1..Len(s) : K[i] = IF s[i] \in T THEN Append(K[i - 1], s[i]) ELSE K[i - 1]
  BY KeptStep
<1> HIDE DEF t
<1>3. /\ L[0] = <<>>
      /\ \A i \in 1..Len(t) : L[i] = IF t[i] \in T THEN Append(L[i - 1], t[i]) ELSE L[i - 1]
  BY <1>1, KeptStep
<1> HIDE DEF K, L
<1>4. 0 \in Same
  BY <1>2, <1>3
<1>5. ASSUME NEW n \in 0..(Len(s) - 1), n \in Same
      PROVE  n + 1 \in Same
  BY <1>1, <1>2, <1>3, <1>5
<1>6. 0..Len(s) \subseteq Same
  <2> HIDE DEF Same
  <2> QED
    BY <1>4, <1>5, InductionUpTo
<1> QED
  BY <1>6 DEF K, L, t

\* Appending a member in T appends it to what is kept; another is dropped.
THEOREM KeepAppend ==
    ASSUME NEW S, NEW s \in Seq(S), NEW x \in S, NEW T
    PROVE  Keep(Append(s, x), T) = IF x \in T THEN Append(Keep(s, T), x) ELSE Keep(s, T)
<1> DEFINE t == Append(s, x)
<1>1. t \in Seq(S) /\ Len(t) = Len(s) + 1 /\ t[Len(t)] = x /\ Len(s) \in Nat
  OBVIOUS
<1>2. Kept(t, T)[Len(s)] = Kept(s, T)[Len(s)]
  BY <1>1, KeptOfAppend
<1> HIDE DEF t
<1>3. Kept(t, T)[Len(t)] = IF t[Len(t)] \in T THEN Append(Kept(t, T)[Len(t) - 1], t[Len(t)])
                           ELSE Kept(t, T)[Len(t) - 1]
  <2>1. Len(t) \in 1..Len(t)
    BY <1>1
  <2> QED
    BY <1>1, <2>1, KeptStep
<1>4. Len(t) - 1 = Len(s)
  BY <1>1
<1>5. Keep(t, T) = IF x \in T THEN Append(Keep(s, T), x) ELSE Keep(s, T)
  BY <1>1, <1>2, <1>3, <1>4 DEF Keep
<1> QED
  BY <1>5 DEF t

\* What is kept of a concatenation is the concatenation of what is kept.
THEOREM KeepConcat ==
    ASSUME NEW S, NEW s \in Seq(S), NEW t \in Seq(S), NEW T
    PROVE  Keep(s \o t, T) = Keep(s, T) \o Keep(t, T)
<1> DEFINE Upto(n) == SubSeq(t, 1, n)
           Good == {n \in 0..Len(t) : Keep(s \o Upto(n), T) = Keep(s, T) \o Keep(Upto(n), T)}
<1>1. Len(t) \in Nat
  BY LenProperties
<1>2. ASSUME NEW q \in Seq(S) PROVE Keep(q, T) \in Seq(S \cap T)
  <2>1. Keep(q, T) \in Seq(S \cap T)
    BY KeepMembers
  <2> QED
    BY <2>1
<1>3. ASSUME NEW n \in 0..Len(t) PROVE Upto(n) \in Seq(S)
  <2>1. \A i \in 1..n : t[i] \in S
    BY <1>1, ElementOfSeq
  <2> QED
    BY <2>1, SubSeqProperties
<1>4. 0 \in Good
  <2>1. Upto(0) = <<>>
    BY SubSeqEmpty
  <2>2. s \o <<>> = s
    BY ConcatEmptySeq
  <2>3. Keep(<<>>, T) = <<>>
    BY KeepEmpty
  <2>4. Keep(s, T) \o <<>> = Keep(s, T)
    BY <1>2, ConcatEmptySeq
  <2>5. 0 \in 0..Len(t)
    BY <1>1
  <2> HIDE DEF Upto
  <2> QED
    BY <2>1, <2>2, <2>3, <2>4, <2>5
<1>5. ASSUME NEW n \in 0..(Len(t) - 1), n \in Good
      PROVE  n + 1 \in Good
  <2> DEFINE c == Upto(n)
             x == t[n + 1]
             k == Keep(s, T)
             l == Keep(c, T)
  <2>1. n \in 0..Len(t) /\ n + 1 \in 1..Len(t) /\ n + 1 \in 0..Len(t) /\ (n + 1) - 1 = n
    BY <1>1
  <2>2. c \in Seq(S) /\ x \in S
    BY <1>3, <2>1, ElementOfSeq
  <2>3. Upto(n + 1) = c \o <<x>>
    <3>1. 1 \in 1..Len(t) /\ n + 1 \in 1..Len(t)
      BY <1>1, <2>1
    <3>2. SubSeq(t, 1, n + 1) = SubSeq(t, 1, (n + 1) - 1) \o <<t[n + 1]>>
      BY <3>1, SubSeqRecursiveSecond
    <3> QED
      BY <2>1, <3>2
  <2>4. Keep(s \o c, T) = k \o l
    BY <1>5
  <2>5. k \in Seq(S \cap T) /\ l \in Seq(S \cap T)
    BY <1>2, <2>2
  <2> HIDE DEF c, x, Upto
  <2>6. Upto(n + 1) = Append(c, x) /\ s \o c \in Seq(S) /\ s \o Append(c, x) = Append(s \o c, x)
    BY <2>2, <2>3
  <2>7. Keep(Append(s \o c, x), T) = IF x \in T THEN Append(Keep(s \o c, T), x) ELSE Keep(s \o c, T)
    <3> DEFINE d == s \o c
    <3>1. d \in Seq(S) /\ x \in S
      BY <2>2, <2>6
    <3> HIDE DEF d
    <3>2. Keep(Append(d, x), T) = IF x \in T THEN Append(Keep(d, T), x) ELSE Keep(d, T)
      BY <3>1, KeepAppend
    <3> QED
      BY <3>2 DEF d
  <2>10. Keep(Append(c, x), T) = IF x \in T THEN Append(l, x) ELSE l
    BY <2>2, KeepAppend
  <2> HIDE DEF k, l
  <2>8. x \in T => k \o Append(l, x) = Append(k \o l, x)
    BY <2>2, <2>5
  <2>9. Keep(s \o Upto(n + 1), T) = k \o Keep(Upto(n + 1), T)
    BY <2>4, <2>6, <2>7, <2>8, <2>10
  <2> QED
    BY <2>1, <2>9 DEF k
<1>6. 0..Len(t) \subseteq Good
  <2> HIDE DEF Good
  <2> QED
    BY <1>1, <1>4, <1>5, InductionUpTo
<1>7. Upto(Len(t)) = t
  BY SubSeqFull
<1>8. Len(t) \in 0..Len(t)
  BY <1>1
<1> HIDE DEF Upto
<1> QED
  BY <1>6, <1>7, <1>8
\* k is what the strictly increasing h picks of the first n members of s, and
\* h picks all those in T.
Picks(h, k, s, n, T) ==
    /\ h \in [1..Len(k) -> 1..n]
    /\ \A j \in 1..Len(k) : k[j] = s[h[j]]
    /\ \A i, j \in 1..Len(k) : i < j => h[i] < h[j]
    /\ \A i \in 1..n : s[i] \in T => \E j \in 1..Len(k) : h[j] = i

\* At every place of the recursive function there is such an h.
LEMMA KeptInOrder ==
    ASSUME NEW S, NEW s \in Seq(S), NEW T, NEW m \in 0..Len(s)
    PROVE  \E h : Picks(h, Kept(s, T)[m], s, m, T)
<1> DEFINE K == Kept(s, T)
           Right(k, n) == k \in Seq(S \cap T) /\ \E h : Picks(h, k, s, n, T)
           R == {n \in 0..Len(s) : Right(K[n], n)}
<1>1. K[0] = <<>>
  BY KeptStep
<1>2. \A i \in 1..Len(s) : K[i] = IF s[i] \in T THEN Append(K[i - 1], s[i]) ELSE K[i - 1]
  BY KeptStep
<1> HIDE DEF K
<1>3. 0 \in R
  <2> DEFINE h == [j \in 1..0 |-> 0]
  <2>1. /\ Len(<<>>) = 0 /\ <<>> \in Seq(S \cap T)
        /\ h \in [1..0 -> 1..0] /\ 1..0 = {}
    OBVIOUS
  <2> HIDE DEF h
  <2>2. Picks(h, <<>>, s, 0, T)
    BY <2>1 DEF Picks
  <2>3. Right(<<>>, 0)
    BY <2>1, <2>2
  <2>4. 0 \in 0..Len(s)
    OBVIOUS
  <2> HIDE DEF Right
  <2> QED
    BY <1>1, <2>3, <2>4
<1>4. ASSUME NEW n \in 0..(Len(s) - 1), NEW k, Right(k, n)
      PROVE  Right(IF s[n + 1] \in T THEN Append(k, s[n + 1]) ELSE k, n + 1)
  <2>1. n \in Nat /\ n + 1 \in 1..Len(s) /\ s[n + 1] \in S /\ k \in Seq(S \cap T) /\ Len(k) \in Nat
    BY <1>4
  <2>2. PICK h : Picks(h, k, s, n, T)
    BY <1>4
  <2>3. CASE s[n + 1] \in T
    <3> DEFINE l == Append(k, s[n + 1])
    <3>1. PICK c \in Nat : c = Len(k)
      BY <2>1
    <3> DEFINE g == [j \in 1..(c + 1) |-> IF j = c + 1 THEN n + 1 ELSE h[j]]
    <3>2. /\ l \in Seq(S \cap T)
          /\ Len(l) = c + 1
          /\ \A j \in 1..c : l[j] = k[j]
          /\ l[c + 1] = s[n + 1]
      BY <2>1, <2>3, <3>1
    <3>3. /\ h \in [1..c -> 1..n]
          /\ \A j \in 1..c : k[j] = s[h[j]]
          /\ \A i, j \in 1..c : i < j => h[i] < h[j]
          /\ \A i \in 1..n : s[i] \in T => \E j \in 1..c : h[j] = i
      BY <2>2, <3>1 DEF Picks
    <3>4. \A j \in 1..(c + 1) : g[j] = IF j = c + 1 THEN n + 1 ELSE h[j]
      OBVIOUS
    <3>5. /\ \A j \in 1..c : h[j] \in 1..n /\ g[j] = h[j]
          /\ g[c + 1] = n + 1
      BY <3>1, <3>3, <3>4
    <3>6. g \in [1..(c + 1) -> 1..(n + 1)]
      BY <2>1, <3>1, <3>3
    <3> HIDE DEF l, g
    <3>7. ASSUME NEW j \in 1..(c + 1)
          PROVE  g[j] \in 1..(n + 1) /\ l[j] = s[g[j]] /\ (j # c + 1 => j \in 1..c)
      <4>1. CASE j = c + 1
        BY <2>1, <3>1, <3>2, <3>5, <4>1
      <4>2. CASE j # c + 1
        <5>1. j \in 1..c
          BY <3>1, <4>2
        <5> QED
          BY <2>1, <3>2, <3>5, <3>3, <5>1
      <4> QED
        BY <4>1, <4>2
    <3>8. ASSUME NEW i \in 1..(c + 1), NEW j \in 1..(c + 1), i < j PROVE g[i] < g[j]
      <4>1. i \in 1..c
        BY <3>1, <3>8
      <4>2. CASE j \in 1..c
        BY <3>5, <3>3, <3>8, <4>1, <4>2
      <4>3. CASE j = c + 1
        <5>1. g[i] \in 1..n /\ g[j] = n + 1
          BY <3>5, <4>1, <4>3
        <5> QED
          BY <2>1, <5>1
      <4> QED
        BY <3>7, <4>2, <4>3
    <3>9. ASSUME NEW i \in 1..(n + 1), s[i] \in T PROVE \E j \in 1..(c + 1) : g[j] = i
      <4>1. CASE i = n + 1
        BY <2>1, <3>1, <3>5, <4>1
      <4>2. CASE i # n + 1
        <5>1. i \in 1..n
          BY <2>1, <4>2
        <5>2. PICK j \in 1..c : h[j] = i
          BY <3>3, <3>9, <5>1
        <5>3. j \in 1..(c + 1) /\ g[j] = i
          BY <3>1, <3>5, <5>2
        <5> QED
          BY <5>3
      <4> QED
        BY <4>1, <4>2
    <3>10. Picks(g, l, s, n + 1, T)
      BY <3>2, <3>7, <3>6, <3>8, <3>9 DEF Picks
    <3>11. Right(l, n + 1)
      BY <3>2, <3>10
    <3> QED
      BY <2>3, <3>11 DEF l
  <2>4. CASE s[n + 1] \notin T
    <3>1. \A i \in 1..(n + 1) : s[i] \in T => i \in 1..n
      BY <2>1, <2>4
    <3>2. h \in [1..Len(k) -> 1..(n + 1)]
      BY <2>1, <2>2 DEF Picks
    <3>3. Picks(h, k, s, n + 1, T)
      BY <2>2, <3>1, <3>2 DEF Picks
    <3> QED
      BY <2>1, <2>4, <3>3
  <2> QED
    BY <2>3, <2>4
<1>5. 0..Len(s) \subseteq R
  <2> HIDE DEF Right
  <2>1. ASSUME NEW n \in 0..(Len(s) - 1), n \in R
        PROVE  n + 1 \in R
    <3>1. n + 1 \in 1..Len(s) /\ n + 1 \in 0..Len(s) /\ (n + 1) - 1 = n
      OBVIOUS
    <3>2. K[n + 1] = IF s[n + 1] \in T THEN Append(K[n], s[n + 1]) ELSE K[n]
      BY <1>2, <3>1
    <3>3. Right(K[n], n)
      BY <2>1
    <3>4. Right(K[n + 1], n + 1)
      BY <1>4, <3>2, <3>3
    <3> QED
      BY <3>1, <3>4
  <2> HIDE DEF R
  <2>2. Len(s) \in Nat
    OBVIOUS
  <2> QED
    BY <1>3, <2>1, <2>2, InductionUpTo
<1>6. Right(K[m], m)
  <2> HIDE DEF Right
  <2> QED
    BY <1>5
<1> QED
  BY <1>6 DEF K

\* Keep returns them in the order they have in s, each once: h says where
\* each member of the result was.
THEOREM KeepInOrder ==
    ASSUME NEW S, NEW s \in Seq(S), NEW T
    PROVE  \E h \in [DOMAIN Keep(s, T) -> DOMAIN s] :
              /\ \A k \in DOMAIN Keep(s, T) : Keep(s, T)[k] = s[h[k]]
              /\ \A k, l \in DOMAIN Keep(s, T) : k < l => h[k] < h[l]
              /\ \A i \in DOMAIN s : s[i] \in T => \E k \in DOMAIN Keep(s, T) : h[k] = i
<1>1. Len(s) \in 0..Len(s) /\ DOMAIN s = 1..Len(s)
  OBVIOUS
<1>2. PICK k : k = Kept(s, T)[Len(s)]
  OBVIOUS
<1>3. PICK h : Picks(h, k, s, Len(s), T)
  BY <1>1, <1>2, KeptInOrder
<1>4. k = Keep(s, T)
  BY <1>2 DEF Keep
<1>5. DOMAIN k = 1..Len(k)
  <2>1. k \in Seq(S \cap T)
    BY <1>4, KeepMembers
  <2> QED
    BY <2>1
<1>6. /\ h \in [DOMAIN k -> DOMAIN s]
      /\ \A i \in DOMAIN k : k[i] = s[h[i]]
      /\ \A i, j \in DOMAIN k : i < j => h[i] < h[j]
      /\ \A i \in DOMAIN s : s[i] \in T => \E j \in DOMAIN k : h[j] = i
  BY <1>1, <1>3, <1>5 DEF Picks
<1> QED
  BY <1>4, <1>6
=============================================================================
