------------------------------- MODULE Induction -------------------------------
(***************************************************************************)
(* Induction over the naturals as a fact about sets, so that it needs no   *)
(* theorem with an operator as its parameter; what the community modules'  *)
(* FlattenSeq computes for every sequence of sequences; and what Arranged  *)
(* makes of every finite set.                                              *)
(***************************************************************************)
EXTENDS Integers, Sequences, SequencesExt, Arranged, SequenceTheorems, FiniteSetTheorems, TLAPS

(* Every non-empty set of naturals has a least element: strict inclusion   *)
(* is well-founded on the initial segments 1..n.                           *)
LEMMA LeastElement ==
  ASSUME NEW S \in SUBSET Nat, S # {}
  PROVE  \E n \in S : \A m \in S : n <= m
<1> DEFINE T == {1..n : n \in S}
<1>1. T \subseteq FiniteSubsetsOf(Nat) /\ T # {}
  <2>1. ASSUME NEW n \in S PROVE 1..n \in SUBSET Nat /\ IsFiniteSet(1..n)
    <3>1. n \in Int /\ 1 \in Int
      OBVIOUS
    <3>2. IsFiniteSet(1..n)
      BY <3>1, FS_Interval
    <3> QED
      BY <3>1, <3>2
  <2> QED
    BY <2>1 DEF FiniteSubsetsOf
<1>2. IsWellFoundedOn(StrictSubsetOrdering(Nat), FiniteSubsetsOf(Nat))
  BY FS_StrictSubsetOrderingWellFounded
<1>3. \E t \in T : \A u \in T : <<u, t>> \notin StrictSubsetOrdering(Nat)
  <2> HIDE DEF T
  <2> QED
    BY <1>1, <1>2, WFMin
<1>4. PICK n \in S : \A m \in S : <<1..m, 1..n>> \notin StrictSubsetOrdering(Nat)
  BY <1>3
<1>5. ASSUME NEW m \in S, m < n PROVE FALSE
  <2>1. 1..m \subseteq 1..n /\ n \in 1..n /\ n \notin 1..m
    BY <1>5
  <2>2. 1..m \in SUBSET Nat /\ 1..n \in SUBSET Nat
    OBVIOUS
  <2> QED
    BY <1>4, <2>1, <2>2 DEF StrictSubsetOrdering
<1> QED
  BY <1>5

(* A set that holds 1, and with each number below n the next one, holds    *)
(* every number up to n.                                                   *)
LEMMA UpTo ==
  ASSUME NEW n \in Nat, NEW S, 1 \in S,
         \A k \in 1..(n - 1) : k \in S => k + 1 \in S
  PROVE  1..n \subseteq S
<1> DEFINE T == {k \in 1..n : k \notin S}
<1>1. SUFFICES ASSUME T # {} PROVE FALSE
  OBVIOUS
<1>2. T \in SUBSET Nat
  OBVIOUS
<1>3. PICK k \in T : \A m \in T : k <= m
  <2> HIDE DEF T
  <2> QED
    BY <1>1, <1>2, LeastElement
<1>4. k \in 1..n /\ k \notin S /\ k # 1
  OBVIOUS
<1>5. k - 1 \in 1..(n - 1) /\ (k - 1) + 1 = k
  BY <1>4
<1>6. k - 1 \in S
  BY <1>3, <1>5
<1> QED
  BY <1>4, <1>5, <1>6
-----------------------------------------------------------------------------
(* The recursive function inside FlattenSeq exists.                        *)
LEMMA PrefixesExist ==
  ASSUME NEW n \in Nat, n # 0, NEW s
  PROVE  \E f : f = [i \in 1..n |-> IF i = 1 THEN s[i] ELSE f[i - 1] \o s[i]]
<1> DEFINE Body(f, i) == IF i = 1 THEN s[i] ELSE f[i - 1] \o s[i]
           S == {k \in 1..n : \E f : f = [i \in 1..k |-> Body(f, i)]}
<1>1. 1 \in S
  <2> DEFINE f == [i \in 1..1 |-> s[1]]
  <2>1. f = [i \in 1..1 |-> Body(f, i)]
    OBVIOUS
  <2>2. 1 \in 1..n
    OBVIOUS
  <2> HIDE DEF f, Body
  <2> QED
    BY <2>1, <2>2, Zenon
<1>2. ASSUME NEW k \in 1..(n - 1), k \in S PROVE k + 1 \in S
  <2>1. PICK f : f = [i \in 1..k |-> Body(f, i)]
    BY <1>2
  <2> DEFINE g == [i \in 1..(k + 1) |-> IF i = k + 1 THEN f[k] \o s[i] ELSE f[i]]
  <2>2. ASSUME NEW i \in 1..(k + 1) PROVE g[i] = Body(g, i)
    <3>1. CASE i = k + 1
      <4>1. k \in 1..(k + 1) /\ i # 1 /\ i - 1 = k /\ k # k + 1
        BY <3>1
      <4>2. g[k] = f[k] /\ g[i] = f[k] \o s[i]
        BY <3>1, <4>1
      <4> HIDE DEF g
      <4> QED
        BY <4>1, <4>2
    <3>2. CASE i # k + 1
      <4>1. i \in 1..k /\ g[i] = f[i]
        BY <3>2
      <4>2. f[i] = Body(f, i)
        BY <2>1, <4>1
      <4>3. i # 1 => i - 1 \in 1..(k + 1) /\ i - 1 # k + 1
        BY <4>1
      <4>4. i # 1 => g[i - 1] = f[i - 1]
        BY <4>3
      <4> QED
        BY <4>1, <4>2, <4>4
    <3> QED
      BY <3>1, <3>2
  <2>3. g = [i \in 1..(k + 1) |-> Body(g, i)]
    <3> HIDE DEF Body
    <3>1. g = [i \in 1..(k + 1) |-> g[i]]
      OBVIOUS
    <3> HIDE DEF g
    <3> QED
      BY <2>2, <3>1
  <2> HIDE DEF g
  <2>4. k + 1 \in 1..n
    OBVIOUS
  <2> HIDE DEF Body
  <2> QED
    BY <2>3, <2>4, Zenon
<1>3. 1..n \subseteq S
  <2> HIDE DEF S
  <2> QED
    BY <1>1, <1>2, UpTo
<1>4. n \in S
  <2> HIDE DEF S
  <2> QED
    BY <1>3
<1>5. \E f : f = [i \in 1..n |-> Body(f, i)]
  <2> HIDE DEF Body
  <2> QED
    BY <1>4, Zenon
<1> QED
  BY <1>5, Zenon

(* f runs through the prefixes of the concatenation of s[1], ..., s[n].    *)
PrefixJoins(f, s, n, T) ==
  /\ f \in [1..n -> Seq(T)]
  /\ f[1] = s[1]
  /\ \A m \in 1..(n - 1) : f[m + 1] = f[m] \o s[m + 1]
  /\ FlattenSeq(s) = f[n]

(* FlattenSeq, by the prefixes of what it returns.                         *)
LEMMA Flattened ==
  ASSUME NEW T, NEW n \in Nat \ {0}, NEW s \in [1..n -> Seq(T)]
  PROVE  \E f : PrefixJoins(f, s, n, T)
<1> DEFINE F == CHOOSE f : f = [i \in 1..n |-> IF i = 1 THEN s[i] ELSE f[i - 1] \o s[i]]
<1>1. 1 \in 1..n /\ n \in 1..n
  OBVIOUS
<1>2. F = [i \in 1..n |-> IF i = 1 THEN s[i] ELSE F[i - 1] \o s[i]]
  <2>1. \E f : f = [i \in 1..n |-> IF i = 1 THEN s[i] ELSE f[i - 1] \o s[i]]
    BY PrefixesExist
  <2> QED
    BY <2>1
<1>3. FlattenSeq(s) = F[n]
  <2>1. Len(s) = n
    OBVIOUS
  <2> QED
    BY <2>1 DEF FlattenSeq
<1> HIDE DEF F
<1>4. F[1] = s[1] /\ \A m \in 1..(n - 1) : F[m + 1] = F[m] \o s[m + 1]
  <2>1. \A i \in 1..n : F[i] = IF i = 1 THEN s[i] ELSE F[i - 1] \o s[i]
    BY <1>2, Zenon
  <2>2. \A m \in 1..(n - 1) : m + 1 \in 1..n /\ m + 1 # 1 /\ (m + 1) - 1 = m
    OBVIOUS
  <2>3. F[1] = s[1]
    BY <1>1, <2>1, Zenon
  <2>4. ASSUME NEW m \in 1..(n - 1) PROVE F[m + 1] = F[m] \o s[m + 1]
    <3>1. F[m + 1] = F[(m + 1) - 1] \o s[m + 1]
      BY <2>1, <2>2, Zenon
    <3> QED
      BY <2>2, <3>1, Zenon
  <2> QED
    BY <2>3, <2>4
<1>5. \A i \in 1..n : F[i] \in Seq(T)
  <2> DEFINE S == {i \in 1..n : F[i] \in Seq(T)}
  <2>1. 1 \in S
    BY <1>1, <1>4
  <2>2. ASSUME NEW k \in 1..(n - 1), k \in S PROVE k + 1 \in S
    <3>1. k + 1 \in 1..n
      OBVIOUS
    <3>2. s[k + 1] \in Seq(T) /\ F[k] \in Seq(T)
      BY <2>2, <3>1
    <3>3. F[k] \o s[k + 1] \in Seq(T)
      BY <3>2
    <3>4. F[k + 1] = F[k] \o s[k + 1]
      BY <1>4
    <3> QED
      BY <3>1, <3>3, <3>4
  <2>3. 1..n \subseteq S
    <3> HIDE DEF S
    <3> QED
      BY <2>1, <2>2, UpTo
  <2> QED
    BY <2>3
<1>6. F \in [1..n -> Seq(T)]
  <2>1. F = [i \in 1..n |-> F[i]]
    BY <1>2
  <2> QED
    BY <1>5, <2>1
<1> QED
  BY <1>3, <1>4, <1>6 DEF PrefixJoins

(* A name for the equation, so that the provers have one term to match.    *)
Assoc(a, b, c) == (a \o b) \o c = a \o (b \o c)

(* Concatenation is associative.                                           *)
LEMMA Associative ==
  ASSUME NEW T, NEW a \in Seq(T), NEW b \in Seq(T), NEW c \in Seq(T)
  PROVE  Assoc(a, b, c)
  BY ConcatAssociative DEF Assoc

(* A sequence without entries is the empty one.                            *)
LEMMA NoEntries ==
  ASSUME NEW T, NEW s \in Seq(T), DOMAIN s = {}
  PROVE  s = <<>>
  OBVIOUS

(* What the steps below need about single sequences.                       *)
LEMMA ConcatLaws ==
  ASSUME NEW T, NEW a \in Seq(T), NEW b \in Seq(T), NEW x \in T
  PROVE  /\ a \o b \in Seq(T)
         /\ a \o <<>> = a /\ <<>> \o a = a
         /\ a \o Append(b, x) = Append(a \o b, x)
         /\ \A i \in DOMAIN (a \o b) :
              \/ i \in DOMAIN a /\ (a \o b)[i] = a[i]
              \/ i - Len(a) \in DOMAIN b /\ (a \o b)[i] = b[i - Len(a)]
  OBVIOUS

(* The concatenation is a sequence, and every entry of it comes from one   *)
(* of the sequences.                                                       *)
LEMMA FlatEntries ==
  ASSUME NEW T, NEW n \in Nat \ {0}, NEW s \in [1..n -> Seq(T)]
  PROVE  /\ FlattenSeq(s) \in Seq(T)
         /\ \A i \in DOMAIN FlattenSeq(s) :
              \E k \in 1..n : \E j \in DOMAIN s[k] : FlattenSeq(s)[i] = s[k][j]
<1> DEFINE From(e) == \E k \in 1..n : \E j \in DOMAIN s[k] : e = s[k][j]
<1>1. n \in 1..n /\ 1 \in 1..n /\ \A m \in 1..(n - 1) : m \in 1..n /\ m + 1 \in 1..n
  OBVIOUS
<1>2. PICK f : PrefixJoins(f, s, n, T)
  BY Flattened
<1> USE DEF PrefixJoins
<1> DEFINE S == {m \in 1..n : \A i \in DOMAIN f[m] : From(f[m][i])}
<1>3. 1 \in S
  BY <1>1, <1>2
<1>4. ASSUME NEW m \in 1..(n - 1), m \in S PROVE m + 1 \in S
  <2>1. m \in 1..n /\ m + 1 \in 1..n /\ f[m] \in Seq(T) /\ s[m + 1] \in Seq(T)
    BY <1>1, <1>2
  <2>2. f[m + 1] = f[m] \o s[m + 1]
    BY <1>2
  <2>3. ASSUME NEW i \in DOMAIN f[m + 1] PROVE From(f[m + 1][i])
    <3>1. \/ i \in DOMAIN f[m] /\ f[m + 1][i] = f[m][i]
          \/ /\ i - Len(f[m]) \in DOMAIN s[m + 1]
             /\ f[m + 1][i] = s[m + 1][i - Len(f[m])]
      <4> DEFINE a == f[m]
                 b == s[m + 1]
      <4>1. a \in Seq(T) /\ b \in Seq(T) /\ f[m + 1] = a \o b
        BY <2>1, <2>2
      <4> HIDE DEF a, b
      <4>2. i \in DOMAIN (a \o b)
        BY <2>3, <4>1
      <4>3. \/ i \in DOMAIN a /\ (a \o b)[i] = a[i]
            \/ i - Len(a) \in DOMAIN b /\ (a \o b)[i] = b[i - Len(a)]
        BY <4>1, <4>2
      <4> QED
        BY <4>1, <4>3 DEF a, b
    <3>2. CASE i \in DOMAIN f[m] /\ f[m + 1][i] = f[m][i]
      <4>1. From(f[m][i])
        BY <1>4, <3>2
      <4> QED
        BY <3>2, <4>1
    <3>3. CASE /\ i - Len(f[m]) \in DOMAIN s[m + 1]
               /\ f[m + 1][i] = s[m + 1][i - Len(f[m])]
      BY <2>1, <3>3
    <3> QED
      BY <3>1, <3>2, <3>3
  <2> HIDE DEF From
  <2> QED
    BY <2>1, <2>3
<1>5. 1..n \subseteq S
  <2> HIDE DEF S
  <2> QED
    BY <1>3, <1>4, UpTo
<1>6. f[n] \in Seq(T) /\ \A i \in DOMAIN f[n] : From(f[n][i])
  BY <1>1, <1>2, <1>5
<1> QED
  BY <1>2, <1>6

(* Empty sequences concatenate to the empty one.                           *)
LEMMA FlatEmpty ==
  ASSUME NEW T, NEW n \in Nat \ {0}, NEW s \in [1..n -> Seq(T)],
         \A k \in 1..n : s[k] = <<>>
  PROVE  FlattenSeq(s) = <<>>
<1>1. FlattenSeq(s) \in Seq(T)
  BY FlatEntries
<1>2. ASSUME NEW i \in DOMAIN FlattenSeq(s) PROVE FALSE
  <2>1. PICK k \in 1..n : \E j \in DOMAIN s[k] : FlattenSeq(s)[i] = s[k][j]
    BY FlatEntries
  <2> QED
    BY <2>1
<1> QED
  BY <1>1, <1>2

(* One more entry in a sequence that only empty ones follow is one more    *)
(* entry at the end of the concatenation.                                  *)
LEMMA FlatAppend ==
  ASSUME NEW T, NEW n \in Nat \ {0},
         NEW s \in [1..n -> Seq(T)], NEW t \in [1..n -> Seq(T)],
         NEW k \in 1..n, NEW x \in T,
         t[k] = Append(s[k], x),
         \A i \in 1..n : i # k => t[i] = s[i],
         \A i \in 1..n : k < i => s[i] = <<>>
  PROVE  FlattenSeq(t) = Append(FlattenSeq(s), x)
<1>1. n \in 1..n /\ 1 \in 1..n /\ \A m \in 1..(n - 1) : m \in 1..n /\ m + 1 \in 1..n
  OBVIOUS
<1>2. PICK f : PrefixJoins(f, s, n, T)
  BY Flattened
<1>3. PICK g : PrefixJoins(g, t, n, T)
  BY Flattened
<1> USE DEF PrefixJoins
<1> DEFINE S == {m \in 1..n : g[m] = IF m < k THEN f[m] ELSE Append(f[m], x)}
<1>4. 1 \in S
  <2>1. CASE k = 1
    BY <1>1, <1>2, <1>3, <2>1
  <2>2. CASE k # 1
    <3>1. 1 < k
      BY <2>2
    <3> QED
      BY <1>1, <1>2, <1>3, <2>2, <3>1
  <2> QED
    BY <2>1, <2>2
<1>5. ASSUME NEW m \in 1..(n - 1), m \in S PROVE m + 1 \in S
  <2>1. m \in 1..n /\ m + 1 \in 1..n /\ f[m] \in Seq(T) /\ s[m + 1] \in Seq(T)
    BY <1>1, <1>2, <1>3
  <2>2. f[m + 1] = f[m] \o s[m + 1] /\ g[m + 1] = g[m] \o t[m + 1]
    BY <1>2, <1>3
  <2>3. g[m] = IF m < k THEN f[m] ELSE Append(f[m], x)
    BY <1>5
  <2>4. CASE m + 1 < k
    <3>1. t[m + 1] = s[m + 1] /\ m < k
      BY <2>1, <2>4
    <3> QED
      BY <2>1, <2>2, <2>3, <2>4, <3>1
  <2>5. CASE m + 1 = k
    <3>1. g[m] = f[m] /\ t[m + 1] = Append(s[m + 1], x) /\ ~(m + 1 < k)
      BY <2>3, <2>5
    <3>2. f[m] \o Append(s[m + 1], x) = Append(f[m] \o s[m + 1], x)
      <4> DEFINE a == f[m]
                 b == s[m + 1]
      <4>1. a \in Seq(T) /\ b \in Seq(T)
        BY <2>1
      <4> HIDE DEF a, b
      <4>2. a \o Append(b, x) = Append(a \o b, x)
        BY <4>1, ConcatLaws
      <4> QED
        BY <4>2 DEF a, b
    <3>3. g[m + 1] = Append(f[m + 1], x)
      BY <2>2, <3>1, <3>2, Zenon
    <3> QED
      BY <2>1, <3>1, <3>3
  <2>6. CASE m + 1 > k
    <3>1. ~(m < k) /\ ~(m + 1 < k) /\ m + 1 # k /\ k < m + 1
      BY <2>6
    <3>2. s[m + 1] = <<>> /\ t[m + 1] = <<>> /\ g[m] = Append(f[m], x)
      BY <2>1, <2>3, <3>1
    <3>3. f[m + 1] = f[m]
      BY <2>1, <2>2, <3>2, ConcatLaws
    <3>4. Append(f[m], x) \o <<>> = Append(f[m], x)
      BY <2>1
    <3>5. g[m + 1] = Append(f[m + 1], x)
      BY <2>2, <3>2, <3>3, <3>4, Zenon
    <3> QED
      BY <2>1, <3>1, <3>5
  <2> QED
    BY <2>1, <2>4, <2>5, <2>6
<1>6. 1..n \subseteq S
  <2> HIDE DEF S
  <2> QED
    BY <1>4, <1>5, UpTo
<1>7. g[n] = Append(f[n], x)
  <2>1. n \in S /\ ~(n < k)
    BY <1>1, <1>6
  <2> QED
    BY <2>1
<1> QED
  BY <1>2, <1>3, <1>7

(* Without its first sequence the concatenation loses that prefix.         *)
LEMMA FlatDrop ==
  ASSUME NEW T, NEW n \in Nat \ {0},
         NEW s \in [1..n -> Seq(T)], NEW t \in [1..n -> Seq(T)],
         t[1] = <<>>,
         \A i \in 1..n : i # 1 => t[i] = s[i]
  PROVE  FlattenSeq(s) = s[1] \o FlattenSeq(t)
<1>1. /\ n \in 1..n /\ 1 \in 1..n
      /\ \A m \in 1..(n - 1) : m \in 1..n /\ m + 1 \in 1..n /\ m + 1 # 1
  OBVIOUS
<1>2. PICK f : PrefixJoins(f, s, n, T)
  BY Flattened
<1>3. PICK g : PrefixJoins(g, t, n, T)
  BY Flattened
<1> USE DEF PrefixJoins
<1> DEFINE S == {m \in 1..n : f[m] = s[1] \o g[m]}
<1>4. 1 \in S
  <2>1. s[1] \in Seq(T)
    BY <1>1, <1>2, <1>3
  <2>2. s[1] \o <<>> = s[1]
    BY <2>1
  <2> QED
    BY <1>1, <1>2, <1>3, <2>2
<1>5. ASSUME NEW m \in 1..(n - 1), m \in S PROVE m + 1 \in S
  <2>1. /\ m + 1 \in 1..n
        /\ s[1] \in Seq(T) /\ g[m] \in Seq(T) /\ s[m + 1] \in Seq(T)
        /\ t[m + 1] = s[m + 1]
    BY <1>1, <1>2, <1>3
  <2>2. f[m + 1] = f[m] \o s[m + 1] /\ g[m + 1] = g[m] \o t[m + 1]
    BY <1>2, <1>3
  <2>3. f[m] = s[1] \o g[m]
    BY <1>5
  <2>4. (s[1] \o g[m]) \o s[m + 1] = s[1] \o (g[m] \o s[m + 1])
    <3>1. Assoc(s[1], g[m], s[m + 1])
      BY <2>1, Associative
    <3> QED
      BY <3>1 DEF Assoc
  <2>5. f[m + 1] = s[1] \o g[m + 1]
    BY <2>1, <2>2, <2>3, <2>4, Zenon
  <2> QED
    BY <2>1, <2>5
<1>6. 1..n \subseteq S
  <2> HIDE DEF S
  <2> QED
    BY <1>4, <1>5, UpTo
<1>7. f[n] = s[1] \o g[n]
  BY <1>1, <1>6
<1> QED
  BY <1>2, <1>3, <1>7

(* t is s with the sequence at k + 1 moved to k, which was empty.          *)
MovedDown(s, t, k, n) ==
  /\ k \in 1..(n - 1)
  /\ s[k] = <<>>
  /\ t[k] = s[k + 1]
  /\ t[k + 1] = <<>>
  /\ \A i \in 1..n : i # k /\ i # k + 1 => t[i] = s[i]

(* A sequence that moves into an empty place beside it leaves the          *)
(* concatenation as it was.                                                *)
LEMMA FlatMove ==
  ASSUME NEW T, NEW n \in Nat \ {0},
         NEW s \in [1..n -> Seq(T)], NEW t \in [1..n -> Seq(T)],
         NEW k, MovedDown(s, t, k, n)
  PROVE  FlattenSeq(t) = FlattenSeq(s)
<1> USE DEF MovedDown
<1>1. /\ n \in 1..n /\ 1 \in 1..n /\ n # k
      /\ \A m \in 1..(n - 1) : m \in 1..n /\ m + 1 \in 1..n /\ m + 1 # m
  OBVIOUS
<1>2. PICK f : PrefixJoins(f, s, n, T)
  BY Flattened
<1>3. PICK g : PrefixJoins(g, t, n, T)
  BY Flattened
<1> USE DEF PrefixJoins
<1> DEFINE S == {m \in 1..n : g[m] = IF m = k THEN f[k + 1] ELSE f[m]}
<1>4. f[k + 1] = f[k] \o s[k + 1] /\ f[k] \in Seq(T) /\ s[k + 1] \in Seq(T)
  BY <1>1, <1>2
<1>5. 1 \in S
  <2>1. CASE k = 1
    <3>1. f[k] = <<>>
      BY <1>2, <2>1
    <3>2. f[k + 1] = s[k + 1]
      BY <1>4, <3>1, ConcatLaws
    <3> QED
      BY <1>1, <1>3, <2>1, <3>2
  <2>2. CASE k # 1
    <3>1. 1 # k + 1
      OBVIOUS
    <3> QED
      BY <1>1, <1>2, <1>3, <2>2, <3>1
  <2> QED
    BY <2>1, <2>2
<1>6. ASSUME NEW m \in 1..(n - 1), m \in S PROVE m + 1 \in S
  <2>1. m \in 1..n /\ m + 1 \in 1..n /\ f[m] \in Seq(T) /\ s[m + 1] \in Seq(T)
    BY <1>1, <1>2, <1>3
  <2>2. f[m + 1] = f[m] \o s[m + 1] /\ g[m + 1] = g[m] \o t[m + 1]
    BY <1>2, <1>3
  <2>3. g[m] = IF m = k THEN f[k + 1] ELSE f[m]
    BY <1>6
  <2>4. CASE m + 1 = k
    <3>1. g[m] = f[m] /\ s[m + 1] = <<>> /\ t[m + 1] = s[k + 1]
      BY <1>1, <2>3, <2>4
    <3>2. f[m] \o <<>> = f[m]
      BY <2>1
    <3>3. f[k] = f[m]
      BY <2>2, <2>4, <3>1, <3>2, Zenon
    <3>4. g[m + 1] = f[k + 1]
      BY <1>4, <2>2, <3>1, <3>3, Zenon
    <3> QED
      BY <2>1, <2>4, <3>4
  <2>5. CASE m = k
    <3>1. g[m] = f[k + 1] /\ t[m + 1] = <<>> /\ f[k + 1] \in Seq(T) /\ m + 1 # k
      BY <1>1, <1>2, <2>3, <2>5
    <3>2. f[k + 1] \o <<>> = f[k + 1]
      BY <3>1
    <3>3. g[m + 1] = f[m + 1]
      BY <2>2, <2>5, <3>1, <3>2, Zenon
    <3> QED
      BY <2>1, <3>1, <3>3
  <2>6. CASE m # k /\ m + 1 # k
    <3>1. m + 1 # k + 1
      BY <2>6
    <3>2. t[m + 1] = s[m + 1] /\ g[m] = f[m]
      BY <2>1, <2>3, <2>6, <3>1
    <3>3. g[m + 1] = f[m + 1]
      BY <2>2, <3>2
    <3> QED
      BY <2>1, <2>6, <3>3
  <2> QED
    BY <2>4, <2>5, <2>6
<1>7. 1..n \subseteq S
  <2> HIDE DEF S
  <2> QED
    BY <1>5, <1>6, UpTo
<1>8. g[n] = f[n]
  BY <1>1, <1>7
<1> QED
  BY <1>2, <1>3, <1>8

(* What follows a prefix is the rest of the concatenation.                 *)
LEMMA RestOfConcat ==
  ASSUME NEW T, NEW a \in Seq(T), NEW b \in Seq(T)
  PROVE  SubSeq(a \o b, Len(a) + 1, Len(a \o b)) = b
  OBVIOUS

(* A family of sets that holds every subset of S whose one-smaller subsets *)
(* it holds, holds them all: strict inclusion is well-founded.             *)
LEMMA SmallerFirst ==
  ASSUME NEW S, IsFiniteSet(S), NEW P,
         \A s \in SUBSET S : (\A x \in s : s \ {x} \in P) => s \in P
  PROVE  \A s \in SUBSET S : s \in P
<1> DEFINE Bad == {s \in SUBSET S : s \notin P}
<1>1. SUFFICES ASSUME Bad # {} PROVE FALSE
  OBVIOUS
<1>2. Bad \subseteq FiniteSubsetsOf(S)
  BY FS_Subset DEF FiniteSubsetsOf
<1>3. IsWellFoundedOn(StrictSubsetOrdering(S), FiniteSubsetsOf(S))
  BY FS_StrictSubsetOrderingWellFounded
<1>4. PICK s \in Bad : \A t \in Bad : <<t, s>> \notin StrictSubsetOrdering(S)
  <2> HIDE DEF Bad
  <2> QED
    BY <1>1, <1>2, <1>3, WFMin
<1>5. ASSUME NEW x \in s PROVE s \ {x} \in P
  <2>1. s \ {x} \in SUBSET S /\ s \in SUBSET S /\ s \ {x} \subseteq s /\ s # s \ {x}
    BY <1>5
  <2>2. <<s \ {x}, s>> \in StrictSubsetOrdering(S)
    BY <2>1 DEF StrictSubsetOrdering
  <2> QED
    BY <1>4, <2>1, <2>2
<1> QED
  BY <1>4, <1>5
-----------------------------------------------------------------------------
(* R orders S strictly and totally; the place of x in that order.          *)
Strict(R, S) ==
  /\ \A x \in S : <<x, x>> \notin R
  /\ \A x, y, z \in S : <<x, y>> \in R /\ <<y, z>> \in R => <<x, z>> \in R
  /\ \A x, y \in S : x # y => <<x, y>> \in R \/ <<y, x>> \in R
Place(R, S, x) == Cardinality(Before(R, S, x)) + 1

(* An element has a place among those of the set, and the later of two     *)
(* elements has the later place.                                           *)
LEMMA PlacesRise ==
  ASSUME NEW S, IsFiniteSet(S), NEW R, Strict(R, S)
  PROVE  /\ \A x \in S : Place(R, S, x) \in 1..Cardinality(S)
         /\ \A x, y \in S : <<x, y>> \in R => Place(R, S, x) < Place(R, S, y)
<1>1. \A x \in S : /\ IsFiniteSet(Before(R, S, x)) /\ Cardinality(Before(R, S, x)) \in Nat
                   /\ Before(R, S, x) \in SUBSET S /\ x \notin Before(R, S, x)
  <2> SUFFICES ASSUME NEW x \in S
               PROVE  /\ IsFiniteSet(Before(R, S, x)) /\ Cardinality(Before(R, S, x)) \in Nat
                      /\ Before(R, S, x) \in SUBSET S /\ x \notin Before(R, S, x)
    OBVIOUS
  <2>1. Before(R, S, x) \in SUBSET S /\ x \notin Before(R, S, x)
    BY DEF Before, Strict
  <2> QED
    BY <2>1, FS_Subset, FS_CardinalityType
<1>2. Cardinality(S) \in Nat
  BY FS_CardinalityType
<1>3. ASSUME NEW T, IsFiniteSet(T), NEW x \in T, NEW U \in SUBSET T, x \notin U
      PROVE  Cardinality(U) < Cardinality(T)
  <2>1. Cardinality(U) <= Cardinality(T) /\ Cardinality(T) # Cardinality(U) /\ IsFiniteSet(U)
    BY <1>3, FS_Subset
  <2>2. Cardinality(T) \in Nat /\ Cardinality(U) \in Nat
    BY <1>3, <2>1, FS_CardinalityType
  <2> QED
    BY <2>1, <2>2
<1>4. ASSUME NEW x \in S PROVE Place(R, S, x) \in 1..Cardinality(S)
  <2>1. Cardinality(Before(R, S, x)) < Cardinality(S)
    BY <1>1, <1>3
  <2> QED
    BY <1>1, <1>2, <2>1 DEF Place
<1>5. ASSUME NEW x \in S, NEW y \in S, <<x, y>> \in R PROVE Place(R, S, x) < Place(R, S, y)
  <2>1. Before(R, S, x) \in SUBSET Before(R, S, y) /\ x \in Before(R, S, y)
    BY <1>5 DEF Before, Strict
  <2>2. Cardinality(Before(R, S, x)) < Cardinality(Before(R, S, y))
    BY <1>1, <1>3, <2>1
  <2> QED
    BY <1>1, <2>2 DEF Place
<1> QED
  BY <1>4, <1>5

(* And every place is taken by one element.                                *)
LEMMA PlacesTaken ==
  ASSUME NEW S, IsFiniteSet(S), NEW R, Strict(R, S)
  PROVE  \A k \in 1..Cardinality(S) : \E x \in S : Place(R, S, x) = k
<1> DEFINE n == Cardinality(S)
           f == [x \in S |-> Place(R, S, x)]
<1>1. n \in Nat /\ IsFiniteSet(1..n) /\ Cardinality(1..n) = n
  <2>1. n \in Nat
    BY FS_CardinalityType
  <2>2. n \in Int /\ 1 \in Int /\ (1 > n => n = 0)
    BY <2>1
  <2> HIDE DEF n
  <2>3. IsFiniteSet(1..n) /\ Cardinality(1..n) = IF 1 > n THEN 0 ELSE n - 1 + 1
    BY <2>2, FS_Interval
  <2> QED
    BY <2>1, <2>2, <2>3
<1>2. f \in [S -> 1..n]
  BY PlacesRise
<1>3. \A x, y \in S : f[x] = f[y] => x = y
  <2> SUFFICES ASSUME NEW x \in S, NEW y \in S, x # y PROVE Place(R, S, x) # Place(R, S, y)
    OBVIOUS
  <2>1. Place(R, S, x) < Place(R, S, y) \/ Place(R, S, y) < Place(R, S, x)
    BY PlacesRise DEF Strict
  <2>2. Place(R, S, x) \in 1..n /\ Place(R, S, y) \in 1..n
    BY PlacesRise
  <2> QED
    BY <1>1, <2>1, <2>2
<1>4. f \in Surjection(S, 1..n)
  <2>1. f \in Injection(S, 1..n)
    <3> HIDE DEF f, n
    <3> QED
      BY <1>2, <1>3 DEF Injection, IsInjective
  <2> HIDE DEF f
  <2> QED
    BY <1>1, <2>1, FS_Injection
<1> HIDE DEF n
<1>5. \A k \in 1..n : \E x \in S : f[x] = k
  <2> HIDE DEF f
  <2> QED
    BY <1>4 DEF Surjection
<1> QED
  BY <1>5 DEF n

(* A sequence that has each element at its place, and one that has the     *)
(* elements in their order.                                                *)
InPlace(s, R, S) ==
  /\ s \in [1..Cardinality(S) -> S]
  /\ \A k \in 1..Cardinality(S) : Place(R, S, s[k]) = k
InTurn(s, R, S) ==
  /\ s \in [1..Cardinality(S) -> S]
  /\ \A i, j \in 1..Cardinality(S) : i < j => <<s[i], s[j]>> \in R
  /\ \A x \in S : \E k \in 1..Cardinality(S) : s[k] = x

(* The first is the second: it holds all of them, in their order.          *)
LEMMA AllInOrder ==
  ASSUME NEW S, IsFiniteSet(S), NEW R, Strict(R, S),
         NEW s, InPlace(s, R, S)
  PROVE  InTurn(s, R, S)
<1> DEFINE n == Cardinality(S)
<1>0. n \in Nat
  BY FS_CardinalityType
<1>3. s \in [1..n -> S] /\ \A k \in 1..n : Place(R, S, s[k]) = k
  BY DEF InPlace
<1>1. ASSUME NEW i \in 1..n, NEW j \in 1..n, i < j PROVE <<s[i], s[j]>> \in R
  <2>1. s[i] \in S /\ s[j] \in S /\ Place(R, S, s[i]) = i /\ Place(R, S, s[j]) = j
    BY <1>3
  <2>2. ~(Place(R, S, s[j]) < Place(R, S, s[i])) /\ s[i] # s[j]
    BY <1>0, <1>1, <2>1
  <2> QED
    BY <2>1, <2>2, PlacesRise DEF Strict
<1>2. ASSUME NEW x \in S PROVE \E k \in 1..n : s[k] = x
  <2>1. Place(R, S, x) \in 1..n
    BY PlacesRise
  <2> DEFINE y == s[Place(R, S, x)]
  <2>2. y \in S /\ Place(R, S, y) = Place(R, S, x)
    BY <1>3, <2>1
  <2> HIDE DEF y
  <2>3. ~(Place(R, S, x) < Place(R, S, y)) /\ ~(Place(R, S, y) < Place(R, S, x))
    BY <1>0, <2>1, <2>2
  <2>4. x = y
    BY <2>2, <2>3, PlacesRise DEF Strict
  <2> QED
    BY <2>1, <2>4 DEF y
<1> QED
  BY <1>1, <1>2, <1>3 DEF InTurn

(* Arranged by an order, the elements of a finite set come in that order   *)
(* and each of them comes.                                                 *)
LEMMA ArrangedInTurn ==
  ASSUME NEW S, IsFiniteSet(S), NEW R, Strict(R, S)
  PROVE  InTurn(ArrangedBy(R, S), R, S)
<1> DEFINE s == ArrangedBy(R, S)
           n == Cardinality(S)
<1>1. ASSUME NEW k \in 1..n PROVE s[k] \in S /\ Place(R, S, s[k]) = k
  <2>1. s[k] = CHOOSE x \in S : Cardinality(Before(R, S, x)) = k - 1
    BY DEF ArrangedBy
  <2>2. PICK x \in S : Place(R, S, x) = k
    BY PlacesTaken
  <2>3. \A y \in S : Cardinality(Before(R, S, y)) \in Int
    <3> SUFFICES ASSUME NEW y \in S PROVE Cardinality(Before(R, S, y)) \in Int
      OBVIOUS
    <3>1. IsFiniteSet(Before(R, S, y))
      BY FS_Subset DEF Before
    <3> QED
      BY <3>1, FS_CardinalityType
  <2>4. k \in Int
    OBVIOUS
  <2>5. Cardinality(Before(R, S, x)) = k - 1
    BY <2>2, <2>3, <2>4 DEF Place
  <2>6. s[k] \in S /\ Cardinality(Before(R, S, s[k])) = k - 1
    BY <2>1, <2>5
  <2> QED
    BY <2>4, <2>6 DEF Place
<1>3. s \in [1..Cardinality(S) -> S]
  <2> DEFINE at(k) == CHOOSE x \in S : Cardinality(Before(R, S, x)) = k - 1
  <2>1. s = [k \in 1..Cardinality(S) |-> at(k)]
    BY DEF ArrangedBy
  <2>2. \A k \in 1..Cardinality(S) : at(k) \in S
    BY <1>1 DEF ArrangedBy
  <2> HIDE DEF s, at
  <2> QED
    BY <2>1, <2>2
<1>6. \A k \in 1..Cardinality(S) : Place(R, S, s[k]) = k
  BY <1>1
<1> HIDE DEF s
<1>4. InPlace(s, R, S)
  BY <1>3, <1>6 DEF InPlace
<1>5. InTurn(s, R, S)
  BY <1>4, AllInOrder
<1> QED
  BY <1>5 DEF s

(* Numbers ascend: the places of a finite set of them rise with them.      *)
Listed(s, S) ==
  /\ s \in [1..Cardinality(S) -> S]
  /\ \A i, j \in 1..Cardinality(S) : i < j => s[i] < s[j]
  /\ \A x \in S : \E k \in 1..Cardinality(S) : s[k] = x
LEMMA AscendingListed ==
  ASSUME NEW S \in SUBSET Int, IsFiniteSet(S)
  PROVE  /\ Listed(Ascending(S), S)
         /\ Ascending(S) \in Seq(S) /\ Len(Ascending(S)) = Cardinality(S)
<1>1. \A x, y \in S : <<x, y>> \in Ascents(S) <=> x < y
  BY DEF Ascents
<1>2. Strict(Ascents(S), S)
  BY <1>1 DEF Strict
<1>3. InTurn(Ascending(S), Ascents(S), S)
  BY <1>2, ArrangedInTurn DEF Ascending
<1> DEFINE s == Ascending(S)
           n == Cardinality(S)
<1>4. n \in Nat
  BY FS_CardinalityType
<1> HIDE DEF s, n
<1>5. /\ s \in [1..n -> S]
      /\ \A i, j \in 1..n : i < j => <<s[i], s[j]>> \in Ascents(S)
      /\ \A x \in S : \E k \in 1..n : s[k] = x
  BY <1>3 DEF InTurn, s, n
<1>6. \A i, j \in 1..n : i < j => s[i] < s[j]
  BY <1>1, <1>5
<1>7. s \in Seq(S) /\ Len(s) = n
  BY <1>4, <1>5
<1> QED
  BY <1>5, <1>6, <1>7 DEF Listed, s, n

(* A sequence over a set is one over any set that includes it.             *)
LEMMA WiderSeq ==
  ASSUME NEW B, NEW A \in SUBSET B, NEW s \in Seq(A)
  PROVE  s \in Seq(B)
<1>1. Len(s) \in Nat /\ s \in [1..Len(s) -> A]
  OBVIOUS
<1>2. s \in [1..Len(s) -> B]
  BY <1>1
<1> QED
  BY <1>1, <1>2

(* The subsets that a recursion over sets has reached.                     *)
UpToSize(S, k) == {s \in SUBSET S : Cardinality(s) < k}
===============================================================================
